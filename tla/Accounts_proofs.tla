---------------------------- MODULE Accounts_proofs ----------------------------
(* What an account keeps to, for every value of the constants. *)
EXTENDS AccountsProperties, FiniteSetTheorems, WellFoundedInduction, TLAPS

(***************************************************************************)
(* Types of questionnaires, drafts and the requests about them.            *)
(***************************************************************************)
Request == [pc : {"idle", "complete", "edit", "delete", "child", "count", "insert"},
            id : Docs \cup {None}, row : Doc \cup {NoDoc}, number : Nat]
Busy(w) == request[w].pc # "idle"
DraftTypes ==
    /\ doc \in [Docs -> Doc \cup {NoDoc}] /\ docs \in 0..LastDoc /\ request \in [Web -> Request]
    /\ \A w \in Web : Busy(w) => request[w].id \in Docs /\ request[w].row \in Doc
    /\ \A w \in Web : request[w].pc \in {"child", "count", "insert"} => request[w].row.kind = "questionnaire"
    /\ \A w \in Web : request[w].pc = "complete" => request[w].row.kind = "draft"
    /\ \A w \in Web : Busy(w) => w \in env.web
    /\ \A w \in Web : request[w].pc = "delete" => env.deletes
    /\ env \in Environments

LEMMA DocValues ==
  /\ NoDoc.kind = "none" /\ NoDoc.parent = None /\ NoDoc.draft = None /\ NoDoc \notin Doc
  /\ \A r \in Doc : r.kind \in {"questionnaire", "draft"}
  /\ NoRequest \in Request /\ NoRequest.pc = "idle"
  /\ None \notin Docs /\ Docs \subseteq Nat /\ IsFiniteSet(Docs)
<1>1. NoDoc.kind = "none" /\ NoDoc.parent = None /\ NoDoc.draft = None
  BY DEF NoDoc
<1>2. NoDoc \notin Doc /\ \A r \in Doc : r.kind \in {"questionnaire", "draft"}
  BY <1>1 DEF Doc
<1>3. NoRequest \in Request /\ NoRequest.pc = "idle"
  BY DEF NoRequest, Request
<1>4. None \notin Docs /\ Docs \subseteq Nat
  BY DraftsAssumption DEF None, Docs
<1>5. IsFiniteSet(Docs)
  BY DraftsAssumption, FS_Interval DEF Docs
<1> QED BY <1>1, <1>2, <1>3, <1>4, <1>5

LEMMA Presence ==
  ASSUME DraftTypes, NEW d \in Docs
  PROVE  /\ doc[d] # NoDoc <=> doc[d] \in Doc
         /\ doc[d] # NoDoc <=> doc[d].kind # "none"
         /\ doc[d] # NoDoc <=> d \in Questionnaires \cup DraftDocs
  BY DocValues DEF DraftTypes, Questionnaires, DraftDocs

\* What a request about questionnaires and drafts may do.
Reads(w) == GetDoc(w) /\ w \in env.web /\ (request'[w].pc = "delete" => env.deletes)
Creates  == \E answers \in Answers : CreateQuestionnaire(answers) \/ CreateDraft(answers)
Counts(w) == CountQuestionnaires(w) \/ CountDrafts(w)
DraftStep(w) ==
    \/ Creates \/ Reads(w) \/ SaveDoc(w) \/ Counts(w) \/ InsertChild(w) \/ DeleteDoc(w) \/ CompleteDraft(w)

LEMMA DraftSteps ==
  ASSUME [Next]_vars
  PROVE  env' = env /\ (UNCHANGED draftVars \/ \E w \in Web : DraftStep(w))
<1>1. ASSUME NEW w \in Web, RequestDoc(w) \/ Delete(w) \/ Complete(w)
      PROVE  env' = env /\ DraftStep(w)
  BY <1>1 DEF RequestDoc, Delete, Complete, bounds, DraftStep, Creates, Reads, Counts
<1>2. ASSUME NEW w \in Web, Authenticate(w) \/ GetOrCreateUser(w) \/ FillNames(w) \/ OpenProfile(w) \/ SaveProfile(w)
      PROVE  env' = env /\ UNCHANGED draftVars
  BY <1>2 DEF Authenticate, GetOrCreateUser, FillNames, OpenProfile, SaveProfile, bounds
<1>3. ASSUME NEW d \in Docs, Buy(d) \/ CompletePayment(d) PROVE env' = env /\ UNCHANGED draftVars
  BY <1>3 DEF Buy, CompletePayment, bounds
<1>4. ASSUME BuyGift \/ ScheduleReminder PROVE env' = env /\ UNCHANGED draftVars
  BY <1>4 DEF BuyGift, ScheduleReminder, bounds
<1>5. ASSUME NEW j \in Jobs, JobStep(j) \/ Crash(j) PROVE env' = env /\ UNCHANGED draftVars
  BY <1>5 DEF JobStep, Crash, SendReminder, SaveReminded, CreatePromoCodes, SendGiftMail, CreateContact,
              FindContact, CreateDeal, CheckPayments, UpdateStage, bounds
<1>6. CASE UNCHANGED vars
  BY <1>6 DEF vars, bounds
<1> QED BY <1>1, <1>2, <1>3, <1>4, <1>5, <1>6 DEF Next

\* A row for the one that is inserted, with what may be taken away on the way.
Inserted(row, gone) ==
    /\ docs' = docs + 1 /\ docs' \in Docs
    /\ doc' = [d \in Docs |-> IF d = docs + 1 THEN row ELSE IF d \in gone THEN NoDoc ELSE doc[d]]
SavedAs(row, answers) == [row EXCEPT !.answers = answers]
ChildOf(w) == [kind |-> "draft", parent |-> Root(w), number |-> request[w].number,
               answers |-> request[w].row.answers, draft |-> None]
Completed(w) == [request[w].row EXCEPT !.kind = "questionnaire", !.draft = request[w].id]

-----------------------------------------------------------------------------
(* What each step does. *)
Agrees(r, s) == r.kind = s.kind /\ r.parent = s.parent /\ r.number = s.number /\ r.draft = s.draft

LEMMA Ends ==
  ASSUME DraftTypes, NEW w \in Web, Done(w)
  PROVE  request' \in [Web -> Request] /\ request'[w] = NoRequest /\ \A v \in Web \ {w} : request'[v] = request[v]
  BY DocValues DEF Done, DraftTypes

LEMMA ReadsShape ==
  ASSUME DraftTypes, NEW w \in Web, Reads(w)
  PROVE  /\ request[w].pc = "idle" /\ w \in env.web /\ UNCHANGED <<doc, docs>>
         /\ request' \in [Web -> Request] /\ \A v \in Web \ {w} : request'[v] = request[v]
         /\ request'[w].id \in Docs /\ request'[w].row = doc[request'[w].id] /\ request'[w].row \in Doc
         /\ request'[w].pc \in {"complete", "edit", "delete", "child"}
         /\ request'[w].pc = "complete" => request'[w].row.kind = "draft"
         /\ request'[w].pc = "child" => request'[w].row.kind = "questionnaire"
         /\ request'[w].pc = "delete" => env.deletes
<1>1. PICK d \in Docs, pc \in {"complete", "edit", "delete", "child"} :
         /\ Get(w, pc, d) /\ doc[d].kind # "none"
         /\ pc = "complete" => doc[d].kind = "draft"
         /\ pc = "child" => doc[d].kind = "questionnaire"
  BY DEF Reads, GetDoc, DraftDocs, Questionnaires
<1>2. doc[d] \in Doc
  BY <1>1, Presence
<1> DEFINE r == [NoRequest EXCEPT !.pc = pc, !.id = d, !.row = doc[d]]
<1>3. r \in Request /\ r.pc = pc /\ r.id = d /\ r.row = doc[d]
  BY <1>2 DEF Request, NoRequest
<1>4. request' = [request EXCEPT ![w] = r] /\ request[w].pc = "idle" /\ UNCHANGED <<doc, docs>>
  BY <1>1 DEF Get, At
<1>5. request' \in [Web -> Request] /\ request'[w] = r /\ \A v \in Web \ {w} : request'[v] = request[v]
  <2> HIDE DEF r
  <2> QED BY <1>3, <1>4 DEF DraftTypes
<1>6. w \in env.web /\ (request'[w].pc = "delete" => env.deletes)
  BY DEF Reads
<1> HIDE DEF r
<1> QED BY <1>1, <1>2, <1>3, <1>4, <1>5, <1>6

LEMMA SaveShape ==
  ASSUME DraftTypes, NEW w \in Web, SaveDoc(w)
  PROVE  /\ request[w].pc = "edit" /\ Done(w) /\ UNCHANGED docs
         /\ \/ UNCHANGED doc
            \/ \E r \in Doc : /\ doc' = [doc EXCEPT ![request[w].id] = r] /\ Agrees(r, request[w].row)
                              /\ r.parent \in Questionnaires \cup {None}
<1>1. request[w].pc = "edit" /\ Done(w) /\ UNCHANGED docs
  BY DEF SaveDoc, At
<1>2. request[w].row \in Doc
  BY <1>1 DEF DraftTypes, Busy
<1>3. PICK answers \in Answers :
        \/ UNCHANGED doc
        \/ doc' = [doc EXCEPT ![request[w].id] = SavedAs(request[w].row, answers)] /\ Parented(request[w].row)
  BY DEF SaveDoc, SavedAs
<1>4. SavedAs(request[w].row, answers) \in Doc /\ Agrees(SavedAs(request[w].row, answers), request[w].row)
  BY <1>2 DEF SavedAs, Doc, Agrees
<1>5. Parented(request[w].row) => SavedAs(request[w].row, answers).parent \in Questionnaires \cup {None}
  BY <1>4 DEF Parented, Agrees
<1> QED BY <1>1, <1>3, <1>4, <1>5

LEMMA InsertShape ==
  ASSUME DraftTypes, NEW r, Insert(r, doc)
  PROVE  Inserted(r, {})
<1>1. docs < LastDoc /\ docs' = docs + 1 /\ doc' = [doc EXCEPT ![docs + 1] = r]
  BY DEF Insert
<1>2. docs + 1 \in Docs
  BY <1>1, DraftsAssumption DEF DraftTypes, Docs
<1>3. doc' = [d \in Docs |-> IF d = docs + 1 THEN r ELSE doc[d]]
  BY <1>1, <1>2 DEF DraftTypes
<1> QED BY <1>1, <1>2, <1>3 DEF Inserted

LEMMA CreatesShape ==
  ASSUME DraftTypes, Creates
  PROVE  UNCHANGED request /\ \E r \in Doc : Inserted(r, {}) /\ r.parent = None /\ r.draft = None
<1>1. UNCHANGED request
  BY DEF Creates, CreateQuestionnaire, CreateDraft
<1>2. PICK kind \in {"questionnaire", "draft"}, answers \in Answers :
        Insert([NoDoc EXCEPT !.kind = kind, !.answers = answers], doc)
  BY DEF Creates, CreateQuestionnaire, CreateDraft
<1> DEFINE r == [NoDoc EXCEPT !.kind = kind, !.answers = answers]
<1>3. r \in Doc /\ r.parent = None /\ r.draft = None
  BY DEF NoDoc, Doc
<1>4. Inserted(r, {})
  BY <1>2, InsertShape
<1> HIDE DEF r
<1> QED BY <1>1, <1>3, <1>4

LEMMA CountsShape ==
  ASSUME DraftTypes, NEW w \in Web, Counts(w)
  PROVE  /\ UNCHANGED <<doc, docs>>
         /\ request' \in [Web -> Request] /\ \A v \in Web \ {w} : request'[v] = request[v]
         /\ request'[w].id = request[w].id /\ request'[w].row = request[w].row
         /\ \/ /\ request[w].pc = "child" /\ request'[w].pc = "count"
               /\ request'[w].number = Cardinality(Children(Root(w)) \cap Questionnaires)
            \/ /\ request[w].pc = "count" /\ request'[w].pc = "insert"
               /\ request'[w].number = request[w].number + Cardinality(Children(Root(w)) \cap DraftDocs) + 1
<1>1. /\ Cardinality(Children(Root(w)) \cap Questionnaires) \in Nat
      /\ Cardinality(Children(Root(w)) \cap DraftDocs) \in Nat
  BY DocValues, FS_Subset, FS_CardinalityType DEF Children, Questionnaires, DraftDocs
<1>2. request[w] \in Request
  BY DEF DraftTypes
<1>3. CASE CountQuestionnaires(w)
  <2> DEFINE n == Cardinality(Children(Root(w)) \cap Questionnaires)
             r == [request[w] EXCEPT !.pc = "count", !.number = n]
  <2>1. n \in Nat
    BY <1>1
  <2>2. request' = [request EXCEPT ![w] = r]
    BY <1>3 DEF CountQuestionnaires
  <2> HIDE DEF n
  <2>3. r \in Request /\ r.pc = "count" /\ r.id = request[w].id /\ r.row = request[w].row /\ r.number = n
    BY <1>2, <2>1 DEF Request
  <2>4. UNCHANGED <<doc, docs>> /\ request[w].pc = "child"
    BY <1>3 DEF CountQuestionnaires, At
  <2> HIDE DEF r
  <2>5. request' \in [Web -> Request] /\ request'[w] = r /\ \A v \in Web \ {w} : request'[v] = request[v]
    BY <2>2, <2>3 DEF DraftTypes
  <2> QED BY <2>3, <2>4, <2>5 DEF n
<1>4. CASE CountDrafts(w)
  <2> DEFINE n == request[w].number + Cardinality(Children(Root(w)) \cap DraftDocs) + 1
             r == [request[w] EXCEPT !.pc = "insert", !.number = n]
  <2>1. n \in Nat
    BY <1>1, <1>2 DEF Request
  <2>2. request' = [request EXCEPT ![w] = r]
    BY <1>4 DEF CountDrafts
  <2> HIDE DEF n
  <2>3. r \in Request /\ r.pc = "insert" /\ r.id = request[w].id /\ r.row = request[w].row /\ r.number = n
    BY <1>2, <2>1 DEF Request
  <2>4. UNCHANGED <<doc, docs>> /\ request[w].pc = "count"
    BY <1>4 DEF CountDrafts, At
  <2> HIDE DEF r
  <2>5. request' \in [Web -> Request] /\ request'[w] = r /\ \A v \in Web \ {w} : request'[v] = request[v]
    BY <2>2, <2>3 DEF DraftTypes
  <2> QED BY <2>3, <2>4, <2>5 DEF n
<1> QED BY <1>3, <1>4 DEF Counts

LEMMA InsertChildShape ==
  ASSUME DraftTypes, NEW w \in Web, InsertChild(w)
  PROVE  /\ request[w].pc = "insert" /\ Done(w)
         /\ \/ UNCHANGED <<doc, docs>>
            \/ ChildOf(w) \in Doc /\ Inserted(ChildOf(w), {}) /\ Root(w) \in Questionnaires
<1>1. /\ request[w].pc = "insert" /\ Done(w)
      /\ IF Parented(ChildOf(w)) THEN Insert(ChildOf(w), doc) ELSE UNCHANGED <<doc, docs>>
  BY DEF InsertChild, ChildOf, At
<1>2. request[w] \in Request /\ request[w].id \in Docs /\ request[w].row \in Doc
  BY <1>1 DEF DraftTypes, Busy
<1>3. Root(w) \in Docs
  BY <1>2 DEF Root, Doc
<1>4. ChildOf(w) \in Doc /\ ChildOf(w).parent = Root(w)
  BY <1>2, <1>3 DEF ChildOf, Doc, Request
<1>5. Parented(ChildOf(w)) => Root(w) \in Questionnaires
  BY <1>3, <1>4, DocValues DEF Parented
<1> QED BY <1>1, <1>4, <1>5, InsertShape

LEMMA CompleteShape ==
  ASSUME DraftTypes, NEW w \in Web, CompleteDraft(w)
  PROVE  /\ request[w].pc = "complete" /\ Done(w)
         /\ \/ UNCHANGED <<doc, docs>>
            \/ /\ Completed(w) \in Doc /\ Completed(w).kind = "questionnaire"
               /\ Completed(w).parent = request[w].row.parent /\ Completed(w).number = request[w].row.number
               /\ Completed(w).draft = request[w].id
               /\ Inserted(Completed(w), {request[w].id})
               /\ request[w].row.parent \in Questionnaires \cup {None}
<1>1. /\ request[w].pc = "complete" /\ Done(w)
      /\ IF Completes(w) THEN Insert(Completed(w), WithoutDraft(w)) ELSE UNCHANGED <<doc, docs>>
  BY DEF CompleteDraft, Completed, At
<1>2. request[w].id \in Docs /\ request[w].row \in Doc
  BY <1>1 DEF DraftTypes, Busy
<1>3. /\ Completed(w) \in Doc /\ Completed(w).kind = "questionnaire"
      /\ Completed(w).parent = request[w].row.parent /\ Completed(w).number = request[w].row.number
      /\ Completed(w).draft = request[w].id
  BY <1>2 DEF Completed, Doc
<1>4. Completes(w) => request[w].row.parent \in Questionnaires \cup {None}
  BY DEF Completes, Parented
<1>5. ASSUME Insert(Completed(w), WithoutDraft(w)) PROVE Inserted(Completed(w), {request[w].id})
  <2> DEFINE d0 == WithoutDraft(w)
  <2>1. docs < LastDoc /\ docs' = docs + 1 /\ doc' = [d0 EXCEPT ![docs + 1] = Completed(w)]
    BY <1>5 DEF Insert
  <2>2. docs + 1 \in Docs
    BY <2>1, DraftsAssumption DEF DraftTypes, Docs
  <2>3. d0 = [d \in Docs |-> IF d = request[w].id THEN NoDoc ELSE doc[d]]
    BY <1>2 DEF WithoutDraft, DraftTypes
  <2> HIDE DEF d0
  <2>4. doc' = [d \in Docs |-> IF d = docs + 1 THEN Completed(w) ELSE d0[d]]
    BY <2>1, <2>2, <2>3
  <2> QED BY <2>1, <2>2, <2>3, <2>4 DEF Inserted
<1> QED BY <1>1, <1>3, <1>4, <1>5

LEMMA DeleteShape ==
  ASSUME DraftTypes, NEW w \in Web, DeleteDoc(w)
  PROVE  /\ request[w].pc = "delete" /\ Done(w) /\ UNCHANGED docs
         /\ doc' = [d \in Docs |-> IF d \in Family(request[w].id) THEN NoDoc ELSE doc[d]]
  BY DEF DeleteDoc, At

-----------------------------------------------------------------------------
(* The types are kept. *)

LEMMA TypesFrame ==
  ASSUME DraftTypes, env' = env, NEW w \in Web,
         doc' \in [Docs -> Doc \cup {NoDoc}], docs' \in 0..LastDoc, request' \in [Web -> Request],
         \A v \in Web \ {w} : request'[v] = request[v],
         \/ request'[w] = request[w] \/ request'[w] = NoRequest
         \/ /\ w \in env.web /\ request'[w].id \in Docs /\ request'[w].row \in Doc
            /\ request'[w].pc \in {"child", "count", "insert"} => request'[w].row.kind = "questionnaire"
            /\ request'[w].pc = "complete" => request'[w].row.kind = "draft"
            /\ request'[w].pc = "delete" => env.deletes
  PROVE  DraftTypes'
  BY DocValues DEF DraftTypes, Busy

LEMMA InsertedTypes ==
  ASSUME DraftTypes, NEW r \in Doc, NEW gone, Inserted(r, gone)
  PROVE  doc' \in [Docs -> Doc \cup {NoDoc}] /\ docs' \in 0..LastDoc
  BY DraftsAssumption DEF DraftTypes, Inserted, Docs

LEMMA DraftTypesStep ==
  ASSUME DraftTypes, env' = env, NEW w \in Web, DraftStep(w)
  PROVE  DraftTypes'
<1>0. doc \in [Docs -> Doc \cup {NoDoc}] /\ docs \in 0..LastDoc /\ request \in [Web -> Request]
  BY DEF DraftTypes
<1>1. CASE Creates
  BY <1>0, <1>1, CreatesShape, InsertedTypes, TypesFrame
<1>2. CASE Reads(w)
  <2>1. UNCHANGED <<doc, docs>> /\ request'[w].pc \notin {"count", "insert"}
    BY <1>2, ReadsShape
  <2> QED BY <1>0, <1>2, <2>1, ReadsShape, TypesFrame
<1>3. CASE SaveDoc(w)
  <2>1. request[w].pc = "edit" /\ Done(w) /\ UNCHANGED docs
    BY <1>3, SaveShape
  <2>2. request[w].id \in Docs
    BY <2>1 DEF DraftTypes, Busy
  <2>3. doc' \in [Docs -> Doc \cup {NoDoc}]
    BY <1>0, <1>3, <2>2, SaveShape
  <2> QED BY <1>0, <2>1, <2>3, Ends, TypesFrame
<1>4. CASE Counts(w)
  <2>1. /\ UNCHANGED <<doc, docs>>
        /\ request' \in [Web -> Request] /\ \A v \in Web \ {w} : request'[v] = request[v]
        /\ request'[w].id = request[w].id /\ request'[w].row = request[w].row
        /\ request[w].pc \in {"child", "count"} /\ request'[w].pc \in {"count", "insert"}
    BY <1>4, CountsShape
  <2>2. /\ w \in env.web /\ request[w].id \in Docs /\ request[w].row \in Doc
        /\ request[w].row.kind = "questionnaire"
    BY <2>1 DEF DraftTypes, Busy
  <2> QED BY <1>0, <2>1, <2>2, TypesFrame
<1>5. CASE InsertChild(w)
  <2>1. Done(w) /\ doc' \in [Docs -> Doc \cup {NoDoc}] /\ docs' \in 0..LastDoc
    BY <1>0, <1>5, InsertChildShape, InsertedTypes
  <2> QED BY <2>1, Ends, TypesFrame
<1>6. CASE DeleteDoc(w)
  <2>1. Done(w) /\ UNCHANGED docs /\ doc' = [d \in Docs |-> IF d \in Family(request[w].id) THEN NoDoc ELSE doc[d]]
    BY <1>6, DeleteShape
  <2>2. doc' \in [Docs -> Doc \cup {NoDoc}]
    BY <1>0, <2>1
  <2> QED BY <1>0, <2>1, <2>2, Ends, TypesFrame
<1>7. CASE CompleteDraft(w)
  <2>1. Done(w) /\ doc' \in [Docs -> Doc \cup {NoDoc}] /\ docs' \in 0..LastDoc
    BY <1>0, <1>7, CompleteShape, InsertedTypes
  <2> QED BY <2>1, Ends, TypesFrame
<1> QED BY <1>1, <1>2, <1>3, <1>4, <1>5, <1>6, <1>7 DEF DraftStep

(***************************************************************************)
(* Families.  Keys are not used twice, and no save changes what a row is,  *)
(* its parent, its number or its draft: whatever rows about a key there    *)
(* are, in the table or read by a request, agree with the row that was     *)
(* inserted.  Of the inserted rows a parent is a questionnaire without a   *)
(* parent, inserted before.                                                *)
(***************************************************************************)
Origin(o) ==
    /\ \A d \in Docs : doc[d] # NoDoc => d <= docs /\ Agrees(doc[d], o[d])
    /\ \A w \in Web : Busy(w) => request[w].id <= docs /\ Agrees(request[w].row, o[request[w].id])
    /\ \A d \in Docs : d <= docs /\ o[d].parent # None =>
           /\ o[d].parent \in Docs /\ o[d].parent < d
           /\ o[o[d].parent].kind = "questionnaire" /\ o[o[d].parent].parent = None
Present  == \A d \in Docs : doc[d].parent # None => doc[d].parent \in Docs /\ doc[doc[d].parent] # NoDoc
Families == Present /\ \E o \in [Docs -> Doc] : Origin(o)

\* A row about the questionnaire or draft that a request is about is inserted.
LEMMA OriginInserted ==
  ASSUME DraftTypes, NEW o \in [Docs -> Doc], Origin(o), Present, NEW w \in Web, NEW r \in Doc, NEW gone,
         Inserted(r, gone), Done(w) \/ UNCHANGED request,
         r.parent # None => /\ r.parent \in Questionnaires
                            /\ o[r.parent].kind = "questionnaire" /\ o[r.parent].parent = None,
         \A d \in gone : d \in Docs /\ o[d].kind = "draft"
  PROVE  Families'
<1>1. /\ docs' = docs + 1 /\ docs + 1 \in Docs /\ docs \in Nat
      /\ doc' = [d \in Docs |-> IF d = docs + 1 THEN r ELSE IF d \in gone THEN NoDoc ELSE doc[d]]
  BY DraftsAssumption DEF Inserted, DraftTypes
<1>2. PICK p \in [Docs -> Doc] : p[docs + 1] = r /\ \A d \in Docs : d # docs + 1 => p[d] = o[d]
  <2>1. [o EXCEPT ![docs + 1] = r] \in [Docs -> Doc]
    BY <1>1
  <2> QED BY <1>1, <2>1
<1>3. r.parent # None => r.parent \in Docs /\ doc[r.parent] # NoDoc /\ r.parent <= docs
  BY Presence DEF Questionnaires, Origin
<1>4. \A d \in Docs : doc'[d] # NoDoc => d <= docs' /\ Agrees(doc'[d], p[d])
  <2> SUFFICES ASSUME NEW d \in Docs, doc'[d] # NoDoc PROVE d <= docs' /\ Agrees(doc'[d], p[d])
    OBVIOUS
  <2>1. CASE d = docs + 1
    BY <1>1, <1>2, <2>1, DocValues DEF Agrees
  <2>2. CASE d # docs + 1
    <3>1. doc'[d] = doc[d] /\ doc[d] # NoDoc
      BY <1>1, <2>2
    <3>2. d <= docs /\ Agrees(doc[d], o[d])
      BY <3>1 DEF Origin
    <3> QED BY <1>1, <1>2, <2>2, <3>1, <3>2, DocValues
  <2> QED BY <2>1, <2>2
<1>5. \A v \in Web : Busy(v)' => request'[v].id <= docs' /\ Agrees(request'[v].row, p[request'[v].id])
  <2> SUFFICES ASSUME NEW v \in Web, Busy(v)'
               PROVE  request'[v].id <= docs' /\ Agrees(request'[v].row, p[request'[v].id])
    OBVIOUS
  <2>1. request'[v] = request[v] /\ Busy(v)
    BY Ends, DocValues DEF Busy
  <2>2. request[v].id \in Docs /\ request[v].id <= docs /\ Agrees(request[v].row, o[request[v].id])
    BY <2>1 DEF Origin, DraftTypes
  <2>3. request[v].id # docs + 1 /\ request[v].id <= docs + 1
    <3>1. request[v].id \in Nat
      BY <2>2, DocValues
    <3> QED BY <1>1, <2>2, <3>1
  <2> QED BY <1>1, <1>2, <2>1, <2>2, <2>3
<1>6. ASSUME NEW d \in Docs, d <= docs', p[d].parent # None
      PROVE  /\ p[d].parent \in Docs /\ p[d].parent < d
             /\ p[p[d].parent].kind = "questionnaire" /\ p[p[d].parent].parent = None
  <2>1. CASE d = docs + 1
    <3>1. r.parent \in Docs /\ r.parent <= docs /\ o[r.parent].kind = "questionnaire" /\ o[r.parent].parent = None
      BY <1>2, <1>3, <1>6, <2>1
    <3>2. p[r.parent] = o[r.parent] /\ r.parent < d
      BY <1>1, <1>2, <2>1, <3>1, DocValues
    <3> QED BY <1>2, <2>1, <3>1, <3>2
  <2>2. CASE d # docs + 1
    <3>1. p[d] = o[d] /\ d <= docs
      BY <1>1, <1>2, <1>6, <2>2, DocValues
    <3>2. /\ o[d].parent \in Docs /\ o[d].parent < d
          /\ o[o[d].parent].kind = "questionnaire" /\ o[o[d].parent].parent = None
      BY <1>6, <3>1 DEF Origin
    <3>3. o[d].parent # docs + 1
      BY <1>1, <3>1, <3>2, DocValues
    <3>4. p[o[d].parent] = o[o[d].parent]
      BY <1>2, <3>2, <3>3
    <3> QED BY <3>1, <3>2, <3>4
  <2> QED BY <2>1, <2>2
<1>7. Origin(p)'
  BY <1>4, <1>5, <1>6 DEF Origin
<1>8. Present'
  <2> SUFFICES ASSUME NEW d \in Docs, doc'[d].parent # None
               PROVE  doc'[d].parent \in Docs /\ doc'[doc'[d].parent] # NoDoc
    BY DEF Present
  <2>1. ASSUME NEW q \in Docs, doc[q] # NoDoc, o[q].kind = "questionnaire" PROVE doc'[q] # NoDoc
    BY <1>1, <2>1, DocValues
  <2>2. CASE d = docs + 1
    <3>1. doc'[d] = r
      BY <1>1, <2>2
    <3> QED BY <1>3, <2>1, <3>1
  <2>3. CASE d # docs + 1
    <3>1. doc'[d] = doc[d] /\ doc[d] # NoDoc
      BY <1>1, <2>3, DocValues
    <3>2. doc[d].parent \in Docs /\ doc[doc[d].parent] # NoDoc
      BY <3>1 DEF Present
    <3>3. o[doc[d].parent].kind = "questionnaire"
      BY <3>1 DEF Origin, Agrees
    <3> QED BY <2>1, <3>1, <3>2, <3>3
  <2> QED BY <2>2, <2>3
<1> QED BY <1>2, <1>7, <1>8 DEF Families

LEMMA FamiliesStep ==
  ASSUME DraftTypes, Families, NEW w \in Web, DraftStep(w)
  PROVE  Families'
<1>0. PICK o \in [Docs -> Doc] : Origin(o)
  BY DEF Families
<1>00. Present
  BY DEF Families
<1>1. CASE Creates
  <2>1. UNCHANGED request
    BY <1>1, CreatesShape
  <2>2. PICK r \in Doc : Inserted(r, {}) /\ r.parent = None
    BY <1>1, CreatesShape
  <2> QED BY <1>0, <1>00, <2>1, <2>2, OriginInserted
<1>2. ASSUME UNCHANGED <<doc, docs>>,
             \A v \in Web : Busy(v)' => \/ Busy(v) /\ request'[v].id = request[v].id /\ request'[v].row = request[v].row
                                        \/ request'[v].id \in Docs /\ request'[v].row = doc[request'[v].id] /\ request'[v].row \in Doc
      PROVE  Families'
  <2>1. Present'
    BY <1>00, <1>2 DEF Present
  <2>2. ASSUME NEW v \in Web, Busy(v)' PROVE request'[v].id <= docs' /\ Agrees(request'[v].row, o[request'[v].id])
    BY <1>0, <1>2, <2>2, DocValues DEF Origin
  <2>3. Origin(o)'
    BY <1>0, <1>2, <2>2 DEF Origin
  <2> QED BY <2>1, <2>3 DEF Families
<1>3. ASSUME Done(w) PROVE \A v \in Web : Busy(v)' => Busy(v) /\ request'[v] = request[v]
  BY <1>3, Ends, DocValues DEF Busy
<1>4. CASE Reads(w)
  <2>1. /\ UNCHANGED <<doc, docs>> /\ \A v \in Web \ {w} : request'[v] = request[v]
        /\ request'[w].id \in Docs /\ request'[w].row = doc[request'[w].id] /\ request'[w].row \in Doc
    BY <1>4, ReadsShape
  <2> QED BY <1>2, <2>1 DEF Busy
<1>5. CASE Counts(w)
  <2>1. /\ UNCHANGED <<doc, docs>> /\ \A v \in Web \ {w} : request'[v] = request[v]
        /\ request'[w].id = request[w].id /\ request'[w].row = request[w].row /\ Busy(w)
    BY <1>5, CountsShape DEF Busy
  <2> QED BY <1>2, <2>1 DEF Busy
<1>6. CASE SaveDoc(w)
  <2>1. request[w].pc = "edit" /\ Done(w) /\ UNCHANGED docs
    BY <1>6, SaveShape
  <2>2. request[w].id \in Docs /\ request[w].id <= docs /\ Agrees(request[w].row, o[request[w].id])
    BY <1>0, <2>1 DEF Origin, DraftTypes, Busy
  <2>3. CASE UNCHANGED doc
    BY <1>2, <1>3, <2>1, <2>3
  <2>4. ASSUME NEW r \in Doc, doc' = [doc EXCEPT ![request[w].id] = r], Agrees(r, request[w].row),
               r.parent \in Questionnaires \cup {None}
        PROVE  Families'
    <3>1. /\ doc'[request[w].id] = r /\ \A d \in Docs \ {request[w].id} : doc'[d] = doc[d]
      BY <2>2, <2>4 DEF DraftTypes
    <3>2. Present'
      <4>1. \A d \in Docs : doc[d] # NoDoc => doc'[d] # NoDoc
        BY <3>1, DocValues
      <4>2. r.parent # None => r.parent \in Docs /\ doc[r.parent] # NoDoc
        BY <2>4, Presence DEF Questionnaires
      <4> QED BY <1>00, <3>1, <4>1, <4>2 DEF Present
    <3>3. Agrees(r, o[request[w].id])
      BY <2>2, <2>4 DEF Agrees
    <3>4. Origin(o)'
      BY <1>0, <1>3, <2>1, <2>2, <3>1, <3>3 DEF Origin
    <3> QED BY <3>2, <3>4 DEF Families
  <2> QED BY <1>6, <2>3, <2>4, SaveShape
<1>7. CASE InsertChild(w)
  <2>1. request[w].pc = "insert" /\ Done(w)
    BY <1>7, InsertChildShape
  <2>2. /\ request[w].id \in Docs /\ request[w].row \in Doc /\ request[w].id <= docs
        /\ Agrees(request[w].row, o[request[w].id]) /\ request[w].row.kind = "questionnaire"
    BY <1>0, <2>1 DEF Origin, DraftTypes, Busy
  <2>3. CASE UNCHANGED <<doc, docs>>
    BY <1>2, <1>3, <2>1, <2>3
  <2>4. CASE ChildOf(w) \in Doc /\ Inserted(ChildOf(w), {}) /\ Root(w) \in Questionnaires
    <3>1. o[Root(w)].kind = "questionnaire" /\ o[Root(w)].parent = None
      BY <1>0, <2>2 DEF Origin, Root, Agrees
    <3>2. ChildOf(w).parent = Root(w)
      BY DEF ChildOf
    <3> QED BY <1>0, <1>00, <2>1, <2>4, <3>1, <3>2, OriginInserted
  <2> QED BY <1>7, <2>3, <2>4, InsertChildShape
<1>8. CASE DeleteDoc(w)
  <2>1. /\ Done(w) /\ UNCHANGED docs /\ request[w].pc = "delete"
        /\ doc' = [d \in Docs |-> IF d \in Family(request[w].id) THEN NoDoc ELSE doc[d]]
    BY <1>8, DeleteShape
  <2>2. \A d \in Docs : doc'[d] # NoDoc => doc'[d] = doc[d] /\ doc[d] # NoDoc /\ d \notin Family(request[w].id)
    BY <2>1
  <2>3. Present'
    <3> SUFFICES ASSUME NEW d \in Docs, doc'[d].parent # None
                 PROVE  doc'[d].parent \in Docs /\ doc'[doc'[d].parent] # NoDoc
      BY DEF Present
    <3>1. doc'[d] = doc[d] /\ doc[d] # NoDoc /\ d \notin Family(request[w].id)
      BY <2>2, DocValues
    <3>2. doc[d].parent \in Docs /\ doc[doc[d].parent] # NoDoc
      BY <1>00, <3>1 DEF Present
    <3>3. doc[doc[d].parent].parent = None
      BY <1>0, <3>1, <3>2 DEF Origin, Agrees
    <3>4. doc[d].parent # request[w].id
      BY <3>1, Presence DEF Family, Children
    <3>5. request[w].id # None
      BY <2>1, DocValues DEF DraftTypes, Busy
    <3>6. doc[d].parent \notin Family(request[w].id)
      BY <3>3, <3>4, <3>5 DEF Family, Children
    <3> QED BY <2>1, <3>1, <3>2, <3>6
  <2>4. Origin(o)'
    BY <1>0, <1>3, <2>1, <2>2 DEF Origin
  <2> QED BY <2>3, <2>4 DEF Families
<1>9. CASE CompleteDraft(w)
  <2>1. request[w].pc = "complete" /\ Done(w)
    BY <1>9, CompleteShape
  <2>2. /\ request[w].id \in Docs /\ request[w].row \in Doc /\ request[w].id <= docs
        /\ Agrees(request[w].row, o[request[w].id]) /\ request[w].row.kind = "draft"
    BY <1>0, <2>1 DEF Origin, DraftTypes, Busy
  <2>3. CASE UNCHANGED <<doc, docs>>
    BY <1>2, <1>3, <2>1, <2>3
  <2>4. CASE /\ Completed(w) \in Doc /\ Completed(w).parent = request[w].row.parent
             /\ Inserted(Completed(w), {request[w].id})
             /\ request[w].row.parent \in Questionnaires \cup {None}
    <3>1. Completed(w).parent # None => /\ o[Completed(w).parent].kind = "questionnaire"
                                        /\ o[Completed(w).parent].parent = None
      BY <1>0, <2>2, <2>4 DEF Origin, Agrees
    <3>2. \A d \in {request[w].id} : d \in Docs /\ o[d].kind = "draft"
      BY <2>2 DEF Agrees
    <3> QED BY <1>0, <1>00, <2>1, <2>4, <3>1, <3>2, OriginInserted
  <2> QED BY <1>9, <2>3, <2>4, CompleteShape
<1> QED BY <1>1, <1>4, <1>5, <1>6, <1>7, <1>8, <1>9 DEF DraftStep

(***************************************************************************)
(* One request at a time: the row that a request has read is the one that  *)
(* is there, a draft that a questionnaire was made of is gone, and, unless *)
(* rows are deleted, the children of a family are numbered up to how many  *)
(* they are.                                                               *)
(***************************************************************************)
AsRead == \A w \in Web : Busy(w) => doc[request[w].id] = request[w].row
Used ==
    /\ \A d \in Docs : doc[d].draft # None =>
           doc[d].draft \in Docs /\ doc[d].draft < d /\ doc[doc[d].draft] = NoDoc
    /\ \A c, d \in Docs : doc[c].draft = doc[d].draft /\ doc[c].draft # None => c = d
Numbered(d) ==
    /\ \A c \in Children(d) : doc[c].number <= Cardinality(Children(d))
    /\ \A b, c \in Children(d) : doc[b].number = doc[c].number => b = c
Counted(w) ==
    /\ request[w].pc = "count" => request[w].number = Cardinality(Children(Root(w)) \cap Questionnaires)
    /\ request[w].pc = "insert" => request[w].number = Cardinality(Children(Root(w))) + 1
Numbers == (\A d \in Docs : Numbered(d)) /\ (\A w \in Web : Counted(w))

LEMMA AtMostOne ==
  ASSUME NEW S, IsFiniteSet(S), Cardinality(S) <= 1, NEW a \in S, NEW b \in S
  PROVE  a = b
<1>1. {a, b} \subseteq S
  OBVIOUS
<1>2. Cardinality({a, b}) <= Cardinality(S) /\ IsFiniteSet({a, b})
  BY <1>1, FS_Subset
<1>3. SUFFICES ASSUME a # b PROVE FALSE
  OBVIOUS
<1>4. Cardinality({a}) = 1 /\ IsFiniteSet({a})
  BY FS_Singleton
<1>5. Cardinality({a} \cup {b}) = Cardinality({a}) + 1
  BY <1>3, <1>4, FS_AddElement
<1>6. {a} \cup {b} = {a, b}
  OBVIOUS
<1>7. Cardinality(S) \in Nat /\ Cardinality({a, b}) \in Nat
  BY <1>2, FS_CardinalityType
<1> QED BY <1>2, <1>4, <1>5, <1>6, <1>7

LEMMA OneRequest ==
  ASSUME DraftTypes, Sole, NEW w \in Web, NEW v \in Web, Busy(w), Busy(v)
  PROVE  v = w
<1>1. IsFiniteSet(env.web) /\ w \in env.web /\ v \in env.web
  BY FS_Subset, DraftsAssumption, AccountsAssumption DEF DraftTypes
<1> QED BY <1>1, AtMostOne DEF Sole

\* What is not yet inserted is nowhere.
LEMMA Upcoming ==
  ASSUME DraftTypes, Families, docs + 1 \in Docs
  PROVE  /\ doc[docs + 1] = NoDoc
         /\ \A w \in Web : Busy(w) => request[w].id # docs + 1 /\ request[w].id < docs + 1
         /\ \A d \in Docs : doc[d] # NoDoc => d < docs + 1
<1>1. PICK o \in [Docs -> Doc] : Origin(o)
  BY DEF Families
<1>2. docs \in Nat /\ \A d \in Docs : d <= docs => d < docs + 1
  BY DraftsAssumption, DocValues DEF DraftTypes
<1>3. \A d \in Docs : doc[d] # NoDoc => d < docs + 1
  BY <1>1, <1>2 DEF Origin
<1>4. \A w \in Web : Busy(w) => request[w].id < docs + 1
  BY <1>1, <1>2 DEF Origin, DraftTypes
<1>5. doc[docs + 1] = NoDoc
  BY <1>2, <1>3
<1> QED BY <1>2, <1>3, <1>4, <1>5

LEMMA EndsAlone ==
  ASSUME DraftTypes, Sole, NEW w \in Web, Busy(w), Done(w)
  PROVE  \A v \in Web : ~Busy(v)' /\ request'[v].pc = "idle"
<1>1. \A v \in Web \ {w} : ~Busy(v)
  BY OneRequest
<1> QED BY <1>1, Ends, DocValues DEF Busy

LEMMA UsedFrame ==
  ASSUME DraftTypes, Used,
         \A d \in Docs : doc'[d].draft \in {doc[d].draft, None} /\ (doc[d] = NoDoc => doc'[d] = NoDoc)
  PROVE  Used'
<1>1. \A d \in Docs : doc'[d].draft # None => doc'[d].draft = doc[d].draft /\ doc[d].draft # None
  OBVIOUS
<1> QED BY <1>1 DEF Used

LEMMA UsedInserted ==
  ASSUME DraftTypes, Families, Used, NEW r \in Doc, NEW gone, Inserted(r, gone),
         r.draft # None => r.draft \in Docs /\ r.draft \in gone /\ r.draft < docs + 1 /\ doc[r.draft] # NoDoc
  PROVE  Used'
<1>1. /\ docs + 1 \in Docs /\ docs \in Nat
      /\ doc' = [d \in Docs |-> IF d = docs + 1 THEN r ELSE IF d \in gone THEN NoDoc ELSE doc[d]]
  BY DraftsAssumption DEF Inserted, DraftTypes
<1>2. \A d \in Docs : d # docs + 1 /\ doc'[d].draft # None => doc'[d].draft = doc[d].draft /\ doc'[d] = doc[d]
  BY <1>1, DocValues
<1>3. \A d \in Docs : d # docs + 1 /\ doc[d] = NoDoc => doc'[d] = NoDoc
  BY <1>1
<1>4. doc'[docs + 1] = r
  BY <1>1
<1>5. ASSUME NEW d \in Docs, d # docs + 1, doc'[d].draft # None
      PROVE  doc'[d].draft \in Docs /\ doc'[d].draft < d /\ doc[doc'[d].draft] = NoDoc
             /\ doc'[doc'[d].draft] = NoDoc
  <2>1. doc'[d].draft = doc[d].draft /\ doc[d].draft # None
    BY <1>2, <1>5
  <2>2. doc[d].draft \in Docs /\ doc[d].draft < d /\ doc[doc[d].draft] = NoDoc
    BY <2>1 DEF Used
  <2>3. d < docs + 1
    BY <1>1, <2>1, Upcoming, DocValues
  <2>4. doc[d].draft # docs + 1
    BY <1>1, <2>2, <2>3, DocValues
  <2> QED BY <1>3, <2>1, <2>2, <2>4
<1>6. r.draft # None => r.draft # docs + 1 /\ doc'[r.draft] = NoDoc
  BY <1>1, DocValues
<1>7. \A d \in Docs : doc'[d].draft # None =>
         doc'[d].draft \in Docs /\ doc'[d].draft < d /\ doc'[doc'[d].draft] = NoDoc
  BY <1>4, <1>5, <1>6
<1>8. ASSUME NEW c \in Docs, NEW d \in Docs, doc'[c].draft = doc'[d].draft, doc'[c].draft # None
      PROVE  c = d
  <2>1. CASE c = docs + 1 /\ d # docs + 1
    BY <1>4, <1>5, <1>8, <2>1
  <2>2. CASE d = docs + 1 /\ c # docs + 1
    BY <1>4, <1>5, <1>8, <2>2
  <2>3. CASE c # docs + 1 /\ d # docs + 1
    BY <1>2, <1>8, <2>3 DEF Used
  <2> QED BY <2>1, <2>2, <2>3
<1> QED BY <1>7, <1>8 DEF Used

LEMMA SoleStep ==
  ASSUME DraftTypes, Families, Sole, AsRead, Used, NEW w \in Web, DraftStep(w)
  PROVE  AsRead' /\ Used'
<1>1. CASE Creates
  <2>1. UNCHANGED request
    BY <1>1, CreatesShape
  <2>2. PICK r \in Doc : Inserted(r, {}) /\ r.parent = None /\ r.draft = None
    BY <1>1, CreatesShape
  <2>3. /\ docs + 1 \in Docs
        /\ doc' = [d \in Docs |-> IF d = docs + 1 THEN r ELSE IF d \in {} THEN NoDoc ELSE doc[d]]
    BY <2>2 DEF Inserted
  <2>4. AsRead'
    <3> SUFFICES ASSUME NEW v \in Web, Busy(v)' PROVE doc'[request'[v].id] = request'[v].row
      BY DEF AsRead
    <3>1. Busy(v) /\ request'[v] = request[v]
      BY <2>1 DEF Busy
    <3>2. request[v].id \in Docs /\ request[v].id # docs + 1
      BY <2>3, <3>1, Upcoming DEF DraftTypes
    <3> QED BY <2>3, <3>1, <3>2 DEF AsRead
  <2> QED BY <2>2, <2>4, UsedInserted
<1>2. CASE Reads(w)
  <2>1. /\ UNCHANGED <<doc, docs>> /\ \A v \in Web \ {w} : request'[v] = request[v]
        /\ request'[w].id \in Docs /\ request'[w].row = doc[request'[w].id]
    BY <1>2, ReadsShape
  <2> QED BY <2>1 DEF AsRead, Used, Busy
<1>3. CASE Counts(w)
  <2>1. /\ UNCHANGED <<doc, docs>> /\ \A v \in Web \ {w} : request'[v] = request[v]
        /\ request'[w].id = request[w].id /\ request'[w].row = request[w].row /\ Busy(w)
    BY <1>3, CountsShape DEF Busy
  <2> QED BY <2>1 DEF AsRead, Used, Busy
<1>4. ASSUME Done(w), Busy(w) PROVE AsRead'
  BY <1>4, EndsAlone DEF AsRead
<1>5. CASE SaveDoc(w)
  <2>1. Busy(w) /\ Done(w)
    BY <1>5, SaveShape DEF Busy
  <2>2. request[w].id \in Docs /\ doc[request[w].id] = request[w].row /\ request[w].row \in Doc
    BY <2>1 DEF DraftTypes, AsRead
  <2>3. CASE UNCHANGED doc
    BY <1>4, <2>1, <2>3 DEF Used
  <2>4. ASSUME NEW r \in Doc, doc' = [doc EXCEPT ![request[w].id] = r], Agrees(r, request[w].row) PROVE Used'
    <3>1. \A d \in Docs : doc'[d].draft = doc[d].draft /\ (doc[d] = NoDoc => doc'[d] = NoDoc)
      BY <2>2, <2>4, DocValues DEF DraftTypes, Agrees
    <3> QED BY <3>1, UsedFrame
  <2> QED BY <1>4, <1>5, <2>1, <2>3, <2>4, SaveShape
<1>6. CASE InsertChild(w)
  <2>1. Busy(w) /\ Done(w)
    BY <1>6, InsertChildShape DEF Busy
  <2>2. CASE UNCHANGED <<doc, docs>>
    BY <1>4, <2>1, <2>2 DEF Used
  <2>3. CASE ChildOf(w) \in Doc /\ Inserted(ChildOf(w), {})
    <3>1. ChildOf(w).draft = None
      BY DEF ChildOf
    <3> QED BY <1>4, <2>1, <2>3, <3>1, UsedInserted
  <2> QED BY <1>6, <2>2, <2>3, InsertChildShape
<1>7. CASE DeleteDoc(w)
  <2>1. /\ Busy(w) /\ Done(w)
        /\ doc' = [d \in Docs |-> IF d \in Family(request[w].id) THEN NoDoc ELSE doc[d]]
    BY <1>7, DeleteShape DEF Busy
  <2>2. \A d \in Docs : doc'[d].draft \in {doc[d].draft, None} /\ (doc[d] = NoDoc => doc'[d] = NoDoc)
    BY <2>1, DocValues
  <2> QED BY <1>4, <2>1, <2>2, UsedFrame
<1>8. CASE CompleteDraft(w)
  <2>1. Busy(w) /\ Done(w)
    BY <1>8, CompleteShape DEF Busy
  <2>2. request[w].id \in Docs /\ doc[request[w].id] = request[w].row /\ request[w].row \in Doc
    BY <2>1 DEF DraftTypes, AsRead
  <2>3. CASE UNCHANGED <<doc, docs>>
    BY <1>4, <2>1, <2>3 DEF Used
  <2>4. CASE Completed(w) \in Doc /\ Completed(w).draft = request[w].id /\ Inserted(Completed(w), {request[w].id})
    <3>1. docs + 1 \in Docs
      BY <2>4 DEF Inserted
    <3>2. request[w].id < docs + 1 /\ doc[request[w].id] # NoDoc
      BY <2>1, <2>2, <3>1, Upcoming, DocValues
    <3> QED BY <1>4, <2>1, <2>2, <2>4, <3>2, UsedInserted
  <2> QED BY <1>8, <2>3, <2>4, CompleteShape
<1> QED BY <1>1, <1>2, <1>3, <1>5, <1>6, <1>7, <1>8 DEF DraftStep

-----------------------------------------------------------------------------
(* The numbers of the children. *)

LEMMA ChildrenFinite ==
  ASSUME DraftTypes, NEW d
  PROVE  /\ Children(d) \subseteq Docs /\ IsFiniteSet(Children(d)) /\ Cardinality(Children(d)) \in Nat
         /\ \A c \in Children(d) : doc[c] \in Doc /\ doc[c].number \in Nat
<1>1. Children(d) \subseteq Docs
  BY DEF Children
<1>2. IsFiniteSet(Children(d)) /\ Cardinality(Children(d)) \in Nat
  BY <1>1, DocValues, FS_Subset, FS_CardinalityType
<1>3. ASSUME NEW c \in Children(d) PROVE doc[c] \in Doc /\ doc[c].number \in Nat
  <2>1. doc[c] \in Doc
    BY Presence DEF Children
  <2> QED BY <2>1 DEF Doc
<1> QED BY <1>1, <1>2, <1>3

\* The drafts and the questionnaires among them.
LEMMA ChildrenCounted ==
  ASSUME DraftTypes, NEW d
  PROVE  Cardinality(Children(d)) =
             Cardinality(Children(d) \cap Questionnaires) + Cardinality(Children(d) \cap DraftDocs)
<1>1. Children(d) = (Children(d) \cap Questionnaires) \cup (Children(d) \cap DraftDocs)
  BY Presence DEF Children
<1>2. (Children(d) \cap Questionnaires) \cap (Children(d) \cap DraftDocs) = {}
  BY DEF Questionnaires, DraftDocs
<1>3. /\ IsFiniteSet(Children(d) \cap Questionnaires) /\ IsFiniteSet(Children(d) \cap DraftDocs)
      /\ Cardinality(Children(d) \cap Questionnaires) \in Nat /\ Cardinality(Children(d) \cap DraftDocs) \in Nat
  BY ChildrenFinite, FS_Subset, FS_CardinalityType
<1>4. Cardinality((Children(d) \cap Questionnaires) \cup (Children(d) \cap DraftDocs)) =
        Cardinality(Children(d) \cap Questionnaires) + Cardinality(Children(d) \cap DraftDocs)
          - Cardinality((Children(d) \cap Questionnaires) \cap (Children(d) \cap DraftDocs))
  BY <1>3, FS_Union
<1>5. Cardinality((Children(d) \cap Questionnaires) \cap (Children(d) \cap DraftDocs)) = 0
  BY <1>2, FS_EmptySet
<1> QED BY <1>1, <1>3, <1>4, <1>5

LEMMA SameFamily ==
  ASSUME NEW d \in Docs, Numbered(d), Children(d)' = Children(d),
         \A c \in Children(d) : doc'[c].number = doc[c].number
  PROVE  Numbered(d)'
  BY DEF Numbered

\* One more child.
LEMMA FamilyGrows ==
  ASSUME DraftTypes, NEW d \in Docs, Numbered(d), NEW n \in Docs, n \notin Children(d),
         Children(d)' = Children(d) \cup {n}, doc'[n].number = Cardinality(Children(d)) + 1,
         \A c \in Children(d) : doc'[c].number = doc[c].number
  PROVE  Numbered(d)'
<1>1. Cardinality(Children(d)') = Cardinality(Children(d)) + 1 /\ Cardinality(Children(d)) \in Nat
  BY ChildrenFinite, FS_AddElement
<1>2. \A c \in Children(d) : doc[c].number \in Nat
  BY ChildrenFinite
<1>3. \A c \in Children(d) : doc'[c].number <= Cardinality(Children(d)) /\ doc'[c].number \in Nat
  BY <1>2 DEF Numbered
<1>4. \A c \in Children(d)' : doc'[c].number <= Cardinality(Children(d)')
  BY <1>1, <1>3
<1>5. \A b, c \in Children(d)' : doc'[b].number = doc'[c].number => b = c
  BY <1>1, <1>3 DEF Numbered
<1> QED BY <1>4, <1>5 DEF Numbered

\* A questionnaire for the draft that it is made of.
LEMMA ChildReplaced ==
  ASSUME DraftTypes, NEW d \in Docs, Numbered(d), NEW n \in Docs, n \notin Children(d), NEW m \in Children(d),
         Children(d)' = (Children(d) \ {m}) \cup {n}, doc'[n].number = doc[m].number,
         \A c \in Children(d) \ {m} : doc'[c].number = doc[c].number
  PROVE  Numbered(d)'
<1>1. Cardinality(Children(d)') = Cardinality(Children(d))
  <2>1. IsFiniteSet(Children(d)) /\ Cardinality(Children(d)) \in Nat
    BY ChildrenFinite
  <2>2. IsFiniteSet(Children(d) \ {m}) /\ Cardinality(Children(d) \ {m}) = Cardinality(Children(d)) - 1
    BY <2>1, FS_RemoveElement
  <2>3. Cardinality((Children(d) \ {m}) \cup {n}) = Cardinality(Children(d) \ {m}) + 1
    BY <2>2, FS_AddElement
  <2> QED BY <2>1, <2>2, <2>3
<1>2. \A c \in Children(d)' : doc'[c].number <= Cardinality(Children(d)')
  BY <1>1 DEF Numbered
<1>3. \A b, c \in Children(d)' : doc'[b].number = doc'[c].number => b = c
  BY DEF Numbered
<1> QED BY <1>2, <1>3 DEF Numbered

\* Rows of which kind, parent and number are what they were.
LEMMA SameRows ==
  ASSUME \A d \in Docs : doc'[d].kind = doc[d].kind /\ doc'[d].parent = doc[d].parent
                         /\ doc'[d].number = doc[d].number
  PROVE  /\ \A d \in Docs \cup {None} : Children(d)' = Children(d)
         /\ Questionnaires' = Questionnaires /\ DraftDocs' = DraftDocs
         /\ (\A d \in Docs : Numbered(d)) => (\A d \in Docs : Numbered(d)')
<1>1. \A d \in Docs \cup {None} : Children(d)' = Children(d)
  BY DEF Children
<1>2. ASSUME NEW d \in Docs, Numbered(d) PROVE Numbered(d)'
  <2>1. \A c \in Children(d) : doc'[c].number = doc[c].number
    BY DEF Children
  <2> QED BY <1>1, <1>2, <2>1, SameFamily
<1>3. Questionnaires' = Questionnaires /\ DraftDocs' = DraftDocs
  BY DEF Questionnaires, DraftDocs
<1> QED BY <1>1, <1>2, <1>3

\* The children after a row has been inserted and another one perhaps taken away.
LEMMA ChildrenInserted ==
  ASSUME DraftTypes, Families, NEW r \in Doc, NEW gone, Inserted(r, gone), NEW d \in Docs
  PROVE  /\ docs + 1 \in Docs /\ docs + 1 \notin Children(d) /\ doc'[docs + 1] = r
         /\ \A c \in Children(d) \ gone : doc'[c] = doc[c]
         /\ Children(d)' = (Children(d) \ gone) \cup {c \in {docs + 1} : r.parent = d}
<1>1. /\ docs + 1 \in Docs
      /\ doc' = [c \in Docs |-> IF c = docs + 1 THEN r ELSE IF c \in gone THEN NoDoc ELSE doc[c]]
  BY DEF Inserted
<1>2. docs + 1 \notin Children(d)
  BY <1>1, Upcoming, DocValues DEF Children
<1>3. r.kind # "none"
  BY DocValues
<1>4. ASSUME NEW c \in Docs
      PROVE  c \in Children(d)' <=> c \in Children(d) \ gone \/ (c = docs + 1 /\ r.parent = d)
  <2>1. c \in Children(d)' <=> doc'[c].kind # "none" /\ doc'[c].parent = d
    BY DEF Children
  <2>2. c \in Children(d) <=> doc[c].kind # "none" /\ doc[c].parent = d
    BY DEF Children
  <2>3. CASE c = docs + 1
    BY <1>1, <1>2, <1>3, <2>1, <2>3
  <2>4. CASE c # docs + 1
    BY <1>1, <2>1, <2>2, <2>4, DocValues
  <2> QED BY <2>3, <2>4
<1>5. Children(d)' \subseteq Docs /\ Children(d) \subseteq Docs
  BY DEF Children
<1>6. Children(d)' = (Children(d) \ gone) \cup {c \in {docs + 1} : r.parent = d}
  BY <1>1, <1>4, <1>5
<1>7. \A c \in Children(d) \ gone : doc'[c] = doc[c]
  BY <1>1, <1>2, <1>5
<1> QED BY <1>1, <1>2, <1>6, <1>7

LEMMA RootIsDoc ==
  ASSUME DraftTypes, NEW w \in Web, Busy(w)
  PROVE  Root(w) \in Docs
  BY DEF DraftTypes, Root, Doc

LEMMA NotCounting ==
  ASSUME DraftTypes, Sole, NEW w \in Web, Busy(w), Done(w)
  PROVE  \A v \in Web : Counted(v)'
<1>1. \A v \in Web : request'[v].pc = "idle"
  BY EndsAlone
<1> QED BY <1>1 DEF Counted

LEMMA NumbersStep ==
  ASSUME DraftTypes, Families, Sole, ~env.deletes, AsRead, Numbers, NEW w \in Web, DraftStep(w)
  PROVE  Numbers'
<1>0. /\ \A d \in Docs : Numbered(d)
      /\ \A v \in Web : Counted(v)
  BY DEF Numbers
<1>1. CASE Creates
  <2>1. UNCHANGED request
    BY <1>1, CreatesShape
  <2>2. PICK r \in Doc : Inserted(r, {}) /\ r.parent = None
    BY <1>1, CreatesShape
  <2>3. ASSUME NEW d \in Docs
        PROVE  Children(d)' = Children(d) /\ \A c \in Children(d) : doc'[c] = doc[c]
    BY <2>2, ChildrenInserted, DocValues
  <2>4. ASSUME NEW d \in Docs PROVE Numbered(d)'
    BY <1>0, <2>3, SameFamily
  <2>5. ASSUME NEW v \in Web PROVE Counted(v)'
    <3>1. CASE request[v].pc \in {"count", "insert"}
      <4>1. Root(v)' = Root(v) /\ Root(v) \in Docs
        BY <2>1, <3>1, RootIsDoc DEF Root, Busy
      <4>2. ASSUME NEW d \in Docs PROVE (Children(d) \cap Questionnaires)' = Children(d) \cap Questionnaires
        <5>1. Children(d) \subseteq Docs
          BY DEF Children
        <5> QED BY <2>3, <5>1 DEF Questionnaires
      <4>3. PICK d \in Docs : d = Root(v)
        BY <4>1
      <4>4. Children(d)' = Children(d) /\ (Children(d) \cap Questionnaires)' = Children(d) \cap Questionnaires
        BY <2>3, <4>2
      <4>5. Root(v)' = d
        BY <4>1, <4>3
      <4> QED BY <1>0, <2>1, <4>3, <4>4, <4>5 DEF Counted
    <3>2. CASE request[v].pc \notin {"count", "insert"}
      BY <2>1, <3>2 DEF Counted
    <3> QED BY <3>1, <3>2
  <2> QED BY <2>4, <2>5 DEF Numbers
<1>2. CASE Reads(w)
  <2>1. /\ UNCHANGED <<doc, docs>> /\ request'[w].pc \notin {"count", "insert"}
        /\ \A v \in Web \ {w} : request'[v] = request[v]
    BY <1>2, ReadsShape
  <2>2. ASSUME NEW v \in Web PROVE Counted(v)'
    <3>1. CASE v = w
      BY <2>1, <3>1 DEF Counted
    <3>2. CASE v # w
      <4>1. request'[v] = request[v] /\ Root(v)' = Root(v)
        BY <2>1, <3>2 DEF Root
      <4>2. Children(Root(v))' = Children(Root(v)) /\ Questionnaires' = Questionnaires
        BY <2>1, <4>1 DEF Children, Questionnaires
      <4> QED BY <1>0, <4>1, <4>2 DEF Counted
    <3> QED BY <3>1, <3>2
  <2> QED BY <1>0, <2>1, <2>2, SameRows DEF Numbers
<1>3. CASE Counts(w)
  <2>0. Busy(w) /\ UNCHANGED <<doc, docs>>
    BY <1>3, CountsShape DEF Busy
  <2>1. \A v \in Web : v # w => ~Busy(v) /\ request'[v] = request[v]
    BY <1>3, <2>0, CountsShape, OneRequest
  <2>2. PICK d \in Docs : d = Root(w) /\ d = Root(w)'
    <3>1. Root(w)' = Root(w)
      BY <1>3, CountsShape DEF Root
    <3> QED BY <2>0, <3>1, RootIsDoc
  <2>3. Children(d)' = Children(d) /\ (Children(d) \cap Questionnaires)' = Children(d) \cap Questionnaires
    BY <2>0 DEF Children, Questionnaires
  <2>4. \/ /\ request'[w].pc = "count"
           /\ request'[w].number = Cardinality(Children(d) \cap Questionnaires)
        \/ /\ request[w].pc = "count" /\ request'[w].pc = "insert"
           /\ request'[w].number = request[w].number + Cardinality(Children(d) \cap DraftDocs) + 1
    BY <1>3, <2>2, CountsShape
  <2>5. request[w].pc = "count" => request[w].number = Cardinality(Children(d) \cap Questionnaires)
    BY <1>0, <2>2 DEF Counted
  <2>6. Counted(w)'
    BY <2>2, <2>3, <2>4, <2>5, ChildrenCounted DEF Counted
  <2>7. ASSUME NEW v \in Web PROVE Counted(v)'
    <3>1. v # w => Counted(v)'
      BY <2>1 DEF Counted, Busy
    <3> QED BY <2>6, <3>1
  <2> QED BY <1>0, <2>0, <2>7, SameRows DEF Numbers
<1>4. CASE SaveDoc(w)
  <2>1. Busy(w) /\ Done(w)
    BY <1>4, SaveShape DEF Busy
  <2>2. request[w].id \in Docs /\ doc[request[w].id] = request[w].row
    BY <2>1 DEF DraftTypes, AsRead
  <2>3. \A d \in Docs : doc'[d].kind = doc[d].kind /\ doc'[d].parent = doc[d].parent
                        /\ doc'[d].number = doc[d].number
    <3>1. CASE UNCHANGED doc
      BY <3>1
    <3>2. ASSUME NEW r \in Doc, doc' = [doc EXCEPT ![request[w].id] = r], Agrees(r, request[w].row)
          PROVE  \A d \in Docs : doc'[d].kind = doc[d].kind /\ doc'[d].parent = doc[d].parent
                                 /\ doc'[d].number = doc[d].number
      BY <2>2, <3>2 DEF DraftTypes, Agrees
    <3> QED BY <1>4, <3>1, <3>2, SaveShape
  <2> QED BY <1>0, <2>1, <2>3, SameRows, NotCounting DEF Numbers
<1>5. CASE InsertChild(w)
  <2>1. Busy(w) /\ Done(w) /\ request[w].pc = "insert"
    BY <1>5, InsertChildShape DEF Busy
  <2>2. CASE UNCHANGED <<doc, docs>>
    BY <1>0, <2>1, <2>2, SameRows, NotCounting DEF Numbers
  <2>3. CASE ChildOf(w) \in Doc /\ Inserted(ChildOf(w), {})
    <3> DEFINE r == ChildOf(w)
    <3>1. r \in Doc /\ Inserted(r, {}) /\ r.parent = Root(w) /\ r.number = request[w].number
      BY <2>3 DEF ChildOf
    <3>2. request[w].number = Cardinality(Children(Root(w))) + 1
      BY <1>0, <2>1 DEF Counted
    <3> HIDE DEF r
    <3>3. ASSUME NEW d \in Docs PROVE Numbered(d)'
      <4>1. /\ docs + 1 \in Docs /\ docs + 1 \notin Children(d) /\ doc'[docs + 1] = r
            /\ \A c \in Children(d) : doc'[c] = doc[c]
            /\ Children(d)' = Children(d) \cup {c \in {docs + 1} : r.parent = d}
        BY <3>1, ChildrenInserted
      <4>2. CASE d = Root(w)
        <5>1. Children(d)' = Children(d) \cup {docs + 1}
          BY <3>1, <4>1, <4>2
        <5> QED BY <1>0, <3>1, <3>2, <4>1, <4>2, <5>1, FamilyGrows
      <4>3. CASE d # Root(w)
        <5>1. Children(d)' = Children(d)
          BY <3>1, <4>1, <4>3
        <5> QED BY <1>0, <4>1, <5>1, SameFamily
      <4> QED BY <4>2, <4>3
    <3> QED BY <2>1, <3>3, NotCounting DEF Numbers
  <2> QED BY <1>5, <2>2, <2>3, InsertChildShape
<1>6. CASE DeleteDoc(w)
  BY <1>6, DeleteShape DEF DraftTypes
<1>7. CASE CompleteDraft(w)
  <2>1. Busy(w) /\ Done(w)
    BY <1>7, CompleteShape DEF Busy
  <2>2. request[w].id \in Docs /\ doc[request[w].id] = request[w].row /\ request[w].row \in Doc
    BY <2>1 DEF DraftTypes, AsRead
  <2>3. CASE UNCHANGED <<doc, docs>>
    BY <1>0, <2>1, <2>3, SameRows, NotCounting DEF Numbers
  <2>4. CASE /\ Completed(w) \in Doc /\ Completed(w).parent = request[w].row.parent
             /\ Completed(w).number = request[w].row.number /\ Inserted(Completed(w), {request[w].id})
    <3> DEFINE r == Completed(w)
               m == request[w].id
    <3>1. r \in Doc /\ r.parent = doc[m].parent /\ r.number = doc[m].number /\ Inserted(r, {m})
      BY <2>2, <2>4
    <3>2. m \in Docs /\ doc[m].kind # "none"
      BY <2>2, DocValues
    <3> HIDE DEF r, m
    <3>3. ASSUME NEW d \in Docs PROVE Numbered(d)'
      <4>1. /\ docs + 1 \in Docs /\ docs + 1 \notin Children(d) /\ doc'[docs + 1] = r
            /\ \A c \in Children(d) \ {m} : doc'[c] = doc[c]
            /\ Children(d)' = (Children(d) \ {m}) \cup {c \in {docs + 1} : r.parent = d}
        BY <3>1, ChildrenInserted
      <4>2. CASE d = r.parent
        <5>1. Children(d)' = (Children(d) \ {m}) \cup {docs + 1}
          BY <4>1, <4>2
        <5>2. m \in Children(d)
          BY <3>1, <3>2, <4>2 DEF Children
        <5> QED BY <1>0, <3>1, <4>1, <5>1, <5>2, ChildReplaced
      <4>3. CASE d # r.parent
        <5>1. m \notin Children(d)
          BY <3>1, <4>3 DEF Children
        <5>2. Children(d)' = Children(d)
          BY <4>1, <4>3, <5>1
        <5> QED BY <1>0, <4>1, <5>1, <5>2, SameFamily
      <4> QED BY <4>2, <4>3
    <3> QED BY <2>1, <3>3, NotCounting DEF Numbers
  <2> QED BY <1>7, <2>3, <2>4, CompleteShape
<1> QED BY <1>1, <1>2, <1>3, <1>4, <1>5, <1>6, <1>7 DEF DraftStep

-----------------------------------------------------------------------------
FamilyInv ==
    /\ DraftTypes /\ Families
    /\ Sole => AsRead /\ Used
    /\ Sole /\ ~env.deletes => Numbers

LEMMA FamilyInit ==
  ASSUME Init
  PROVE  FamilyInv
<1>1. /\ doc = [d \in Docs |-> NoDoc] /\ docs = 0 /\ request = [w \in Web |-> NoRequest] /\ env \in Environments
  BY DEF Init, InitDrafts
<1>2. DraftTypes
  BY <1>1, DocValues, DraftsAssumption DEF DraftTypes, Busy
<1>3. Families
  <2>1. PICK r \in Doc : r.parent = None
    <3>1. [kind |-> "draft", parent |-> None, number |-> 0, answers |-> "partial", draft |-> None] \in Doc
      BY DEF Doc, Answers
    <3> QED BY <3>1
  <2>2. [d \in Docs |-> r] \in [Docs -> Doc] /\ Origin([d \in Docs |-> r])
    BY <1>1, <2>1, DocValues DEF Origin, Busy
  <2>3. Present
    BY <1>1, DocValues DEF Present
  <2> QED BY <2>2, <2>3 DEF Families
<1>4. AsRead /\ Used
  BY <1>1, DocValues DEF AsRead, Used, Busy
<1>5. Numbers
  <2>1. \A d \in Docs : Children(d) = {}
    BY <1>1, DocValues DEF Children
  <2>2. \A w \in Web : Counted(w)
    BY <1>1, DocValues DEF Counted
  <2> QED BY <2>1, <2>2 DEF Numbers, Numbered
<1> QED BY <1>2, <1>3, <1>4, <1>5 DEF FamilyInv

LEMMA FamilyStep ==
  ASSUME FamilyInv, [Next]_vars
  PROVE  FamilyInv'
<1>1. env' = env
  BY DraftSteps
<1>2. CASE UNCHANGED draftVars
  <2>1. UNCHANGED <<doc, docs, request>>
    BY <1>2 DEF draftVars
  <2>2. DraftTypes' /\ Families' /\ (AsRead => AsRead') /\ (Used => Used') /\ (Sole' => Sole)
    BY <1>1, <2>1 DEF FamilyInv, DraftTypes, Busy, Families, Present, Origin, AsRead, Used, Sole
  <2>3. Numbers => Numbers'
    BY <2>1 DEF Numbers, Numbered, Counted, Children, Root, Questionnaires
  <2> QED BY <1>1, <2>2, <2>3 DEF FamilyInv
<1>3. ASSUME NEW w \in Web, DraftStep(w) PROVE FamilyInv'
  <2>1. DraftTypes' /\ Families'
    BY <1>1, <1>3, DraftTypesStep, FamiliesStep DEF FamilyInv
  <2>2. ASSUME Sole' PROVE AsRead' /\ Used'
    BY <1>1, <1>3, <2>2, SoleStep DEF FamilyInv, Sole
  <2>3. ASSUME Sole', ~env'.deletes PROVE Numbers'
    BY <1>1, <1>3, <2>3, NumbersStep DEF FamilyInv, Sole
  <2> QED BY <2>1, <2>2, <2>3 DEF FamilyInv
<1> QED BY <1>2, <1>3, DraftSteps

LEMMA FamilyConsequence ==
  ASSUME FamilyInv
  PROVE  FamilyKept
<1>1. \A d \in Docs : doc[d].parent # None =>
          doc[d].parent \in Questionnaires /\ doc[doc[d].parent].parent = None
  <2>1. PICK o \in [Docs -> Doc] : Origin(o)
    BY DEF FamilyInv, Families
  <2> SUFFICES ASSUME NEW d \in Docs, doc[d].parent # None
               PROVE  doc[d].parent \in Questionnaires /\ doc[doc[d].parent].parent = None
    OBVIOUS
  <2>2. doc[d].parent \in Docs /\ doc[doc[d].parent] # NoDoc /\ doc[d] # NoDoc
    BY DocValues DEF FamilyInv, Families, Present
  <2>3. /\ o[doc[d].parent].kind = "questionnaire" /\ o[doc[d].parent].parent = None
        /\ Agrees(doc[doc[d].parent], o[doc[d].parent])
    BY <2>1, <2>2 DEF Origin, Agrees
  <2> QED BY <2>2, <2>3 DEF Questionnaires, Agrees
<1>2. \A d \in Questionnaires : \A c \in Related(d) : c \in Children(d) \/ d \in Related(c)
  <2> SUFFICES ASSUME NEW d \in Questionnaires, NEW c \in Siblings(d) PROVE d \in Siblings(c)
    BY DEF Related
  <2>1. doc[d].parent # None /\ c \in Children(doc[d].parent) /\ c # d
    BY DEF Siblings
  <2>2. doc[c].parent = doc[d].parent
    BY <2>1 DEF Children
  <2>3. d \in Children(doc[d].parent) \cap Questionnaires
    BY DEF Children, Questionnaires
  <2> QED BY <2>1, <2>2, <2>3 DEF Siblings
<1>3. Sole /\ ~env.deletes => \A d \in Docs : \A b, c \in Children(d) : doc[b].number = doc[c].number => b = c
  BY DEF FamilyInv, Numbers, Numbered
<1>4. Sole => \A c, d \in Docs : doc[c].draft = doc[d].draft /\ doc[c].draft # None => c = d
  BY DEF FamilyInv, Used
<1> QED BY <1>1, <1>2, <1>3, <1>4 DEF FamilyKept

\* The parents, the children and their numbers are what FamilyKept says, whatever the requests and
\* however many at a time.
THEOREM FamiliesAreKept == Spec => []FamilyKept
<1>1. Init => FamilyInv
  BY FamilyInit
<1>2. FamilyInv /\ [Next]_vars => FamilyInv'
  BY FamilyStep
<1>3. FamilyInv => FamilyKept
  BY FamilyConsequence
<1> QED BY <1>1, <1>2, <1>3, PTL DEF Spec

(***************************************************************************)
(* The queue.  A task is put in a free place, and no step but those of the *)
(* reminder itself touches a reminder.                                     *)
(***************************************************************************)
User  == [exists : BOOLEAN, profile : Nat, reminded : BOOLEAN]
Kinds == {"none", "contact", "promo", "deal", "giftmail", "opportunity", "remind"}
Job   == [kind : Kinds, pc : {"sent", "save", "found", "update"}, tries : Nat, user : User]
JobTypes ==
    /\ job \in [Jobs -> Job] /\ env \in Environments
    /\ \A j \in Jobs : /\ job[j].pc = "save" => job[j].kind = "remind"
                       /\ job[j].pc = "found" => job[j].kind = "deal"
                       /\ job[j].pc = "update" => job[j].kind = "opportunity"
Lowest(P, S) == P \subseteq S /\ \A j \in P, k \in S \ P : j < k

LEMMA LeastOne ==
  ASSUME NEW S \in SUBSET Nat, S # {}
  PROVE  \E m \in S : \A n \in S : m <= n
<1> DEFINE less == {ss \in Nat \X Nat : ss[1] < ss[2]}
<1>1. IsWellFoundedOn(less, Nat)
  <2>1. less = OpToRel(<, Nat)
    BY DEF OpToRel
  <2> QED BY <2>1, NatLessThanWellFounded
<1>2. PICK x \in S : \A y \in S : <<y, x>> \notin less
  <2> HIDE DEF less
  <2> QED BY <1>1, WFMin
<1>3. ASSUME NEW y \in S PROVE x <= y
  <2>1. <<y, x>> \in Nat \X Nat /\ <<y, x>>[1] = y /\ <<y, x>>[2] = x
    OBVIOUS
  <2>2. ~(y < x)
    BY <1>2, <2>1, Zenon
  <2> QED BY <2>2
<1> QED BY <1>3

LEMMA OneMore ==
  ASSUME NEW S \in SUBSET Nat, IsFiniteSet(S), NEW P, Lowest(P, S), NEW n \in Nat, Cardinality(P) = n,
         Cardinality(S) >= n + 1
  PROVE  \E m \in S : Lowest(P \cup {m}, S) /\ Cardinality(P \cup {m}) = n + 1
<1>1. IsFiniteSet(P) /\ Cardinality(S) \in Nat
  BY FS_Subset, FS_CardinalityType DEF Lowest
<1>2. S \ P # {}
  <2>1. S \ P = {} => S = P
    BY DEF Lowest
  <2> QED BY <1>1, <2>1
<1>3. PICK m \in S \ P : \A k \in S \ P : m <= k
  <2>1. S \ P \in SUBSET Nat
    OBVIOUS
  <2> QED BY <1>2, <2>1, LeastOne
<1>4. Cardinality(P \cup {m}) = n + 1
  BY <1>1, <1>3, FS_AddElement
<1>5. Lowest(P \cup {m}, S)
  <2>1. P \cup {m} \subseteq S /\ \A k \in S \ (P \cup {m}) : k \in S \ P /\ k # m
    BY <1>3 DEF Lowest
  <2>2. \A k \in S \ (P \cup {m}) : m < k
    BY <1>3, <2>1
  <2> QED BY <2>1, <2>2 DEF Lowest
<1> QED BY <1>3, <1>4, <1>5

LEMMA Nowhere ==
  ASSUME NEW S
  PROVE  Lowest({}, S) /\ Cardinality({}) = 0
  BY FS_EmptySet DEF Lowest

LEMMA FreePlaces ==
  ASSUME JobTypes
  PROVE  Free \subseteq Jobs /\ Free \in SUBSET Nat /\ IsFiniteSet(Free) /\ Cardinality(Free) \in Nat
<1>1. env.queue \in 0..Places /\ Places \in Nat
  BY AccountsAssumption DEF JobTypes
<1>2. Free \subseteq Jobs /\ Free \in SUBSET Nat
  BY <1>1 DEF Free, Jobs
<1>3. IsFiniteSet(Jobs)
  BY <1>1, FS_Interval DEF Jobs
<1> QED BY <1>2, <1>3, FS_Subset, FS_CardinalityType

\* Place(n) is a set of n free places.
LEMMA Placed ==
  ASSUME JobTypes, NEW n \in {1, 3}, CanSend(n)
  PROVE  Place(n) \subseteq Free /\ Cardinality(Place(n)) = n /\ IsFiniteSet(Place(n))
<1>0. Free \in SUBSET Nat /\ IsFiniteSet(Free) /\ Cardinality(Free) \in Nat /\ Cardinality(Free) >= n
  BY FreePlaces DEF CanSend
<1>1. PICK a \in Free : Lowest({} \cup {a}, Free) /\ Cardinality({} \cup {a}) = 1
  <2>1. Cardinality(Free) >= 0 + 1
    BY <1>0
  <2> QED BY <1>0, <2>1, Nowhere, OneMore
<1>2. \E P \in SUBSET Free : Lowest(P, Free) /\ Cardinality(P) = n
  <2>1. CASE n = 1
    BY <1>1, <2>1
  <2>2. CASE n = 3
    <3> DEFINE A == {} \cup {a}
    <3>1. Lowest(A, Free) /\ Cardinality(A) = 1
      BY <1>1
    <3> HIDE DEF A
    <3>2. PICK b \in Free : Lowest(A \cup {b}, Free) /\ Cardinality(A \cup {b}) = 2
      <4>1. Cardinality(Free) >= 1 + 1
        BY <1>0, <2>2
      <4> QED BY <1>0, <3>1, <4>1, OneMore
    <3>3. PICK c \in Free : Lowest((A \cup {b}) \cup {c}, Free) /\ Cardinality((A \cup {b}) \cup {c}) = 3
      <4>1. Cardinality(Free) >= 2 + 1
        BY <1>0, <2>2
      <4> QED BY <1>0, <3>2, <4>1, OneMore
    <3> QED BY <2>2, <3>3 DEF Lowest
  <2> QED BY <2>1, <2>2
<1>3. \E P \in SUBSET Free : Cardinality(P) = n /\ \A j \in P, k \in Free \ P : j < k
  BY <1>2 DEF Lowest
<1>4. Place(n) \in SUBSET Free /\ Cardinality(Place(n)) = n
  BY <1>3 DEF Place
<1> QED BY <1>0, <1>4, FS_Subset

JobShape(r) ==
    /\ r \in Job
    /\ r.pc = "save" => r.kind = "remind"
    /\ r.pc = "found" => r.kind = "deal"
    /\ r.pc = "update" => r.kind = "opportunity"
NewJob(kind) == [NoJob EXCEPT !.kind = kind]

LEMMA JobValues ==
  /\ NoUser \in User /\ NoJob \in Job /\ NoJob.kind = "none" /\ JobShape(NoJob)
  /\ \A kind \in Kinds : JobShape(NewJob(kind)) /\ NewJob(kind).kind = kind /\ NewJob(kind).pc = "sent"
<1>1. NoUser \in User
  BY DEF NoUser, User
<1>2. NoJob \in Job /\ NoJob.kind = "none" /\ JobShape(NoJob)
  BY <1>1 DEF NoJob, Job, Kinds, JobShape
<1>3. ASSUME NEW kind \in Kinds
      PROVE  JobShape(NewJob(kind)) /\ NewJob(kind).kind = kind /\ NewJob(kind).pc = "sent"
  BY <1>1 DEF NoJob, NewJob, Job, JobShape
<1> QED BY <1>1, <1>2, <1>3

LEMMA SentOne ==
  ASSUME JobTypes, NEW kind \in Kinds, Send(kind)
  PROVE  \E k \in Jobs : /\ job[k] = NoJob
                         /\ job' = [j \in Jobs |-> IF j = k THEN NewJob(kind) ELSE job[j]]
<1>1. CanSend(1) /\ job' = [j \in Jobs |-> IF j \in Place(1) THEN NewJob(kind) ELSE job[j]]
  BY DEF Send, NewJob
<1>2. Place(1) \subseteq Free /\ Cardinality(Place(1)) = 1 /\ IsFiniteSet(Place(1))
  BY <1>1, Placed
<1>3. PICK k : k \in Place(1)
  BY <1>2, FS_EmptySet
<1>4. \A j \in Place(1) : j = k
  <2>1. Cardinality(Place(1)) <= 1
    BY <1>2
  <2> QED BY <1>2, <1>3, <2>1, AtMostOne
<1>5. k \in Jobs /\ job[k] = NoJob
  BY <1>2, <1>3, FreePlaces DEF Free
<1>6. \A j \in Jobs : j \in Place(1) <=> j = k
  BY <1>3, <1>4
<1> QED BY <1>1, <1>5, <1>6

\* A step of the queue that does not touch a reminder.
Plain ==
    /\ job' \in [Jobs -> Job]
    /\ \A j \in Jobs : \/ job'[j] = job[j]
                       \/ job[j].kind # "remind" /\ job'[j].kind # "remind" /\ JobShape(job'[j])

LEMMA PlainSend ==
  ASSUME JobTypes, NEW kind \in Kinds \ {"remind"}, Send(kind)
  PROVE  Plain
  BY SentOne, JobValues DEF Plain, JobTypes, JobShape

LEMMA PlainChange ==
  ASSUME JobTypes, NEW j \in Jobs, NEW r, JobShape(r), job' = [job EXCEPT ![j] = r],
         job[j].kind # "remind", r.kind # "remind"
  PROVE  Plain
  BY DEF Plain, JobTypes, JobShape

LEMMA PlainGift ==
  ASSUME JobTypes, BuyGift
  PROVE  Plain
<1> DEFINE Nth(j) == Cardinality({k \in Place(3) : k <= j})
<1>1. CanSend(3) /\ job' = [j \in Jobs |-> IF j \in Place(3) THEN NewJob(GiftTasks[Nth(j)]) ELSE job[j]]
  BY DEF BuyGift, NewJob
<1>2. Place(3) \subseteq Free /\ Cardinality(Place(3)) = 3 /\ IsFiniteSet(Place(3))
  BY <1>1, Placed
<1>3. ASSUME NEW j \in Place(3) PROVE Nth(j) \in 1..3
  <2>1. IsFiniteSet({k \in Place(3) : k <= j}) /\ Nth(j) <= Cardinality(Place(3))
    BY <1>2, FS_Subset
  <2>2. j \in {k \in Place(3) : k <= j}
    BY <1>2, <1>3, FreePlaces
  <2>3. Nth(j) \in Nat /\ Nth(j) # 0
    BY <2>1, <2>2, FS_EmptySet, FS_CardinalityType
  <2> QED BY <1>2, <2>1, <2>3
<1>4. \A n \in 1..3 : GiftTasks[n] \in Kinds \ {"remind"}
  BY DEF GiftTasks, Kinds
<1> HIDE DEF Nth
<1>5. ASSUME NEW j \in Jobs, j \in Place(3)
      PROVE  job[j].kind # "remind" /\ job'[j].kind # "remind" /\ JobShape(job'[j])
  <2>1. job[j] = NoJob
    BY <1>2, <1>5 DEF Free
  <2>2. job'[j] = NewJob(GiftTasks[Nth(j)]) /\ GiftTasks[Nth(j)] \in Kinds \ {"remind"}
    BY <1>1, <1>3, <1>4, <1>5
  <2> QED BY <2>1, <2>2, JobValues
<1>6. \A j \in Jobs : j \notin Place(3) => job'[j] = job[j]
  BY <1>1
<1>7. \A j \in Jobs : job'[j] \in Job
  BY <1>5, <1>6 DEF JobShape, JobTypes
<1>8. job' = [j \in Jobs |-> job'[j]]
  BY <1>1
<1>9. job' \in [Jobs -> Job]
  BY <1>7, <1>8
<1> QED BY <1>5, <1>6, <1>9 DEF Plain

LEMMA PlainFinish ==
  ASSUME JobTypes, NEW j \in Jobs, job[j].kind # "remind", Finish(j)
  PROVE  Plain
<1>1. job' = [job EXCEPT ![j] = NoJob] /\ JobShape(NoJob) /\ NoJob.kind # "remind"
  BY JobValues DEF Finish
<1> QED BY <1>1, PlainChange

LEMMA PlainRetry ==
  ASSUME JobTypes, NEW j \in Jobs, job[j].kind # "remind", Retry(j) \/ GiveUp(j)
  PROVE  Plain
<1>1. CASE Finish(j)
  BY <1>1, PlainFinish
<1>2. CASE job' = [job EXCEPT ![j] = [NoJob EXCEPT !.kind = job[j].kind, !.tries = job[j].tries + 1]]
  <2> DEFINE r == [NoJob EXCEPT !.kind = job[j].kind, !.tries = job[j].tries + 1]
  <2>1. PICK kind \in Kinds, tries \in Nat : kind = job[j].kind /\ tries = job[j].tries + 1
    BY DEF JobTypes, Job
  <2>2. r = [NoJob EXCEPT !.kind = kind, !.tries = tries]
    BY <2>1
  <2>3. r \in Job /\ r.kind = kind
    BY <2>2, JobValues DEF Job
  <2>4. r.pc = "sent"
    BY <2>2 DEF NoJob
  <2>5. JobShape(r) /\ r.kind # "remind"
    BY <2>1, <2>3, <2>4 DEF JobShape
  <2>6. job' = [job EXCEPT ![j] = r]
    BY <1>2
  <2> HIDE DEF r
  <2> QED BY <2>5, <2>6, PlainChange
<1> QED BY <1>1, <1>2 DEF Retry, GiveUp

\* The work goes on with the task in its place.
LEMMA PlainGoesOn ==
  ASSUME JobTypes, NEW j \in Jobs, NEW pc \in {"found", "update"}, job' = [job EXCEPT ![j].pc = pc],
         job[j].kind = IF pc = "found" THEN "deal" ELSE "opportunity"
  PROVE  Plain
<1> DEFINE r == [job[j] EXCEPT !.pc = pc]
<1>1. job[j] \in Job
  BY DEF JobTypes
<1>2. r \in Job /\ r.kind = job[j].kind /\ r.pc = pc
  BY <1>1 DEF Job
<1>3. JobShape(r) /\ r.kind # "remind" /\ job[j].kind # "remind"
  BY <1>2 DEF JobShape
<1>4. job' = [job EXCEPT ![j] = r]
  OBVIOUS
<1> HIDE DEF r
<1> QED BY <1>3, <1>4, PlainChange

UserRequest(w) ==
    Authenticate(w) \/ GetOrCreateUser(w) \/ FillNames(w) \/ OpenProfile(w) \/ SaveProfile(w)
Elsewhere == UNCHANGED <<user, session, sent, mails, crashes>> /\ Plain

LEMMA TasksElsewhere ==
  ASSUME JobTypes, NEW j \in Jobs, JobStep(j), ~SendReminder(j), ~SaveReminded(j)
  PROVE  env' = env /\ Elsewhere
<1> USE DEF Elsewhere, userVars, bounds
<1>1. CASE CreatePromoCodes(j)
  <2>1. job[j].kind # "remind"
    BY <1>1 DEF CreatePromoCodes, Takes
  <2>2. CASE Finish(j)
    BY <1>1, <2>1, <2>2, PlainFinish DEF CreatePromoCodes
  <2>3. CASE job' = [job EXCEPT ![j] = NewJob("giftmail")]
    <3>1. JobShape(NewJob("giftmail")) /\ NewJob("giftmail").kind # "remind"
      BY JobValues DEF Kinds
    <3> QED BY <1>1, <2>1, <2>3, <3>1, PlainChange DEF CreatePromoCodes
  <2> QED BY <1>1, <2>2, <2>3 DEF CreatePromoCodes, NewJob
<1>2. CASE SendGiftMail(j)
  BY <1>2, PlainFinish DEF SendGiftMail, Takes
<1>3. CASE CreateContact(j)
  BY <1>3, PlainFinish, PlainRetry DEF CreateContact, Takes, Answer, Error
<1>4. CASE FindContact(j)
  <2>1. job[j].kind = "deal"
    BY <1>4 DEF FindContact, Takes
  <2>2. CASE job' = [job EXCEPT ![j].pc = "found"]
    BY <1>4, <2>1, <2>2, PlainGoesOn DEF FindContact
  <2>3. CASE Retry(j) \/ GiveUp(j)
    BY <1>4, <2>1, <2>3, PlainRetry DEF FindContact
  <2> QED BY <1>4, <2>2, <2>3 DEF FindContact, Error
<1>5. CASE CreateDeal(j)
  <2>1. job[j].kind = "deal"
    BY <1>5 DEF CreateDeal, JobTypes
  <2> QED BY <1>5, <2>1, PlainFinish, PlainRetry DEF CreateDeal, Answer, Error
<1>6. CASE CheckPayments(j)
  <2>1. job[j].kind = "opportunity"
    BY <1>6 DEF CheckPayments, Takes
  <2>2. CASE job' = [job EXCEPT ![j].pc = "update"]
    BY <1>6, <2>1, <2>2, PlainGoesOn DEF CheckPayments
  <2>3. CASE Finish(j)
    BY <1>6, <2>1, <2>3, PlainFinish DEF CheckPayments
  <2> QED BY <1>6, <2>2, <2>3 DEF CheckPayments
<1>7. CASE UpdateStage(j)
  <2>1. job[j].kind = "opportunity"
    BY <1>7 DEF UpdateStage, JobTypes
  <2> QED BY <1>7, <2>1, PlainFinish, PlainRetry DEF UpdateStage, Answer, Error
<1> QED BY <1>1, <1>2, <1>3, <1>4, <1>5, <1>6, <1>7 DEF JobStep

LEMMA PlainUnchanged ==
  ASSUME JobTypes, UNCHANGED job
  PROVE  Plain
  BY DEF JobTypes, Plain

LEMMA UserSteps ==
  ASSUME JobTypes, [Next]_vars
  PROVE  /\ env' = env
         /\ \/ Elsewhere
            \/ \E w \in Web : UserRequest(w)
            \/ ScheduleReminder
            \/ \E j \in Jobs : SendReminder(j) \/ SaveReminded(j) \/ Crash(j)
<1>1. ASSUME NEW w \in Web, RequestDoc(w) \/ Delete(w) \/ Complete(w)
      PROVE  env' = env /\ Elsewhere
  <2>1. env' = env /\ UNCHANGED <<user, session, sent, mails, crashes>>
    BY <1>1 DEF RequestDoc, Delete, Complete, userVars, jobVars, bounds
  <2>2. CASE UNCHANGED job
    BY <2>1, <2>2, PlainUnchanged DEF Elsewhere
  <2>3. CASE Send("opportunity")
    <3>1. "opportunity" \in Kinds \ {"remind"}
      BY DEF Kinds
    <3> QED BY <2>1, <2>3, <3>1, PlainSend DEF Elsewhere
  <2> QED BY <1>1, <2>2, <2>3 DEF RequestDoc, Delete, Complete, jobVars
<1>2. ASSUME NEW w \in Web, Authenticate(w) \/ GetOrCreateUser(w) \/ FillNames(w) \/ OpenProfile(w) \/ SaveProfile(w)
      PROVE  env' = env /\ UserRequest(w)
  BY <1>2 DEF UserRequest, Authenticate, GetOrCreateUser, FillNames, OpenProfile, SaveProfile, bounds
<1>3. ASSUME NEW d \in Docs, Buy(d) \/ CompletePayment(d) PROVE env' = env /\ Elsewhere
  <2>1. env' = env /\ UNCHANGED <<user, session, sent, mails, crashes>>
    BY <1>3 DEF Buy, CompletePayment, userVars, jobVars, bounds
  <2>2. CASE UNCHANGED job
    BY <2>1, <2>2, PlainUnchanged DEF Elsewhere
  <2>3. CASE Send("deal")
    <3>1. "deal" \in Kinds \ {"remind"}
      BY DEF Kinds
    <3> QED BY <2>1, <2>3, <3>1, PlainSend DEF Elsewhere
  <2> QED BY <1>3, <2>2, <2>3 DEF Buy, CompletePayment, jobVars
<1>4. ASSUME BuyGift PROVE env' = env /\ Elsewhere
  BY <1>4, PlainGift DEF BuyGift, Elsewhere, userVars, bounds
<1>5. ASSUME ScheduleReminder PROVE env' = env
  BY <1>5 DEF ScheduleReminder
<1>6. ASSUME NEW j \in Jobs, SendReminder(j) \/ SaveReminded(j) \/ Crash(j) PROVE env' = env
  BY <1>6 DEF SendReminder, SaveReminded, Crash, bounds
<1>7. CASE UNCHANGED vars
  BY <1>7, PlainUnchanged DEF vars, bounds, Elsewhere, userVars, jobVars
<1> QED BY <1>1, <1>2, <1>3, <1>4, <1>5, <1>6, <1>7, TasksElsewhere DEF Next

(***************************************************************************)
(* The User row.  While a reminder is on its way nobody has the row but    *)
(* the reminder; otherwise one request at most has it, as it is, but for   *)
(* the profile that it is about to save.                                   *)
(***************************************************************************)
Session == [pc : {"idle", "create", "names", "edit"}, user : User]
UserTypes ==
    /\ user \in User /\ sent \in Nat /\ session \in [Web -> Session] /\ crashes \in Nat
    /\ \A w \in Web : session[w].pc = "idle" => session[w] = NoSession
    /\ \A w \in Web : session[w] # NoSession => w \in env.web
Careful == Sole /\ NoCrash /\ ~env.overlap
OneReminder == \A j, k \in Jobs : job[j].kind = "remind" /\ job[k].kind = "remind" => j = k
Saving      == \E j \in Jobs : job[j].pc = "save"
ReminderAlone == Reminding => user.exists /\ ~user.reminded /\ \A w \in Web : session[w] = NoSession
ReminderAsRead == \A j \in Jobs : job[j].pc = "save" => job[j].user = user
MailsCounted ==
    /\ mails \in [sent : Nat, lost : Nat]
    /\ mails.sent = IF user.reminded \/ Saving THEN mails.lost + 1 ELSE mails.lost
SessionAsRead(w) ==
    /\ session[w].pc = "create" => ~user.exists
    /\ session[w].pc = "names" => user.exists /\ session[w].user = user
    /\ session[w].pc = "edit" => user.exists /\ session[w].user = [user EXCEPT !.profile = sent]
ProfileKept == (\A w \in Web : session[w].pc # "edit") => user.profile = sent
RowKept ==
    /\ OneReminder /\ ReminderAlone /\ ReminderAsRead /\ MailsCounted
    /\ (\A w \in Web : SessionAsRead(w)) /\ ProfileKept

LEMMA UserValues ==
  /\ NoSession \in Session /\ NoSession.pc = "idle" /\ NoUser \in User
  /\ \A r \in User : /\ [r EXCEPT !.exists = TRUE] \in User
                     /\ [r EXCEPT !.exists = TRUE].exists
                     /\ [r EXCEPT !.exists = TRUE].profile = r.profile
                     /\ [r EXCEPT !.exists = TRUE].reminded = r.reminded
                     /\ r.exists => [r EXCEPT !.exists = TRUE] = r
                     /\ [r EXCEPT !.reminded = TRUE] \in User
                     /\ [r EXCEPT !.reminded = TRUE].reminded
                     /\ [r EXCEPT !.reminded = TRUE].profile = r.profile
                     /\ \A n \in Nat : /\ [r EXCEPT !.profile = n] \in User
                                       /\ [r EXCEPT !.profile = n].exists = r.exists
                                       /\ [r EXCEPT !.profile = n].profile = n
                                       /\ [r EXCEPT !.profile = n].reminded = r.reminded
<1>1. NoSession \in Session /\ NoSession.pc = "idle" /\ NoUser \in User
  BY JobValues DEF NoSession, Session
<1>2. ASSUME NEW r \in User
      PROVE  /\ [r EXCEPT !.exists = TRUE] \in User /\ [r EXCEPT !.exists = TRUE].exists
             /\ [r EXCEPT !.exists = TRUE].profile = r.profile
             /\ [r EXCEPT !.exists = TRUE].reminded = r.reminded
  BY DEF User
<1>3. ASSUME NEW r \in User, r.exists PROVE [r EXCEPT !.exists = TRUE] = r
  BY <1>3 DEF User
<1>4. ASSUME NEW r \in User
      PROVE  /\ [r EXCEPT !.reminded = TRUE] \in User /\ [r EXCEPT !.reminded = TRUE].reminded
             /\ [r EXCEPT !.reminded = TRUE].profile = r.profile
  BY DEF User
<1>5. ASSUME NEW r \in User, NEW n \in Nat
      PROVE  /\ [r EXCEPT !.profile = n] \in User /\ [r EXCEPT !.profile = n].exists = r.exists
             /\ [r EXCEPT !.profile = n].profile = n /\ [r EXCEPT !.profile = n].reminded = r.reminded
  BY DEF User
<1> QED BY <1>1, <1>2, <1>3, <1>4, <1>5

LEMMA OneSession ==
  ASSUME env \in Environments, UserTypes, Sole, NEW w \in Web, w \in env.web
  PROVE  \A v \in Web \ {w} : session[v] = NoSession
<1>1. IsFiniteSet(env.web)
  BY FS_Subset, DraftsAssumption, AccountsAssumption
<1>2. ASSUME NEW v \in Web, session[v] # NoSession PROVE v = w
  <2>1. v \in env.web
    BY <1>2 DEF UserTypes
  <2> QED BY <1>1, <2>1, AtMostOne DEF Sole
<1> QED BY <1>2

\* The types.
LEMMA JobTypesPlain ==
  ASSUME JobTypes, env' = env, Plain
  PROVE  JobTypes'
  BY DEF JobTypes, Plain, JobShape

LEMMA RequestShape ==
  ASSUME JobTypes, UserTypes, NEW w \in Web, UserRequest(w)
  PROVE  /\ env' = env /\ w \in env.web /\ UNCHANGED <<mails, crashes>> /\ Plain
         /\ \A v \in Web \ {w} : session'[v] = session[v]
         /\ session' \in [Web -> Session] /\ (session'[w].pc = "idle" => session'[w] = NoSession)
         /\ user' \in User /\ sent' \in Nat
         /\ \/ /\ session[w] = NoSession /\ ~user.exists /\ UNCHANGED <<user, sent>>
               /\ session'[w].pc = "create"
            \/ /\ session[w].pc = "create" /\ UNCHANGED sent
               /\ user' = [user EXCEPT !.exists = TRUE]
               /\ session'[w].pc = "names" /\ session'[w].user = user'
            \/ /\ session[w].pc = "names" /\ UNCHANGED sent /\ session'[w] = NoSession
               /\ user' \in {user, [session[w].user EXCEPT !.exists = TRUE]}
            \/ /\ session[w] = NoSession /\ user.exists /\ UNCHANGED user /\ sent' = sent + 1
               /\ ~env.overlap => ~Reminding
               /\ session'[w].pc = "edit" /\ session'[w].user = [user EXCEPT !.profile = sent']
            \/ /\ session[w].pc = "edit" /\ UNCHANGED sent /\ session'[w] = NoSession
               /\ user' = [session[w].user EXCEPT !.exists = TRUE]
<1>0. /\ session \in [Web -> Session] /\ session[w] \in Session /\ session[w].user \in User /\ user \in User
      /\ sent \in Nat
  BY DEF UserTypes, Session
<1>1. NoSession \in Session /\ NoSession.pc = "idle"
  BY UserValues
<1>2. session[w] # NoSession => w \in env.web
  BY DEF UserTypes
<1>3. ASSUME NEW row, SaveUser(row) PROVE Plain /\ user' = [row EXCEPT !.exists = TRUE]
  <2>1. "contact" \in Kinds \ {"remind"}
    BY DEF Kinds
  <2> QED BY <1>3, <2>1, PlainSend DEF SaveUser
<1>4. ASSUME NEW s \in Session, session' = [session EXCEPT ![w] = s]
      PROVE  /\ session' \in [Web -> Session] /\ session'[w] = s
             /\ \A v \in Web \ {w} : session'[v] = session[v]
  BY <1>0, <1>4
<1>5. CASE Authenticate(w)
  <2> DEFINE s == [session[w] EXCEPT !.pc = "create"]
  <2>1. s \in Session /\ s.pc = "create"
    BY <1>0 DEF Session
  <2>2. /\ w \in env.web /\ session[w] = NoSession /\ ~user.exists /\ session' = [session EXCEPT ![w] = s]
        /\ UNCHANGED <<user, sent, job, mails, crashes, env>>
    BY <1>5 DEF Authenticate, jobVars, bounds
  <2> HIDE DEF s
  <2> QED BY <1>0, <1>4, <2>1, <2>2, PlainUnchanged
<1>6. CASE GetOrCreateUser(w)
  <2> DEFINE r == [user EXCEPT !.exists = TRUE]
             s == [pc |-> "names", user |-> r]
  <2>1. r \in User /\ (user.exists => r = user)
    BY <1>0, UserValues
  <2>2. /\ session[w].pc = "create" /\ session' = [session EXCEPT ![w] = s]
        /\ UNCHANGED <<sent, mails, crashes, env>>
        /\ IF user.exists THEN UNCHANGED <<user, job>> ELSE SaveUser(user)
    BY <1>6 DEF GetOrCreateUser, bounds
  <2>3. user' = r /\ Plain
    BY <1>3, <2>1, <2>2, PlainUnchanged
  <2> HIDE DEF r
  <2>4. s \in Session /\ s.pc = "names" /\ s.user = r
    BY <2>1 DEF Session
  <2> HIDE DEF s
  <2>5. w \in env.web
    BY <1>1, <1>2, <2>2
  <2> QED BY <1>0, <1>4, <2>1, <2>2, <2>3, <2>4, <2>5 DEF r
<1>7. CASE FillNames(w)
  <2>1. /\ session[w].pc = "names" /\ session' = [session EXCEPT ![w] = NoSession]
        /\ UNCHANGED <<sent, mails, crashes, env>>
        /\ UNCHANGED <<user, job>> \/ SaveUser(session[w].user)
    BY <1>7 DEF FillNames, bounds
  <2>2. Plain /\ user' \in {user, [session[w].user EXCEPT !.exists = TRUE]}
    BY <1>3, <2>1, PlainUnchanged
  <2>3. [session[w].user EXCEPT !.exists = TRUE] \in User
    BY <1>0, UserValues
  <2> QED BY <1>0, <1>1, <1>2, <1>4, <2>1, <2>2, <2>3
<1>8. CASE OpenProfile(w)
  <2> DEFINE r == [user EXCEPT !.profile = sent + 1]
             s == [pc |-> "edit", user |-> r]
  <2>0. sent + 1 \in Nat
    BY <1>0
  <2>1. r \in User
    BY <1>0, <2>0 DEF User
  <2>2. /\ w \in env.web /\ session[w] = NoSession /\ user.exists /\ sent' = sent + 1
        /\ ~env.overlap => ~Reminding
        /\ session' = [session EXCEPT ![w] = s] /\ UNCHANGED <<user, job, mails, crashes, env>>
    BY <1>8 DEF OpenProfile, jobVars, bounds
  <2>3. r = [user EXCEPT !.profile = sent']
    BY <2>2
  <2> HIDE DEF r
  <2>4. s \in Session /\ s.pc = "edit" /\ s.user = r
    BY <2>1 DEF Session
  <2> HIDE DEF s
  <2> QED BY <1>0, <1>4, <2>0, <2>1, <2>2, <2>3, <2>4, PlainUnchanged
<1>9. CASE SaveProfile(w)
  <2>1. /\ session[w].pc = "edit" /\ session' = [session EXCEPT ![w] = NoSession]
        /\ UNCHANGED <<sent, mails, crashes, env>> /\ SaveUser(session[w].user)
    BY <1>9 DEF SaveProfile, bounds
  <2>2. Plain /\ user' = [session[w].user EXCEPT !.exists = TRUE]
    BY <1>3, <2>1
  <2>3. user' \in User
    BY <1>0, <2>2, UserValues
  <2> QED BY <1>0, <1>1, <1>2, <1>4, <2>1, <2>2, <2>3
<1> QED BY <1>5, <1>6, <1>7, <1>8, <1>9 DEF UserRequest

MailFailed == UNCHANGED mails \/ mails' = [sent |-> mails.sent + 1, lost |-> mails.lost + 1]

LEMMA ReminderShape ==
  ASSUME JobTypes, UserTypes, ScheduleReminder \/ (\E j \in Jobs : SendReminder(j) \/ SaveReminded(j) \/ Crash(j))
  PROVE  /\ env' = env /\ UNCHANGED <<session, sent>> /\ JobTypes'
         /\ \/ /\ UNCHANGED <<user, mails, crashes>> /\ user.exists /\ ~user.reminded
               /\ ~env.overlap => ~Reminding /\ \A w \in Web : session[w] = NoSession
               /\ \E k \in Jobs : /\ job[k] = NoJob /\ job'[k].kind = "remind" /\ job'[k].pc = "sent"
                                  /\ \A j \in Jobs \ {k} : job'[j] = job[j]
            \/ \E j \in Jobs : /\ UNCHANGED <<user, crashes>> /\ job[j].kind = "remind" /\ job[j].pc = "sent"
                               /\ \A k \in Jobs \ {j} : job'[k] = job[k]
                               /\ \/ /\ mails' = [mails EXCEPT !.sent = @ + 1] /\ job'[j].kind = "remind"
                                     /\ job'[j].pc = "save" /\ job'[j].user = user
                                  \/ MailFailed /\ job'[j] = NoJob
            \/ \E j \in Jobs : /\ UNCHANGED <<mails, crashes>> /\ job[j].pc = "save" /\ job[j].kind = "remind"
                               /\ user' = [job[j].user EXCEPT !.reminded = TRUE]
                               /\ \A k \in Jobs \ {j} : job'[k] = job[k]
                               /\ job'[j].kind = "contact" /\ job'[j].pc = "sent"
            \/ crashes < env.crashes /\ crashes' = crashes + 1 /\ UNCHANGED user
<1>0. job \in [Jobs -> Job] /\ user \in User
  BY DEF JobTypes, UserTypes
<1>1. ASSUME NEW j \in Jobs, NEW r, JobShape(r), job' = [job EXCEPT ![j] = r], env' = env
      PROVE  JobTypes' /\ job'[j] = r /\ \A k \in Jobs \ {j} : job'[k] = job[k]
  BY <1>1 DEF JobTypes, JobShape
<1>2. ASSUME NEW j \in Jobs, Finish(j), env' = env
      PROVE  JobTypes' /\ job'[j] = NoJob /\ \A k \in Jobs \ {j} : job'[k] = job[k]
  BY <1>1, <1>2, JobValues DEF Finish
<1>3. CASE ScheduleReminder
  <2>1. /\ UNCHANGED <<user, sent, session, mails, crashes, env>> /\ user.exists /\ ~user.reminded
        /\ ~env.overlap => ~Reminding /\ \A w \in Web : session[w] = NoSession
        /\ Send("remind")
    BY <1>3 DEF ScheduleReminder, ToRemind, userVars
  <2>2. "remind" \in Kinds
    BY DEF Kinds
  <2>3. PICK k \in Jobs : /\ job[k] = NoJob
                          /\ job' = [j \in Jobs |-> IF j = k THEN NewJob("remind") ELSE job[j]]
    BY <2>1, <2>2, SentOne
  <2>4. JobShape(NewJob("remind")) /\ NewJob("remind").kind = "remind" /\ NewJob("remind").pc = "sent"
    BY <2>2, JobValues
  <2>5. job'[k] = NewJob("remind") /\ \A j \in Jobs \ {k} : job'[j] = job[j]
    BY <2>3
  <2>6. job' = [job EXCEPT ![k] = NewJob("remind")]
    BY <1>0, <2>3
  <2>7. JobTypes'
    BY <1>1, <2>1, <2>4, <2>6
  <2> QED BY <2>1, <2>3, <2>4, <2>5, <2>7
<1>4. ASSUME NEW j \in Jobs, SendReminder(j) PROVE JobTypes' /\ env' = env /\ UNCHANGED <<session, sent, user, crashes>>
         /\ job[j].kind = "remind" /\ job[j].pc = "sent" /\ (\A k \in Jobs \ {j} : job'[k] = job[k])
         /\ \/ /\ mails' = [mails EXCEPT !.sent = @ + 1] /\ job'[j].kind = "remind"
               /\ job'[j].pc = "save" /\ job'[j].user = user
            \/ MailFailed /\ job'[j] = NoJob
  <2>1. /\ job[j].kind = "remind" /\ job[j].pc = "sent" /\ UNCHANGED <<session, sent, user, crashes, env>>
        /\ \/ /\ mails' = [mails EXCEPT !.sent = @ + 1]
              /\ job' = [job EXCEPT ![j].pc = "save", ![j].user = user]
           \/ Finish(j) /\ MailFailed
    BY <1>4 DEF SendReminder, Takes, userVars, bounds, MailFailed
  <2>2. CASE mails' = [mails EXCEPT !.sent = @ + 1] /\ job' = [job EXCEPT ![j].pc = "save", ![j].user = user]
    <3> DEFINE r == [job[j] EXCEPT !.pc = "save", !.user = user]
    <3>1. job[j] \in Job
      BY <1>0
    <3>2. r \in Job /\ r.kind = "remind" /\ r.pc = "save" /\ r.user = user
      BY <1>0, <2>1, <3>1 DEF Job
    <3>3. JobShape(r)
      BY <3>2 DEF JobShape
    <3>4. job' = [job EXCEPT ![j] = r]
      BY <2>2
    <3> HIDE DEF r
    <3> QED BY <1>1, <2>1, <2>2, <3>2, <3>3, <3>4
  <2>3. CASE Finish(j) /\ MailFailed
    BY <1>2, <2>1, <2>3
  <2> QED BY <2>1, <2>2, <2>3
<1>5. ASSUME NEW j \in Jobs, SaveReminded(j)
      PROVE  /\ JobTypes' /\ env' = env /\ UNCHANGED <<session, sent, mails, crashes>>
             /\ job[j].pc = "save" /\ job[j].kind = "remind"
             /\ user' = [job[j].user EXCEPT !.reminded = TRUE]
             /\ \A k \in Jobs \ {j} : job'[k] = job[k]
             /\ job'[j].kind = "contact" /\ job'[j].pc = "sent"
  <2>1. /\ job[j].pc = "save" /\ UNCHANGED <<session, sent, mails, crashes, env>>
        /\ user' = [job[j].user EXCEPT !.reminded = TRUE] /\ job' = [job EXCEPT ![j] = NewJob("contact")]
    BY <1>5 DEF SaveReminded, NewJob, bounds
  <2>2. job[j].kind = "remind"
    BY <2>1 DEF JobTypes
  <2>3. JobShape(NewJob("contact")) /\ NewJob("contact").kind = "contact" /\ NewJob("contact").pc = "sent"
    <3>1. "contact" \in Kinds
      BY DEF Kinds
    <3> QED BY <3>1, JobValues
  <2> QED BY <1>1, <2>1, <2>2, <2>3
<1>6. ASSUME NEW j \in Jobs, Crash(j)
      PROVE  /\ JobTypes' /\ env' = env /\ UNCHANGED <<session, sent, user>>
             /\ crashes < env.crashes /\ crashes' = crashes + 1
  <2>1. /\ Finish(j) /\ UNCHANGED <<session, sent, user, env>>
        /\ crashes < env.crashes /\ crashes' = crashes + 1
    BY <1>6 DEF Crash, userVars, bounds
  <2> QED BY <1>2, <2>1
<1> QED BY <1>3, <1>4, <1>5, <1>6

LEMMA UserTypesStep ==
  ASSUME JobTypes, UserTypes, [Next]_vars
  PROVE  env' = env /\ JobTypes' /\ UserTypes'
<1>1. CASE Elsewhere
  <2>1. env' = env /\ Plain /\ UNCHANGED <<user, session, sent, crashes>>
    BY <1>1, UserSteps DEF Elsewhere
  <2> QED BY <2>1, JobTypesPlain DEF UserTypes
<1>2. ASSUME NEW w \in Web, UserRequest(w) PROVE env' = env /\ JobTypes' /\ UserTypes'
  <2>1. /\ env' = env /\ w \in env.web /\ UNCHANGED crashes /\ Plain
        /\ \A v \in Web \ {w} : session'[v] = session[v]
        /\ session' \in [Web -> Session] /\ (session'[w].pc = "idle" => session'[w] = NoSession)
        /\ user' \in User /\ sent' \in Nat
    BY <1>2, RequestShape
  <2>2. \A v \in Web : session'[v].pc = "idle" => session'[v] = NoSession
    BY <2>1 DEF UserTypes
  <2>3. \A v \in Web : session'[v] # NoSession => v \in env'.web
    BY <2>1 DEF UserTypes
  <2> QED BY <2>1, <2>2, <2>3, JobTypesPlain DEF UserTypes
<1>3. CASE ScheduleReminder \/ (\E j \in Jobs : SendReminder(j) \/ SaveReminded(j) \/ Crash(j))
  <2>1. env' = env /\ UNCHANGED <<session, sent>> /\ JobTypes'
    BY <1>3, ReminderShape
  <2>2. \A j \in Jobs : job[j].user \in User
    BY DEF JobTypes, Job
  <2>3. \A j \in Jobs : [job[j].user EXCEPT !.reminded = TRUE] \in User
    BY <2>2, UserValues
  <2>4. user' \in User /\ crashes' \in Nat
    BY <1>3, <2>3, ReminderShape DEF UserTypes
  <2> QED BY <2>1, <2>4 DEF UserTypes
<1> QED BY <1>1, <1>2, <1>3, UserSteps

-----------------------------------------------------------------------------
(* The row is kept. *)

LEMMA PlainReminders ==
  ASSUME JobTypes, Plain
  PROVE  /\ \A j \in Jobs : /\ job'[j].kind = "remind" <=> job[j].kind = "remind"
                            /\ job'[j].pc = "save" <=> job[j].pc = "save"
                            /\ job[j].pc = "save" => job'[j] = job[j]
         /\ Reminding' = Reminding /\ Saving' = Saving
<1>1. ASSUME NEW j \in Jobs
      PROVE  /\ job'[j].kind = "remind" <=> job[j].kind = "remind"
             /\ job'[j].pc = "save" <=> job[j].pc = "save"
             /\ job[j].pc = "save" => job'[j] = job[j]
  BY DEF JobTypes, Plain, JobShape
<1>2. Reminding' = Reminding
  BY <1>1 DEF Reminding
<1>3. Saving' = Saving
  BY <1>1 DEF Saving
<1> QED BY <1>1, <1>2, <1>3

LEMMA RowKeptRequest ==
  ASSUME JobTypes, UserTypes, Careful, RowKept, NEW w \in Web, UserRequest(w)
  PROVE  RowKept'
<1>1. /\ env' = env /\ w \in env.web /\ UNCHANGED mails /\ Plain
      /\ \A v \in Web \ {w} : session'[v] = session[v]
      /\ session'[w].pc = "idle" => session'[w] = NoSession
      /\ user \in User /\ user' \in User /\ sent \in Nat /\ sent' \in Nat
  BY RequestShape DEF UserTypes
<1>2. \A v \in Web \ {w} : session[v] = NoSession /\ session'[v] = NoSession
  BY <1>1, OneSession DEF Careful, JobTypes
<1>3. /\ \A j \in Jobs : job'[j].kind = "remind" <=> job[j].kind = "remind"
      /\ Reminding' = Reminding /\ Saving' = Saving /\ OneReminder'
      /\ Saving => Reminding
  <2>1. \A j \in Jobs : job'[j].kind = "remind" <=> job[j].kind = "remind"
    BY <1>1, PlainReminders
  <2>2. OneReminder'
    BY <2>1 DEF RowKept, OneReminder
  <2>3. Saving => Reminding
    BY DEF Saving, Reminding, JobTypes
  <2> QED BY <1>1, <2>1, <2>2, <2>3, PlainReminders
<1>4. ~Reminding
  <2>1. CASE session[w] # NoSession
    BY <2>1 DEF RowKept, ReminderAlone
  <2>2. CASE session[w] = NoSession
    <3>1. session[w].pc = "idle"
      BY <2>2, UserValues
    <3>2. ~user.exists \/ ~Reminding
      BY <3>1, RequestShape DEF Careful
    <3> QED BY <3>2 DEF RowKept, ReminderAlone
  <2> QED BY <2>1, <2>2
<1>5. ReminderAlone' /\ ReminderAsRead'
  <2>1. ~Reminding'
    BY <1>3, <1>4
  <2>2. ~Saving'
    BY <1>3, <1>4
  <2> QED BY <2>1, <2>2 DEF ReminderAlone, ReminderAsRead, Saving
<1>6. \A v \in Web \ {w} : SessionAsRead(v)'
  BY <1>2, UserValues DEF SessionAsRead
<1>7. SessionAsRead(w) /\ (session[w].pc # "edit" => user.profile = sent)
  <2>1. (session[w].pc # "edit") => (\A v \in Web : session[v].pc # "edit")
    BY <1>2, UserValues
  <2> QED BY <2>1 DEF RowKept, ProfileKept
<1>8. SessionAsRead(w)' /\ (session'[w].pc # "edit" => user'.profile = sent') /\ user'.reminded = user.reminded
  <2>1. CASE /\ session[w] = NoSession /\ ~user.exists /\ UNCHANGED <<user, sent>> /\ session'[w].pc = "create"
    <3>1. session[w].pc = "idle"
      BY <2>1, UserValues
    <3> QED BY <1>7, <2>1, <3>1 DEF SessionAsRead
  <2>2. CASE /\ session[w].pc = "create" /\ UNCHANGED sent /\ user' = [user EXCEPT !.exists = TRUE]
             /\ session'[w].pc = "names" /\ session'[w].user = user'
    <3>1. user'.exists /\ user'.profile = user.profile /\ user'.reminded = user.reminded
      BY <1>1, <2>2, UserValues
    <3> QED BY <1>7, <2>2, <3>1 DEF SessionAsRead
  <2>3. CASE /\ session[w].pc = "names" /\ UNCHANGED sent /\ session'[w] = NoSession
             /\ user' \in {user, [session[w].user EXCEPT !.exists = TRUE]}
    <3>1. user.exists /\ session[w].user = user
      BY <1>7, <2>3 DEF SessionAsRead
    <3>2. user' = user
      BY <1>1, <2>3, <3>1, UserValues
    <3>3. session'[w].pc = "idle"
      BY <2>3, UserValues
    <3> QED BY <1>7, <2>3, <3>2, <3>3 DEF SessionAsRead
  <2>4. CASE /\ session[w] = NoSession /\ user.exists /\ UNCHANGED user
             /\ session'[w].pc = "edit" /\ session'[w].user = [user EXCEPT !.profile = sent']
    BY <2>4 DEF SessionAsRead
  <2>5. CASE /\ session[w].pc = "edit" /\ UNCHANGED sent /\ session'[w] = NoSession
             /\ user' = [session[w].user EXCEPT !.exists = TRUE]
    <3> DEFINE r == [user EXCEPT !.profile = sent]
    <3>1. user.exists /\ session[w].user = r
      BY <1>7, <2>5 DEF SessionAsRead
    <3>2. r \in User /\ r.exists = user.exists /\ r.profile = sent /\ r.reminded = user.reminded
      BY <1>1 DEF User
    <3>3. user' = [r EXCEPT !.exists = TRUE]
      BY <2>5, <3>1
    <3> HIDE DEF r
    <3>4. user' = r
      BY <3>1, <3>2, <3>3, UserValues
    <3>5. session'[w].pc = "idle"
      BY <2>5, UserValues
    <3> QED BY <2>5, <3>2, <3>4, <3>5 DEF SessionAsRead
  <2> QED BY <2>1, <2>2, <2>3, <2>4, <2>5, RequestShape
<1>9. MailsCounted'
  BY <1>1, <1>3, <1>8 DEF RowKept, MailsCounted
<1>10. ProfileKept'
  BY <1>8 DEF ProfileKept
<1> QED BY <1>3, <1>5, <1>6, <1>8, <1>9, <1>10 DEF RowKept

LEMMA RowKeptReminder ==
  ASSUME JobTypes, UserTypes, Careful, RowKept,
         ScheduleReminder \/ (\E j \in Jobs : SendReminder(j) \/ SaveReminded(j) \/ Crash(j))
  PROVE  RowKept'
<1>0. UNCHANGED <<session, sent>> /\ JobTypes' /\ user \in User
  BY ReminderShape DEF UserTypes
<1>1. CASE /\ UNCHANGED <<user, mails>> /\ user.exists /\ ~user.reminded
           /\ ~env.overlap => ~Reminding /\ \A w \in Web : session[w] = NoSession
           /\ \E k \in Jobs : /\ job[k] = NoJob /\ job'[k].kind = "remind" /\ job'[k].pc = "sent"
                              /\ \A j \in Jobs \ {k} : job'[j] = job[j]
  <2>1. ~Reminding /\ \A w \in Web : session[w] = NoSession
    BY <1>1 DEF Careful
  <2>2. PICK k \in Jobs : /\ job'[k].kind = "remind" /\ job'[k].pc = "sent"
                          /\ \A j \in Jobs \ {k} : job'[j] = job[j]
    BY <1>1
  <2>3. \A j \in Jobs : job[j].kind # "remind" /\ job[j].pc # "save"
    BY <2>1 DEF Reminding, JobTypes
  <2>4. \A j \in Jobs : job'[j].pc # "save" /\ (job'[j].kind = "remind" => j = k)
    BY <2>2, <2>3
  <2>5. OneReminder' /\ ReminderAsRead' /\ ~Saving' /\ ~Saving
    BY <2>3, <2>4 DEF OneReminder, ReminderAsRead, Saving
  <2>6. ReminderAlone'
    BY <1>0, <1>1, <2>1 DEF ReminderAlone
  <2>7. MailsCounted'
    BY <1>1, <2>5 DEF RowKept, MailsCounted
  <2> QED BY <1>0, <1>1, <2>5, <2>6, <2>7 DEF RowKept, SessionAsRead, ProfileKept
<1>2. ASSUME NEW j \in Jobs, UNCHANGED user, job[j].kind = "remind", job[j].pc = "sent",
             \A k \in Jobs \ {j} : job'[k] = job[k],
             \/ /\ mails' = [mails EXCEPT !.sent = @ + 1] /\ job'[j].kind = "remind"
                /\ job'[j].pc = "save" /\ job'[j].user = user
             \/ MailFailed /\ job'[j] = NoJob
      PROVE  RowKept'
  <2>1. \A k \in Jobs \ {j} : job[k].kind # "remind" /\ job[k].pc # "save" /\ job'[k] = job[k]
    BY <1>2 DEF RowKept, OneReminder, JobTypes
  <2>2. Reminding /\ ~Saving
    BY <1>2, <2>1 DEF Reminding, Saving
  <2>3. /\ user.exists /\ ~user.reminded /\ \A w \in Web : session[w] = NoSession
        /\ mails \in [sent : Nat, lost : Nat] /\ mails.sent = mails.lost
    BY <2>2 DEF RowKept, ReminderAlone, MailsCounted
  <2>4. OneReminder' /\ ReminderAlone'
    BY <1>0, <1>2, <2>1, <2>3 DEF OneReminder, ReminderAlone
  <2>5. CASE mails' = [mails EXCEPT !.sent = @ + 1] /\ job'[j].kind = "remind" /\ job'[j].pc = "save" /\ job'[j].user = user
    <3>1. Saving' /\ ReminderAsRead'
      BY <1>2, <2>1, <2>5 DEF Saving, ReminderAsRead
    <3>2. MailsCounted'
      BY <2>3, <2>5, <3>1 DEF MailsCounted
    <3> QED BY <1>0, <1>2, <2>4, <3>1, <3>2 DEF RowKept, SessionAsRead, ProfileKept
  <2>6. CASE MailFailed /\ job'[j] = NoJob
    <3>1. job'[j].pc # "save"
      BY <2>6 DEF NoJob
    <3>2. ~Saving' /\ ReminderAsRead'
      BY <2>1, <3>1 DEF Saving, ReminderAsRead
    <3>3. MailsCounted'
      BY <1>2, <2>3, <2>6, <3>2 DEF MailsCounted, MailFailed
    <3> QED BY <1>0, <1>2, <2>4, <3>2, <3>3 DEF RowKept, SessionAsRead, ProfileKept
  <2> QED BY <1>2, <2>5, <2>6
<1>3. ASSUME NEW j \in Jobs, UNCHANGED mails, job[j].pc = "save", job[j].kind = "remind",
             user' = [job[j].user EXCEPT !.reminded = TRUE],
             \A k \in Jobs \ {j} : job'[k] = job[k],
             job'[j].kind = "contact", job'[j].pc = "sent"
      PROVE  RowKept'
  <2>1. \A k \in Jobs \ {j} : job[k].kind # "remind" /\ job[k].pc # "save" /\ job'[k] = job[k]
    BY <1>3 DEF RowKept, OneReminder, JobTypes
  <2>2. \A k \in Jobs : job'[k].kind # "remind" /\ job'[k].pc # "save"
    BY <1>3, <2>1
  <2>3. Reminding /\ Saving /\ job[j].user = user
    BY <1>3 DEF Reminding, Saving, RowKept, ReminderAsRead
  <2>4. /\ \A w \in Web : session[w] = NoSession
        /\ mails \in [sent : Nat, lost : Nat] /\ mails.sent = mails.lost + 1
    BY <2>3 DEF RowKept, ReminderAlone, MailsCounted
  <2>5. user'.reminded /\ user'.profile = user.profile
    BY <1>0, <1>3, <2>3, UserValues
  <2>6. OneReminder' /\ ReminderAlone' /\ ReminderAsRead' /\ MailsCounted'
    BY <1>3, <2>2, <2>4, <2>5 DEF OneReminder, ReminderAlone, Reminding, ReminderAsRead, MailsCounted
  <2>7. \A w \in Web : SessionAsRead(w)'
    BY <1>0, <2>4, UserValues DEF SessionAsRead
  <2>8. ProfileKept'
    BY <1>0, <2>5 DEF RowKept, ProfileKept
  <2> QED BY <2>6, <2>7, <2>8 DEF RowKept
<1>4. ~(crashes < env.crashes)
  BY DEF Careful, NoCrash, UserTypes
<1> QED BY <1>1, <1>2, <1>3, <1>4, ReminderShape

LEMMA RowKeptStep ==
  ASSUME JobTypes, UserTypes, Careful, RowKept, [Next]_vars
  PROVE  RowKept'
<1>1. CASE Elsewhere
  <2>1. Plain /\ UNCHANGED <<user, session, sent, mails>>
    BY <1>1 DEF Elsewhere
  <2>2. \A j \in Jobs : /\ job'[j].kind = "remind" <=> job[j].kind = "remind"
                        /\ job'[j].pc = "save" <=> job[j].pc = "save"
                        /\ job[j].pc = "save" => job'[j] = job[j]
    BY <2>1, PlainReminders
  <2>3. Reminding' = Reminding /\ Saving' = Saving
    BY <2>1, PlainReminders
  <2>4. OneReminder' /\ ReminderAsRead'
    BY <2>1, <2>2 DEF RowKept, OneReminder, ReminderAsRead
  <2>5. ReminderAlone' /\ MailsCounted'
    BY <2>1, <2>3 DEF RowKept, ReminderAlone, MailsCounted
  <2>6. (\A w \in Web : SessionAsRead(w)') /\ ProfileKept'
    BY <2>1 DEF RowKept, SessionAsRead, ProfileKept
  <2> QED BY <2>4, <2>5, <2>6 DEF RowKept
<1> QED BY <1>1, UserSteps, RowKeptRequest, RowKeptReminder

UserInv == JobTypes /\ UserTypes /\ (Careful => RowKept)

LEMMA UserInit ==
  ASSUME Init
  PROVE  UserInv
<1>1. /\ env \in Environments /\ user = NoUser /\ sent = 0 /\ session = [w \in Web |-> NoSession]
      /\ job = [j \in Jobs |-> NoJob] /\ mails = [sent |-> 0, lost |-> 0] /\ crashes = 0
  BY DEF Init
<1>2. \A j \in Jobs : job[j] = NoJob /\ job[j].kind = "none" /\ job[j].pc = "sent"
  BY <1>1 DEF NoJob
<1>3. JobTypes
  BY <1>1, <1>2, JobValues DEF JobTypes
<1>4. UserTypes
  BY <1>1, UserValues DEF UserTypes
<1>5. user.reminded = FALSE /\ user.profile = 0
  BY <1>1 DEF NoUser
<1>6. OneReminder /\ ~Reminding /\ ReminderAsRead /\ ~Saving
  BY <1>2 DEF OneReminder, Reminding, ReminderAsRead, Saving
<1>7. \A w \in Web : session[w].pc = "idle"
  BY <1>1, UserValues
<1>8. RowKept
  BY <1>1, <1>5, <1>6, <1>7 DEF RowKept, ReminderAlone, MailsCounted, SessionAsRead, ProfileKept
<1> QED BY <1>3, <1>4, <1>8 DEF UserInv

LEMMA UserStep ==
  ASSUME UserInv, [Next]_vars
  PROVE  UserInv'
<1>1. env' = env /\ JobTypes' /\ UserTypes'
  BY UserTypesStep DEF UserInv
<1>2. ASSUME Careful' PROVE RowKept'
  <2>1. Careful
    BY <1>1, <1>2 DEF Careful, Sole, NoCrash
  <2> QED BY <2>1, RowKeptStep DEF UserInv
<1> QED BY <1>1, <1>2 DEF UserInv

LEMMA UserConsequence ==
  ASSUME UserInv
  PROVE  UserRowKept
<1>1. SUFFICES ASSUME Careful PROVE /\ mails.sent <= 1 + mails.lost
                                    /\ (\A w \in Web : session[w] = NoSession) => user.profile = sent
  BY DEF UserRowKept, Careful
<1>2. RowKept
  BY <1>1 DEF UserInv
<1>3. mails.sent <= 1 + mails.lost
  BY <1>2 DEF RowKept, MailsCounted
<1>4. (\A w \in Web : session[w] = NoSession) => user.profile = sent
  BY <1>2, UserValues DEF RowKept, ProfileKept
<1> QED BY <1>3, <1>4

\* With one request at a time, no overlap and no crash a customer is reminded once at most,
\* but for mails that were taken for failed, and has the profile that was sent last.
THEOREM UserRowIsKept == Spec => []UserRowKept
<1>1. Init => UserInv
  BY UserInit
<1>2. UserInv /\ [Next]_vars => UserInv'
  BY UserStep
<1>3. UserInv => UserRowKept
  BY UserConsequence
<1> QED BY <1>1, <1>2, <1>3, PTL DEF Spec

(***************************************************************************)
(* The customer.  One task works at a time, so none is between its check   *)
(* of the payments and its update when a deal is won; from then on no      *)
(* check finds the payments missing.                                       *)
(***************************************************************************)
Payments == [Docs -> {"none", "open", "completed"}]
Patient  == env.workers = 1 /\ NoCrash
OneWorks == \A j, k \in Working : j = k
DealWaits == \E j \in Jobs : job[j].kind = "deal"
Won       == hub = "customer" /\ \A j \in Jobs : job[j].pc # "update"
StageInv  == OneWorks /\ (HasPaid /\ ~gaveUp => DealWaits \/ Won)

\* What the steps do that are not a task's.
Joins == \A j \in Jobs : \/ job'[j] = job[j]
                         \/ job[j] = NoJob /\ job'[j].pc = "sent"

LEMMA PaidTypes == Init => payment \in Payments
  BY DEF Init, Payments

LEMMA PaidTypesStep ==
  ASSUME payment \in Payments, [Next]_vars
  PROVE  payment' \in Payments
<1>1. ASSUME NEW d \in Docs, Buy(d) \/ CompletePayment(d) PROVE payment' \in Payments
  BY <1>1 DEF Buy, CompletePayment, Payments
<1>2. ASSUME NEW w \in Web, Delete(w) PROVE payment' \in Payments
  BY <1>2 DEF Delete, Payments
<1>3. CASE UNCHANGED payment
  BY <1>3
<1>4. ASSUME NEW j \in Jobs, JobStep(j) \/ Crash(j) PROVE UNCHANGED payment
  BY <1>4 DEF JobStep, Crash, SendReminder, SaveReminded, CreatePromoCodes, SendGiftMail,
              CreateContact, FindContact, CreateDeal, CheckPayments, UpdateStage, paidVars
<1>5. CASE UNCHANGED vars
  BY <1>5 DEF vars, paidVars
<1>6. CASE BuyGift \/ ScheduleReminder
  BY <1>6 DEF BuyGift, ScheduleReminder, paidVars
<1>7. ASSUME NEW w \in Web, \/ Authenticate(w) \/ GetOrCreateUser(w) \/ FillNames(w) \/ OpenProfile(w)
                            \/ SaveProfile(w) \/ RequestDoc(w) \/ Complete(w)
      PROVE  UNCHANGED payment
  BY <1>7 DEF Authenticate, GetOrCreateUser, FillNames, OpenProfile, SaveProfile, RequestDoc, Complete, paidVars
<1> QED BY <1>1, <1>2, <1>3, <1>4, <1>5, <1>6, <1>7 DEF Next

LEMMA SendJoins ==
  ASSUME JobTypes, NEW kind \in Kinds, Send(kind)
  PROVE  Joins /\ \E j \in Jobs : job'[j].kind = kind
<1>1. PICK k \in Jobs : /\ job[k] = NoJob
                        /\ job' = [j \in Jobs |-> IF j = k THEN NewJob(kind) ELSE job[j]]
  BY SentOne
<1>2. job'[k].kind = kind /\ job'[k].pc = "sent"
  BY <1>1, JobValues
<1> QED BY <1>1, <1>2 DEF Joins

LEMMA GiftJoins ==
  ASSUME JobTypes, BuyGift
  PROVE  Joins
<1> DEFINE Nth(j) == Cardinality({k \in Place(3) : k <= j})
<1>1. CanSend(3) /\ job' = [j \in Jobs |-> IF j \in Place(3) THEN NewJob(GiftTasks[Nth(j)]) ELSE job[j]]
  BY DEF BuyGift, NewJob
<1> HIDE DEF Nth
<1>2. \A kind : NewJob(kind).pc = "sent"
  BY DEF NewJob, NoJob
<1>3. \A j \in Place(3) : job[j] = NoJob
  BY <1>1, Placed DEF Free
<1> QED BY <1>1, <1>2, <1>3 DEF Joins

LEMMA StageJoin ==
  ASSUME JobTypes, StageInv, UNCHANGED <<hub, gaveUp>>, Joins, HasPaid' => HasPaid \/ DealWaits'
  PROVE  StageInv'
<1>1. \A j \in Jobs : job[j] = NoJob => job[j].pc = "sent" /\ job[j].kind = "none"
  BY DEF NoJob
<1>2. Working' \subseteq Working
  BY DEF Joins, Working
<1>3. DealWaits => DealWaits'
  BY <1>1 DEF DealWaits, Joins
<1>4. Won => Won'
  BY DEF Won, Joins
<1> QED BY <1>2, <1>3, <1>4 DEF StageInv, OneWorks

\* A task is taken when no other is at work, and only a deal that is won or given up takes itself
\* out of the queue.
LEMMA StageWork ==
  ASSUME JobTypes, StageInv, NEW j \in Jobs,
         \A k \in Jobs \ {j} : job'[k] = job[k],
         job'[j].pc = "sent" \/ Working \subseteq {j},
         payment' = payment, gaveUp => gaveUp',
         \/ gaveUp' \/ job[j].kind # "deal" \/ job'[j].kind = "deal"
         \/ hub' = "customer" /\ j \in Working,
         HasPaid => job'[j].pc # "update",
         hub = "customer" /\ job[j].pc # "update" => hub' = "customer"
  PROVE  StageInv'
<1>1. OneWorks'
  BY DEF StageInv, OneWorks, Working
<1>2. ASSUME HasPaid', ~gaveUp' PROVE DealWaits' \/ Won'
  <2>1. HasPaid /\ ~gaveUp
    BY <1>2 DEF HasPaid
  <2>2. CASE Won
    BY <2>1, <2>2 DEF Won
  <2>3. ASSUME NEW k \in Jobs, job[k].kind = "deal" PROVE DealWaits' \/ Won'
    <3>1. CASE job'[k].kind = "deal"
      BY <3>1 DEF DealWaits
    <3>2. CASE job'[k].kind # "deal"
      <4>1. k = j /\ hub' = "customer" /\ j \in Working
        BY <1>2, <2>3, <3>2
      <4>2. \A i \in Jobs \ {j} : job[i].pc = "sent"
        BY <4>1 DEF StageInv, OneWorks, Working
      <4> QED BY <2>1, <4>1, <4>2 DEF Won
    <3> QED BY <3>1, <3>2
  <2> QED BY <2>1, <2>2, <2>3 DEF StageInv, DealWaits
<1> QED BY <1>1, <1>2 DEF StageInv

LEMMA NoneAtWork ==
  ASSUME JobTypes, env.workers = 1, NEW j \in Jobs, NEW kind, Takes(j, kind)
  PROVE  Working = {}
<1>1. IsFiniteSet(Working)
  <2>1. IsFiniteSet(Jobs)
    BY AccountsAssumption, FS_Interval DEF Jobs
  <2> QED BY <2>1, FS_Subset DEF Working
<1>2. Cardinality(Working) \in Nat /\ Cardinality(Working) < 1
  BY <1>1, FS_CardinalityType DEF Takes
<1>3. Cardinality(Working) = 0
  BY <1>2
<1> QED BY <1>1, <1>3, FS_EmptySet

LEMMA Finished ==
  ASSUME JobTypes, NEW j \in Jobs, Finish(j)
  PROVE  job'[j] = NoJob /\ job'[j].pc = "sent" /\ \A k \in Jobs \ {j} : job'[k] = job[k]
  BY DEF Finish, JobTypes, NoJob

LEMMA Retried ==
  ASSUME JobTypes, NEW j \in Jobs, Retry(j) \/ GiveUp(j)
  PROVE  /\ job'[j].pc = "sent" /\ \A k \in Jobs \ {j} : job'[k] = job[k]
         /\ gaveUp => gaveUp'
         /\ gaveUp' \/ job'[j].kind = job[j].kind
<1>1. CASE Finish(j) /\ gaveUp' = TRUE
  BY <1>1, Finished
<1>2. CASE /\ job' = [job EXCEPT ![j] = [NoJob EXCEPT !.kind = job[j].kind, !.tries = job[j].tries + 1]]
           /\ UNCHANGED gaveUp
  <2>1. job'[j] = [NoJob EXCEPT !.kind = job[j].kind, !.tries = job[j].tries + 1]
    BY <1>2 DEF JobTypes
  <2>2. job'[j].pc = "sent" /\ job'[j].kind = job[j].kind
    BY <2>1 DEF NoJob
  <2> QED BY <1>2, <2>2 DEF JobTypes
<1> QED BY <1>1, <1>2 DEF Retry, GiveUp

LEMMA StageTask ==
  ASSUME JobTypes, StageInv, env.workers = 1, NEW j \in Jobs, JobStep(j)
  PROVE  StageInv'
<1>1. job[j].pc # "sent" => Working \subseteq {j}
  BY DEF StageInv, OneWorks, Working
<1>2. CASE SendReminder(j)
  <2>1. payment' = payment /\ UNCHANGED <<hub, gaveUp>> /\ job[j].kind = "remind" /\ Working = {}
    BY <1>2, NoneAtWork DEF SendReminder, paidVars, hubVars, Takes
  <2>2. CASE job' = [job EXCEPT ![j].pc = "save", ![j].user = user]
    <3>1. job'[j].pc = "save" /\ \A k \in Jobs \ {j} : job'[k] = job[k]
      BY <2>2 DEF JobTypes, Job
    <3> QED BY <2>1, <3>1, StageWork
  <2>3. CASE Finish(j)
    BY <2>1, <2>3, Finished, StageWork
  <2> QED BY <1>2, <2>2, <2>3 DEF SendReminder
<1>3. CASE SaveReminded(j)
  <2>1. payment' = payment /\ UNCHANGED <<hub, gaveUp>> /\ job[j].kind = "remind"
    BY <1>3 DEF SaveReminded, paidVars, hubVars, JobTypes
  <2>2. job' = [job EXCEPT ![j] = NewJob("contact")] /\ NewJob("contact").pc = "sent"
    BY <1>3 DEF SaveReminded, NewJob, NoJob
  <2>3. job'[j].pc = "sent" /\ \A k \in Jobs \ {j} : job'[k] = job[k]
    BY <2>2 DEF JobTypes
  <2> QED BY <2>1, <2>3, StageWork
<1>4. CASE CreatePromoCodes(j)
  <2>1. payment' = payment /\ UNCHANGED <<hub, gaveUp>> /\ job[j].kind = "promo"
    BY <1>4 DEF CreatePromoCodes, hubVars, Takes
  <2>2. CASE job' = [job EXCEPT ![j] = NewJob("giftmail")]
    <3>1. NewJob("giftmail").pc = "sent"
      BY DEF NewJob, NoJob
    <3>2. job'[j].pc = "sent" /\ \A k \in Jobs \ {j} : job'[k] = job[k]
      BY <2>2, <3>1 DEF JobTypes
    <3> QED BY <2>1, <3>2, StageWork
  <2>3. CASE Finish(j)
    BY <2>1, <2>3, Finished, StageWork
  <2> QED BY <1>4, <2>2, <2>3 DEF CreatePromoCodes, NewJob
<1>5. CASE SendGiftMail(j)
  <2>1. payment' = payment /\ UNCHANGED <<hub, gaveUp>> /\ job[j].kind = "giftmail" /\ Finish(j)
    BY <1>5 DEF SendGiftMail, hubVars, Takes
  <2> QED BY <2>1, Finished, StageWork
<1>6. CASE CreateContact(j)
  <2>1. payment' = payment /\ job[j].kind = "contact"
    BY <1>6 DEF CreateContact, paidVars, Takes
  <2>2. (hub = "customer" => Contacted = "customer")
    BY DEF Contacted, HasContact, NoContact
  <2>3. CASE Answer(j, Contacted)
    BY <2>1, <2>2, <2>3, Finished, StageWork DEF Answer
  <2>4. CASE Error(j, Contacted)
    BY <2>1, <2>2, <2>4, Retried, StageWork DEF Error
  <2> QED BY <1>6, <2>3, <2>4 DEF CreateContact
<1>7. CASE FindContact(j)
  <2>1. payment' = payment /\ job[j].kind = "deal" /\ Working = {}
    BY <1>7, NoneAtWork DEF FindContact, paidVars, Takes
  <2>2. CASE job' = [job EXCEPT ![j].pc = "found"] /\ UNCHANGED hubVars
    <3>1. job'[j].pc = "found" /\ job'[j].kind = "deal" /\ \A k \in Jobs \ {j} : job'[k] = job[k]
      BY <2>1, <2>2 DEF JobTypes, Job
    <3> QED BY <2>1, <2>2, <3>1, StageWork DEF hubVars
  <2>3. CASE (Retry(j) \/ GiveUp(j)) /\ hub' = hub
    BY <2>1, <2>3, Retried, StageWork
  <2> QED BY <1>7, <2>2, <2>3 DEF FindContact, Error
<1>8. CASE CreateDeal(j)
  <2>1. payment' = payment /\ job[j].kind = "deal" /\ j \in Working
    BY <1>8 DEF CreateDeal, paidVars, JobTypes, Working
  <2>2. CASE Answer(j, "customer")
    BY <2>1, <2>2, Finished, StageWork DEF Answer
  <2>3. CASE Error(j, "customer")
    BY <2>1, <2>3, Retried, StageWork DEF Error
  <2> QED BY <1>8, <2>2, <2>3 DEF CreateDeal
<1>9. CASE CheckPayments(j)
  <2>1. payment' = payment /\ UNCHANGED <<hub, gaveUp>> /\ job[j].kind = "opportunity" /\ Working = {}
    BY <1>9, NoneAtWork DEF CheckPayments, paidVars, hubVars, Takes
  <2>2. CASE ~HasPaid /\ job' = [job EXCEPT ![j].pc = "update"]
    <3>1. \A k \in Jobs \ {j} : job'[k] = job[k]
      BY <2>2 DEF JobTypes
    <3> QED BY <2>1, <2>2, <3>1, StageWork
  <2>3. CASE Finish(j)
    BY <2>1, <2>3, Finished, StageWork
  <2> QED BY <1>9, <2>2, <2>3 DEF CheckPayments
<1>10. CASE UpdateStage(j)
  <2>1. payment' = payment /\ job[j].kind = "opportunity" /\ job[j].pc = "update"
    BY <1>10 DEF UpdateStage, paidVars, JobTypes
  <2>2. CASE Answer(j, "opportunity")
    BY <2>1, <2>2, Finished, StageWork DEF Answer
  <2>3. CASE Retry(j) \/ GiveUp(j)
    BY <2>1, <2>3, Retried, StageWork
  <2> QED BY <1>10, <2>2, <2>3 DEF UpdateStage, Error
<1> QED BY <1>2, <1>3, <1>4, <1>5, <1>6, <1>7, <1>8, <1>9, <1>10 DEF JobStep

LEMMA StageElse ==
  ASSUME JobTypes, StageInv, payment \in Payments,
         \/ \E w \in Web : \/ Authenticate(w) \/ GetOrCreateUser(w) \/ FillNames(w)
                           \/ OpenProfile(w) \/ SaveProfile(w)
                           \/ RequestDoc(w) \/ Delete(w) \/ Complete(w)
         \/ \E d \in Docs : Buy(d) \/ CompletePayment(d)
         \/ BuyGift \/ ScheduleReminder \/ UNCHANGED vars
  PROVE  StageInv'
<1>0. {"contact", "deal", "opportunity", "remind"} \subseteq Kinds
  BY DEF Kinds
<1>1. UNCHANGED job => Joins
  BY DEF Joins
<1>2. UNCHANGED payment => (HasPaid' => HasPaid)
  BY DEF HasPaid
<1>3. CASE UNCHANGED vars
  BY <1>1, <1>2, <1>3, StageJoin DEF vars, paidVars, jobVars, hubVars
<1>4. ASSUME NEW w \in Web, \/ Authenticate(w) \/ GetOrCreateUser(w) \/ FillNames(w) \/ OpenProfile(w)
                            \/ SaveProfile(w) \/ RequestDoc(w) \/ Complete(w)
      PROVE  StageInv'
  <2>1. UNCHANGED <<payment, hub, gaveUp>>
    BY <1>4 DEF Authenticate, GetOrCreateUser, FillNames, OpenProfile, SaveProfile, RequestDoc, Complete,
                paidVars, jobVars, hubVars
  <2>2. UNCHANGED job \/ Send("contact") \/ Send("opportunity")
    BY <1>4 DEF Authenticate, GetOrCreateUser, FillNames, OpenProfile, SaveProfile, RequestDoc, Complete,
                SaveUser, jobVars
  <2> QED BY <1>0, <1>1, <1>2, <2>1, <2>2, SendJoins, StageJoin
<1>5. ASSUME NEW w \in Web, Delete(w) PROVE StageInv'
  <2>1. UNCHANGED <<job, hub, gaveUp>> /\ (HasPaid' => HasPaid)
    BY <1>5 DEF Delete, HasPaid, jobVars, hubVars
  <2> QED BY <1>1, <2>1, StageJoin
<1>6. ASSUME NEW d \in Docs, Buy(d) PROVE StageInv'
  <2>1. UNCHANGED <<job, hub, gaveUp>> /\ (HasPaid' => HasPaid)
    BY <1>6 DEF Buy, HasPaid, jobVars, hubVars, Payments
  <2> QED BY <1>1, <2>1, StageJoin
<1>7. ASSUME NEW d \in Docs, CompletePayment(d) PROVE StageInv'
  <2>1. UNCHANGED <<hub, gaveUp>> /\ Joins /\ DealWaits'
    BY <1>0, <1>7, SendJoins DEF CompletePayment, hubVars, DealWaits
  <2> QED BY <2>1, StageJoin
<1>8. CASE BuyGift
  BY <1>2, <1>8, GiftJoins, StageJoin DEF BuyGift, hubVars
<1>9. CASE ScheduleReminder
  BY <1>0, <1>2, <1>9, SendJoins, StageJoin DEF ScheduleReminder, hubVars, paidVars
<1> QED BY <1>3, <1>4, <1>5, <1>6, <1>7, <1>8, <1>9

\* With one worker that does not die, and tasks that are overtaken, refused and repeated as often
\* as they are, who has paid is a customer once the deal is through.
THEOREM CustomersAreKept == Spec => []CustomerKept
<1> DEFINE Inv == UserInv /\ payment \in Payments /\ (Patient => StageInv)
<1>1. Init => Inv
  <2> SUFFICES ASSUME Init PROVE StageInv
    BY UserInit, PaidTypes
  <2>1. Working = {} /\ ~HasPaid
    BY DEF Init, Working, NoJob, HasPaid
  <2> QED BY <2>1 DEF StageInv, OneWorks
<1>2. Inv /\ [Next]_vars => Inv'
  <2> SUFFICES ASSUME Inv, [Next]_vars PROVE Inv'
    OBVIOUS
  <2>1. UserInv' /\ env' = env
    BY UserStep, UserTypesStep DEF UserInv
  <2>2. payment' \in Payments
    BY PaidTypesStep
  <2>3. ASSUME Patient' PROVE StageInv'
    <3>1. Patient /\ StageInv /\ JobTypes
      BY <2>1, <2>3 DEF Patient, NoCrash, UserInv
    <3>2. ASSUME NEW j \in Jobs, Crash(j) PROVE FALSE
      BY <3>1, <3>2 DEF Crash, Patient, NoCrash, UserInv, UserTypes
    <3> QED BY <3>1, <3>2, StageTask, StageElse DEF Next, Patient
  <2> QED BY <2>1, <2>2, <2>3
<1>3. Inv => CustomerKept
  BY DEF StageInv, DealWaits, Won, Patient, CustomerKept
<1> QED BY <1>1, <1>2, <1>3, PTL DEF Spec
=============================================================================
