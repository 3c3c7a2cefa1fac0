--------------------------------- MODULE Drafts ---------------------------------
(***************************************************************************)
(* The questionnaires and the drafts of one account, with their parents    *)
(* (app/core/views.py, app/core/models/questionnaire.py).  A request reads *)
(* the row it is about, looks at what it needs besides, and writes: the    *)
(* rows may change in between.  What the answers are does not matter here, *)
(* only whether AnswerSchema accepts them, as they are complete, and       *)
(* whether they have words of the negative dataset.                        *)
(***************************************************************************)
EXTENDS Integers, FiniteSets

CONSTANTS
    LastDoc,    \* questionnaires and drafts are numbered as they come up: 1, 2, ... (bound)
    Web         \* requests that may be served at one time

ASSUME DraftsAssumption == LastDoc \in Nat /\ IsFiniteSet(Web)

Docs    == 1..LastDoc
None    == 0
Answers == {"partial", "complete", "negative"}

VARIABLES
    doc,        \* [Docs -> the row of Questionnaire or DraftQuestionnaire, if it is there]
    docs,       \* how many have been inserted
    request     \* [Web -> the request under way: what it does, and what it has read]

draftVars == <<doc, docs, request>>

\* number: of a child, as its name says; draft: which one the questionnaire was completed from
NoDoc == [kind |-> "none", parent |-> None, number |-> 0, answers |-> "partial", draft |-> None]
Doc   == [kind : {"questionnaire", "draft"}, parent : Docs \cup {None}, number : Nat,
          answers : Answers, draft : Docs \cup {None}]
NoRequest == [pc |-> "idle", id |-> None, row |-> NoDoc, number |-> 0]

Questionnaires == {d \in Docs : doc[d].kind = "questionnaire"}
DraftDocs      == {d \in Docs : doc[d].kind = "draft"}
Children(d)    == {c \in Docs : doc[c].kind # "none" /\ doc[c].parent = d}
Family(d)      == {d} \cup Children(d)

\* What the page of a questionnaire lists as related: its children, and its parent's others.
Siblings(d) == IF doc[d].parent = None THEN {} ELSE (Children(doc[d].parent) \cap Questionnaires) \ {d}
Related(d)  == (Children(d) \cap Questionnaires) \cup Siblings(d)

InitDrafts ==
    /\ doc = [d \in Docs |-> NoDoc] /\ docs = 0
    /\ request = [w \in Web |-> NoRequest]

-----------------------------------------------------------------------------
\* Of the foreign key to the parent.
Parented(row) == row.parent = None \/ row.parent \in Questionnaires
At(w, pc) == request[w].pc = pc
Done(w)   == request' = [request EXCEPT ![w] = NoRequest]

Insert(row, d) == docs < LastDoc /\ docs' = docs + 1 /\ doc' = [d EXCEPT ![docs + 1] = row]

\* A draft may be saved as it is, a questionnaire only with all answers; a request with other
\* answers is refused and leaves nothing.
HasNegative(answers)          == answers = "negative"
AcceptsDraft(answers)         == ~HasNegative(answers)
AcceptsQuestionnaire(answers) == ~HasNegative(answers) /\ answers = "complete"
Accepts(kind, answers) ==
    IF kind = "draft" THEN AcceptsDraft(answers) ELSE AcceptsQuestionnaire(answers)

CreateDraft(answers) ==
    /\ AcceptsDraft(answers)
    /\ Insert([NoDoc EXCEPT !.kind = "draft", !.answers = answers], doc) /\ UNCHANGED request
CreateQuestionnaire(answers) ==
    /\ AcceptsQuestionnaire(answers)
    /\ Insert([NoDoc EXCEPT !.kind = "questionnaire", !.answers = answers], doc) /\ UNCHANGED request

\* get_object, with the owner's permission
Get(w, pc, d) ==
    /\ At(w, "idle")
    /\ request' = [request EXCEPT ![w] = [NoRequest EXCEPT !.pc = pc, !.id = d, !.row = doc[d]]]
    /\ UNCHANGED <<doc, docs>>
GetDoc(w) ==
    \/ \E d \in DraftDocs : \E pc \in {"complete", "edit", "delete"} : Get(w, pc, d)
    \/ \E d \in Questionnaires : \E pc \in {"edit", "delete", "child"} : Get(w, pc, d)

\* A PUT saves the whole row, and inserts it again if it has been deleted.
SaveDoc(w) ==
    /\ At(w, "edit")
    /\ \E answers \in Answers :
        doc' = IF Accepts(request[w].row.kind, answers) /\ Parented(request[w].row)
               THEN [doc EXCEPT ![request[w].id] = [request[w].row EXCEPT !.answers = answers]]
               ELSE doc
    /\ Done(w) /\ UNCHANGED docs

\* Its children go with it.
DeleteDoc(w) ==
    /\ At(w, "delete")
    /\ doc' = [d \in Docs |-> IF d \in Family(request[w].id) THEN NoDoc ELSE doc[d]]
    /\ Done(w) /\ UNCHANGED docs

-----------------------------------------------------------------------------
(* CompleteDraft *)

ReadyToComplete(row) == row.answers = "complete"
Completes(w) == ReadyToComplete(request[w].row) /\ Parented(request[w].row)
WithoutDraft_Kept(w) == doc
WithoutDraft(w) == [doc EXCEPT ![request[w].id] = NoDoc]

\* The questionnaire is made of the draft that was read; one transaction deletes the draft,
\* whether or not it is still there.
CompleteDraft(w) ==
    /\ At(w, "complete")
    /\ IF Completes(w)
       THEN Insert([request[w].row EXCEPT !.kind = "questionnaire", !.draft = request[w].id], WithoutDraft(w))
       ELSE UNCHANGED <<doc, docs>>
    /\ Done(w)

-----------------------------------------------------------------------------
(* create_child *)

Root(w) == IF request[w].row.parent = None THEN request[w].id ELSE request[w].row.parent

\* amount_of_children: the questionnaires and the drafts, in two queries.
CountQuestionnaires(w) ==
    /\ At(w, "child")
    /\ request' = [request EXCEPT ![w].pc = "count",
                       ![w].number = Cardinality(Children(Root(w)) \cap Questionnaires)]
    /\ UNCHANGED <<doc, docs>>
CountDrafts(w) ==
    /\ At(w, "count")
    /\ request' = [request EXCEPT ![w].pc = "insert",
                       ![w].number = @ + Cardinality(Children(Root(w)) \cap DraftDocs) + 1]
    /\ UNCHANGED <<doc, docs>>

\* A draft, even with all the answers.
InsertChild(w) ==
    LET child == [kind |-> "draft", parent |-> Root(w), number |-> request[w].number,
                  answers |-> request[w].row.answers, draft |-> None]
    IN  /\ At(w, "insert")
        /\ IF Parented(child) THEN Insert(child, doc) ELSE UNCHANGED <<doc, docs>>
        /\ Done(w)
=============================================================================
