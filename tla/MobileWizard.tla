---------------------------- MODULE MobileWizard ----------------------------
(***************************************************************************)
(* The agreement wizard of the mobile application before consent: the      *)
(* in-memory draft (agreementStore.ts), the mounted step layouts with      *)
(* their stacks of screens (steps/_layout.tsx), the copy in SQLite (use-   *)
(* DraftPersistence.ts, db/drafts.ts), and the server's copy of the        *)
(* details.                                                                *)
(*                                                                         *)
(* One store serves all agreements.  A draft is opened by the answer to a  *)
(* request, wherever the user has gone meanwhile: a layout pushed over the *)
(* layout of another agreement leaves that one mounted, and both persist   *)
(* every change of the store.                                              *)
(*                                                                         *)
(* A persist of the hook is a chain of SQL statements whose results come   *)
(* back to JavaScript between them; chains of different persists inter-    *)
(* leave, and the statements run in the order in which they were issued.   *)
(* What the forms hold is left out: of a draft the model knows whether it  *)
(* has details, of a row whose it is.  SQLite and the server survive Kill. *)
(***************************************************************************)
EXTENDS Integers, Sequences, SequencesExt, FiniteSetsExt

CONSTANTS
    Agreements,
    NoAgreement,
    MaxVisits,    \* bound: layouts mounted by cards and the new agreement screen
    MaxPending,   \* bound: SQL statements waiting
    MaxRows,      \* bound: rows of drafts
    MaxDepth      \* bound: step screens mounted, in all layouts

ASSUME MobileWizardAssumption ==
    /\ NoAgreement \notin Agreements
    /\ {MaxVisits, MaxPending, MaxRows, MaxDepth} \subseteq Nat

VARIABLES
    server,   \* agreement -> whether it exists, and field_data is filled in
    store,    \* useAgreementStore
    view,     \* the mounted StepsLayouts, the one shown last, with their refs
    visits,   \* layouts mounted so far
    rows,     \* table drafts, least recently updated first
    stmts,    \* SQL statements issued and not yet run
    opening,  \* answers to getAgreement and createDraft on their way
    patches,  \* updateAgreement calls in flight
    mixed     \* history: the agreements one layout was given the draft of after another's

drafts == <<store, view, visits, stmts, mixed>>
vars == <<server, store, view, visits, rows, stmts, opening, patches, mixed>>

Records == {"absent", "empty", "filled", "deleted"}
DraftsOnServer == {"empty", "filled"}
Steps == 0 .. 4                        \* parties, details, evidence, review, consent
Details == 1
Evidence == 2
Review == 3

EmptyStore == [id |-> NoAgreement, step |-> 0]
Top == Last(view)
StepOf(v) == Last(Last(v).stack)
At(k) == view # <<>> /\ StepOf(view) = k

Ids == Agreements \cup {NoAgreement}
Stores == [id : Ids, step : Steps]
Layouts == [id : Agreements, stack : Seq(Steps), visit : Nat, row : Nat, ref : Ids]
DraftRows == [id : Nat, agreement : Agreements]
Statements == [kind : {"find", "insert", "update"}, visit : Nat, row : Nat,
               agreement : Agreements]
Answers == [id : Agreements, step : Steps]
Requests == [id : Agreements, heard : BOOLEAN]

TypeOK ==
    /\ server \in [Agreements -> Records]
    /\ store \in Stores /\ view \in Seq(Layouts) /\ visits \in Nat
    /\ rows \in Seq(DraftRows) /\ stmts \in Seq(Statements)
    /\ opening \subseteq Answers /\ patches \in Seq(Requests)
    /\ mixed \subseteq Agreements

Init ==
    /\ server = [a \in Agreements |-> "absent"]
    /\ store = EmptyStore
    /\ view = <<>> /\ visits = 0
    /\ rows = <<>> /\ stmts = <<>>
    /\ opening = {} /\ patches = <<>>
    /\ mixed = {}

\* The bounds hold back what the user does, never an answer or a statement.
Calm == Len(stmts) < MaxPending /\ Len(rows) < MaxRows
Screens == FlattenSeq([i \in DOMAIN view |-> view[i].stack])
Room == Len(Screens) < MaxDepth /\ Calm

\* What the review leads to may lie one screen deeper.
RoomAtReview == At(Review) /\ Len(Screens) <= MaxDepth /\ Calm

-----------------------------------------------------------------------------
(* useDraftPersistence.                                                      *)

\* The first statement of a persist: with a known row it is updated, without
\* one the agreement's row is looked for.
Persist(l, s) == [kind |-> IF l.row = 0 THEN "find" ELSE "update", visit |-> l.visit,
                  row |-> l.row, agreement |-> s.id]

\* The row is forgotten when the draft in the store is another agreement's.
RefFor(l, s) ==
    IF s.id # NoAgreement /\ l.ref # s.id THEN [l EXCEPT !.ref = s.id, !.row = 0] ELSE l

\* The effects of the layouts v given the store s.
Refs(v, s) == [i \in DOMAIN v |-> RefFor(v[i], s)]
Persists(v, s) == [i \in DOMAIN v |-> Persist(RefFor(v[i], s), s)]

\* Another draft than the one the layout persisted before.
Mixes(v, s) ==
    IF s.id = NoAgreement THEN {}
    ELSE UNION {{l.ref, s.id} : l \in {m \in Range(v) : m.ref \notin {s.id, NoAgreement}}}

\* The layouts old stay and fresh ones mount; the effect of a mounted one runs
\* when the store has changed.
Render(old, fresh, s, changed) ==
    /\ store' = s
    /\ view' = Refs(old \o fresh, s)
    /\ visits' = visits + Len(fresh)
    /\ stmts' = IF s.id = NoAgreement THEN stmts
                ELSE stmts \o Persists(IF changed THEN old \o fresh ELSE fresh, s)
    /\ mixed' = mixed \cup Mixes(old, s)

\* Mutant of Located: the ref is shared by all instances.
LocatedByAny(s, row) == view' = [i \in DOMAIN view |-> [view[i] EXCEPT !.row = row]]

\* What a statement found or inserted is kept in the ref of its own instance,
\* whichever draft that persists by now.
Located(s, row) ==
    view' = [i \in DOMAIN view |->
                IF view[i].visit = s.visit THEN [view[i] EXCEPT !.row = row] ELSE view[i]]

RowsOf(a) == {i \in DOMAIN rows : rows[i].agreement = a}
RowsWith(id) == {i \in DOMAIN rows : rows[i].id = id}

\* getDraftByAgreementId gives the row updated last; it is then updated.
FindFound ==
    /\ stmts # <<>>
    /\ Head(stmts).kind = "find"
    /\ RowsOf(Head(stmts).agreement) # {}
    /\ LET row == rows[Max(RowsOf(Head(stmts).agreement))].id IN
        /\ Located(Head(stmts), row)
        /\ stmts' = Append(Tail(stmts), [Head(stmts) EXCEPT !.kind = "update", !.row = row])
    /\ UNCHANGED <<server, store, visits, rows, opening, patches, mixed>>

\* Mutant of FindNothing: nothing is inserted.
FindNothingOnly ==
    /\ stmts # <<>>
    /\ Head(stmts).kind = "find"
    /\ RowsOf(Head(stmts).agreement) = {}
    /\ stmts' = Tail(stmts)
    /\ UNCHANGED <<server, store, view, visits, rows, opening, patches, mixed>>

FindNothing ==
    /\ stmts # <<>>
    /\ Head(stmts).kind = "find"
    /\ RowsOf(Head(stmts).agreement) = {}
    /\ stmts' = Append(Tail(stmts), [Head(stmts) EXCEPT !.kind = "insert"])
    /\ UNCHANGED <<server, store, view, visits, rows, opening, patches, mixed>>

SaveDraft ==
    /\ stmts # <<>>
    /\ Head(stmts).kind = "insert"
    /\ LET s == Head(stmts)  row == Len(rows) + 1 IN
        /\ rows' = Append(rows, [id |-> row, agreement |-> s.agreement])
        /\ Located(s, row)
    /\ stmts' = Tail(stmts)
    /\ UNCHANGED <<server, store, visits, opening, patches, mixed>>

\* The row becomes the one updated last; no row is ever deleted.
UpdateDraft ==
    /\ stmts # <<>>
    /\ Head(stmts).kind = "update"
    /\ \E i \in RowsWith(Head(stmts).row) :
            rows' = Append(RemoveAt(rows, i),
                           [id |-> Head(stmts).row, agreement |-> Head(stmts).agreement])
    /\ stmts' = Tail(stmts)
    /\ UNCHANGED <<server, store, view, visits, opening, patches, mixed>>

RunStatement == FindFound \/ FindNothing \/ SaveDraft \/ UpdateDraft

-----------------------------------------------------------------------------
(* The home screen, and the screen of a new agreement.                       *)

\* router.push goes on in the layout shown when that is the agreement's, and
\* mounts another over it when not.
Goto(a, k, s, changed) ==
    IF view # <<>> /\ Top.id = a
    THEN Render([view EXCEPT ![Len(view)].stack = Append(@, k)], <<>>, s, changed)
    ELSE Render(view, <<[id |-> a, stack |-> <<k>>, visit |-> visits + 1, row |-> 0,
                         ref |-> NoAgreement]>>, s, changed)

\* A card whose request is under way cannot be pressed; another's can.
MayOpen(a) ==
    /\ view = <<>> /\ Calm
    /\ visits + Cardinality(opening) < MaxVisits
    /\ \A o \in opening : o.id # a

\* useCreateDraft: the answer leads to the new agreement's parties step.
NewDraft(a) ==
    /\ MayOpen(a) /\ server[a] = "absent"
    /\ server' = [server EXCEPT ![a] = "empty"]
    /\ opening' = opening \cup {[id |-> a, step |-> 0]}
    /\ UNCHANGED <<rows, patches, drafts>>

\* getDraftResumeStep: whether the parties are verified is the server's answer.
ResumeStep(a, ready) == IF ~ready THEN 0 ELSE IF server[a] = "empty" THEN Details ELSE Evidence

\* A press on a draft's card asks for the server's copy.
OpenDraft(a, ready) ==
    /\ MayOpen(a) /\ server[a] \in DraftsOnServer
    /\ opening' = opening \cup {[id |-> a, step |-> ResumeStep(a, ready)]}
    /\ UNCHANGED <<server, rows, patches, drafts>>

\* The answer loads the store (initDraft, hydrateDraft) and opens the step,
\* over whatever is open by then.
Opened(o) ==
    /\ o \in opening
    /\ opening' = opening \ {o}
    /\ Goto(o.id, o.step, o, TRUE)
    /\ UNCHANGED <<server, rows, patches>>

\* A request or its answer is lost: the card, or the mutation, has an error.
OpenFails(o) ==
    /\ o \in opening
    /\ opening' = opening \ {o}
    /\ UNCHANGED <<server, rows, patches, drafts>>

\* The draft's row in SQLite stays.
DeleteDraft(a) ==
    /\ view = <<>>
    /\ server[a] \in DraftsOnServer
    /\ server' = [server EXCEPT ![a] = "deleted"]
    /\ UNCHANGED <<rows, opening, patches, drafts>>

-----------------------------------------------------------------------------
(* The step screens.                                                         *)

\* The layouts v are left; their effect gives the store the step of the URL.
Turn(v) ==
    /\ Render(v, <<>>, [store EXCEPT !.step = StepOf(v)], store.step # StepOf(v))
    /\ UNCHANGED <<server, rows, opening, patches>>

Push(k) == Turn([view EXCEPT ![Len(view)].stack = Append(@, k)])
Replace(k) == Turn([view EXCEPT ![Len(view)].stack = Append(Front(@), k)])

\* Every answer with both parties is put into the store, by a covered parties
\* screen too.
PartiesLoaded ==
    /\ \E l \in Range(view) : 0 \in Range(l.stack)
    /\ Calm
    /\ Render(view, <<>>, store, TRUE)
    /\ UNCHANGED <<server, rows, opening, patches>>

ProceedParties == At(0) /\ Room /\ Push(Details)

\* The form's details, the store's or what was typed over them, go into the
\* store, and to the server as the agreement's of the URL; the button is not
\* disabled while the request is in flight.
SubmitDetails ==
    /\ At(Details) /\ Calm
    /\ Len(Screens) + Len(patches) <= MaxDepth /\ visits + Len(patches) <= MaxVisits
    /\ Render(view, <<>>, store, TRUE)
    /\ patches' = Append(patches, [id |-> Top.id, heard |-> TRUE])
    /\ UNCHANGED <<server, rows, opening>>

\* onSubmit goes on to the evidence step of its own agreement, wherever the
\* user has gone meanwhile.
ShowEvidence(a) == Goto(a, Evidence, [store EXCEPT !.step = Evidence], store.step # Evidence)

\* An answer whose process has ended changes nothing there.
Ended(i) ==
    /\ patches' = RemoveAt(patches, i)
    /\ IF patches[i].heard THEN ShowEvidence(patches[i].id) ELSE UNCHANGED drafts
    /\ UNCHANGED <<rows, opening>>

\* Two requests in flight arrive in either order.
PatchReaches(i) ==
    /\ server[patches[i].id] \in DraftsOnServer
    /\ server' = [server EXCEPT ![patches[i].id] = "filled"]
    /\ Ended(i)

\* Any failure, of the network or of the server, is caught and ignored.
PatchFails(i) == UNCHANGED server /\ Ended(i)

PatchEnds == \E i \in DOMAIN patches : PatchReaches(i) \/ PatchFails(i)

ProceedEvidence == At(Evidence) /\ Room /\ Push(Review)

\* The links of the review to the steps it shows.
EditFromReview(k) == RoomAtReview /\ k < Review /\ Push(k)

ProceedReview == RoomAtReview /\ Push(4)

\* The step bar's finished steps, and the Back buttons.
StepPress(k) ==
    /\ view # <<>> /\ Calm
    /\ k < StepOf(view)
    /\ Replace(k)

\* router.back(): the screen below, of this layout or of one beneath.
Below ==
    IF Len(Top.stack) > 1 THEN [view EXCEPT ![Len(view)].stack = Front(@)] ELSE Front(view)

\* No layout is left to persist anything.
Leave(s) ==
    /\ store' = s /\ view' = <<>>
    /\ UNCHANGED <<server, visits, rows, stmts, opening, patches, mixed>>

\* The system's back button or gesture.
Back ==
    /\ view # <<>> /\ Calm
    /\ IF Below = <<>> THEN Leave(store) ELSE Turn(Below)

\* The chevron of the header: reset() and router.back().
Exit ==
    /\ view # <<>> /\ Calm
    /\ IF Below = <<>> THEN Leave(EmptyStore)
       ELSE /\ Render(Below, <<>>, [EmptyStore EXCEPT !.step = StepOf(Below)], TRUE)
            /\ UNCHANGED <<server, rows, opening, patches>>

\* The process ends; requests on their way may still arrive.
Kill ==
    /\ view' = <<>> /\ store' = EmptyStore
    /\ stmts' = <<>> /\ opening' = {}
    /\ patches' = [i \in DOMAIN patches |-> [patches[i] EXCEPT !.heard = FALSE]]
    /\ UNCHANGED <<server, visits, rows, mixed>>

Next ==
    \/ RunStatement \/ PatchEnds \/ PartiesLoaded
    \/ ProceedParties \/ SubmitDetails \/ ProceedEvidence \/ ProceedReview \/ Back \/ Exit \/ Kill
    \/ \E a \in Agreements : NewDraft(a) \/ DeleteDraft(a) \/ \E ready \in BOOLEAN : OpenDraft(a, ready)
    \/ \E o \in opening : Opened(o) \/ OpenFails(o)
    \/ \E k \in Steps : StepPress(k) \/ EditFromReview(k)

Spec == Init /\ [][Next]_vars

\* SQLite runs what was issued.
LiveSpec == Spec /\ WF_vars(RunStatement)

-----------------------------------------------------------------------------
(* Properties.                                                              *)

\* What is one agreement's may be taken for the other's only when some layout
\* has persisted the drafts of both.
Alike(a, b) == a = b \/ {a, b} \subseteq mixed

\* A row of drafts belongs to one agreement for good, whatever is still queued
\* when the user leaves a draft and opens another: only a layout that was given
\* another draft while it was mounted, by the answer for a second card, lets
\* the row of its first one become the second's (useDraftPersistence.ts:22-25
\* and 36-48); and every variable keeps its type.
RowsKeepTheirAgreement ==
    /\ []TypeOK
    /\ [][\A i \in DOMAIN rows, j \in DOMAIN rows' :
            rows[i].id = rows'[j].id => Alike(rows[i].agreement, rows'[j].agreement)]_vars
=============================================================================
