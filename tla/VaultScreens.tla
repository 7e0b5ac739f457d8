---------------------------- MODULE VaultScreens ----------------------------
(***************************************************************************)
(* The screens of a sealed agreement on the parties' devices: the vault    *)
(* record, its PDF and the reopening, on the mobile application            *)
(* (vault/[agreementId].tsx, ReopenSection, ExportButton, useVault,        *)
(* useReopen) and on the web (sealed/page.tsx, vault/[id]/page.tsx), with  *)
(* the part of the server they talk to.                                    *)
(*                                                                         *)
(* One agreement, one device per party.  A device shows its query cache,   *)
(* refreshed by its own calls, by polling, by push events, and when the    *)
(* screen is opened.  The server pushes "reopen requested" and "reopen     *)
(* confirmed" inside the transaction, before it commits.  A confirmation   *)
(* holds the lock of its party's record, and only the one that finds       *)
(* everybody's grant committed takes the agreement's.                      *)
(***************************************************************************)
EXTENDS Integers, FiniteSets

CONSTANTS
    Parties,
    Creator,       \* the party who created the agreement
    Setups,        \* who may use the web, the others have the application; and for what
    MaxTurns       \* bound: times the agreement is sealed again, reopen codes expire or
                   \* the database ends a confirmation

ASSUME VaultScreensAssumption ==
    /\ Creator \in Parties
    /\ Setups \subseteq [web : SUBSET Parties, uses : SUBSET {"pdf", "reopen"}]
    /\ MaxTurns \in Nat

VARIABLES
    setup,     \* the setup of the behaviour: it never changes
    status,    \* the agreement's status
    pdf,       \* VaultEntry.pdf_status
    codes,     \* parties with an unconfirmed reopen code, and whether it is still valid
    granted,   \* parties with a granted reopen record; kept across reopenings
    seals,     \* number of seals so far
    losses,    \* codes that expired and confirmations ended by a deadlock so far
    cache,     \* the vault record a device holds, NoRecord before the first load
    screen,    \* state of the open screen, Closed when there is none
    call,      \* the request a device has in flight
    event,     \* devices a push event is on its way to
    shared     \* what a device last handed to the share sheet

server == <<status, pdf, codes, granted, seals, losses>>
vars == <<status, pdf, codes, granted, seals, losses, cache, screen, call, event, shared>>

Web == setup.web
Mobile == Parties \ Web

NoRecord == [status |-> "none", pdf |-> "none", url |-> "none"]
Closed == [open |-> FALSE, sent |-> FALSE, confirmed |-> FALSE, reopened |-> FALSE]
Idle == [op |-> "none", step |-> "idle", heard |-> FALSE, since |-> 0, last |-> FALSE, active |-> FALSE]

Statuses == {"sealed", "reopen_requested", "active"}
PdfStatuses == {"pending", "generating", "ready", "failed"}
Records == [status : {"none"} \cup Statuses, pdf : {"none"} \cup PdfStatuses,
            url : {"none", "valid", "expired"}]
Views == [open : BOOLEAN, sent : BOOLEAN, confirmed : BOOLEAN, reopened : BOOLEAN]
Calls == [op : {"none", "request", "confirm", "resend", "export", "retry"},
          step : {"idle", "sent", "granting", "issuing", "pushed", "committed", "ok", "no"},
          heard : BOOLEAN,             \* whether the screen that asked awaits the answer
          since : 0 .. MaxTurns + 1,   \* history: the seals taken off when a confirmation was sent
          last : BOOLEAN,              \* a confirmation: everybody else's grant is there
          active : BOOLEAN]            \* its answer says that the agreement is active

TypeOK ==
    /\ setup \in Setups
    /\ status \in Statuses
    /\ pdf \in PdfStatuses
    /\ codes \in [open : SUBSET Parties, valid : BOOLEAN]
    /\ granted \subseteq Parties
    /\ seals \in 1 .. MaxTurns + 1 /\ losses \in 0 .. MaxTurns
    /\ cache \in [Parties -> Records]
    /\ screen \in [Parties -> Views]
    /\ call \in [Parties -> Calls]
    /\ event \subseteq Mobile
    /\ shared \in [Parties -> {"nothing", "pdf", "error page"}]

\* The seals that were taken off are those before the present one.
TakenOff == IF status = "active" THEN seals ELSE seals - 1

\* The seal route has just created the vault entry.
Init ==
    /\ setup \in Setups
    /\ status = "sealed"
    /\ pdf = "pending"
    /\ codes = [open |-> {}, valid |-> FALSE]
    /\ granted = {}
    /\ seals = 1
    /\ losses = 0
    /\ cache = [p \in Parties |-> NoRecord]
    /\ screen = [p \in Parties |-> Closed]
    /\ call = [p \in Parties |-> Idle]
    /\ event = {}
    /\ shared = [p \in Parties |-> "nothing"]

-----------------------------------------------------------------------------
(* Loading.                                                                  *)

\* A link to a ready PDF is signed when the record is read.
Fetched == [status |-> status, pdf |-> pdf, url |-> IF pdf = "ready" THEN "valid" ELSE "none"]

Show(p) == cache' = [cache EXCEPT ![p] = Fetched]

Opened(p) ==
    /\ screen' = [screen EXCEPT ![p] = [Closed EXCEPT !.open = TRUE]]
    /\ call' = [call EXCEPT ![p].heard = FALSE]
    /\ UNCHANGED <<server, event, shared>>

\* A card of the vault opens the record; what is cached and younger than five
\* minutes is shown as it is.
MobileOpen(p) ==
    /\ p \in Mobile
    /\ Opened(p)
    /\ Show(p) \/ (cache[p] # NoRecord /\ UNCHANGED cache)

\* The sealed page and the vault page of the web; it leaves for the consent
\* page when the agreement is not sealed.
WebOpen(p) ==
    /\ p \in Web
    /\ status # "active"
    /\ Opened(p)
    /\ Show(p)

\* Mutant of Poll: nothing is polled once generation has begun.
PollPendingOnly(p) ==
    /\ p \in Mobile /\ screen[p].open
    /\ cache[p].pdf = "pending"
    /\ Show(p)
    /\ UNCHANGED <<server, screen, call, event, shared>>

\* Every five seconds while the PDF is not finished.
Poll(p) ==
    /\ p \in Mobile /\ screen[p].open
    /\ cache[p].pdf \in {"pending", "generating"}
    /\ Show(p)
    /\ UNCHANGED <<server, screen, call, event, shared>>

\* The web polls its list while some PDF is being generated.
WebPoll(p) ==
    /\ p \in Web /\ screen[p].open
    /\ cache[p].pdf = "generating"
    /\ Show(p)
    /\ UNCHANGED <<server, screen, call, event, shared>>

\* What an answer invalidates is fetched again, and so is everything when the
\* browser's window is focused.
WebRefetch(p) ==
    /\ p \in Web /\ screen[p].open
    /\ Show(p)
    /\ UNCHANGED <<server, screen, call, event, shared>>

\* The event's type only says which queries to fetch again.
EventArrives(p) ==
    /\ p \in event
    /\ event' = event \ {p}
    /\ IF screen[p].open THEN Show(p) ELSE cache' = [cache EXCEPT ![p] = NoRecord]
    /\ UNCHANGED <<server, screen, call, shared>>

\* A device without a socket hears nothing.
EventLost(p) ==
    /\ p \in event
    /\ event' = event \ {p}
    /\ UNCHANGED <<server, cache, screen, call, shared>>

-----------------------------------------------------------------------------
(* What a device asks of the server.                                         *)

\* Whether the screen does something with the answer.
Awaits(p, op) == op = "confirm" \/ (op = "request" /\ p \in Web)

Send(p, op) ==
    /\ call[p] = Idle
    /\ (IF op \in {"export", "retry"} THEN "pdf" ELSE "reopen") \in setup.uses
    /\ call' = [call EXCEPT ![p] = [Idle EXCEPT !.op = op, !.step = "sent", !.heard = Awaits(p, op),
                                                !.since = IF op = "confirm" THEN TakenOff ELSE 0]]
    /\ UNCHANGED <<server, cache, screen, event, shared>>

\* The section shows nothing but its notice once it says "reopened".
Section(p, s) == p \in Mobile /\ screen[p].open /\ ~screen[p].reopened /\ cache[p].status = s

MobileRequest(p) == Section(p, "sealed") /\ Send(p, "request")

\* Mutant of MobileConfirm: only the first party gets a block.
MobileConfirmCreator(p) ==
    /\ Section(p, "reopen_requested")
    /\ p = Creator
    /\ ~screen[p].confirmed /\ p \in codes.open
    /\ Send(p, "confirm")

\* A party's own block, with the code of its SMS.
MobileConfirm(p) ==
    /\ Section(p, "reopen_requested")
    /\ ~screen[p].confirmed /\ p \in codes.open
    /\ Send(p, "confirm")

MobileResend(p) == Section(p, "reopen_requested") /\ Send(p, "resend")

MobileExport(p) ==
    /\ p \in Mobile /\ screen[p].open
    /\ cache[p].pdf = "pending"
    /\ Send(p, "export")

MobileRetry(p) ==
    /\ p \in Mobile /\ screen[p].open
    /\ cache[p].pdf = "failed"
    /\ Send(p, "retry")

\* "Send reopen OTPs" of the sealed page.
WebRequest(p) ==
    /\ p \in Web /\ screen[p].open
    /\ cache[p].status = "sealed" /\ ~screen[p].sent
    /\ Send(p, "request")

\* The field for the code stands in the section that is only shown while the
\* page's agreement is sealed.
WebConfirm(p) ==
    /\ p \in Web /\ screen[p].open
    /\ cache[p].status = "sealed" /\ screen[p].sent
    /\ p \in codes.open
    /\ Send(p, "confirm")

WebRetry(p) ==
    /\ p \in Web /\ screen[p].open
    /\ cache[p].pdf = "failed"
    /\ Send(p, "retry")

-----------------------------------------------------------------------------
(* The server.                                                               *)

Step(p, op, from, to) ==
    /\ call[p].op = op /\ call[p].step = from
    /\ call' = [call EXCEPT ![p].step = to]

\* One transaction holds the agreement's row at a time.
Unlocked == \A p \in Parties : call[p].step \notin {"pushed", "issuing"}

\* Only the creator may ask; the push goes out before the commit.
HandleRequest(p) ==
    /\ Unlocked
    /\ IF p = Creator /\ status = "sealed"
       THEN Step(p, "request", "sent", "pushed") /\ event' = Mobile
       ELSE Step(p, "request", "sent", "no") /\ UNCHANGED event
    /\ UNCHANGED <<server, cache, screen, shared>>

CommitRequest(p) ==
    /\ Step(p, "request", "pushed", "committed")
    /\ status' = "reopen_requested"
    /\ UNCHANGED <<pdf, codes, granted, seals, losses, cache, screen, event, shared>>

\* The codes are a transaction of their own, after a request or when they are asked
\* for again.  It locks the agreement, if that is still to be reopened ...
LockToIssue(p) ==
    /\ Unlocked
    /\ LET to == IF p = Creator /\ status = "reopen_requested" THEN "issuing" ELSE "no"
       IN Step(p, "request", "committed", to) \/ Step(p, "resend", "sent", to)
    /\ UNCHANGED <<server, cache, screen, event, shared>>

\* ... and replaces the records that are not granted, once no confirmation holds
\* one; a party that has confirmed gets a code as well. Codes asked for again that
\* cannot be issued are as if they had not been.
IssueCodes(p, fails) ==
    /\ call[p].step = "issuing" /\ (fails => call[p].op = "request")
    /\ \A q \in Parties : call[q].step # "granting"
    /\ call' = [call EXCEPT ![p].step = IF fails THEN "no" ELSE "ok"]
    /\ codes' = IF fails THEN codes ELSE [open |-> Parties, valid |-> TRUE]
    /\ UNCHANGED <<status, pdf, granted, seals, losses, cache, screen, event, shared>>

\* A confirmation sees the grants that are committed, those of an earlier reopening
\* among them, and holds no lock but that of its own record ...
HandleConfirm(p) ==
    /\ call[p].op = "confirm" /\ call[p].step = "sent"
    /\ call' = IF p \in codes.open /\ codes.valid
               THEN [call EXCEPT ![p].step = "granting", ![p].last = (granted \cup {p} = Parties)]
               ELSE [call EXCEPT ![p].step = "no"]
    /\ UNCHANGED <<server, cache, screen, event, shared>>

\* Mutant of CompleteReopen: a code is good whatever became of the agreement.
CompleteReopenAnyStatus(p) ==
    /\ Unlocked /\ call[p].last
    /\ Step(p, "confirm", "granting", "pushed")
    /\ event' = Mobile
    /\ UNCHANGED <<server, cache, screen, shared>>

\* ... until it is the last one: then it needs the agreement's, and there must be
\* something to reopen.
CompleteReopen(p) ==
    /\ Unlocked /\ call[p].last
    /\ IF status = "reopen_requested"
       THEN Step(p, "confirm", "granting", "pushed") /\ event' = Mobile
       ELSE Step(p, "confirm", "granting", "no") /\ UNCHANGED event
    /\ UNCHANGED <<server, cache, screen, shared>>

CommitConfirm(p) ==
    /\ call[p].op = "confirm" /\ call[p].step = (IF call[p].last THEN "pushed" ELSE "granting")
    /\ call' = [call EXCEPT ![p].step = "committed", ![p].last = FALSE]
    /\ granted' = granted \cup {p}
    /\ codes' = [codes EXCEPT !.open = @ \ {p}]
    /\ status' = IF call[p].last THEN "active" ELSE status
    /\ UNCHANGED <<pdf, seals, losses, cache, screen, event, shared>>

\* The view reads the agreement again for its answer.
AnswerConfirm(p) ==
    /\ call[p].op = "confirm" /\ call[p].step = "committed"
    /\ call' = [call EXCEPT ![p].step = "ok", ![p].active = (status = "active")]
    /\ UNCHANGED <<server, cache, screen, event, shared>>

\* Codes that are issued wait for a confirmation's record, and the confirmation for
\* the agreement: the database ends one of the two.
Deadlocked(p, q) == call[p].step = "issuing" /\ call[q].step = "granting" /\ call[q].last

AbortIssue(p) ==
    /\ \E q \in Parties : Deadlocked(p, q)
    /\ call' = [call EXCEPT ![p].step = "no"]
    /\ UNCHANGED <<server, cache, screen, event, shared>>

AbortConfirm(p) ==
    /\ \E q \in Parties : Deadlocked(q, p)
    /\ seals + losses <= MaxTurns
    /\ call' = [call EXCEPT ![p].step = "no"]
    /\ losses' = losses + 1
    /\ UNCHANGED <<status, pdf, codes, granted, seals, cache, screen, event, shared>>

\* An export is queued unless one is under way; a retry needs a failed one.
HandleExport(p) ==
    /\ \/ call[p].op = "export" /\ pdf # "generating" /\ Step(p, "export", "sent", "ok")
       \/ call[p].op = "retry" /\ pdf = "failed" /\ Step(p, "retry", "sent", "ok")
    /\ pdf' = "generating"
    /\ UNCHANGED <<status, codes, granted, seals, losses, cache, screen, event, shared>>

RefuseExport(p) ==
    /\ \/ pdf = "generating" /\ Step(p, "export", "sent", "no")
       \/ pdf # "failed" /\ Step(p, "retry", "sent", "no")
    /\ UNCHANGED <<server, cache, screen, event, shared>>

JobEnds ==
    /\ pdf = "generating"
    /\ pdf' \in {"ready", "failed"}
    /\ event' = Mobile
    /\ UNCHANGED <<status, codes, granted, seals, losses, cache, screen, call, shared>>

\* The reopened agreement is sealed again; its entry keeps the PDF it has.
Reseal ==
    /\ status = "active" /\ seals + losses <= MaxTurns
    /\ Unlocked
    /\ status' = "sealed"
    /\ seals' = seals + 1
    /\ event' = Mobile
    /\ UNCHANGED <<pdf, codes, granted, losses, cache, screen, call, shared>>

CodesExpire ==
    /\ codes.valid /\ seals + losses <= MaxTurns
    /\ codes' = [codes EXCEPT !.valid = FALSE]
    /\ losses' = losses + 1
    /\ UNCHANGED <<status, pdf, granted, seals, cache, screen, call, event, shared>>

Handle(p) ==
    \/ HandleRequest(p) \/ CommitRequest(p) \/ LockToIssue(p) \/ \E fails \in BOOLEAN : IssueCodes(p, fails)
    \/ HandleConfirm(p) \/ CompleteReopen(p) \/ CommitConfirm(p) \/ AnswerConfirm(p)
    \/ AbortIssue(p) \/ AbortConfirm(p)
    \/ HandleExport(p) \/ RefuseExport(p)

-----------------------------------------------------------------------------
(* Answers.                                                                  *)

Done(p) == call' = [call EXCEPT ![p] = Idle]

\* The mobile hook reads the record once more; the web shows the field for the
\* code and fetches the agreement again.
AnswerRequest(p) ==
    /\ call[p].op = "request" /\ call[p].step = "ok"
    /\ Done(p)
    /\ IF p \in Web THEN UNCHANGED cache ELSE Show(p)
    /\ screen' = IF p \in Web /\ call[p].heard THEN [screen EXCEPT ![p].sent = TRUE] ELSE screen
    /\ UNCHANGED <<server, event, shared>>

\* Mutant of Confirmed: any confirmation is shown as the reopening.
ConfirmedAsReopened(p) ==
    [screen EXCEPT ![p].confirmed = TRUE, ![p].reopened = TRUE]

Confirmed(p) ==
    [screen EXCEPT ![p].confirmed = TRUE, ![p].reopened = @ \/ call[p].active]

\* The block's callback runs only if its screen is still the one that asked.
MobileConfirmed(p) ==
    /\ p \in Mobile
    /\ call[p].op = "confirm" /\ call[p].step = "ok"
    /\ Done(p)
    /\ Show(p)
    /\ screen' = IF call[p].heard THEN Confirmed(p) ELSE screen
    /\ UNCHANGED <<server, event, shared>>

WebConfirmed(p) ==
    /\ p \in Web
    /\ call[p].op = "confirm" /\ call[p].step = "ok"
    /\ Done(p)
    /\ Show(p)
    /\ screen' = IF call[p].heard THEN [screen EXCEPT ![p].sent = FALSE] ELSE screen
    /\ UNCHANGED <<server, event, shared>>

AnswerExport(p) ==
    /\ call[p].op \in {"export", "retry", "resend"} /\ call[p].step = "ok"
    /\ Done(p)
    /\ IF call[p].op = "resend" THEN UNCHANGED cache ELSE Show(p)
    /\ UNCHANGED <<server, screen, event, shared>>

\* A refusal, or an answer that does not arrive, leaves the screen as it is.
Refused(p) ==
    /\ call[p].step \in {"ok", "no"}
    /\ Done(p)
    /\ UNCHANGED <<server, cache, screen, event, shared>>

Answer(p) ==
    AnswerRequest(p) \/ MobileConfirmed(p) \/ WebConfirmed(p) \/ AnswerExport(p) \/ Refused(p)

-----------------------------------------------------------------------------
(* The PDF.                                                                  *)

\* An hour passes.
UrlExpires(p) ==
    /\ cache[p].url = "valid"
    /\ cache' = [cache EXCEPT ![p].url = "expired"]
    /\ UNCHANGED <<server, screen, call, event, shared>>

\* The download resolves whatever the status of the answer, and its body is
\* handed on as the PDF.
Save(p) ==
    /\ p \in Mobile /\ screen[p].open
    /\ cache[p].pdf = "ready"
    /\ shared' = [shared EXCEPT ![p] = IF cache[p].url = "valid" THEN "pdf" ELSE "error page"]
    /\ UNCHANGED <<server, cache, screen, call, event>>

Device(p) ==
    \/ MobileOpen(p) \/ WebOpen(p) \/ Poll(p) \/ WebPoll(p) \/ WebRefetch(p)
    \/ EventArrives(p) \/ EventLost(p)
    \/ MobileRequest(p) \/ MobileConfirm(p) \/ MobileResend(p) \/ MobileExport(p) \/ MobileRetry(p)
    \/ WebRequest(p) \/ WebConfirm(p) \/ WebRetry(p)
    \/ Handle(p) \/ Answer(p) \/ UrlExpires(p) \/ Save(p)

Next ==
    /\ JobEnds \/ Reseal \/ CodesExpire \/ \E p \in Parties : Device(p)
    /\ UNCHANGED setup

Spec == Init /\ [][Next]_<<setup, vars>>

\* React Query polls, the server answers, and parties who want the agreement
\* reopened come back to the record, type the codes they are offered a field for,
\* and ask for new ones.
LiveSpec ==
    /\ Spec
    /\ \A p \in Parties :
        /\ WF_vars(Poll(p)) /\ WF_vars(Answer(p)) /\ SF_vars(Handle(p))
        /\ WF_vars("reopen" \in setup.uses /\ ((MobileOpen(p) /\ Show(p)) \/ WebOpen(p)))
        /\ SF_vars(MobileConfirm(p) \/ WebConfirm(p))
    /\ SF_vars(MobileResend(Creator))

-----------------------------------------------------------------------------
(* Properties.                                                              *)

\* "Agreement reopened" is said only of a reopening that was completed while this
\* device's own confirmation was under way, never of an earlier one, and when
\* every party has confirmed a code: for the first reopening all of them in it;
\* for a later one the grants of an earlier one count
\* (ReopenSection.tsx:68-76, 147-154, agreements/api/views.py:258-271,
\* consent/services.py:433-497). Every variable keeps its type.
ReopenedByBoth ==
    /\ []TypeOK
    /\ [][\A p \in Parties : ~screen[p].reopened /\ screen'[p].reopened =>
            TakenOff > call[p].since /\ granted = Parties]_vars

\* What the module says of the server is what an agreement promises its parties
\* (AgreementContract) from its first seal on.
Contract == INSTANCE AgreementContract
            WITH Party <- Parties, Contents <- 0 .. MaxTurns + 1, NoSeal <- 0,
                 parties <- Parties, consented <- Parties, reopeners <- granted,
                 seal <- IF status = "active" THEN 0 ELSE seals,
                 history <- [i \in 1 .. TakenOff |-> [seal |-> i, snapshot |-> i]]

\* Requests, codes and confirmations of several devices, in whatever order they are
\* handled, answered and lost, take the seal off only with everyone's agreement, and
\* each once (consent/services.py:402-490, agreements/services.py:345-430).
KeepsContract == [][Contract!Next]_(Contract!contract)
=============================================================================
