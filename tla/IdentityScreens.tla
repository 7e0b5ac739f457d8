-------------------------- MODULE IdentityScreens --------------------------
(***************************************************************************)
(* Verifying a party's identity, as its clients go through it, on top of   *)
(* Identity.  The holder of the card is the creator, on the parties screen *)
(* of the application ("own"), or the other party, who comes in by an      *)
(* invite in the application ("mobile") or on the web ("web").  The        *)
(* creator's screen of the parties, in the application or on the web,      *)
(* edits the party, sends the invite and waits for the verification.       *)
(* Every screen shows the copy of the agreement it fetched last.           *)
(***************************************************************************)
EXTENDS Identity

CONSTANTS
    Clients,       \* the clients a behaviour may be about
    MaxVisits      \* bound: times a screen is opened

ASSUME IdentityScreensAssumption ==
    /\ Clients \subseteq [holder : {"own", "mobile", "web"}, creator : {"mobile", "web"}]
    /\ MaxVisits \in Nat

VARIABLES
    client,    \* who the behaviour is about: it never changes
    page,      \* where the holder is
    link,      \* the invite the holder came in by
    slots,     \* the upload of each side
    seen,      \* the copy the holder's screen shows
    local,     \* the result of the face check made on this screen
    polls,     \* whether the holder's screen polls
    open,      \* whether the creator's screen is open
    copy,      \* the copy the creator's screen shows
    behind,    \* history: the reading behind the verdict the copy shows
    draft,     \* the details typed and not saved, NoDetails for none
    saving,    \* whether a save is under way, or the fetch that follows it
    missed,    \* history: what the last save has made of the party was not fetched
    sent,      \* whether this screen has sent the invite
    visits

holder == <<page, link, slots, seen, local, polls>>
creator == <<open, copy, behind, draft, saving, missed, sent>>
allVars == <<vars, holder, creator, visits>>

HolderKind == client.holder
CreatorKind == client.creator

Pages == {"out", "preview", "login", "upload", "uploading", "starting", "face", "submitting", "done"}
Copies == [no : 0 .. MaxEdits, details : Details, status : Statuses, live : Lives, cards : SUBSET Sides]

ScreensTypeOK ==
    /\ TypeOK
    /\ client \in Clients
    /\ page \in Pages
    /\ link \in 0 .. MaxInvites
    /\ slots \in [Sides -> {"empty", "sending", "confirming", "done"}]
    /\ seen \in Copies /\ copy \in Copies /\ behind \in Readings
    /\ local \in {"none", "passed", "failed"}
    /\ polls \in BOOLEAN /\ open \in BOOLEAN /\ sent \in BOOLEAN
    /\ saving \in BOOLEAN /\ missed \in BOOLEAN
    /\ draft \in Details \cup {NoDetails}
    /\ visits \in 0 .. MaxVisits

\* What the agreement's route answers about the party.
Fetch(p, r, cs) == [no |-> p.no, details |-> p.details, status |-> r.status, live |-> r.live,
                    cards |-> {s \in Sides : cs[s] # NoImage}]
Fetched == Fetch(party, row, cards)

\* isPartyIdentityComplete.
Complete(x) == x.status = "verified" /\ x.live = "passed" /\ x.cards = Sides

ScreensInit ==
    /\ Init
    /\ client \in Clients
    /\ page = "out" /\ link = 0 /\ slots = [s \in Sides |-> "empty"]
    /\ seen = Fetched /\ local = "none" /\ polls = FALSE
    /\ open = FALSE /\ copy = Fetched /\ behind = row.of /\ draft = NoDetails /\ sent = FALSE
    /\ saving = FALSE /\ missed = FALSE
    /\ visits = 0

Visit == visits < MaxVisits /\ visits' = visits + 1
Go(from, to) == page = from /\ page' = to

\* The routes let the creator in, and whoever has claimed the present invite.
Access == HolderKind = "own" \/ (invite.no = link /\ invite.state = "claimed")

Hydrated(x) == [s \in Sides |-> IF s \in x.cards /\ HolderKind # "web" THEN "done" ELSE "empty"]

-----------------------------------------------------------------------------
(* The holder comes and goes.                                                *)

OpenOwn ==
    /\ HolderKind = "own" /\ Visit
    /\ Go("out", "upload")
    /\ seen' = Fetched /\ slots' = Hydrated(Fetched)
    /\ local' = "none" /\ polls' = FALSE
    /\ UNCHANGED <<vars, link, creator>>

\* The page of the invite's link shows what it is about.
OpenLink ==
    /\ HolderKind # "own" /\ invite.state # "none" /\ Visit
    /\ Go("out", "preview")
    /\ link' = invite.no
    /\ UNCHANGED <<vars, slots, seen, local, polls, creator>>

\* Without a session of its own the client asks for a telephone number and a
\* code first, and then claims the invite.
AskLogin ==
    /\ Go("preview", "login")
    /\ UNCHANGED <<vars, link, slots, seen, local, polls, creator, visits>>

Continue ==
    /\ Claim(link)
    /\ page \in {"preview", "login"} /\ page' = "upload"
    /\ seen' = Fetched /\ slots' = Hydrated(Fetched)
    /\ local' = "none" /\ polls' = FALSE
    /\ UNCHANGED <<link, creator, visits>>

ContinueRefused ==
    /\ ~(invite.no = link /\ invite.state \in {"sent", "claimed"})
    /\ page \in {"preview", "login"} /\ page' = "preview"
    /\ UNCHANGED <<vars, link, slots, seen, local, polls, creator, visits>>

\* Uploads go on; the rest of the screen's state is gone.
Leave ==
    /\ page \in {"preview", "login", "upload", "done"} /\ page' = "out"
    /\ polls' = FALSE /\ local' = "none" /\ seen' = Fetch(party, NewRow, Idle.cards)
    /\ UNCHANGED <<vars, link, slots, creator, visits>>

-----------------------------------------------------------------------------
(* The card.                                                                 *)

\* A slot of the application; a failed or an uploaded one can be replaced. No file
\* is picked that MaxUploads leaves no upload for.
Pick(s) ==
    /\ HolderKind # "web" /\ page = "upload"
    /\ slots[s] \in {"empty", "done"}
    /\ counts.uploads + Cardinality({t \in Sides : slots[t] = "sending"}) < MaxUploads
    /\ slots' = [slots EXCEPT ![s] = "sending"]
    /\ UNCHANGED <<vars, page, link, seen, local, polls, creator, visits>>

\* The web page sends both files at once, and only until they have arrived.
HandleUpload ==
    /\ HolderKind = "web"
    /\ \E s \in Sides : slots[s] # "done"
    /\ Go("upload", "uploading")
    /\ slots' = [s \in Sides |-> "sending"]
    /\ UNCHANGED <<vars, link, seen, local, polls, creator, visits>>

\* The file is in the storage, and its confirmation is asked for.
Send(s, i) ==
    /\ slots[s] = "sending" /\ Access
    /\ ConfirmBegin(s, i)
    /\ slots' = [slots EXCEPT ![s] = "confirming"]
    /\ UNCHANGED <<page, link, seen, local, polls, creator, visits>>

SendFails(s) ==
    /\ slots[s] = "sending" /\ ~Access
    /\ slots' = IF HolderKind = "web" THEN [t \in Sides |-> "empty"] ELSE [slots EXCEPT ![s] = "empty"]
    /\ page' = IF page = "uploading" THEN "upload" ELSE page
    /\ UNCHANGED <<vars, link, seen, local, polls, creator, visits>>

\* The application fetches the agreement again.
Stored(c) ==
    /\ ConfirmCommit(c) \/ ConfirmOrphan(c)
    /\ slots' = [slots EXCEPT ![c.side] = IF slots[c.side] = "confirming" /\ cards'[c.side] = c.image
                                          THEN "done" ELSE "empty"]
    /\ seen' = IF HolderKind = "web" \/ page = "out" THEN seen ELSE Fetch(party, row', cards')
    /\ UNCHANGED <<page, link, local, polls, creator, visits>>

-----------------------------------------------------------------------------
(* The face check.                                                           *)

\* What disables the application's button.
ShownPassed == local = "passed" \/ seen.live = "passed"

\* Mutant of StartFace: the web page does not wait for the uploads.
StartFaceEarly ==
    /\ \/ HolderKind # "web" /\ ~ShownPassed /\ page = "upload"
       \/ HolderKind = "web" /\ page \in {"upload", "uploading"}
    /\ Access
    /\ SessionBegin
    /\ page' = "starting" /\ local' = "none"
    /\ UNCHANGED <<link, slots, seen, polls, creator, visits>>

\* The web page goes on by itself after the uploads; its button starts again.
StartFace ==
    /\ \/ HolderKind # "web" /\ ~ShownPassed /\ page = "upload"
       \/ HolderKind = "web" /\ page \in {"upload", "uploading"} /\ \A s \in Sides : slots[s] = "done"
    /\ Access
    /\ SessionBegin
    /\ page' = "starting" /\ local' = "none"
    /\ UNCHANGED <<link, slots, seen, polls, creator, visits>>

StartRefused ==
    /\ page = "uploading" /\ ~Access /\ \A s \in Sides : slots[s] # "sending"
    /\ page' = "upload"
    /\ UNCHANGED <<vars, link, slots, seen, local, polls, creator, visits>>

SessionReady(c) ==
    /\ SessionSave(c)
    /\ page' = IF page = "starting" THEN IF c.no = party.no THEN "face" ELSE "upload" ELSE page
    /\ UNCHANGED <<link, slots, seen, local, polls, creator, visits>>

\* The component in the page says that the analysis is complete: the result
\* may not be final yet.
FaceDone ==
    /\ Go("face", "submitting")
    /\ UNCHANGED <<vars, link, slots, seen, local, polls, creator, visits>>

\* Closed, timed out or failed in the page.
FaceFails ==
    /\ Visit
    /\ Go("face", "upload")
    /\ UNCHANGED <<vars, link, slots, seen, local, polls, creator>>

\* Mutant of SubmitInApp: the screen does not begin to poll.
SubmitInAppOnce ==
    /\ HolderKind # "web" /\ Access
    /\ LivenessResult
    /\ Go("submitting", "upload")
    /\ local' = IF aws[row.session] = "passed" THEN "passed" ELSE "failed"
    /\ polls' = polls
    /\ seen' = Fetch(party, row', cards)
    /\ UNCHANGED <<link, slots, creator, visits>>

\* The application asks up to five times; whatever did not pass is a failure.
SubmitInApp ==
    /\ HolderKind # "web" /\ Access
    /\ LivenessResult
    /\ Go("submitting", "upload")
    /\ local' = IF aws[row.session] = "passed" THEN "passed" ELSE "failed"
    /\ polls' = (polls \/ (HolderKind = "mobile" /\ aws[row.session] = "passed"))
    /\ seen' = Fetch(party, row', cards)
    /\ UNCHANGED <<link, slots, creator, visits>>

\* The web page asks once; what has not failed is done.
SubmitOnWeb ==
    /\ HolderKind = "web" /\ Access
    /\ LivenessResult
    /\ Go("submitting", IF aws[row.session] = "failed" THEN "upload" ELSE "done")
    /\ UNCHANGED <<link, slots, seen, local, polls, creator, visits>>

SubmitFails ==
    /\ ~Access \/ row.session = 0
    /\ Go("submitting", "upload")
    /\ UNCHANGED <<vars, link, slots, seen, local, polls, creator, visits>>

\* What the creator's own card waits for on the parties screens.
Waits(x) == x.cards = Sides /\ x.live = "passed" /\ x.status = "pending"

\* Every 2.5 or 3 seconds.
Poll ==
    /\ page # "out" /\ HolderKind # "web" /\ seen # Fetched
    /\ polls \/ (HolderKind = "own" /\ Waits(seen))
    /\ seen' = Fetched
    /\ polls' = (polls /\ ~Complete(seen'))
    /\ UNCHANGED <<vars, page, link, slots, local, creator, visits>>

-----------------------------------------------------------------------------
(* The creator's screen.                                                     *)

\* The screen shows what the server answers.
FetchCopy == copy' = Fetched /\ behind' = row.of /\ missed' = FALSE

\* The application fetches the agreement, or has it in its cache.
OpenParties ==
    /\ ~open /\ Visit
    /\ open' = TRUE
    /\ FetchCopy \/ UNCHANGED <<copy, behind, missed>>
    /\ UNCHANGED <<vars, holder, draft, saving, sent>>

\* A save that is under way goes on.
LeaveParties ==
    /\ open /\ open' = FALSE
    /\ saving' = FALSE /\ missed' = (missed \/ saving)
    /\ draft' = NoDetails /\ sent' = FALSE
    /\ UNCHANGED <<vars, holder, copy, behind, visits>>

\* Nothing is typed that MaxEdits leaves no save for.
Edit(d) ==
    /\ open /\ d # copy.details /\ counts.edits < MaxEdits
    /\ draft' = d
    /\ UNCHANGED <<vars, holder, open, copy, behind, saving, missed, sent, visits>>

\* "Discard changes" of the web; in the application the form is typed back.
Discard ==
    /\ open /\ draft # NoDetails
    /\ draft' = NoDetails
    /\ UNCHANGED <<vars, holder, open, copy, behind, saving, missed, sent, visits>>

\* "Save parties" posts both parties, whatever was saved meanwhile, and then
\* fetches the agreement ...
Save ==
    /\ open /\ draft # NoDetails /\ ~saving
    /\ SetParties(draft)
    /\ saving' = TRUE
    /\ UNCHANGED <<holder, open, copy, behind, draft, missed, sent, visits>>

Saved ==
    /\ open /\ saving
    /\ FetchCopy
    /\ saving' = FALSE /\ draft' = NoDetails
    /\ UNCHANGED <<vars, holder, open, sent, visits>>

\* ... but a fetch that fails is no error of the save: the form is clean, above
\* the old copy. So it is after an answer to the save that is lost, once what was
\* typed is discarded.
SavedUnseen ==
    /\ open /\ saving
    /\ saving' = FALSE /\ missed' = TRUE /\ draft' = NoDetails
    /\ UNCHANGED <<vars, holder, open, copy, behind, sent, visits>>

Invite ==
    /\ open /\ ~Complete(copy) /\ HolderKind # "own"
    /\ CreatorKind = "web" => draft = NoDetails
    /\ SendInvite
    /\ sent' = TRUE
    /\ UNCHANGED <<holder, open, copy, behind, draft, saving, missed, visits>>

\* Mutant of Follows: the invite is not what it waits for.
FollowsNever(x) == Waits(x)

\* What makes the creator's screen poll for the other party.
Follows(x) == IF CreatorKind = "mobile" THEN x.status = "pending" /\ sent
              ELSE Waits(x) \/ (x.status = "pending" /\ sent)

\* Every five seconds. The form of the application is filled anew with what was
\* saved; the web keeps what was typed.
PollParties ==
    /\ open /\ Follows(copy) /\ copy # Fetched
    /\ FetchCopy
    /\ draft' = IF CreatorKind = "mobile" THEN NoDetails ELSE draft
    /\ UNCHANGED <<vars, holder, open, saving, sent, visits>>

\* Mutant of MayProceed: the button waits for no save.
MayProceedAtOnce == draft = NoDetails /\ Complete(copy)

MayProceed == ~saving /\ draft = NoDetails /\ Complete(copy)

Proceed ==
    /\ open /\ MayProceed
    /\ open' = FALSE /\ sent' = FALSE
    /\ UNCHANGED <<vars, holder, copy, behind, draft, saving, missed, visits>>

HolderActs ==
    \/ OpenOwn \/ OpenLink \/ AskLogin \/ Continue \/ ContinueRefused \/ Leave
    \/ \E s \in Sides : Pick(s) \/ SendFails(s) \/ \E i \in Images : Send(s, i)
    \/ HandleUpload \/ StartFace \/ StartRefused \/ FaceDone \/ FaceFails
    \/ SubmitInApp \/ SubmitOnWeb \/ SubmitFails \/ Poll

CreatorActs ==
    \/ OpenParties \/ LeaveParties \/ (\E d \in Details : Edit(d)) \/ Discard
    \/ Save \/ Saved \/ SavedUnseen \/ Invite \/ PollParties \/ Proceed

Task == (BeginVerify \/ FinishVerify) /\ UNCHANGED <<holder, creator, visits>>

ServerActs ==
    \/ \E c \in confirms : Stored(c)
    \/ \E c \in starting : SessionReady(c)
    \/ Task
    \/ Environment /\ UNCHANGED <<holder, creator, visits>>

ScreensNext == (HolderActs \/ CreatorActs \/ ServerActs) /\ UNCHANGED client

ScreensSpec == ScreensInit /\ [][ScreensNext]_<<client, allVars>>

\* Tasks and requests end; screens that poll go on; AWS decides.
ScreensLive ==
    /\ ScreensSpec
    /\ WF_allVars(Task)
    /\ WF_allVars(\E c \in confirms : Stored(c)) /\ WF_allVars(\E c \in starting : SessionReady(c))
    /\ WF_allVars(Poll) /\ WF_allVars(PollParties) /\ WF_allVars(Saved \/ SavedUnseen)
    /\ WF_allVars(SubmitInApp \/ SubmitOnWeb \/ SubmitFails)

-----------------------------------------------------------------------------
(* Properties.                                                              *)

\* Whatever the holder, the task and late uploads do meanwhile, the creator goes
\* on only with a party who, when the copy on the screen was fetched, had been
\* verified with just the details it shows, on a card that shows them and after
\* a face check of that row (parties.tsx:314-325). And that row is the present
\* one, but after a save whose outcome the screen has not fetched: its old copy
\* lets the creator go on with a party that save has replaced, unverified
\* (parties.tsx:286-301, web page.tsx:530-533). Every variable keeps its type.
ProceedsVerified ==
    /\ []ScreensTypeOK
    /\ [][open /\ ~open' /\ MayProceed =>
            /\ behind.details = copy.details
            /\ \A s \in Sides : copy.details \in Shows[behind.cards[s]]
            /\ \E s \in Sessions : whose[s] = copy.no /\ aws[s] \in {"passed", "manual_review"}
            /\ copy.no = party.no \/ missed]_allVars
=============================================================================
