------------------------------ MODULE Identity ------------------------------
(***************************************************************************)
(* Verifying a party's identity, as the backend does it: the party's       *)
(* details as the creator entered them, the images of the Ghana Card       *)
(* (evidence of the party's role), the face check at AWS, the invite that  *)
(* gives the other party access to the draft, and the task that compares   *)
(* them (apps/identity, apps/parties and the identity part of              *)
(* apps/evidence).  One party of one draft agreement.                      *)
(*                                                                         *)
(* The task holds the lock of the party's and the verification's rows from *)
(* BeginVerify to its end, and what it writes before its end is not seen   *)
(* by others.  A confirmed upload is two steps, because it reads what      *)
(* other transactions have committed before its own item is committed.     *)
(***************************************************************************)
EXTENDS Integers, FiniteSets

CONSTANTS
    Details,       \* what a party's name and Ghana Card number may be
    NoDetails,
    Images,        \* images of a side of a card
    NoImage,
    Shows,         \* the details an image can be read as showing; none if unclear
    MaxEdits,      \* bounds on a behaviour: saves of the parties,
    MaxUploads,    \* uploads,
    MaxSessions,   \* face check sessions,
    MaxInvites,    \* invites,
    MaxJobs,       \* tasks queued when a result is asked for,
    MaxFaults      \* unavailable services, reviews by the staff, expired references

ASSUME IdentityAssumption ==
    /\ NoDetails \notin Details /\ NoImage \notin Images
    /\ Shows \in [Images -> SUBSET Details]
    /\ {MaxEdits, MaxUploads, MaxSessions, MaxInvites, MaxJobs, MaxFaults} \subseteq Nat

VARIABLES
    party,      \* the party's row: its number (a save makes a new row) and details
    row,        \* its PartyIdentityVerification
    cards,      \* the latest confirmed image of each side
    invite,     \* the invite's number and state
    jobs,       \* queued tasks for the party's row
    running,    \* the task that holds the rows, and what it read
    confirms,   \* open transactions that confirm an upload
    starting,   \* open calls that create a face check session, and what they read
    aws,        \* what AWS answers about each session
    whose,      \* history: the party each session was created for
    counts      \* edits, uploads and faults so far

vars == <<party, row, cards, invite, jobs, running, confirms, starting, aws, whose, counts>>

Sides == {"front", "back"}
Statuses == {"pending", "verified", "failed", "manual_review_required"}
Codes == {"none", "liveness_manual_review", "face_match_manual_review", "verification_unavailable", "other"}
Lives == {"none", "pending", "passed", "failed", "manual_review"}
Decisions == {"processing", "passed", "failed", "manual_review"}   \* an expired session is stored as a failed one
Sessions == 1 .. MaxSessions
Idle == [details |-> NoDetails, cards |-> [s \in Sides |-> NoImage]]
CardSets == [Sides -> Images \cup {NoImage}]
Readings == [details : Details \cup {NoDetails}, cards : CardSets]

\* The rows of the party, its verification and the invite, and what an upload
\* that is confirmed and a session that is created have read.
PartyRows == [no : 0 .. MaxEdits, details : Details]
Rows == [status : Statuses, code : Codes, live : Lives, key : BOOLEAN, session : 0 .. MaxSessions, of : Readings]
Invites == [no : 0 .. MaxInvites, state : {"none", "sent", "claimed"}]
Uploads == [no : 0 .. MaxEdits, side : Sides, image : Images, queue : BOOLEAN]
Starts == [no : 0 .. MaxEdits, session : Sessions, status : Statuses, code : Codes, of : Readings]
Counts == [edits : 0 .. MaxEdits, uploads : 0 .. MaxUploads, sessions : 0 .. MaxSessions, faults : 0 .. MaxFaults]

TypeOK ==
    /\ party \in PartyRows /\ row \in Rows
    /\ cards \in CardSets /\ invite \in Invites
    /\ jobs \in Nat /\ running \in Readings
    /\ confirms \subseteq Uploads /\ starting \subseteq Starts
    /\ aws \in [Sessions -> Decisions] /\ whose \in [Sessions -> 0 .. MaxEdits]
    /\ counts \in Counts

NewRow == [status |-> "pending", code |-> "none", live |-> "none", key |-> FALSE, session |-> 0, of |-> Idle]

Init ==
    /\ \E d \in Details : party = [no |-> 0, details |-> d]
    /\ row = NewRow
    /\ cards = Idle.cards
    /\ invite = [no |-> 0, state |-> "none"]
    /\ jobs = 0 /\ running = Idle /\ confirms = {} /\ starting = {}
    /\ aws = [s \in Sessions |-> "processing"] /\ whose = [s \in Sessions |-> 0]
    /\ counts = [edits |-> 0, uploads |-> 0, sessions |-> 0, faults |-> 0]

\* Another start: both sides are unclear and were judged so, after a face check
\* that passed.
FailedInit ==
    /\ \E d \in Details : party = [no |-> 0, details |-> d]
    /\ \E i \in Images : Shows[i] = {} /\ cards = [s \in Sides |-> i]
    /\ row = [NewRow EXCEPT !.status = "failed", !.code = "other", !.live = "passed", !.key = TRUE,
                            !.session = 1, !.of = [details |-> party.details, cards |-> cards]]
    /\ invite = [no |-> 0, state |-> "none"]
    /\ jobs = 0 /\ running = Idle /\ confirms = {} /\ starting = {}
    /\ 1 \in Sessions /\ aws = [s \in Sessions |-> IF s = 1 THEN "passed" ELSE "processing"]
    /\ whose = [s \in Sessions |-> 0]
    /\ counts = [edits |-> 0, uploads |-> 0, sessions |-> 1, faults |-> 0]

Spend(k, max) == counts[k] < max /\ counts' = [counts EXCEPT ![k] = @ + 1]
Fault == Spend("faults", MaxFaults)
Unlocked == running = Idle

\* Both sides of the card are there.
Both(cs) == \A s \in Sides : cs[s] # NoImage

\* Mutant of FacePassed: an image that is kept is taken for a check that passed.
FacePassedKept(r) == r.key

\* A face to compare the card with: a face check passed and its image is kept.
FacePassed(r) == r.live = "passed" /\ r.key

\* Mutant of Reset: only what the last check found is cleared.
ResetKept(r) == [r EXCEPT !.code = "none"]

\* reset_party_verification: the face check stays.
Reset(r) == [r EXCEPT !.status = "pending", !.code = "none", !.of = Idle]

-----------------------------------------------------------------------------
(* The creator.                                                              *)

\* set_parties deletes the parties' rows, and with them the verifications and
\* the invites; the evidence of the role stays.
SetParties(d) ==
    /\ Unlocked /\ Spend("edits", MaxEdits)
    /\ party' = [no |-> party.no + 1, details |-> d]
    /\ row' = NewRow
    /\ jobs' = IF cards # Idle.cards THEN 1 ELSE 0
    /\ invite' = [invite EXCEPT !.state = "none"]
    /\ UNCHANGED <<cards, running, confirms, starting, aws, whose>>

\* patch_parties keeps the row.
PatchParties(d) ==
    /\ Unlocked /\ Spend("edits", MaxEdits)
    /\ party' = [party EXCEPT !.details = d]
    /\ row' = Reset(row)
    /\ jobs' = IF cards # Idle.cards THEN jobs + 1 ELSE jobs
    /\ UNCHANGED <<cards, invite, running, confirms, starting, aws, whose>>

\* create_and_send replaces an invite, a claimed one as well.
SendInvite ==
    /\ invite.no < MaxInvites
    /\ invite' = [no |-> invite.no + 1, state |-> "sent"]
    /\ UNCHANGED <<party, row, cards, jobs, running, confirms, starting, aws, whose, counts>>

\* Idempotent for the invitee who claimed it.
Claim(n) ==
    /\ n = invite.no /\ invite.state \in {"sent", "claimed"}
    /\ invite' = [invite EXCEPT !.state = "claimed"]
    /\ UNCHANGED <<party, row, cards, jobs, running, confirms, starting, aws, whose, counts>>

-----------------------------------------------------------------------------
(* Uploads.                                                                  *)

\* Mutant of Queues: what was verified is not looked at.
QueuesOnce(cs) == Both(cs) /\ FacePassed(row) /\ row.status = "pending"

\* _maybe_queue_verification_after_upload, on what is committed.
Queues(cs) == row.status # "verified" /\ Both(cs) /\ FacePassed(row)

ConfirmBegin(s, i) ==
    /\ Spend("uploads", MaxUploads)
    /\ confirms' = confirms \cup {[no |-> party.no, side |-> s, image |-> i, queue |-> Queues([cards EXCEPT ![s] = i])]}
    /\ UNCHANGED <<party, row, cards, invite, jobs, running, starting, aws, whose>>

\* A reset waits for the task's locks.
ConfirmCommit(c) ==
    /\ c \in confirms /\ c.no = party.no
    /\ c.queue => Unlocked
    /\ confirms' = confirms \ {c}
    /\ cards' = [cards EXCEPT ![c.side] = c.image]
    /\ IF c.queue THEN row' = Reset(row) /\ jobs' = jobs + 1 ELSE UNCHANGED <<row, jobs>>
    /\ UNCHANGED <<party, invite, running, starting, aws, whose, counts>>

\* The party was deleted meanwhile: the item is confirmed, unless the
\* transaction has a verification to reset.
ConfirmOrphan(c) ==
    /\ c \in confirms /\ c.no # party.no
    /\ confirms' = confirms \ {c}
    /\ cards' = IF c.queue THEN cards ELSE [cards EXCEPT ![c.side] = c.image]
    /\ UNCHANGED <<party, row, invite, jobs, running, starting, aws, whose, counts>>

-----------------------------------------------------------------------------
(* The face check.                                                           *)

\* create_liveness_session reads the row, without a transaction, whatever it
\* says: a party who is verified can be checked again ...
SessionBegin ==
    /\ Spend("sessions", MaxSessions)
    /\ whose' = [whose EXCEPT ![counts'.sessions] = party.no]
    /\ starting' = starting \cup {[no |-> party.no, session |-> counts'.sessions,
                                   status |-> row.status, code |-> row.code, of |-> row.of]}
    /\ UNCHANGED <<party, row, cards, invite, jobs, running, confirms, aws>>

Retried(c) == IF c.status = "manual_review_required" THEN <<"pending", "none">> ELSE <<c.status, c.code>>

\* ... and writes back the status it read, with what that is about, once the task
\* has let go of the row.
SessionSave(c) ==
    /\ c \in starting /\ Unlocked
    /\ starting' = starting \ {c}
    /\ row' = IF c.no # party.no THEN row
              ELSE [row EXCEPT !.session = c.session, !.live = "pending",
                               !.status = Retried(c)[1], !.code = Retried(c)[2], !.of = c.of]
    /\ UNCHANGED <<party, cards, invite, jobs, running, confirms, aws, whose, counts>>

\* External: AWS analyses the video of a session.
Analysed(s, a) ==
    /\ s \in Sessions /\ aws[s] = "processing" /\ a # "processing"
    /\ aws' = [aws EXCEPT ![s] = a]
    /\ UNCHANGED <<party, row, cards, invite, jobs, running, confirms, starting, whose, counts>>

\* Mutant of Judged: a failed face check leaves what an earlier one has found.
JudgedPassed(a, r) ==
    CASE a = "manual_review" -> [r EXCEPT !.live = "manual_review", !.key = TRUE,
                                 !.status = "manual_review_required", !.code = "liveness_manual_review"]
      [] OTHER -> [r EXCEPT !.live = "passed", !.key = TRUE]

\* The row after a decision about its session.
Judged(a, r) ==
    CASE a = "passed" /\ r.status = "manual_review_required" ->
            [r EXCEPT !.live = "passed", !.key = TRUE, !.status = "pending", !.code = "none"]
      [] a = "passed" /\ r.status # "manual_review_required" -> [r EXCEPT !.live = "passed", !.key = TRUE]
      [] a = "manual_review" -> [r EXCEPT !.live = "manual_review", !.key = TRUE,
                                 !.status = "manual_review_required", !.code = "liveness_manual_review"]
      [] OTHER -> [r EXCEPT !.live = "failed"]

\* process_liveness_result.
LivenessResult ==
    /\ Unlocked /\ row.session # 0 /\ jobs < MaxJobs
    /\ IF aws[row.session] = "processing" THEN UNCHANGED <<row, jobs>>
       ELSE LET r == Judged(aws[row.session], row) IN
            IF aws[row.session] = "passed" /\ r.status # "verified" /\ Both(cards)
            THEN row' = Reset(r) /\ jobs' = jobs + 1
            ELSE row' = r /\ UNCHANGED jobs
    /\ UNCHANGED <<party, cards, invite, running, confirms, starting, aws, whose, counts>>

\* cleanup_expired_liveness_references, after the days of retention.
CleanUp ==
    /\ Unlocked /\ row.key /\ Fault
    /\ row' = [row EXCEPT !.key = FALSE]
    /\ UNCHANGED <<party, cards, invite, jobs, running, confirms, starting, aws, whose>>

-----------------------------------------------------------------------------
(* The task.                                                                 *)

BeginVerify ==
    /\ jobs > 0 /\ Unlocked
    /\ jobs' = jobs - 1
    /\ IF Both(cards) /\ FacePassed(row)
       THEN running' = [details |-> party.details, cards |-> cards] /\ UNCHANGED row
       ELSE row' = [row EXCEPT !.status = "pending", !.code = "none"] /\ UNCHANGED running
    /\ UNCHANGED <<party, cards, invite, confirms, starting, aws, whose, counts>>

\* The card can be read, and shows the details entered.
Agrees(w) == \A s \in Sides : w.details \in Shows[w.cards[s]]

\* The task's decision; the face and the card may differ, or nearly.
FinishVerify ==
    /\ ~Unlocked
    /\ running' = Idle
    /\ \/ /\ Agrees(running)
          /\ row' = [row EXCEPT !.status = "verified", !.code = "none", !.of = running]
          /\ UNCHANGED counts
       \/ /\ ~Agrees(running)
          /\ row' = [row EXCEPT !.status = "failed", !.code = "other", !.of = running]
          /\ UNCHANGED counts
       \/ /\ Fault
          /\ \/ row' = [row EXCEPT !.status = "failed", !.code = "other", !.of = running]
             \/ /\ Agrees(running)
                /\ row' = [row EXCEPT !.status = "manual_review_required",
                                      !.code = "face_match_manual_review", !.of = running]
    /\ UNCHANGED <<party, cards, invite, jobs, confirms, starting, aws, whose>>

\* Google Vision or AWS cannot be reached: the task is retried.
VerifyRetried ==
    /\ ~Unlocked /\ Fault
    /\ running' = Idle /\ jobs' = jobs + 1
    /\ UNCHANGED <<party, row, cards, invite, confirms, starting, aws, whose>>

\* The last retry, or the synchronous call made when the broker is down.
VerifyGivesUp ==
    /\ ~Unlocked /\ Fault
    /\ running' = Idle
    /\ row' \in {row, [row EXCEPT !.status = "pending", !.code = "verification_unavailable", !.of = running]}
    /\ UNCHANGED <<party, cards, invite, jobs, confirms, starting, aws, whose>>

\* resolve_manual_review, by the staff.
Resolve(approved) ==
    /\ Unlocked /\ Fault
    /\ row.status = "manual_review_required"
    /\ \/ /\ row.code = "liveness_manual_review" /\ row.key
          /\ row' = IF approved THEN [row EXCEPT !.live = "passed", !.status = "pending", !.code = "none"]
                    ELSE [row EXCEPT !.status = "failed", !.code = "other"]
          /\ jobs' = IF approved THEN jobs + 1 ELSE jobs
       \/ /\ row.code = "face_match_manual_review"
          /\ row' = [row EXCEPT !.status = IF approved THEN "verified" ELSE "failed",
                                !.code = IF approved THEN "none" ELSE "other"]
          /\ UNCHANGED jobs
    /\ UNCHANGED <<party, cards, invite, running, confirms, starting, aws, whose>>

Creator ==
    \/ \E d \in Details : SetParties(d) \/ PatchParties(d)
    \/ SendInvite

\* What a client with access asks for.
Holder ==
    \/ \E s \in Sides, i \in Images : ConfirmBegin(s, i)
    \/ SessionBegin \/ LivenessResult
    \/ \E n \in 1 .. MaxInvites : Claim(n)

Server ==
    \/ \E c \in confirms : ConfirmCommit(c) \/ ConfirmOrphan(c)
    \/ \E c \in starting : SessionSave(c)
    \/ BeginVerify \/ FinishVerify

Environment ==
    \/ \E s \in Sessions, a \in Decisions : s <= counts.sessions /\ Analysed(s, a)
    \/ VerifyRetried \/ VerifyGivesUp \/ CleanUp
    \/ \E b \in BOOLEAN : Resolve(b)

Next == Creator \/ Holder \/ Server \/ Environment

\* A new party, or one that has failed.
Spec == (Init \/ FailedInit) /\ [][Next]_vars

-----------------------------------------------------------------------------
(* Properties.                                                              *)

\* The verdict is about details the party no longer has.
Outdated == row.status = "verified" /\ row.of.details # party.details

\* Whoever is verified was verified on a card that shows the details, and after a
\* face check of the present row of the party that passed, or that needed a
\* review: neither a failed check nor a new party takes over the face of an
\* earlier one (services.py:245-429, 266-268). And a result computed from earlier
\* details is not written over a reset made meanwhile (parties/services.py:149-242),
\* but for one case: a call that was creating a face check while the party was
\* verified writes back the verdict it had read (services.py:552-575).
VerifiedMatchesParty ==
    /\ []TypeOK
    /\ [](row.status = "verified" =>
            /\ \A s \in Sides : row.of.details \in Shows[row.of.cards[s]]
            /\ \E s \in Sessions : whose[s] = party.no /\ aws[s] \in {"passed", "manual_review"})
    /\ [][~Outdated /\ Outdated' =>
            \E c \in starting \ starting' : c.status = "verified" /\ c.no = party.no /\ c.of = row'.of]_vars

Quiet == jobs = 0 /\ Unlocked /\ confirms = {} /\ starting = {}

\* After a failed verification the sides are replaced one by one, while tasks
\* run: once nothing is in progress, what failed is what is there now, unless a
\* service was unavailable, a reference expired, the parties were saved or the
\* face was checked again meanwhile (evidence/services.py:102-150).  An upload
\* under way while the party is verified is excepted: it is confirmed without a
\* check, also when an upload from before has had the verdict reset by then.
FailedIsCurrent ==
    FailedInit /\ [](row.status = "verified" => confirms = {}) =>
        [](row.status = "failed" /\ row.code = "other" /\ Quiet /\ counts.faults = 0 /\ counts.edits = 0 /\ counts.sessions = 1
               => row.of.cards = cards)

\* What an agreement is told of a verification.
Told(r) == IF r.status = "manual_review_required" THEN r.code ELSE r.status

\* What the module keeps of all this is what PartyContract promises: the answer is
\* that of the present session, a review is named by its code, and the checks
\* begun are those of the present row.
Contract == INSTANCE PartyContract
            WITH details <- party.details,
                 answer <- IF row.session = 0 THEN "none" ELSE aws[row.session],
                 face <- row.live,
                 verdict <- Told(row),
                 begun <- {Told(c) : c \in {d \in starting : d.no = party.no}}

\* Whatever uploads, saves, sessions, tasks and their retries overlap, a verdict is
\* come to in one step of the contract: "verified" needs a card that shows the
\* details of that moment and the present face check passed, or the approval of a
\* review, or a face check that was begun when the same row was verified; and a
\* face passes only by the answer about its own session, or by the staff
\* (identity/services.py:247-429, 552-697, 699-757).
KeepsVerdict == [][Contract!Next]_(Contract!record)
=============================================================================
