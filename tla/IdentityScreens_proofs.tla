----------------------- MODULE IdentityScreens_proofs -----------------------
(***************************************************************************)
(* Theorems about Identity and the screens on top of it, for any details,  *)
(* images, clients and bounds.                                             *)
(***************************************************************************)
EXTENDS IdentityScreens, TLAPS

-----------------------------------------------------------------------------
(* The backend: every variable keeps its type.                               *)

LEMMA Bounds ==
    /\ MaxEdits \in Nat /\ MaxUploads \in Nat /\ MaxSessions \in Nat /\ MaxInvites \in Nat
    /\ MaxJobs \in Nat /\ MaxFaults \in Nat
BY IdentityAssumption DEF IdentityAssumption

\* Something is counted.
LEMMA SpendSteps ==
    ASSUME counts \in Counts
    PROVE  /\ Spend("edits", MaxEdits) =>
                /\ counts' \in Counts /\ counts'.sessions = counts.sessions
                /\ counts'.edits = counts.edits + 1
           /\ Spend("uploads", MaxUploads) \/ Spend("faults", MaxFaults) =>
                /\ counts' \in Counts /\ counts'.sessions = counts.sessions
                /\ counts'.edits = counts.edits
           /\ Spend("sessions", MaxSessions) =>
                /\ counts' \in Counts /\ counts'.sessions = counts.sessions + 1
                /\ counts'.edits = counts.edits /\ counts'.sessions \in Sessions
BY Bounds DEF Spend, Counts, Sessions

\* The rows a verification starts with.
LEMMA FirstRows == Idle \in Readings /\ Idle.cards \in CardSets /\ NewRow \in Rows
<1>1. Idle \in Readings /\ Idle.cards \in CardSets
  BY DEF Idle, Readings, CardSets
<1>2. QED  BY <1>1, Bounds DEF NewRow, Rows, Statuses, Codes, Lives

\* The changes of a verification's row.
LEMMA RowSteps ==
    ASSUME NEW r \in Rows
    PROVE  /\ Reset(r) \in Rows
           /\ [r EXCEPT !.key = FALSE] \in Rows
           /\ \A s \in Statuses, c \in Codes : [r EXCEPT !.status = s, !.code = c] \in Rows
           /\ \A s \in Statuses, c \in Codes, w \in Readings :
                [r EXCEPT !.status = s, !.code = c, !.of = w] \in Rows
           /\ \A s \in Statuses, c \in Codes, n \in 0 .. MaxSessions, w \in Readings :
                [r EXCEPT !.session = n, !.live = "pending", !.status = s, !.code = c, !.of = w] \in Rows
           /\ [r EXCEPT !.live = "passed", !.status = "pending", !.code = "none"] \in Rows
           /\ \A a \in Decisions : Judged(a, r) \in Rows
<1>1. Reset(r) \in Rows
  BY FirstRows DEF Reset, Rows, Statuses, Codes
<1>2. ASSUME NEW a \in Decisions PROVE Judged(a, r) \in Rows
  <2>1. /\ [r EXCEPT !.live = "passed", !.key = TRUE, !.status = "pending", !.code = "none"] \in Rows
        /\ [r EXCEPT !.live = "passed", !.key = TRUE] \in Rows
        /\ [r EXCEPT !.live = "manual_review", !.key = TRUE, !.status = "manual_review_required",
                     !.code = "liveness_manual_review"] \in Rows
        /\ [r EXCEPT !.live = "failed"] \in Rows
    BY DEF Rows, Statuses, Codes, Lives
  <2>2. CASE a = "passed" /\ r.status = "manual_review_required"
    BY <2>1, <2>2, Zenon DEF Judged
  <2>3. CASE a = "passed" /\ r.status # "manual_review_required"
    BY <2>1, <2>3 DEF Judged
  <2>4. CASE a = "manual_review"
    BY <2>1, <2>4 DEF Judged
  <2>5. CASE a \notin {"passed", "manual_review"}
    BY <2>1, <2>5 DEF Judged
  <2>6. QED  BY <2>2, <2>3, <2>4, <2>5
<1>3. /\ [r EXCEPT !.key = FALSE] \in Rows
      /\ \A s \in Statuses, c \in Codes : [r EXCEPT !.status = s, !.code = c] \in Rows
      /\ \A s \in Statuses, c \in Codes, w \in Readings :
            [r EXCEPT !.status = s, !.code = c, !.of = w] \in Rows
      /\ \A s \in Statuses, c \in Codes, n \in 0 .. MaxSessions, w \in Readings :
            [r EXCEPT !.session = n, !.live = "pending", !.status = s, !.code = c, !.of = w] \in Rows
      /\ [r EXCEPT !.live = "passed", !.status = "pending", !.code = "none"] \in Rows
  BY DEF Rows, Lives, Statuses, Codes
<1>4. QED  BY <1>1, <1>2, <1>3

\* A party's number counts the saves, and an invite that was sent has a number.
Typed == TypeOK /\ party.no <= counts.edits /\ (invite.state # "none" => invite.no # 0)

LEMMA InitTyped == Init \/ FailedInit => Typed
<1>1. CASE Init
  <2>1. party \in PartyRows /\ invite \in Invites /\ counts \in Counts
    BY <1>1, Bounds DEF Init, PartyRows, Invites, Counts
  <2>2. whose \in [Sessions -> 0 .. MaxEdits]
    BY <1>1, Bounds DEF Init
  <2>3. QED  BY <1>1, <2>1, <2>2, FirstRows DEF Init, Typed, TypeOK, Sessions, Decisions
<1>2. CASE FailedInit
  <2>1. party \in PartyRows /\ invite \in Invites
    BY <1>2, Bounds DEF FailedInit, PartyRows, Invites
  <2>2. MaxSessions >= 1 /\ counts \in Counts
    BY <1>2, Bounds DEF FailedInit, Counts, Sessions
  <2>3. cards \in CardSets
    BY <1>2 DEF FailedInit, CardSets
  <2>4. [details |-> party.details, cards |-> cards] \in Readings
    BY <2>1, <2>3 DEF PartyRows, Readings
  <2>5. row \in Rows
    <3>1. row = [status |-> "failed", code |-> "other", live |-> "passed", key |-> TRUE, session |-> 1,
                 of |-> [details |-> party.details, cards |-> cards]]
      BY <1>2 DEF FailedInit, NewRow
    <3>2. QED  BY <2>2, <2>4, <3>1, Bounds DEF Rows, Statuses, Codes, Lives
  <2>6. aws \in [Sessions -> Decisions] /\ whose \in [Sessions -> 0 .. MaxEdits]
    BY <1>2, Bounds DEF FailedInit, Decisions
  <2>7. QED  BY <1>2, <2>1, <2>2, <2>3, <2>5, <2>6, FirstRows DEF FailedInit, Typed, TypeOK
<1>3. QED  BY <1>1, <1>2

LEMMA NextTyped == Typed /\ [Next]_vars => Typed'
<1> SUFFICES ASSUME Typed, Next PROVE Typed'
  BY DEF vars, Typed, TypeOK
<1> USE Bounds DEF Typed, TypeOK
<1>0. /\ party.no \in 0 .. MaxEdits /\ party.details \in Details
      /\ row.status \in Statuses /\ row.code \in Codes /\ row.session \in 0 .. MaxSessions
      /\ counts.sessions \in 0 .. MaxSessions /\ counts.edits \in 0 .. MaxEdits
      /\ invite.no \in 0 .. MaxInvites
  BY DEF PartyRows, Rows, Counts, Invites
<1>1. CASE Creator
  <2>1. ASSUME NEW d \in Details, SetParties(d) PROVE Typed'
    <3>1. counts' \in Counts /\ counts'.edits = counts.edits + 1
      BY <2>1, SpendSteps DEF SetParties
    <3>2. counts'.edits \in 0 .. MaxEdits
      BY <3>1 DEF Counts
    <3>3. party' \in PartyRows /\ party'.no <= counts'.edits
      BY <1>0, <2>1, <3>1, <3>2 DEF SetParties, PartyRows
    <3>4. invite' \in Invites /\ invite'.state = "none"
      BY <2>1 DEF SetParties, Invites
    <3>5. QED  BY <2>1, <3>1, <3>3, <3>4, FirstRows DEF SetParties
  <2>2. ASSUME NEW d \in Details, PatchParties(d) PROVE Typed'
    <3>1. counts' \in Counts /\ counts'.edits = counts.edits + 1
      BY <2>2, SpendSteps DEF PatchParties
    <3>2. party' \in PartyRows /\ party'.no = party.no
      BY <2>2 DEF PatchParties, PartyRows
    <3>3. Reset(row) \in Rows
      BY RowSteps
    <3>4. row' \in Rows
      BY <2>2, <3>3 DEF PatchParties
    <3>5. jobs' \in Nat
      <4>1. jobs' = jobs + 1 \/ jobs' = jobs
        BY <2>2, Zenon DEF PatchParties
      <4>2. QED  BY <4>1
    <3>6. QED  BY <1>0, <2>2, <3>1, <3>2, <3>4, <3>5 DEF PatchParties
  <2>3. CASE SendInvite
    BY <1>0, <2>3 DEF SendInvite, Invites
  <2>4. QED  BY <1>1, <2>1, <2>2, <2>3 DEF Creator
<1>2. CASE Holder
  <2>1. ASSUME NEW s \in Sides, NEW i \in Images, ConfirmBegin(s, i) PROVE Typed'
    <3>1. Queues([cards EXCEPT ![s] = i]) \in BOOLEAN
      BY DEF Queues
    <3>2. [no |-> party.no, side |-> s, image |-> i, queue |-> Queues([cards EXCEPT ![s] = i])] \in Uploads
      BY <1>0, <3>1 DEF Uploads
    <3>3. counts' \in Counts /\ counts'.edits = counts.edits
      BY <2>1, SpendSteps DEF ConfirmBegin
    <3>4. QED  BY <2>1, <3>2, <3>3 DEF ConfirmBegin
  <2>2. CASE SessionBegin
    <3>1. counts' \in Counts /\ counts'.edits = counts.edits /\ counts'.sessions \in Sessions
      BY <2>2, SpendSteps DEF SessionBegin
    <3>2. [no |-> party.no, session |-> counts'.sessions, status |-> row.status, code |-> row.code,
           of |-> row.of] \in Starts
      BY <1>0, <3>1 DEF Starts, Rows
    <3>3. whose' \in [Sessions -> 0 .. MaxEdits]
      BY <1>0, <2>2 DEF SessionBegin
    <3>4. QED  BY <2>2, <3>1, <3>2, <3>3 DEF SessionBegin
  <2>3. CASE LivenessResult
    <3>1. row.session \in Sessions
      BY <1>0, <2>3 DEF LivenessResult, Sessions
    <3>2. Judged(aws[row.session], row) \in Rows
      BY <3>1, RowSteps
    <3>3. Reset(Judged(aws[row.session], row)) \in Rows
      BY <3>2, RowSteps
    <3>4. row' \in Rows /\ jobs' \in Nat
      BY <2>3, <3>2, <3>3 DEF LivenessResult
    <3>5. QED  BY <2>3, <3>4 DEF LivenessResult
  <2>4. ASSUME NEW n \in 1 .. MaxInvites, Claim(n) PROVE Typed'
    BY <2>4 DEF Claim, Invites
  <2>5. QED  BY <1>2, <2>1, <2>2, <2>3, <2>4 DEF Holder
<1>3. CASE Server
  <2>1. ASSUME NEW c \in confirms, ConfirmCommit(c) \/ ConfirmOrphan(c) PROVE Typed'
    <3>1. c.side \in Sides /\ c.image \in Images
      BY DEF Uploads
    <3>2. cards' \in CardSets
      BY <2>1, <3>1 DEF ConfirmCommit, ConfirmOrphan, CardSets
    <3>3. Reset(row) \in Rows
      BY RowSteps
    <3>4. row' \in Rows /\ (jobs' = jobs \/ jobs' = jobs + 1)
      BY <2>1, <3>3, Zenon DEF ConfirmCommit, ConfirmOrphan
    <3>5. jobs' \in Nat
      BY <3>4
    <3>6. QED  BY <2>1, <3>2, <3>4, <3>5 DEF ConfirmCommit, ConfirmOrphan
  <2>2. ASSUME NEW c \in starting, SessionSave(c) PROVE Typed'
    <3>1. /\ Retried(c)[1] \in Statuses /\ Retried(c)[2] \in Codes
          /\ c.of \in Readings /\ c.session \in 0 .. MaxSessions
      BY DEF Starts, Retried, Statuses, Codes, Sessions
    <3>2. row' \in Rows
      BY <1>0, <2>2, <3>1, RowSteps DEF SessionSave
    <3>3. QED  BY <2>2, <3>2 DEF SessionSave
  <2>3. CASE BeginVerify
    <3>1. [details |-> party.details, cards |-> cards] \in Readings
      BY <1>0 DEF Readings
    <3>2. [row EXCEPT !.status = "pending", !.code = "none"] \in Rows
      BY RowSteps DEF Statuses, Codes
    <3>3. QED  BY <2>3, <3>1, <3>2 DEF BeginVerify
  <2>4. CASE FinishVerify
    <3>1. /\ [row EXCEPT !.status = "verified", !.code = "none", !.of = running] \in Rows
          /\ [row EXCEPT !.status = "failed", !.code = "other", !.of = running] \in Rows
          /\ [row EXCEPT !.status = "manual_review_required", !.code = "face_match_manual_review",
                         !.of = running] \in Rows
      BY RowSteps DEF Statuses, Codes
    <3>2. row' \in Rows
      BY <2>4, <3>1 DEF FinishVerify
    <3>3. counts' \in Counts /\ counts'.edits = counts.edits
      BY <2>4, SpendSteps DEF FinishVerify, Fault
    <3>4. QED  BY <2>4, <3>2, <3>3, FirstRows DEF FinishVerify
  <2>5. QED  BY <1>3, <2>1, <2>2, <2>3, <2>4 DEF Server
<1>4. CASE Environment
  <2>1. ASSUME NEW s \in Sessions, NEW a \in Decisions, Analysed(s, a) PROVE Typed'
    BY <2>1 DEF Analysed
  <2>2. CASE VerifyRetried
    BY <2>2, SpendSteps, FirstRows DEF VerifyRetried, Fault
  <2>3. CASE VerifyGivesUp
    <3>1. [row EXCEPT !.status = "pending", !.code = "verification_unavailable", !.of = running] \in Rows
      BY RowSteps DEF Statuses, Codes
    <3>2. QED  BY <2>3, <3>1, SpendSteps, FirstRows DEF VerifyGivesUp, Fault
  <2>4. CASE CleanUp
    BY <2>4, SpendSteps, RowSteps DEF CleanUp, Fault
  <2>5. ASSUME NEW b \in BOOLEAN, Resolve(b) PROVE Typed'
    <3>1. /\ [row EXCEPT !.live = "passed", !.status = "pending", !.code = "none"] \in Rows
          /\ [row EXCEPT !.status = "failed", !.code = "other"] \in Rows
          /\ [row EXCEPT !.status = "verified", !.code = "none"] \in Rows
      BY RowSteps DEF Statuses, Codes
    <3>2. row' \in Rows
      <4>1. CASE b
        BY <2>5, <3>1, <4>1 DEF Resolve
      <4>2. CASE ~b
        BY <2>5, <3>1, <4>2 DEF Resolve
      <4>3. QED  BY <4>1, <4>2
    <3>3. QED  BY <2>5, <3>2, SpendSteps DEF Resolve, Fault
  <2>6. QED  BY <1>4, <2>1, <2>2, <2>3, <2>4, <2>5 DEF Environment
<1>5. QED  BY <1>1, <1>2, <1>3, <1>4 DEF Next

-----------------------------------------------------------------------------
(* The backend: whoever is verified was verified with the present details.   *)

\* What a decision about a face check leaves of the row.
LEMMA JudgedFields ==
    ASSUME NEW r \in Rows, NEW a \in Decisions
    PROVE  /\ Judged(a, r).session = r.session /\ Judged(a, r).of = r.of
           /\ a \notin {"passed", "manual_review"} =>
                /\ Judged(a, r).key = r.key /\ Judged(a, r).live = "failed"
                /\ Judged(a, r).status = r.status /\ Judged(a, r).code = r.code
           /\ \/ Judged(a, r).status = r.status /\ Judged(a, r).code = r.code
              \/ Judged(a, r).status = "pending" /\ Judged(a, r).code = "none"
              \/ Judged(a, r).status = "manual_review_required" /\ Judged(a, r).code = "liveness_manual_review"
<1>1. CASE a = "passed" /\ r.status = "manual_review_required"
  <2>1. Judged(a, r) = [r EXCEPT !.live = "passed", !.key = TRUE, !.status = "pending", !.code = "none"]
    BY <1>1, Zenon DEF Judged
  <2>2. QED  BY <1>1, <2>1 DEF Rows
<1>2. CASE a = "passed" /\ r.status # "manual_review_required"
  <2>1. Judged(a, r) = [r EXCEPT !.live = "passed", !.key = TRUE]
    BY <1>2 DEF Judged
  <2>2. QED  BY <1>2, <2>1 DEF Rows
<1>3. CASE a = "manual_review"
  <2>1. Judged(a, r) = [r EXCEPT !.live = "manual_review", !.key = TRUE, !.status = "manual_review_required",
                                 !.code = "liveness_manual_review"]
    BY <1>3 DEF Judged
  <2>2. QED  BY <1>3, <2>1 DEF Rows
<1>4. CASE a \notin {"passed", "manual_review"}
  <2>1. Judged(a, r) = [r EXCEPT !.live = "failed"]
    BY <1>4 DEF Judged
  <2>2. QED  BY <1>4, <2>1 DEF Rows
<1>5. QED  BY <1>1, <1>2, <1>3, <1>4

Reviews == {"liveness_manual_review", "face_match_manual_review"}

\* A face check of the present row passed, or needed a review.
Faced == \E s \in Sessions : whose[s] = party.no /\ aws[s] \in {"passed", "manual_review"}

\* Where a row of the verification says or implies that there was such a check,
\* there was one; and the task works on no other row.
RowFaced ==
    /\ row.session <= counts.sessions
    /\ row.session # 0 => whose[row.session] = party.no
    /\ row.key \/ row.live = "passed" \/ row.code \in Reviews \/ row.status = "verified" \/ running # Idle => Faced

\* A row waits for a review exactly when its code asks for one, also in what the
\* creation of a session has read.
ReviewsArePending ==
    /\ row.code \in Reviews <=> row.status = "manual_review_required"
    /\ \A c \in starting : c.code \in Reviews <=> c.status = "manual_review_required"

\* The reading is of the party's present details, and the card shows them.
Matches(w) == w.details = party.details /\ Agrees(w)

\* A session that is created is of the party that was there, and a verdict read for
\* the present row was come to in the same way as the row's.
StartsKnown ==
    \A c \in starting :
        /\ c.session <= counts.sessions /\ whose[c.session] = c.no /\ c.no <= party.no
        /\ c.no = party.no /\ c.status = "verified" => Faced /\ Agrees(c.of)

\* The task has read the present details, and what was nearly verified was read
\* from a card that shows them; what is verified, from a card that shows its own.
Readout ==
    /\ running # Idle => running.details = party.details
    /\ row.status = "verified" => Agrees(row.of)
    /\ row.code = "face_match_manual_review" => Matches(row.of)

IdentityInv == Typed /\ RowFaced /\ ReviewsArePending /\ StartsKnown /\ Readout

LEMMA InitIdentityInv == Init \/ FailedInit => IdentityInv
<1> SUFFICES ASSUME Init \/ FailedInit PROVE IdentityInv
  OBVIOUS
<1>1. Typed
  BY InitTyped
<1>2. CASE Init
  BY <1>1, <1>2, Bounds DEF Init, NewRow, IdentityInv, RowFaced, ReviewsArePending, StartsKnown, Readout, Reviews
<1>3. CASE FailedInit
  <2>1. row = [status |-> "failed", code |-> "other", live |-> "passed", key |-> TRUE, session |-> 1,
               of |-> [details |-> party.details, cards |-> cards]]
    BY <1>3 DEF FailedInit, NewRow
  <2>2. aws[1] = "passed" /\ whose[1] = party.no /\ 1 \in Sessions
    BY <1>3 DEF FailedInit
  <2>3. Faced
    BY <2>1, <2>2 DEF Faced
  <2>4. QED  BY <1>1, <1>3, <2>1, <2>2, <2>3
             DEF FailedInit, IdentityInv, RowFaced, ReviewsArePending, StartsKnown, Readout, Reviews
<1>4. QED  BY <1>2, <1>3

\* The present reading of a row or of the task stays one, unless the party
\* changes.
LEMMA MatchesSteps ==
    /\ \A w : UNCHANGED party /\ Matches(w) => Matches(w)'
    /\ \A w : Agrees(w)' = Agrees(w)
BY DEF Matches, Agrees

\* A face check that was made stays made, as long as the party's row does.
LEMMA FacedSteps ==
    ASSUME Typed, Faced, party'.no = party.no,
           UNCHANGED aws \/ \E s \in Sessions, a \in Decisions : Analysed(s, a),
           UNCHANGED whose \/ \E s \in Sessions : whose' = [whose EXCEPT ![s] = party.no]
    PROVE  Faced'
<1>1. PICK s \in Sessions : whose[s] = party.no /\ aws[s] \in {"passed", "manual_review"}
  BY DEF Faced
<1>2. aws'[s] = aws[s]
  <2>1. ASSUME NEW t \in Sessions, NEW a \in Decisions, Analysed(t, a) PROVE aws'[s] = aws[s]
    <3>1. t # s /\ aws' = [aws EXCEPT ![t] = a]
      BY <1>1, <2>1 DEF Analysed
    <3>2. QED  BY <3>1 DEF Typed, TypeOK
  <2>2. QED  BY <2>1
<1>3. whose'[s] = party.no
  BY <1>1 DEF Typed, TypeOK
<1>4. QED  BY <1>1, <1>2, <1>3 DEF Faced

LEMMA NextIdentityInv == IdentityInv /\ [Next]_vars => IdentityInv'
<1> SUFFICES ASSUME IdentityInv, [Next]_vars PROVE IdentityInv'
  OBVIOUS
<1>1. Typed /\ Typed'
  BY NextTyped DEF IdentityInv
<1>2. CASE UNCHANGED vars
  BY <1>1, <1>2
     DEF vars, IdentityInv, RowFaced, Faced, ReviewsArePending, StartsKnown, Readout, Matches, Agrees
<1>3. CASE Next
  <2> USE DEF IdentityInv
  <2>0. /\ row \in Rows /\ counts \in Counts /\ jobs \in Nat /\ starting \subseteq Starts
        /\ party \in PartyRows /\ party.no \in Nat
        /\ row.session \in 0 .. MaxSessions /\ counts.sessions \in 0 .. MaxSessions
    BY <1>1, Bounds DEF Typed, TypeOK, Rows, Counts, PartyRows
  \* The steps that leave the row, the party and the task.
  <2>1. ASSUME UNCHANGED <<party, row, running, starting, whose>>, counts'.sessions = counts.sessions,
               UNCHANGED aws \/ \E s \in Sessions, a \in Decisions : Analysed(s, a)
        PROVE  IdentityInv'
    <3>1. Faced => Faced'
      BY <1>1, <2>1, FacedSteps
    <3>2. RowFaced' /\ StartsKnown'
      BY <2>1, <3>1, MatchesSteps DEF RowFaced, StartsKnown
    <3>3. ReviewsArePending' /\ Readout'
      BY <2>1, MatchesSteps DEF ReviewsArePending, Readout
    <3>4. QED  BY <1>1, <3>2, <3>3
  \* The steps that change the row, but neither the party nor the task.
  <2>2. ASSUME UNCHANGED <<party, running, aws, whose>>, starting' \subseteq starting,
               counts'.sessions = counts.sessions, running = Idle,
               row'.session <= counts.sessions, row'.session # 0 => whose[row'.session] = party.no,
               row'.key \/ row'.live = "passed" \/ row'.code \in Reviews \/ row'.status = "verified" => Faced,
               row'.code \in Reviews <=> row'.status = "manual_review_required",
               row'.status = "verified" => Agrees(row'.of),
               row'.code = "face_match_manual_review" => Matches(row'.of)
        PROVE  IdentityInv'
    <3>1. Faced => Faced'
      BY <1>1, <2>2, FacedSteps
    <3>2. RowFaced' /\ StartsKnown'
      BY <2>2, <3>1, MatchesSteps DEF RowFaced, StartsKnown
    <3>3. ReviewsArePending'
      BY <2>2 DEF ReviewsArePending
    <3>4. Readout'
      BY <2>2, MatchesSteps DEF Readout, Matches
    <3>5. QED  BY <1>1, <3>2, <3>3, <3>4
  <2>3. ASSUME NEW r, r \in Rows
        PROVE  LET q == Reset(r) IN
                 /\ q.status = "pending" /\ q.code = "none" /\ q.session = r.session
                 /\ q.live = r.live /\ q.key = r.key
    BY <2>3 DEF Reset, Rows
  <2>4. CASE Creator
    <3>1. ASSUME NEW d \in Details, SetParties(d) PROVE IdentityInv'
      <4>1. /\ row' = NewRow /\ running = Idle /\ running' = Idle /\ UNCHANGED <<starting, whose>>
            /\ counts'.sessions = counts.sessions /\ party'.no = party.no + 1
        BY <2>0, <3>1, SpendSteps DEF SetParties, Unlocked
      <4>2. RowFaced' /\ ReviewsArePending' /\ Readout'
        BY <2>0, <4>1 DEF NewRow, RowFaced, ReviewsArePending, Readout, Reviews
      <4>3. StartsKnown'
        <5>1. \A c \in starting : c.no \in Nat
          BY <2>0, Bounds DEF Starts
        <5>2. QED  BY <2>0, <4>1, <5>1 DEF StartsKnown
      <4>4. QED  BY <1>1, <4>2, <4>3
    <3>2. ASSUME NEW d \in Details, PatchParties(d) PROVE IdentityInv'
      <4>1. /\ row' = Reset(row) /\ running = Idle /\ running' = Idle /\ UNCHANGED <<starting, whose, aws>>
            /\ counts'.sessions = counts.sessions /\ party'.no = party.no
        BY <2>0, <3>2, SpendSteps DEF PatchParties, Unlocked, PartyRows
      <4>2. /\ row'.status = "pending" /\ row'.code = "none" /\ row'.session = row.session
            /\ row'.live = row.live /\ row'.key = row.key
        BY <2>0, <2>3, <4>1
      <4>3. Faced => Faced'
        BY <4>1 DEF Faced
      <4>4. RowFaced' /\ ReviewsArePending' /\ Readout'
        BY <4>1, <4>2, <4>3 DEF RowFaced, ReviewsArePending, Readout, Reviews
      <4>5. StartsKnown'
        BY <4>1, <4>3, MatchesSteps DEF StartsKnown
      <4>6. QED  BY <1>1, <4>4, <4>5
    <3>3. CASE SendInvite
      BY <2>0, <2>1, <3>3 DEF SendInvite
    <3>4. QED  BY <2>4, <3>1, <3>2, <3>3 DEF Creator
  <2>5. CASE Holder
    <3>1. ASSUME NEW s \in Sides, NEW i \in Images, ConfirmBegin(s, i) PROVE IdentityInv'
      <4>1. counts'.sessions = counts.sessions
        BY <2>0, <3>1, SpendSteps DEF ConfirmBegin
      <4>2. QED  BY <2>0, <2>1, <3>1, <4>1 DEF ConfirmBegin
    <3>2. CASE SessionBegin
      <4>0. PICK n \in Sessions : n = counts'.sessions /\ n = counts.sessions + 1
        BY <2>0, <3>2, SpendSteps DEF SessionBegin
      <4>1. UNCHANGED <<party, row, running, aws>>
        BY <3>2 DEF SessionBegin
      <4>2. PICK c :
              /\ c = [no |-> party.no, session |-> n, status |-> row.status, code |-> row.code, of |-> row.of]
              /\ starting' = starting \cup {c} /\ whose' = [whose EXCEPT ![n] = party.no]
        BY <3>2, <4>0 DEF SessionBegin
      <4>3. Faced => Faced'
        BY <1>1, <4>1, <4>2, FacedSteps
      <4>4. \A s \in Sessions : (s <= counts.sessions => whose'[s] = whose[s]) /\ whose'[n] = party.no
        BY <1>1, <2>0, <4>0, <4>2, Bounds DEF Typed, TypeOK, Sessions
      <4>5. RowFaced'
        <5>1. row.session # 0 => row.session \in Sessions /\ row.session <= counts.sessions
          BY <2>0, Bounds DEF RowFaced, Sessions
        <5>2. QED  BY <2>0, <4>0, <4>1, <4>3, <4>4, <5>1, Bounds DEF RowFaced
      <4>6. ReviewsArePending'
        BY <4>1, <4>2 DEF ReviewsArePending
      <4>7. Readout'
        BY <4>1, MatchesSteps DEF Readout
      <4>8. StartsKnown'
        <5>1. ASSUME NEW b \in starting
              PROVE  /\ b.session <= n /\ whose'[b.session] = b.no /\ b.no <= party'.no
                     /\ b.no = party'.no /\ b.status = "verified" => Faced' /\ Agrees(b.of)'
          <6>1. b.session \in Sessions /\ b.session <= counts.sessions
            BY <2>0 DEF StartsKnown, Starts
          <6>2. whose'[b.session] = whose[b.session] /\ b.session <= n
            BY <2>0, <4>0, <4>4, <6>1, Bounds DEF Sessions
          <6>3. QED  BY <4>1, <4>3, <6>2, MatchesSteps DEF StartsKnown
        <5>2. c.session = n /\ c.no = party.no /\ c.status = row.status /\ c.of = row.of
          BY <4>2
        <5>3. whose'[n] = party.no /\ party.no <= party.no /\ n <= n
          BY <2>0, <4>0, <4>4, Bounds DEF Sessions
        <5>4. row.status = "verified" => Faced' /\ Agrees(row.of)
          BY <4>3 DEF RowFaced, Readout
        <5>5. c.status = "verified" => Faced' /\ Agrees(c.of)'
          BY <5>2, <5>4, MatchesSteps
        <5>6. QED  BY <4>0, <4>1, <4>2, <5>1, <5>2, <5>3, <5>5 DEF StartsKnown
      <4>9. QED  BY <1>1, <4>5, <4>6, <4>7, <4>8
    <3>3. CASE LivenessResult
      <4> DEFINE a == aws[row.session]
                 r == Judged(a, row)
      <4>1. a \in Decisions /\ row.session \in Sessions
        BY <1>1, <2>0, <3>3, Bounds DEF LivenessResult, Typed, TypeOK, Sessions
      <4>2. UNCHANGED <<party, running, starting, aws, whose, counts>> /\ running = Idle
        BY <3>3 DEF LivenessResult, Unlocked
      <4>3. r \in Rows
        BY <2>0, <4>1, RowSteps
      <4>4. /\ r.session = row.session /\ r.of = row.of
            /\ a \notin {"passed", "manual_review"} =>
                 r.key = row.key /\ r.live = "failed" /\ r.status = row.status /\ r.code = row.code
            /\ \/ r.status = row.status /\ r.code = row.code
               \/ r.status = "pending" /\ r.code = "none"
               \/ r.status = "manual_review_required" /\ r.code = "liveness_manual_review"
        BY <2>0, <4>1, JudgedFields
      <4>5. a \in {"passed", "manual_review"} => Faced
        BY <3>3, <4>1 DEF Faced, RowFaced, LivenessResult
      <4> HIDE DEF r
      <4>6. row' = row \/ row' = r \/ (row' = Reset(r) /\ a = "passed")
        <5>1. CASE a = "processing"
          BY <3>3, <5>1, Zenon DEF LivenessResult
        <5>2. CASE a # "processing" /\ (a = "passed" /\ r.status # "verified" /\ Both(cards))
          BY <3>3, <5>2, Zenon DEF LivenessResult, r
        <5>3. CASE a # "processing" /\ ~(a = "passed" /\ r.status # "verified" /\ Both(cards))
          BY <3>3, <5>3, Zenon DEF LivenessResult, r
        <5>4. QED  BY <5>1, <5>2, <5>3
      <4> HIDE DEF a
      <4>7. CASE row' = row
        BY <2>0, <2>1, <4>2, <4>7
      <4>8. CASE row' = r
        <5>1. row'.key \/ row'.live = "passed" \/ row'.code \in Reviews \/ row'.status = "verified" => Faced
          BY <4>4, <4>5, <4>8 DEF RowFaced
        <5>2. row'.code \in Reviews <=> row'.status = "manual_review_required"
          BY <4>4, <4>8 DEF ReviewsArePending, Reviews
        <5>3. /\ row'.status = "verified" => Agrees(row'.of)
              /\ row'.code = "face_match_manual_review" => Matches(row'.of)
          BY <4>4, <4>8 DEF Readout
        <5>4. QED  BY <2>0, <2>2, <4>2, <4>4, <4>8, <5>1, <5>2, <5>3 DEF RowFaced
      <4>9. CASE row' = Reset(r) /\ a = "passed"
        <5>1. row'.status = "pending" /\ row'.code = "none" /\ row'.session = row.session
          BY <2>3, <4>3, <4>4, <4>9
        <5>2. QED  BY <2>0, <2>2, <4>2, <4>5, <4>9, <5>1 DEF RowFaced, Reviews
      <4>10. QED  BY <4>6, <4>7, <4>8, <4>9
    <3>4. ASSUME NEW n \in 1 .. MaxInvites, Claim(n) PROVE IdentityInv'
      BY <2>0, <2>1, <3>4 DEF Claim
    <3>5. QED  BY <2>5, <3>1, <3>2, <3>3, <3>4 DEF Holder
  <2>6. CASE Server
    <3>1. ASSUME NEW c \in confirms, ConfirmCommit(c) PROVE IdentityInv'
      <4>1. UNCHANGED <<party, running, starting, aws, whose, counts>>
        BY <3>1 DEF ConfirmCommit
      <4>2. CASE c.queue
        <5>1. row' = Reset(row) /\ running = Idle
          BY <3>1, <4>2 DEF ConfirmCommit, Unlocked
        <5>2. /\ row'.status = "pending" /\ row'.code = "none" /\ row'.session = row.session
              /\ row'.live = row.live /\ row'.key = row.key
          BY <2>0, <2>3, <5>1
        <5>3. QED  BY <2>0, <2>2, <4>1, <5>1, <5>2 DEF RowFaced, Reviews
      <4>3. CASE ~c.queue
        <5>1. row' = row
          BY <3>1, <4>3, Zenon DEF ConfirmCommit
        <5>2. QED  BY <2>0, <2>1, <4>1, <5>1
      <4>4. QED  BY <4>2, <4>3
    <3>2. ASSUME NEW c \in confirms, ConfirmOrphan(c) PROVE IdentityInv'
      BY <2>0, <2>1, <3>2 DEF ConfirmOrphan
    <3>3. ASSUME NEW c \in starting, SessionSave(c) PROVE IdentityInv'
      <4>1. UNCHANGED <<party, running, aws, whose, counts>> /\ starting' \subseteq starting /\ running = Idle
        BY <3>3 DEF SessionSave, Unlocked
      <4>2. CASE c.no # party.no
        <5>1. row' = row
          BY <3>3, <4>2 DEF SessionSave
        <5>2. QED  BY <2>0, <2>2, <4>1, <5>1 DEF RowFaced, ReviewsArePending, Readout
      <4>3. CASE c.no = party.no
        <5>1. row' = [row EXCEPT !.session = c.session, !.live = "pending",
                                 !.status = Retried(c)[1], !.code = Retried(c)[2], !.of = c.of]
          BY <3>3, <4>3 DEF SessionSave
        <5>2. Retried(c)[1] = "verified" => c.status = "verified"
          BY DEF Retried
        <5>3. Retried(c)[2] \notin Reviews /\ Retried(c)[1] # "manual_review_required"
          BY DEF Retried, ReviewsArePending, Reviews
        <5>4. /\ row'.session = c.session /\ row'.live = "pending" /\ row'.key = row.key
              /\ row'.status = Retried(c)[1] /\ row'.code = Retried(c)[2] /\ row'.of = c.of
          BY <2>0, <5>1 DEF Rows
        <5>5. row'.status = "verified" => Faced /\ Agrees(row'.of)
          BY <4>3, <5>2, <5>4 DEF StartsKnown
        <5>6. c.session <= counts.sessions /\ whose[c.session] = party.no
          BY <4>3 DEF StartsKnown
        <5>7. QED  BY <2>2, <4>1, <5>3, <5>4, <5>5, <5>6 DEF RowFaced, Reviews
      <4>4. QED  BY <4>2, <4>3
    <3>4. CASE BeginVerify
      <4>1. UNCHANGED <<party, starting, aws, whose, counts>> /\ running = Idle
        BY <3>4 DEF BeginVerify, Unlocked
      <4>2. CASE Both(cards) /\ FacePassed(row)
        <5>1. row' = row /\ running' = [details |-> party.details, cards |-> cards]
          BY <3>4, <4>2 DEF BeginVerify
        <5>2. RowFaced'
          BY <2>0, <4>1, <4>2, <5>1 DEF RowFaced, Faced, FacePassed
        <5>3. ReviewsArePending' /\ Readout'
          BY <4>1, <5>1, MatchesSteps DEF ReviewsArePending, Readout
        <5>4. StartsKnown'
          BY <4>1, <5>1, MatchesSteps DEF StartsKnown, Faced
        <5>5. QED  BY <1>1, <5>2, <5>3, <5>4
      <4>3. CASE ~(Both(cards) /\ FacePassed(row))
        <5>1. row' = [row EXCEPT !.status = "pending", !.code = "none"] /\ running' = running
          BY <3>4, <4>3 DEF BeginVerify
        <5>2. /\ row'.status = "pending" /\ row'.code = "none" /\ row'.session = row.session
              /\ row'.live = row.live /\ row'.key = row.key
          BY <2>0, <5>1 DEF Rows
        <5>3. QED  BY <2>0, <2>2, <4>1, <5>1, <5>2 DEF RowFaced, Reviews
      <4>4. QED  BY <4>2, <4>3
    <3>5. CASE FinishVerify
      <4>1. /\ UNCHANGED <<party, starting, aws, whose>> /\ running # Idle /\ running' = Idle
            /\ counts'.sessions = counts.sessions
        BY <2>0, <3>5, SpendSteps DEF FinishVerify, Fault, Unlocked
      <4>2. Faced /\ Faced'
        BY <4>1 DEF RowFaced, Faced
      <4>3. /\ row'.session = row.session /\ row'.of = running
            /\ row'.code \in Reviews <=> row'.status = "manual_review_required"
            /\ row'.status = "verified" \/ row'.code = "face_match_manual_review" => Agrees(running)
        BY <2>0, <3>5 DEF FinishVerify, Rows, Reviews
      <4>4. RowFaced' /\ ReviewsArePending'
        BY <4>1, <4>2, <4>3 DEF RowFaced, ReviewsArePending
      <4>5. Agrees(running) => Agrees(row.of)' /\ Matches(row.of)'
        BY <4>1, <4>3 DEF Matches, Agrees, Readout
      <4>6. Readout'
        BY <4>1, <4>3, <4>5 DEF Readout
      <4>7. StartsKnown'
        BY <4>1, <4>2, MatchesSteps DEF StartsKnown
      <4>8. QED  BY <1>1, <4>4, <4>6, <4>7
    <3>6. QED  BY <2>6, <3>1, <3>2, <3>3, <3>4, <3>5 DEF Server
  <2>7. CASE Environment
    <3>1. ASSUME NEW s \in Sessions, NEW a \in Decisions, Analysed(s, a) PROVE IdentityInv'
      <4>1. UNCHANGED <<party, row, running, starting, whose, counts>>
        BY <3>1 DEF Analysed
      <4>2. QED  BY <2>0, <2>1, <3>1, <4>1
    <3>2. CASE VerifyRetried
      <4>1. /\ UNCHANGED <<party, row, starting, aws, whose>> /\ running' = Idle
            /\ counts'.sessions = counts.sessions
        BY <2>0, <3>2, SpendSteps DEF VerifyRetried, Fault
      <4>2. RowFaced' /\ ReviewsArePending' /\ StartsKnown'
        BY <4>1, MatchesSteps DEF RowFaced, Faced, ReviewsArePending, StartsKnown
      <4>3. Readout'
        BY <4>1, MatchesSteps DEF Readout
      <4>4. QED  BY <1>1, <4>2, <4>3
    <3>3. CASE VerifyGivesUp
      <4>1. /\ UNCHANGED <<party, starting, aws, whose>> /\ running # Idle /\ running' = Idle
            /\ counts'.sessions = counts.sessions
        BY <2>0, <3>3, SpendSteps DEF VerifyGivesUp, Fault, Unlocked
      <4>2. CASE row' = row
        <5>1. RowFaced' /\ ReviewsArePending' /\ StartsKnown'
          BY <4>1, <4>2, MatchesSteps DEF RowFaced, Faced, ReviewsArePending, StartsKnown
        <5>2. Readout'
          BY <4>1, <4>2, MatchesSteps DEF Readout
        <5>3. QED  BY <1>1, <5>1, <5>2
      <4>3. CASE row' = [row EXCEPT !.status = "pending", !.code = "verification_unavailable", !.of = running]
        <5>1. row'.status = "pending" /\ row'.code = "verification_unavailable" /\ row'.session = row.session
          BY <2>0, <4>3 DEF Rows
        <5>2. RowFaced' /\ ReviewsArePending' /\ StartsKnown' /\ Readout'
          BY <4>1, <5>1, MatchesSteps
             DEF RowFaced, Faced, ReviewsArePending, StartsKnown, Readout, Reviews
        <5>3. QED  BY <1>1, <5>2
      <4>4. QED  BY <3>3, <4>2, <4>3 DEF VerifyGivesUp
    <3>4. CASE CleanUp
      <4>1. /\ UNCHANGED <<party, running, starting, aws, whose>> /\ running = Idle
            /\ counts'.sessions = counts.sessions
        BY <2>0, <3>4, SpendSteps DEF CleanUp, Fault, Unlocked
      <4>2. /\ row'.status = row.status /\ row'.code = row.code /\ row'.session = row.session
            /\ row'.live = row.live /\ row'.key = FALSE /\ row'.of = row.of
        BY <2>0, <3>4 DEF CleanUp, Rows
      <4>3. QED  BY <2>0, <2>2, <4>1, <4>2 DEF RowFaced, ReviewsArePending, Readout
    <3>5. ASSUME NEW b \in BOOLEAN, Resolve(b) PROVE IdentityInv'
      <4>1. /\ UNCHANGED <<party, running, starting, aws, whose>> /\ running = Idle
            /\ counts'.sessions = counts.sessions
        BY <2>0, <3>5, SpendSteps DEF Resolve, Fault, Unlocked
      <4>2. row.code \in Reviews
        BY <3>5 DEF Resolve, Reviews
      <4>3. /\ row'.session = row.session /\ row'.of = row.of /\ row'.code \notin Reviews
            /\ row'.status # "manual_review_required"
            /\ row'.status = "verified" => row.code = "face_match_manual_review"
        <5>1. \/ row' = [row EXCEPT !.live = "passed", !.status = "pending", !.code = "none"]
              \/ row' = [row EXCEPT !.status = "failed", !.code = "other"]
              \/ row.code = "face_match_manual_review" /\ row' = [row EXCEPT !.status = "verified", !.code = "none"]
          BY <3>5 DEF Resolve
        <5>2. QED  BY <2>0, <5>1 DEF Rows, Reviews
      <4>4. Faced
        BY <4>2 DEF RowFaced
      <4>5. QED  BY <2>0, <2>2, <4>1, <4>3, <4>4 DEF RowFaced, Readout, Reviews, Matches
    <3>6. QED  BY <2>7, <3>1, <3>2, <3>3, <3>4, <3>5 DEF Environment
  <2>8. QED  BY <1>3, <2>4, <2>5, <2>6, <2>7 DEF Next
<1>4. QED  BY <1>2, <1>3

\* A verdict comes to be about other details only by a call that had read it.
LEMMA OutdatedSteps ==
    ASSUME IdentityInv, [Next]_vars, ~Outdated, Outdated'
    PROVE  /\ party' = party
           /\ \E c \in starting \ starting' : c.status = "verified" /\ c.no = party.no /\ c.of = row'.of
<1> USE DEF Outdated
<1>0. row \in Rows /\ starting \subseteq Starts
  BY DEF IdentityInv, Typed, TypeOK
<1>1. UNCHANGED <<party, row>> => FALSE
  OBVIOUS
<1>2. row'.status = "verified" /\ row'.of.details # party'.details
  OBVIOUS
<1>3. CASE Creator
  <2>1. ASSUME NEW d \in Details, SetParties(d) PROVE FALSE
    BY <1>2, <2>1 DEF SetParties, NewRow
  <2>2. ASSUME NEW d \in Details, PatchParties(d) PROVE FALSE
    <3>1. row'.status = "pending"
      BY <1>0, <2>2 DEF PatchParties, Reset, Rows
    <3>2. QED  BY <1>2, <3>1
  <2>3. QED  BY <1>1, <1>3, <2>1, <2>2 DEF Creator, SendInvite
<1>4. CASE Holder
  <2>1. CASE LivenessResult
    <3> DEFINE r == Judged(aws[row.session], row)
    <3>1. aws[row.session] \in Decisions
      BY <1>0, <2>1, Bounds DEF LivenessResult, IdentityInv, Typed, TypeOK, Rows, Sessions
    <3>2. r \in Rows /\ r.of = row.of /\ (r.status = "verified" => row.status = "verified")
      BY <1>0, <3>1, RowSteps, JudgedFields
    <3> HIDE DEF r
    <3>3. row' \in {row, r, Reset(r)} /\ party' = party
      BY <2>1, Zenon DEF LivenessResult, r
    <3>4. Reset(r).status = "pending"
      BY <3>2 DEF Reset, Rows
    <3>5. QED  BY <1>2, <3>2, <3>3, <3>4
  <2>2. QED  BY <1>1, <1>4, <2>1 DEF Holder, ConfirmBegin, SessionBegin, Claim
<1>5. CASE Server
  <2>1. ASSUME NEW c \in confirms, ConfirmCommit(c) \/ ConfirmOrphan(c) PROVE FALSE
    <3>1. row' \in {row, Reset(row)} /\ party' = party
      BY <2>1, Zenon DEF ConfirmCommit, ConfirmOrphan
    <3>2. Reset(row).status = "pending"
      BY <1>0 DEF Reset, Rows
    <3>3. QED  BY <1>2, <3>1, <3>2
  <2>2. ASSUME NEW c \in starting, SessionSave(c)
        PROVE  /\ party' = party /\ c \in starting \ starting'
               /\ c.status = "verified" /\ c.no = party.no /\ c.of = row'.of
    <3>1. party' = party /\ c \in starting \ starting'
      BY <2>2 DEF SessionSave
    <3>2. c.no = party.no
      BY <1>1, <2>2, <3>1 DEF SessionSave
    <3>3. row'.status = Retried(c)[1] /\ row'.of = c.of
      BY <1>0, <2>2, <3>2 DEF SessionSave, Rows
    <3>4. c.status = "verified"
      BY <1>2, <3>3 DEF Retried
    <3>5. QED  BY <3>1, <3>2, <3>3, <3>4
  <2>3. CASE BeginVerify
    BY <1>0, <1>1, <1>2, <2>3 DEF BeginVerify, Rows
  <2>4. CASE FinishVerify
    <3>1. row'.of = running /\ running.details = party.details /\ party' = party
      BY <1>0, <2>4 DEF FinishVerify, Rows, Unlocked, IdentityInv, Readout
    <3>2. QED  BY <1>2, <3>1
  <2>5. QED  BY <1>5, <2>1, <2>2, <2>3, <2>4 DEF Server
<1>6. CASE Environment
  <2>1. CASE VerifyRetried \/ CleanUp \/ \E s \in Sessions, a \in Decisions : Analysed(s, a)
    <3>1. row'.status = row.status /\ row'.of = row.of /\ party' = party
      BY <1>0, <2>1 DEF VerifyRetried, CleanUp, Analysed, Rows
    <3>2. QED  BY <1>2, <3>1
  <2>2. CASE VerifyGivesUp
    BY <1>0, <1>1, <1>2, <2>2 DEF VerifyGivesUp, Rows
  <2>3. ASSUME NEW b \in BOOLEAN, Resolve(b) PROVE FALSE
    <3>1. row'.of = row.of /\ party' = party /\ (row'.status = "verified" => row.code = "face_match_manual_review")
      <4>1. CASE b
        BY <1>0, <2>3, <4>1 DEF Resolve, Rows
      <4>2. CASE ~b
        BY <1>0, <2>3, <4>2 DEF Resolve, Rows
      <4>3. QED  BY <4>1, <4>2
    <3>2. QED  BY <1>2, <3>1 DEF IdentityInv, Readout, Matches
  <2>4. QED  BY <1>6, <2>1, <2>2, <2>3 DEF Environment
<1>7. QED  BY <1>1, <1>3, <1>4, <1>5, <1>6 DEF Next, vars

\* Whoever is verified was verified on a card that shows the details, after a face
\* check of this row of the party; and the details are the present ones, unless
\* a call that had read the verdict writes it back.
THEOREM VerifiedIsParty == Spec => VerifiedMatchesParty
<1>1. IdentityInv => TypeOK /\ (row.status = "verified" =>
                /\ \A s \in Sides : row.of.details \in Shows[row.of.cards[s]]
                /\ \E s \in Sessions : whose[s] = party.no /\ aws[s] \in {"passed", "manual_review"})
  BY DEF IdentityInv, Typed, RowFaced, Faced, Readout, Agrees
<1>2. IdentityInv /\ [Next]_vars =>
        [~Outdated /\ Outdated' =>
            \E c \in starting \ starting' : c.status = "verified" /\ c.no = party.no /\ c.of = row'.of]_vars
  BY OutdatedSteps
<1>3. QED  BY <1>1, <1>2, InitIdentityInv, NextIdentityInv, PTL DEF Spec, VerifiedMatchesParty

-----------------------------------------------------------------------------
(* The backend: what an agreement is told about a party.                     *)

\* While the task holds the rows, the face check stays passed, and it has a card
\* of two sides.
TaskReady == running # Idle => row.live = "passed" /\ Both(running.cards)

VerdictInv == IdentityInv /\ TaskReady

LEMMA InitVerdictInv == Init \/ FailedInit => VerdictInv
BY InitIdentityInv DEF Init, FailedInit, VerdictInv, TaskReady

LEMMA NextTaskReady == IdentityInv /\ TaskReady /\ [Next]_vars => TaskReady'
<1> SUFFICES ASSUME TaskReady, [Next]_vars PROVE TaskReady'
  OBVIOUS
<1>1. CASE UNCHANGED <<running, row>>
  BY <1>1 DEF TaskReady, Both
<1>2. CASE UNCHANGED running /\ Unlocked
  BY <1>2 DEF TaskReady, Unlocked
<1>3. CASE running' = Idle
  BY <1>3 DEF TaskReady
<1>4. CASE BeginVerify
  BY <1>2, <1>4 DEF BeginVerify, FacePassed, TaskReady, Both
<1>5. CASE Creator \/ Holder
  BY <1>1, <1>2, <1>5 DEF Creator, SetParties, PatchParties, SendInvite, Holder, ConfirmBegin, SessionBegin, LivenessResult, Claim
<1>6. ASSUME NEW c \in confirms, ConfirmCommit(c) \/ ConfirmOrphan(c) PROVE TaskReady'
  BY <1>1, <1>2, <1>6 DEF ConfirmCommit, ConfirmOrphan
<1>7. ASSUME NEW c \in starting, SessionSave(c) PROVE TaskReady'
  BY <1>2, <1>7 DEF SessionSave
<1>8. CASE FinishVerify \/ VerifyRetried \/ VerifyGivesUp
  BY <1>3, <1>8 DEF FinishVerify, VerifyRetried, VerifyGivesUp
<1>9. CASE CleanUp \/ (\E b \in BOOLEAN : Resolve(b)) \/ \E s \in Sessions, a \in Decisions : Analysed(s, a)
  BY <1>1, <1>2, <1>9 DEF CleanUp, Resolve, Analysed
<1>10. QED  BY <1>1, <1>4, <1>5, <1>6, <1>7, <1>8, <1>9 DEF vars, Next, Server, Environment

\* What the contract calls the checks that were begun.
Begun == {Told(c) : c \in {d \in starting : d.no = party.no}}

\* A step that leaves the party, its row and the answers alone is none.
LEMMA UnnoticedByParty ==
    UNCHANGED <<party, row, aws, starting>> => UNCHANGED Contract!record
BY DEF Told, Contract!record

\* The verdict is taken back, and the face check stays.
LEMMA TakenBack ==
    ASSUME UNCHANGED <<party, aws, starting>>, row'.status = "pending", row'.live = row.live, row'.session = row.session
    PROVE  Contract!Withdraw
BY DEF Contract!Withdraw, Told

LEMMA ResetFields ==
    ASSUME NEW r \in Rows
    PROVE  /\ Reset(r).status = "pending" /\ Reset(r).code = "none"
           /\ Reset(r).live = r.live /\ Reset(r).session = r.session
BY DEF Reset, Rows

\* The creator's saves.
LEMMA SavesKeepVerdict ==
    ASSUME IdentityInv, IdentityInv', Creator
    PROVE  [Contract!Next]_(Contract!record)
<1>1. row \in Rows /\ party' \in PartyRows
  BY DEF IdentityInv, Typed, TypeOK
<1>2. party'.details \in Details
  BY <1>1 DEF PartyRows
<1>3. ASSUME NEW d \in Details, SetParties(d) PROVE Contract!Replace
  <2>1. \A c \in starting' : c.no # party'.no
    BY <1>3, Bounds DEF SetParties, IdentityInv, Typed, TypeOK, PartyRows, StartsKnown, Starts
  <2>2. QED  BY <2>1, <1>2, <1>3 DEF Told, SetParties, NewRow, Contract!Replace
<1>4. ASSUME NEW d \in Details, PatchParties(d) PROVE Contract!Correct
  <2>1. row' = Reset(row) /\ UNCHANGED <<aws, starting>> /\ party'.no = party.no
    BY <1>1, <1>4 DEF PatchParties
  <2>2. QED  BY <1>1, <1>2, <2>1, ResetFields DEF Told, Contract!Correct
<1>5. CASE SendInvite
  BY <1>5, UnnoticedByParty DEF SendInvite
<1>6. QED  BY <1>3, <1>4, <1>5 DEF Creator, Contract!Next

\* A session is begun: the contract notes the verdict of that moment.
LEMMA BeginningAsks ==
    ASSUME IdentityInv, SessionBegin
    PROVE  [Contract!Next]_(Contract!record)
<1>1. /\ UNCHANGED <<party, row, aws>> /\ row \in Rows
      /\ row.session # 0 => row.session \in Sessions
  BY Bounds DEF IdentityInv, Typed, TypeOK, SessionBegin, Rows, Sessions
<1>2. PICK c : /\ c.no = party.no /\ c.status = row.status /\ c.code = row.code
               /\ starting' = starting \cup {c}
  BY DEF SessionBegin
<1>3. Told(c) = Told(row)
  BY <1>2 DEF Told
<1>4. Begun' = Begun \cup {Told(row)}
  BY <1>1, <1>2, <1>3 DEF Begun
<1>5. Contract!AskForCheck
  BY <1>1, <1>4 DEF Contract!AskForCheck, Begun, Told
<1>6. QED  BY <1>5 DEF Contract!Next

\* A new session of the present row: the verdict is what was read when it was begun.
LEMMA SavingChecksFace ==
    ASSUME IdentityInv, IdentityInv', NEW c \in starting, SessionSave(c)
    PROVE  [Contract!Next]_(Contract!record)
<1>1. /\ row \in Rows /\ row' \in Rows /\ c \in Starts /\ aws' \in [Sessions -> Decisions]
      /\ UNCHANGED <<party, aws>> /\ starting' = starting \ {c}
  BY DEF IdentityInv, Typed, TypeOK, SessionSave
<1>2. CASE c.no # party.no
  <2>1. row' = row /\ Begun' = Begun
    BY <1>1, <1>2 DEF SessionSave, Begun
  <2>2. QED  BY <1>1, <2>1 DEF Contract!record, Begun
<1>3. CASE c.no = party.no
  <2>1. /\ row'.live = "pending" /\ row'.session = c.session
        /\ row'.status = Retried(c)[1] /\ row'.code = Retried(c)[2]
    BY <1>1, <1>3 DEF SessionSave, Rows
  <2>2. row'.session # 0 /\ aws'[row'.session] \in Contract!Answers
    BY <1>1, <2>1, Bounds DEF Starts, Sessions, Decisions, Contract!Answers
  <2>3. Told(row') = IF Told(c) \in Contract!Reviews THEN "pending" ELSE Told(c)
    <3>1. c.code \in Reviews <=> c.status = "manual_review_required"
      BY DEF IdentityInv, ReviewsArePending
    <3>2. CASE c.status = "manual_review_required"
      BY <2>1, <3>1, <3>2 DEF Told, Retried, Contract!Reviews, Reviews
    <3>3. CASE c.status # "manual_review_required"
      BY <1>1, <2>1, <3>3 DEF Told, Retried, Contract!Reviews, Starts, Statuses
    <3>4. QED  BY <3>2, <3>3
  <2>4. Told(c) \in Begun /\ Begun' \in {Begun, Begun \ {Told(c)}}
    BY <1>1, <1>3 DEF Begun
  <2>5. Contract!CheckFace
    BY <1>1, <2>1, <2>2, <2>3, <2>4 DEF Contract!CheckFace, Begun
  <2>6. QED  BY <2>5 DEF Contract!Next
<1>4. QED  BY <1>2, <1>3

\* AWS answers about the present session, or about another.
LEMMA AnalysedAnswers ==
    ASSUME IdentityInv, NEW s \in Sessions, NEW a \in Decisions, Analysed(s, a)
    PROVE  [Contract!Next]_(Contract!record)
<1>1. aws \in [Sessions -> Decisions] /\ UNCHANGED <<party, row, starting>>
  BY DEF IdentityInv, Typed, TypeOK, Analysed
<1>2. CASE s = row.session
  <2>1. row.session # 0 /\ aws[row.session] = "processing" /\ aws'[row.session] = a
    BY <1>1, <1>2, Bounds DEF Analysed, Sessions
  <2>2. Contract!Analyse
    BY <1>1, <2>1 DEF Told, Contract!Analyse, Contract!Answers, Decisions
  <2>3. QED  BY <2>2 DEF Contract!Next
<1>3. CASE s # row.session
  <2>1. aws'[row.session] = aws[row.session]
    BY <1>1, <1>3 DEF Analysed
  <2>2. QED  BY <1>1, <2>1 DEF Told, Contract!record
<1>4. QED  BY <1>2, <1>3

\* What an answer makes of a row.
LEMMA JudgedFaces ==
    ASSUME NEW r \in Rows, NEW a \in Decisions
    PROVE  /\ a = "passed" => /\ Judged(a, r).live = "passed"
                              /\ \/ Judged(a, r).status = "pending"
                                 \/ r.status # "manual_review_required" /\ Judged(a, r).status = r.status
           /\ a = "manual_review" => /\ Judged(a, r).live = "manual_review"
                                     /\ Judged(a, r).status = "manual_review_required"
                                     /\ Judged(a, r).code = "liveness_manual_review"
           /\ a \notin {"passed", "manual_review"} =>
                /\ Judged(a, r).live = "failed"
                /\ Judged(a, r).status = r.status /\ Judged(a, r).code = r.code
<1>1. CASE a = "passed" /\ r.status = "manual_review_required"
  <2>1. Judged(a, r) = [r EXCEPT !.live = "passed", !.key = TRUE, !.status = "pending", !.code = "none"]
    BY <1>1, Zenon DEF Judged
  <2>2. QED  BY <1>1, <2>1 DEF Rows
<1>2. CASE a = "passed" /\ r.status # "manual_review_required"
  <2>1. Judged(a, r) = [r EXCEPT !.live = "passed", !.key = TRUE]
    BY <1>2 DEF Judged
  <2>2. QED  BY <1>2, <2>1 DEF Rows
<1>3. CASE a = "manual_review"
  <2>1. Judged(a, r) = [r EXCEPT !.live = "manual_review", !.key = TRUE, !.status = "manual_review_required",
                                 !.code = "liveness_manual_review"]
    BY <1>3 DEF Judged
  <2>2. QED  BY <1>3, <2>1 DEF Rows
<1>4. CASE a \notin {"passed", "manual_review"}
  <2>1. Judged(a, r) = [r EXCEPT !.live = "failed"]
    BY <1>4 DEF Judged
  <2>2. QED  BY <1>4, <2>1 DEF Rows
<1>5. QED  BY <1>1, <1>2, <1>3, <1>4

\* A result is asked for.
LEMMA ResultTakesAnswer ==
    ASSUME IdentityInv, LivenessResult
    PROVE  [Contract!Next]_(Contract!record)
<1>1. /\ row \in Rows /\ row.session # 0 /\ UNCHANGED <<party, aws, starting>> /\ aws[row.session] \in Decisions
  BY Bounds DEF IdentityInv, Typed, TypeOK, LivenessResult, Rows, Sessions
<1>2. PICK a \in Decisions : a = aws[row.session]
  BY <1>1
<1>3. CASE a = "processing"
  BY <1>1, <1>2, <1>3, UnnoticedByParty DEF LivenessResult
<1>4. CASE a # "processing"
  <2>1. PICK r \in Rows : r = Judged(a, row) /\ r.session = row.session
    BY <1>1, RowSteps, JudgedFields
  <2>2. row' = r \/ (a = "passed" /\ row' = Reset(r))
    BY <1>2, <1>4, <2>1, Zenon DEF LivenessResult
  <2>3. row'.session = row.session /\ row'.live = r.live
    BY <2>1, <2>2, ResetFields
  <2>4. CASE a = "passed"
    <3>1. row'.live = "passed"
      BY <1>1, <2>1, <2>3, <2>4, JudgedFaces
    <3>2. row'.status = "pending" \/ (row.status # "manual_review_required" /\ row'.status = row.status)
      BY <1>1, <2>1, <2>2, <2>4, JudgedFaces, ResetFields
    <3>3. row.status \notin Contract!Reviews
      BY <1>1 DEF Rows, Statuses, Contract!Reviews
    <3>4. Contract!TakeAnswer
      BY <1>1, <1>2, <2>3, <2>4, <3>1, <3>2, <3>3 DEF Told, Contract!TakeAnswer
    <3>5. QED  BY <3>4 DEF Contract!Next
  <2>5. CASE a = "manual_review"
    <3>1. /\ row'.live = "manual_review" /\ row'.status = "manual_review_required"
          /\ row'.code = "liveness_manual_review"
      BY <1>1, <2>1, <2>2, <2>5, JudgedFaces
    <3>2. Contract!TakeAnswer
      BY <1>1, <1>2, <2>3, <2>5, <3>1 DEF Told, Contract!TakeAnswer
    <3>3. QED  BY <3>2 DEF Contract!Next
  <2>6. CASE a = "failed"
    <3>1. row'.live = "failed" /\ row'.status = row.status /\ row'.code = row.code
      BY <1>1, <2>1, <2>2, <2>6, JudgedFaces
    <3>2. Contract!TakeAnswer
      BY <1>1, <1>2, <2>3, <2>6, <3>1 DEF Told, Contract!TakeAnswer
    <3>3. QED  BY <3>2 DEF Contract!Next
  <2>7. QED  BY <1>4, <2>4, <2>5, <2>6 DEF Decisions
<1>5. QED  BY <1>3, <1>4

\* The task ends: it has compared a card that shows the details with a face that
\* was checked, or it says no more than that the card failed.
LEMMA FinishingJudges ==
    ASSUME VerdictInv, FinishVerify
    PROVE  [Contract!Next]_(Contract!record)
<1>1. /\ row \in Rows /\ running # Idle /\ running \in Readings /\ UNCHANGED <<party, aws, starting>>
      /\ running.details = party.details /\ row.live = "passed" /\ Both(running.cards)
  BY DEF VerdictInv, IdentityInv, Typed, TypeOK, Readout, TaskReady, FinishVerify, Unlocked
<1>2. Agrees(running) => \E i \in Images : party.details \in Shows[i]
  <2>1. running.cards["front"] \in Images
    BY <1>1 DEF Readings, CardSets, Both, Sides
  <2>2. QED  BY <1>1, <2>1 DEF Agrees, Sides
<1>3. /\ row'.live = row.live /\ row'.session = row.session
      /\ \/ row'.status = "failed"
         \/ row'.status = "verified" /\ Agrees(running)
         \/ row'.status = "manual_review_required" /\ row'.code = "face_match_manual_review" /\ Agrees(running)
  BY <1>1 DEF FinishVerify, Rows
<1>4. Contract!Judge
  BY <1>1, <1>2, <1>3 DEF Told, Contract!Judge
<1>5. QED  BY <1>4 DEF Contract!Next

\* The staff decide what is waited for.
LEMMA ResolvingDecides ==
    ASSUME IdentityInv, NEW b \in BOOLEAN, Resolve(b)
    PROVE  [Contract!Next]_(Contract!record)
<1>1. row \in Rows /\ row.status = "manual_review_required" /\ UNCHANGED <<party, aws, starting>>
  BY DEF IdentityInv, Typed, TypeOK, Resolve
<1>2. CASE b
  <2>1. /\ row'.session = row.session
        /\ \/ row.code = "liveness_manual_review" /\ row'.live = "passed" /\ row'.status = "pending"
           \/ row.code = "face_match_manual_review" /\ row'.live = row.live /\ row'.status = "verified"
    BY <1>1, <1>2 DEF Resolve, Rows
  <2>2. Contract!Approve
    BY <1>1, <2>1 DEF Told, Contract!Approve
  <2>3. QED  BY <2>2 DEF Contract!Next
<1>3. CASE ~b
  <2>1. /\ row'.session = row.session /\ row'.live = row.live /\ row'.status = "failed"
        /\ row.code \in Reviews
    BY <1>1, <1>3 DEF Resolve, Rows, Reviews
  <2>2. Contract!Reject
    BY <1>1, <2>1 DEF Told, Contract!Reject, Contract!Reviews, Reviews
  <2>3. QED  BY <2>2 DEF Contract!Next
<1>4. QED  BY <1>2, <1>3

\* Every step is one of the contract, or none.
LEMMA NextKeepsVerdict ==
    VerdictInv /\ [Next]_vars => VerdictInv' /\ [Contract!Next]_(Contract!record)
<1> SUFFICES ASSUME VerdictInv, [Next]_vars
             PROVE  VerdictInv' /\ [Contract!Next]_(Contract!record)
  OBVIOUS
<1>1. IdentityInv /\ IdentityInv' /\ row \in Rows
  BY NextIdentityInv DEF VerdictInv, IdentityInv, Typed, TypeOK
<1>2. VerdictInv'
  BY <1>1, NextTaskReady DEF VerdictInv
<1>3. CASE UNCHANGED vars
  BY <1>2, <1>3, UnnoticedByParty DEF vars
<1>4. CASE Creator
  BY <1>1, <1>2, <1>4, SavesKeepVerdict
<1>5. CASE Holder
  <2>1. CASE LivenessResult
    BY <1>1, <1>2, <2>1, ResultTakesAnswer
  <2>2. CASE SessionBegin
    BY <1>1, <1>2, <2>2, BeginningAsks
  <2>3. CASE ~LivenessResult /\ ~SessionBegin
    BY <1>2, <1>5, <2>3, UnnoticedByParty DEF Holder, ConfirmBegin, Claim
  <2>4. QED  BY <2>1, <2>2, <2>3
<1>6. CASE Server
  <2>1. ASSUME NEW c \in confirms, ConfirmCommit(c) PROVE [Contract!Next]_(Contract!record)
    <3>1. UNCHANGED <<party, aws, starting>> /\ row' \in {row, Reset(row)}
      BY <2>1, Zenon DEF ConfirmCommit
    <3>2. CASE row' = row
      BY <3>1, <3>2, UnnoticedByParty
    <3>3. CASE row' = Reset(row)
      BY <1>1, <3>1, <3>3, ResetFields, TakenBack DEF Contract!Next
    <3>4. QED  BY <3>1, <3>2, <3>3
  <2>2. ASSUME NEW c \in confirms, ConfirmOrphan(c) PROVE [Contract!Next]_(Contract!record)
    BY <2>2, UnnoticedByParty DEF ConfirmOrphan
  <2>3. CASE BeginVerify
    <3>1. CASE row' = row
      BY <1>2, <2>3, <3>1, UnnoticedByParty DEF BeginVerify
    <3>2. CASE row' # row
      <4>1. UNCHANGED <<party, aws, starting>> /\ row' = [row EXCEPT !.status = "pending", !.code = "none"]
        BY <2>3, <3>2, Zenon DEF BeginVerify
      <4>2. row'.status = "pending" /\ row'.live = row.live /\ row'.session = row.session
        BY <1>1, <4>1 DEF Rows
      <4>3. QED  BY <1>2, <4>1, <4>2, TakenBack DEF Contract!Next
    <3>3. QED  BY <3>1, <3>2
  <2>4. QED  BY <1>1, <1>2, <1>6, <2>1, <2>2, <2>3, SavingChecksFace, FinishingJudges DEF Server
<1>7. CASE Environment
  <2>1. CASE VerifyRetried \/ CleanUp
    <3>1. /\ UNCHANGED <<party, aws, starting>> /\ row'.status = row.status /\ row'.code = row.code
          /\ row'.live = row.live /\ row'.session = row.session
      BY <1>1, <2>1 DEF VerifyRetried, CleanUp, Rows
    <3>2. QED  BY <1>2, <3>1 DEF Told, Contract!record
  <2>2. CASE VerifyGivesUp
    <3>1. CASE row' = row
      BY <1>2, <2>2, <3>1, UnnoticedByParty DEF VerifyGivesUp
    <3>2. CASE row' # row
      <4>1. /\ UNCHANGED <<party, aws, starting>>
            /\ row' = [row EXCEPT !.status = "pending", !.code = "verification_unavailable", !.of = running]
        BY <2>2, <3>2 DEF VerifyGivesUp
      <4>2. row'.status = "pending" /\ row'.live = row.live /\ row'.session = row.session
        BY <1>1, <4>1 DEF Rows
      <4>3. QED  BY <1>2, <4>1, <4>2, TakenBack DEF Contract!Next
    <3>3. QED  BY <3>1, <3>2
  <2>3. QED  BY <1>1, <1>2, <1>7, <2>1, <2>2, AnalysedAnswers, ResolvingDecides DEF Environment
<1>8. QED  BY <1>3, <1>4, <1>5, <1>6, <1>7 DEF Next

\* Whatever is uploaded, saved, checked and retried at once, a verdict is come to in
\* one of the ways of the contract.
THEOREM VerdictIsKept == Spec => KeepsVerdict
<1>1. VerdictInv /\ [Next]_vars => [Contract!Next]_(Contract!record)
  BY NextKeepsVerdict
<1>2. VerdictInv /\ [Next]_vars => VerdictInv'
  BY NextKeepsVerdict
<1>3. QED  BY <1>1, <1>2, InitVerdictInv, PTL DEF Spec, KeepsVerdict

-----------------------------------------------------------------------------
(* The backend: after a failed verification.                                 *)

\* Nothing but the sides of the card has changed since the start.
Calm == counts.faults = 0 /\ counts.edits = 0 /\ counts.sessions = 1

LEMMA CalmSteps ==
    ASSUME counts \in Counts, counts.sessions # 0
    PROVE  /\ Spend("edits", MaxEdits) \/ Spend("faults", MaxFaults) \/ Spend("sessions", MaxSessions) => ~Calm'
           /\ Spend("uploads", MaxUploads) /\ Calm' => Calm
           /\ counts' \in Counts /\ Spend("uploads", MaxUploads) => counts'.sessions # 0
           /\ counts' \in Counts /\ Spend("edits", MaxEdits) => counts'.sessions # 0
           /\ counts' \in Counts /\ Spend("faults", MaxFaults) => counts'.sessions # 0
           /\ counts' \in Counts /\ Spend("sessions", MaxSessions) => counts'.sessions # 0
BY Bounds DEF Spend, Counts, Calm

\* The face check of the start is the only one; every upload queues a task; and
\* a verdict, or the task, is about the sides that are there.
CurrentInv ==
    /\ Typed /\ counts.sessions # 0
    /\ Both(cards)
    /\ Calm =>
        /\ row.live = "passed" /\ row.key /\ row.session = 1 /\ aws[1] = "passed"
        /\ starting = {}
        /\ \A c \in confirms : c.queue /\ c.no = party.no
        /\ row.status = "failed" => row.of.cards = cards
        /\ running # Idle => running.cards = cards

\* No upload is under way while the party is verified.
NoLateUpload == row.status = "verified" => confirms = {}

LEMMA NextCurrentInv == CurrentInv /\ NoLateUpload /\ NoLateUpload' /\ [Next]_vars => CurrentInv'
<1> SUFFICES ASSUME CurrentInv, NoLateUpload, NoLateUpload', [Next]_vars PROVE CurrentInv'
  OBVIOUS
<1>0. /\ Typed /\ Typed' /\ row \in Rows /\ counts \in Counts /\ counts' \in Counts
      /\ cards \in CardSets /\ confirms \subseteq Uploads /\ counts.sessions # 0
  BY NextTyped DEF CurrentInv, Typed, TypeOK
<1>1. CASE UNCHANGED vars
  BY <1>0, <1>1 DEF vars, CurrentInv, Calm, Both
\* What is counted, other than an upload, ends the calm.
<1>2. ASSUME Spend("edits", MaxEdits) \/ Spend("faults", MaxFaults) \/ Spend("sessions", MaxSessions),
             UNCHANGED cards
      PROVE  CurrentInv'
  BY <1>0, <1>2, CalmSteps DEF CurrentInv, Both
\* A step that keeps the cards and the face check, after which what failed is
\* about the cards.
<1>3. ASSUME UNCHANGED <<cards, counts, aws, party>>, starting' \subseteq starting, confirms' \subseteq confirms,
             Calm => /\ row'.live = "passed" /\ row'.key /\ row'.session = 1
                     /\ row'.status = "failed" => row'.of.cards = cards
                     /\ running' # Idle => running'.cards = cards
      PROVE  CurrentInv'
  BY <1>0, <1>3 DEF CurrentInv, Calm, Both
<1>4. CASE Creator
  <2>1. CASE SendInvite
    BY <1>3, <2>1 DEF SendInvite, CurrentInv
  <2>2. QED  BY <1>2, <1>4, <2>1 DEF Creator, SetParties, PatchParties
<1>5. CASE Holder
  <2>1. ASSUME NEW s \in Sides, NEW i \in Images, ConfirmBegin(s, i) PROVE CurrentInv'
    <3> DEFINE c == [no |-> party.no, side |-> s, image |-> i, queue |-> Queues([cards EXCEPT ![s] = i])]
    <3>1. /\ UNCHANGED <<party, row, cards, running, starting, aws>> /\ confirms' = confirms \cup {c}
          /\ (Calm' => Calm) /\ counts'.sessions # 0
      BY <1>0, <2>1, CalmSteps DEF ConfirmBegin
    <3>2. row.status # "verified"
      BY <3>1 DEF NoLateUpload
    <3>3. Both([cards EXCEPT ![s] = i])
      BY <1>0, IdentityAssumption DEF CurrentInv, Both, CardSets, IdentityAssumption
    <3>4. c.no = party.no /\ c.queue = Queues([cards EXCEPT ![s] = i])
      OBVIOUS
    <3>5. Calm => c.queue
      BY <3>2, <3>3, <3>4 DEF CurrentInv, Queues, FacePassed
    <3> HIDE DEF c
    <3>6. QED  BY <1>0, <3>1, <3>4, <3>5 DEF CurrentInv, Both
  <2>2. CASE SessionBegin
    BY <1>2, <2>2 DEF SessionBegin
  <2>3. CASE LivenessResult
    <3> DEFINE r == Judged(aws[row.session], row)
    <3>1. UNCHANGED <<cards, counts, aws, party, starting, confirms, running>>
      BY <2>3 DEF LivenessResult
    <3>2. CASE Calm
      <4>1. row.session = 1 /\ aws[row.session] = "passed" /\ Both(cards)
        BY <3>2 DEF CurrentInv
      <4>2. r = [row EXCEPT !.live = "passed", !.key = TRUE, !.status = "pending", !.code = "none"]
              \/ r = [row EXCEPT !.live = "passed", !.key = TRUE]
        <5>1. CASE row.status = "manual_review_required"
          BY <4>1, <5>1, Zenon DEF Judged
        <5>2. CASE row.status # "manual_review_required"
          BY <4>1, <5>2 DEF Judged
        <5>3. QED  BY <5>1, <5>2
      <4>3. r \in Rows /\ r.live = "passed" /\ r.key /\ r.session = 1
        BY <1>0, <4>1, <4>2 DEF Rows, Statuses, Codes, Lives
      <4> HIDE DEF r
      <4>4. row' = (IF r.status # "verified" THEN Reset(r) ELSE r)
        <5>1. aws[row.session] # "processing"
          BY <4>1
        <5>2. CASE r.status # "verified"
          BY <2>3, <4>1, <5>1, <5>2, Zenon DEF LivenessResult, r
        <5>3. CASE r.status = "verified"
          BY <2>3, <4>1, <5>1, <5>3, Zenon DEF LivenessResult, r
        <5>4. QED  BY <5>2, <5>3
      <4>5. row'.live = "passed" /\ row'.key /\ row'.session = 1 /\ row'.status # "failed"
        BY <4>3, <4>4 DEF Reset, Rows
      <4>6. QED  BY <1>3, <3>1, <3>2, <4>5 DEF CurrentInv
    <3>3. CASE ~Calm
      BY <1>3, <3>1, <3>3
    <3>4. QED  BY <3>2, <3>3
  <2>4. ASSUME NEW n \in 1 .. MaxInvites, Claim(n) PROVE CurrentInv'
    BY <1>3, <2>4 DEF Claim, CurrentInv
  <2>5. QED  BY <1>5, <2>1, <2>2, <2>3, <2>4 DEF Holder
<1>6. CASE Server
  <2>1. ASSUME NEW c \in confirms, ConfirmCommit(c) PROVE CurrentInv'
    <3>1. /\ UNCHANGED <<party, running, starting, aws, counts>> /\ confirms' \subseteq confirms
          /\ cards' = [cards EXCEPT ![c.side] = c.image] /\ c \in Uploads
      BY <1>0, <2>1 DEF ConfirmCommit
    <3>2. Both(cards')
      BY <1>0, <3>1, IdentityAssumption DEF CurrentInv, Both, CardSets, IdentityAssumption, Uploads
    <3>3. CASE Calm
      <4>1. row' = Reset(row) /\ running = Idle
        BY <2>1, <3>3 DEF ConfirmCommit, Unlocked, CurrentInv
      <4>2. row'.live = row.live /\ row'.key = row.key /\ row'.session = row.session /\ row'.status = "pending"
        BY <1>0, <4>1 DEF Reset, Rows
      <4>3. QED  BY <1>0, <3>1, <3>2, <4>1, <4>2 DEF CurrentInv, Calm, Both
    <3>4. CASE ~Calm
      BY <1>0, <3>1, <3>2, <3>4 DEF CurrentInv, Calm, Both
    <3>5. QED  BY <3>3, <3>4
  <2>2. ASSUME NEW c \in confirms, ConfirmOrphan(c) PROVE CurrentInv'
    <3>1. ~Calm /\ UNCHANGED counts /\ c \in Uploads
      BY <1>0, <2>2 DEF ConfirmOrphan, CurrentInv
    <3>2. Both(cards')
      <4>1. CASE c.queue
        BY <2>2, <4>1 DEF ConfirmOrphan, CurrentInv, Both
      <4>2. CASE ~c.queue
        BY <1>0, <2>2, <3>1, <4>2, IdentityAssumption
           DEF ConfirmOrphan, CurrentInv, Both, CardSets, IdentityAssumption, Uploads
      <4>3. QED  BY <4>1, <4>2
    <3>3. QED  BY <1>0, <3>1, <3>2 DEF CurrentInv, Calm, Both
  <2>3. ASSUME NEW c \in starting, SessionSave(c) PROVE CurrentInv'
    <3>1. ~Calm
      BY DEF CurrentInv
    <3>2. QED  BY <1>3, <2>3, <3>1 DEF SessionSave
  <2>4. CASE BeginVerify
    <3>1. UNCHANGED <<cards, counts, aws, party, starting, confirms>>
      BY <2>4 DEF BeginVerify
    <3>2. CASE Calm
      <4>1. row' = row /\ running' = [details |-> party.details, cards |-> cards]
        BY <2>4, <3>2 DEF BeginVerify, CurrentInv, FacePassed
      <4>2. QED  BY <1>3, <3>1, <4>1 DEF CurrentInv
    <3>3. CASE ~Calm
      BY <1>3, <3>1, <3>3
    <3>4. QED  BY <3>2, <3>3
  <2>5. CASE FinishVerify
    <3>1. UNCHANGED <<cards, aws, party, starting, confirms>> /\ running # Idle /\ running' = Idle
      BY <2>5 DEF FinishVerify, Unlocked
    <3>2. CASE Fault
      BY <1>2, <3>1, <3>2 DEF Fault
    <3>3. CASE ~Fault
      <4>1. /\ UNCHANGED counts
            /\ \/ row' = [row EXCEPT !.status = "verified", !.code = "none", !.of = running]
               \/ row' = [row EXCEPT !.status = "failed", !.code = "other", !.of = running]
        BY <2>5, <3>3, Zenon DEF FinishVerify
      <4>2. row'.live = row.live /\ row'.key = row.key /\ row'.session = row.session /\ row'.of = running
        BY <1>0, <4>1 DEF Rows
      <4>3. QED  BY <1>3, <3>1, <4>1, <4>2 DEF CurrentInv
    <3>4. QED  BY <3>2, <3>3
  <2>6. QED  BY <1>6, <2>1, <2>2, <2>3, <2>4, <2>5 DEF Server
<1>7. CASE Environment
  <2>1. ASSUME NEW s \in Sessions, NEW a \in Decisions, s <= counts.sessions, Analysed(s, a) PROVE CurrentInv'
    <3>1. UNCHANGED <<cards, counts, party, row, running, starting, confirms>> /\ aws[s] = "processing"
      BY <2>1 DEF Analysed
    <3>2. ~Calm
      BY <2>1, <3>1, Bounds DEF Calm, CurrentInv, Sessions
    <3>3. QED  BY <1>0, <3>1, <3>2 DEF CurrentInv, Calm, Both
  <2>2. CASE VerifyRetried \/ VerifyGivesUp \/ CleanUp \/ \E b \in BOOLEAN : Resolve(b)
    BY <1>2, <2>2 DEF VerifyRetried, VerifyGivesUp, CleanUp, Resolve, Fault
  <2>3. QED  BY <1>7, <2>1, <2>2 DEF Environment
<1>8. QED  BY <1>1, <1>4, <1>5, <1>6, <1>7 DEF Next

\* After a failed verification, once nothing is in progress, what failed is what
\* is there now.
THEOREM FailedAsItIs == Spec => FailedIsCurrent
<1>1. FailedInit => CurrentInv
  <2> SUFFICES ASSUME FailedInit PROVE CurrentInv
    OBVIOUS
  <2>1. Typed
    BY InitTyped
  <2>2. Both(cards)
    BY IdentityAssumption DEF FailedInit, Both, IdentityAssumption
  <2>3. row = [status |-> "failed", code |-> "other", live |-> "passed", key |-> TRUE, session |-> 1,
               of |-> [details |-> party.details, cards |-> cards]]
    BY DEF FailedInit, NewRow
  <2>4. QED  BY <2>1, <2>2, <2>3 DEF FailedInit, CurrentInv
<1>2. CurrentInv =>
        (row.status = "failed" /\ row.code = "other" /\ Quiet /\ counts.faults = 0 /\ counts.edits = 0
            /\ counts.sessions = 1 => row.of.cards = cards)
  BY DEF CurrentInv, Calm
<1>3. QED  BY <1>1, <1>2, NextCurrentInv, PTL DEF Spec, FailedIsCurrent, NoLateUpload

-----------------------------------------------------------------------------
(* The screens.                                                              *)

\* Every step of the screens is one of the backend, or leaves it alone.
LEMMA ScreensSteps ==
    ASSUME ScreensTypeOK, Typed, ScreensNext
    PROVE  [Next]_vars
<1> USE DEF ScreensTypeOK
<1>1. CASE HolderActs
  <2>1. CASE Continue
    <3>1. Claim(link) /\ link \in 0 .. MaxInvites
      BY <2>1 DEF Continue
    <3>2. link \in 1 .. MaxInvites
      BY <3>1, Bounds DEF Claim, Typed
    <3>3. QED  BY <3>1, <3>2 DEF Next, Holder, Claim
  <2>2. ASSUME NEW s \in Sides, NEW i \in Images, Send(s, i) PROVE [Next]_vars
    <3>1. ConfirmBegin(s, i)
      BY <2>2 DEF Send
    <3>2. QED  BY <3>1 DEF Next, Holder, ConfirmBegin
  <2>3. CASE StartFace
    BY <2>3 DEF StartFace, Next, Holder, SessionBegin
  <2>4. CASE SubmitInApp \/ SubmitOnWeb
    BY <2>4 DEF SubmitInApp, SubmitOnWeb, Next, Holder, LivenessResult
  <2>5. CASE \/ OpenOwn \/ OpenLink \/ AskLogin \/ ContinueRefused \/ Leave \/ HandleUpload \/ StartRefused
             \/ FaceDone \/ FaceFails \/ SubmitFails \/ Poll \/ \E s \in Sides : Pick(s) \/ SendFails(s)
    BY <2>5 DEF OpenOwn, OpenLink, AskLogin, ContinueRefused, Leave, HandleUpload, StartRefused,
                FaceDone, FaceFails, SubmitFails, Poll, Pick, SendFails, vars
  <2>6. QED  BY <1>1, <2>1, <2>2, <2>3, <2>4, <2>5 DEF HolderActs
<1>2. CASE CreatorActs
  <2>1. CASE Save
    <3>1. SetParties(draft) /\ draft \in Details
      BY <2>1 DEF Save
    <3>2. QED  BY <2>1, <3>1 DEF Next, Creator
  <2>2. CASE Invite
    BY <2>2 DEF Invite, Next, Creator, SendInvite
  <2>3. CASE \/ OpenParties \/ LeaveParties \/ (\E d \in Details : Edit(d)) \/ Discard
             \/ Saved \/ SavedUnseen \/ PollParties \/ Proceed
    BY <2>3 DEF OpenParties, LeaveParties, Edit, Discard, Saved, SavedUnseen, PollParties, Proceed, vars
  <2>4. QED  BY <1>2, <2>1, <2>2, <2>3 DEF CreatorActs
<1>3. CASE ServerActs
  <2>1. ASSUME NEW c \in confirms, Stored(c) PROVE [Next]_vars
    BY <2>1 DEF Stored, Next, Server, ConfirmCommit, ConfirmOrphan
  <2>2. ASSUME NEW c \in starting, SessionReady(c) PROVE [Next]_vars
    BY <2>2 DEF SessionReady, Next, Server, SessionSave
  <2>3. CASE Task
    BY <2>3 DEF Task, Next, Server, BeginVerify, FinishVerify
  <2>4. CASE Environment
    BY <2>4 DEF Next, Environment, Analysed, VerifyRetried, VerifyGivesUp, CleanUp, Resolve
  <2>5. QED  BY <1>3, <2>1, <2>2, <2>3, <2>4 DEF ServerActs
<1>4. QED  BY <1>1, <1>2, <1>3 DEF ScreensNext

\* What a screen is shown.
LEMMA FetchSteps ==
    \A p \in PartyRows, r \in Rows : \A cs : Fetch(p, r, cs) \in Copies
BY DEF Fetch, PartyRows, Rows, Copies

\* What the screens are typed by; the types of the backend are those of Typed.
Held ==
    /\ page \in Pages /\ link \in 0 .. MaxInvites
    /\ slots \in [Sides -> {"empty", "sending", "confirming", "done"}]
    /\ seen \in Copies /\ local \in {"none", "passed", "failed"} /\ polls \in BOOLEAN
Watched ==
    /\ copy \in Copies /\ behind \in Readings
    /\ open \in BOOLEAN /\ sent \in BOOLEAN /\ draft \in Details \cup {NoDetails}
    /\ saving \in BOOLEAN /\ missed \in BOOLEAN

LEMMA ScreensTyped ==
    ScreensTypeOK /\ Typed /\ [ScreensNext]_<<client, allVars>> => ScreensTypeOK' /\ Typed'
<1> SUFFICES ASSUME ScreensTypeOK, Typed, [ScreensNext]_<<client, allVars>> PROVE ScreensTypeOK' /\ Typed'
  OBVIOUS
<1>1. CASE UNCHANGED <<client, allVars>>
  <2>1. UNCHANGED vars
    BY <1>1 DEF allVars
  <2>2. Typed'
    BY <2>1, NextTyped
  <2>3. Held' /\ Watched' /\ UNCHANGED <<client, visits>>
    BY <1>1 DEF allVars, holder, creator, ScreensTypeOK, Held, Watched
  <2>4. QED  BY <2>2, <2>3 DEF ScreensTypeOK, Held, Watched, Typed
<1>2. CASE ScreensNext
  <2>1. Typed'
    BY <1>2, ScreensSteps, NextTyped
  <2>2. Held /\ Watched /\ visits \in 0 .. MaxVisits /\ client' = client
    BY <1>2 DEF ScreensTypeOK, Held, Watched, ScreensNext
  <2>3. /\ Fetched \in Copies /\ Fetched' \in Copies /\ Fetch(party, row', cards) \in Copies
        /\ Fetch(party, row', cards') \in Copies /\ Fetch(party', row', cards) \in Copies
        /\ row.of \in Readings /\ row'.of \in Readings
    <3>1. party \in PartyRows /\ party' \in PartyRows /\ row \in Rows /\ row' \in Rows
      BY <2>1 DEF Typed, TypeOK
    <3>2. row.of \in Readings /\ row'.of \in Readings
      BY <3>1 DEF Rows
    <3>3. QED  BY <3>1, <3>2, FetchSteps DEF Fetched
  <2>4. \A x : Hydrated(x) \in [Sides -> {"empty", "sending", "confirming", "done"}]
    BY DEF Hydrated
  <2>5. Visit => visits' \in 0 .. MaxVisits
    BY <2>2, IdentityScreensAssumption DEF Visit, IdentityScreensAssumption
  <2>6. CASE HolderActs
    <3>1. UNCHANGED creator \/ Watched'
      BY <2>6 DEF HolderActs, OpenOwn, OpenLink, AskLogin, Continue, ContinueRefused, Leave, Pick, SendFails, Send,
                  HandleUpload, StartFace, StartRefused, FaceDone, FaceFails, SubmitInApp, SubmitOnWeb, SubmitFails,
                  Poll
    <3>2. Held'
      <4>1. ASSUME OpenOwn \/ Continue PROVE Held'
        <5>1. link' = link /\ page' = "upload" /\ seen' = Fetched /\ slots' = Hydrated(Fetched)
              /\ local' = "none" /\ polls' = FALSE
          BY <4>1 DEF OpenOwn, Continue, Go
        <5>2. QED  BY <2>2, <2>3, <2>4, <5>1 DEF Held, Pages
      <4>2. ASSUME OpenLink PROVE Held'
        <5>1. invite.no \in 0 .. MaxInvites
          BY DEF Typed, TypeOK, Invites
        <5>2. QED  BY <2>2, <4>2, <5>1 DEF OpenLink, Go, Held, Pages
      <4>3. ASSUME AskLogin \/ ContinueRefused \/ StartRefused \/ FaceDone \/ FaceFails \/ SubmitFails
            PROVE Held'
        BY <2>2, <4>3 DEF AskLogin, ContinueRefused, StartRefused, FaceDone, FaceFails, SubmitFails, Go, Held, Pages
      <4>9. ASSUME Leave PROVE Held'
        <5>1. Fetch(party, NewRow, Idle.cards) \in Copies
          BY FetchSteps, FirstRows DEF Typed, TypeOK
        <5>2. QED  BY <2>2, <4>9, <5>1 DEF Leave, Held, Pages
      <4>4. ASSUME HandleUpload \/ StartFace PROVE Held'
        BY <2>2, <4>4 DEF HandleUpload, StartFace, Go, Held, Pages
      <4>5. ASSUME NEW s \in Sides, Pick(s) \/ SendFails(s) \/ \E i \in Images : Send(s, i) PROVE Held'
        BY <2>2, <4>5 DEF Pick, SendFails, Send, Held, Pages
      <4>6. ASSUME SubmitInApp PROVE Held'
        <5>1. (polls \/ (HolderKind = "mobile" /\ aws[row.session] = "passed")) \in BOOLEAN
          OBVIOUS
        <5>2. QED  BY <2>2, <2>3, <4>6, <5>1 DEF SubmitInApp, Go, Held, Pages
      <4>7. ASSUME SubmitOnWeb PROVE Held'
        BY <2>2, <4>7 DEF SubmitOnWeb, Go, Held, Pages
      <4>8. ASSUME Poll PROVE Held'
        <5>1. (polls /\ ~Complete(seen')) \in BOOLEAN
          OBVIOUS
        <5>2. QED  BY <2>2, <2>3, <4>8, <5>1 DEF Poll, Held
      <4>10. QED  BY <2>6, <4>1, <4>2, <4>3, <4>4, <4>5, <4>6, <4>7, <4>8, <4>9 DEF HolderActs
    <3>3. visits' \in 0 .. MaxVisits
      BY <2>2, <2>5, <2>6 DEF HolderActs, OpenOwn, OpenLink, AskLogin, Continue, ContinueRefused, Leave, Pick,
                  SendFails, Send, HandleUpload, StartFace, StartRefused, FaceDone, FaceFails, SubmitInApp,
                  SubmitOnWeb, SubmitFails, Poll
    <3>4. Watched'
      BY <2>2, <3>1 DEF creator, Watched
    <3>5. QED  BY <2>1, <2>2, <3>2, <3>3, <3>4 DEF ScreensTypeOK, Held, Watched, Typed
  <2>7. CASE CreatorActs
    <3>1. UNCHANGED holder
      BY <2>7 DEF CreatorActs, OpenParties, LeaveParties, Edit, Discard, Save, Saved, SavedUnseen, Invite,
                  PollParties, Proceed
    <3>2. Watched'
      <4>1. CASE OpenParties \/ Saved \/ PollParties
        BY <2>2, <2>3, <4>1 DEF OpenParties, Saved, PollParties, FetchCopy, Watched
      <4>2. CASE LeaveParties
        <5>1. (missed \/ saving) \in BOOLEAN
          OBVIOUS
        <5>2. QED  BY <2>2, <4>2, <5>1 DEF LeaveParties, Watched
      <4>3. CASE (\E d \in Details : Edit(d)) \/ Discard \/ Save \/ SavedUnseen \/ Invite \/ Proceed
        BY <2>2, <4>3 DEF Edit, Discard, Save, SavedUnseen, Invite, Proceed, Watched
      <4>4. QED  BY <2>7, <4>1, <4>2, <4>3 DEF CreatorActs
    <3>3. visits' \in 0 .. MaxVisits
      BY <2>2, <2>5, <2>7 DEF CreatorActs, OpenParties, LeaveParties, Edit, Discard, Save, Saved, SavedUnseen, Invite,
                  PollParties, Proceed
    <3>4. Held'
      BY <2>2, <3>1 DEF holder, Held
    <3>5. QED  BY <2>1, <2>2, <3>2, <3>3, <3>4 DEF ScreensTypeOK, Held, Watched, Typed
  <2>8. CASE ServerActs
    <3>1. UNCHANGED <<creator, visits>>
      BY <2>8 DEF ServerActs, Stored, SessionReady, Task
    <3>2. Held'
      <4>1. ASSUME NEW c \in confirms, Stored(c) PROVE Held'
        <5>1. c.side \in Sides
          BY DEF Typed, TypeOK, Uploads
        <5>2. QED  BY <2>2, <2>3, <4>1, <5>1 DEF Stored, Held
      <4>2. ASSUME NEW c \in starting, SessionReady(c) PROVE Held'
        BY <2>2, <4>2 DEF SessionReady, Held, Pages
      <4>3. ASSUME UNCHANGED holder PROVE Held'
        BY <2>2, <4>3 DEF holder, Held
      <4>4. QED  BY <2>8, <4>1, <4>2, <4>3 DEF ServerActs, Task
    <3>3. Watched' /\ visits' \in 0 .. MaxVisits
      BY <2>2, <3>1 DEF creator, Watched
    <3>4. QED  BY <2>1, <2>2, <3>2, <3>3 DEF ScreensTypeOK, Held, Watched, Typed
  <2>9. QED  BY <1>2, <2>6, <2>7, <2>8 DEF ScreensNext
<1>3. QED  BY <1>1, <1>2

LEMMA ScreensInitTyped == ScreensInit => ScreensTypeOK /\ Typed
<1> SUFFICES ASSUME ScreensInit PROVE ScreensTypeOK /\ Typed
  OBVIOUS
<1>1. Typed
  BY InitTyped DEF ScreensInit
<1>2. Fetched \in Copies /\ row.of \in Readings
  BY <1>1, FetchSteps DEF Fetched, Typed, TypeOK, Rows
<1>3. /\ client \in Clients /\ page = "out" /\ link = 0 /\ slots = [s \in Sides |-> "empty"]
      /\ seen = Fetched /\ local = "none" /\ polls = FALSE
      /\ open = FALSE /\ copy = Fetched /\ behind = row.of /\ draft = NoDetails /\ sent = FALSE
      /\ saving = FALSE /\ missed = FALSE /\ visits = 0
  BY DEF ScreensInit
<1>4. Held /\ Watched
  <2>1. slots \in [Sides -> {"empty", "sending", "confirming", "done"}]
    BY <1>3
  <2>2. page \in Pages /\ link \in 0 .. MaxInvites /\ local \in {"none", "passed", "failed"}
    BY <1>3, Bounds DEF Pages
  <2>3. polls \in BOOLEAN /\ seen \in Copies
    BY <1>2, <1>3, Zenon
  <2>4. Held
    BY <2>1, <2>2, <2>3 DEF Held
  <2>5. Watched
    BY <1>2, <1>3 DEF Watched
  <2>6. QED  BY <2>4, <2>5
<1>5. visits \in 0 .. MaxVisits
  BY <1>3, IdentityScreensAssumption DEF IdentityScreensAssumption
<1>6. QED  BY <1>1, <1>3, <1>4, <1>5 DEF ScreensTypeOK, Held, Watched, Typed

\* The backend and the screens keep their types, whatever the clients do.
THEOREM ScreensTypes == ScreensSpec => []ScreensTypeOK
BY ScreensInitTyped, ScreensTyped, PTL DEF ScreensSpec

-----------------------------------------------------------------------------
(* The screens: the creator goes on with a party who was verified.           *)

\* Only a session that was created has an answer.
AnswersAreAsked == \A s \in Sessions : aws[s] # "processing" => s <= counts.sessions

\* What a step of the backend does to the sessions and to the calls that create one.
LEMMA SessionSteps ==
    ASSUME IdentityInv, AnswersAreAsked, [Next]_vars
    PROVE  /\ counts'.sessions >= counts.sessions /\ AnswersAreAsked'
           /\ \A s \in Sessions : s <= counts.sessions =>
                /\ whose'[s] = whose[s]
                /\ aws[s] # "processing" => aws'[s] = aws[s]
           /\ \A c \in starting' \ starting : c.status = row.status /\ c.of = row.of
<1>0. /\ counts \in Counts /\ counts.sessions \in Nat /\ starting \subseteq Starts
      /\ aws \in [Sessions -> Decisions] /\ whose \in [Sessions -> 0 .. MaxEdits]
  BY Bounds DEF IdentityInv, Typed, TypeOK, Counts
<1>1. CASE SessionBegin
  <2>1. /\ counts' = [counts EXCEPT !["sessions"] = counts.sessions + 1] /\ aws' = aws
        /\ whose' = [whose EXCEPT ![counts'.sessions] = party.no]
        /\ \A c \in starting' \ starting : c.status = row.status /\ c.of = row.of
    BY <1>1 DEF SessionBegin, Spend
  <2>2. counts'.sessions = counts.sessions + 1
    BY <1>0, <2>1 DEF Counts
  <2>3. QED  BY <1>0, <2>1, <2>2 DEF AnswersAreAsked, Sessions
<1>2. ASSUME NEW k \in {"edits", "uploads", "faults"}, NEW max, UNCHANGED counts \/ Spend(k, max)
      PROVE  counts'.sessions = counts.sessions
  BY <1>0, <1>2 DEF Spend, Counts
<1>3. ASSUME NEW s \in Sessions, NEW a \in Decisions, s <= counts.sessions, Analysed(s, a)
      PROVE  /\ UNCHANGED <<counts, whose, starting>> /\ AnswersAreAsked'
             /\ \A t \in Sessions : aws[t] # "processing" => aws'[t] = aws[t]
  <2>1. aws' = [aws EXCEPT ![s] = a] /\ aws[s] = "processing" /\ UNCHANGED <<counts, whose, starting>>
    BY <1>3 DEF Analysed
  <2>2. QED  BY <1>0, <1>3, <2>1 DEF AnswersAreAsked
<1>4. CASE UNCHANGED <<aws, whose>> /\ starting' \subseteq starting /\ counts'.sessions = counts.sessions
  BY <1>0, <1>4 DEF AnswersAreAsked
<1>5. CASE Creator \/ LivenessResult \/ \E n \in 1 .. MaxInvites : Claim(n)
  <2>1. UNCHANGED <<aws, whose, starting>>
    BY <1>5 DEF Creator, SetParties, PatchParties, SendInvite, LivenessResult, Claim
  <2>2. UNCHANGED counts \/ Spend("edits", MaxEdits)
    BY <1>5 DEF Creator, SetParties, PatchParties, SendInvite, LivenessResult, Claim
  <2>3. QED  BY <1>2, <1>4, <2>1, <2>2
<1>6. CASE \E s \in Sides, i \in Images : ConfirmBegin(s, i)
  <2>1. UNCHANGED <<aws, whose, starting>> /\ Spend("uploads", MaxUploads)
    BY <1>6 DEF ConfirmBegin
  <2>2. QED  BY <1>2, <1>4, <2>1
<1>7. CASE Server
  <2>1. UNCHANGED <<aws, whose>> /\ starting' \subseteq starting /\ (UNCHANGED counts \/ Spend("faults", MaxFaults))
    BY <1>7 DEF Server, ConfirmCommit, ConfirmOrphan, SessionSave, BeginVerify, FinishVerify, Fault
  <2>2. QED  BY <1>2, <1>4, <2>1
<1>8. CASE VerifyRetried \/ VerifyGivesUp \/ CleanUp \/ \E b \in BOOLEAN : Resolve(b)
  <2>1. UNCHANGED <<aws, whose, starting>> /\ Spend("faults", MaxFaults)
    BY <1>8 DEF VerifyRetried, VerifyGivesUp, CleanUp, Resolve, Fault
  <2>2. QED  BY <1>2, <1>4, <2>1
<1>9. CASE UNCHANGED vars
  BY <1>4, <1>9 DEF vars
<1>10. CASE \E s \in Sessions, a \in Decisions : s <= counts.sessions /\ Analysed(s, a)
  BY <1>0, <1>3, <1>10
<1>11. QED  BY <1>1, <1>5, <1>6, <1>7, <1>8, <1>9, <1>10 DEF Next, Holder, Environment

\* On these screens the party changes only by a save, which makes a new row.
LEMMA PartySteps ==
    ASSUME ScreensNext
    PROVE  party' = party \/ \E d : SetParties(d)
<1>1. CASE HolderActs
  BY <1>1 DEF HolderActs, OpenOwn, OpenLink, AskLogin, Continue, ContinueRefused, Leave, Pick, SendFails, Send,
              HandleUpload, StartFace, StartRefused, FaceDone, FaceFails, SubmitInApp, SubmitOnWeb, SubmitFails,
              Poll, vars, Claim, ConfirmBegin, SessionBegin, LivenessResult
<1>2. CASE CreatorActs
  BY <1>2 DEF CreatorActs, OpenParties, LeaveParties, Edit, Discard, Save, Saved, SavedUnseen, Invite, PollParties,
              Proceed, SendInvite, vars
<1>3. CASE ServerActs
  BY <1>3 DEF ServerActs, Stored, SessionReady, Task, Environment, ConfirmCommit, ConfirmOrphan, SessionSave,
              BeginVerify, FinishVerify, Analysed, VerifyRetried, VerifyGivesUp, CleanUp, Resolve
<1>4. QED  BY <1>1, <1>2, <1>3 DEF ScreensNext

\* So a verdict stays one about the present details: those of a call that had read
\* one are of this row, and the details of a row do not change.
UpToDate ==
    /\ ~Outdated
    /\ \A c \in starting : c.no = party.no /\ c.status = "verified" => c.of.details = party.details

LEMMA NextUpToDate ==
    ASSUME IdentityInv, AnswersAreAsked, UpToDate, ScreensNext, [Next]_vars
    PROVE  UpToDate'
<1>1. CASE party' = party
  <2>1. \A c \in starting' \ starting : c.status = row.status /\ c.of = row.of
    BY SessionSteps
  <2>2. \A c \in starting' : c.no = party.no /\ c.status = "verified" => c.of.details = party.details
    BY <2>1 DEF UpToDate, Outdated
  <2>3. ASSUME Outdated' PROVE FALSE
    <3>1. \E c \in starting \ starting' : c.status = "verified" /\ c.no = party.no /\ c.of = row'.of
      BY <2>3, OutdatedSteps DEF UpToDate
    <3>2. row'.of.details = party'.details
      BY <1>1, <3>1 DEF UpToDate
    <3>3. QED  BY <2>3, <3>2 DEF Outdated
  <2>4. QED  BY <1>1, <2>2, <2>3 DEF UpToDate
<1>2. ASSUME NEW d, SetParties(d) PROVE UpToDate'
  <2>1. row'.status = "pending" /\ starting' = starting /\ party'.no = party.no + 1
    BY <1>2 DEF SetParties, NewRow
  <2>2. \A c \in starting : c.no # party'.no
    <3>1. party.no \in Nat /\ \A c \in starting : c.no \in Nat /\ c.no <= party.no
      BY Bounds DEF IdentityInv, Typed, TypeOK, StartsKnown, PartyRows, Starts
    <3>2. QED  BY <2>1, <3>1
  <2>3. QED  BY <2>1, <2>2 DEF UpToDate, Outdated
<1>3. QED  BY <1>1, <1>2, PartySteps

\* A verdict on the creator's screen was one about the details it shows, after a
\* face check of the row it shows; and that is the present row, but during or
\* after a save whose outcome was not fetched.
Shown ==
    /\ copy.status = "verified" =>
        /\ behind.details = copy.details /\ Agrees(behind)
        /\ \E s \in Sessions : s <= counts.sessions /\ whose[s] = copy.no /\ aws[s] \in {"passed", "manual_review"}
    /\ copy.no = party.no \/ missed \/ saving

LEMMA FetchShown ==
    ASSUME IdentityInv, AnswersAreAsked, UpToDate, copy' = Fetched, behind' = row.of, UNCHANGED vars
    PROVE  Shown'
<1>1. copy'.no = party.no /\ copy'.details = party.details /\ copy'.status = row.status
  BY DEF Fetched, Fetch
<1>2. ASSUME row.status = "verified"
      PROVE  /\ row.of.details = party.details /\ Agrees(row.of)
             /\ \E s \in Sessions : s <= counts.sessions /\ whose[s] = party.no /\ aws[s] \in {"passed", "manual_review"}
  BY <1>2 DEF IdentityInv, RowFaced, Readout, Faced, UpToDate, Outdated, AnswersAreAsked
<1>3. Agrees(row.of) => Agrees(behind)'
  BY DEF Agrees
<1>4. QED  BY <1>1, <1>2, <1>3 DEF Shown, vars

LEMMA NextShown ==
    ASSUME IdentityInv, AnswersAreAsked, UpToDate, Shown, ScreensNext, [Next]_vars
    PROVE  Shown'
\* The screen keeps what it shows.
<1>1. ASSUME UNCHANGED <<copy, behind>>, party'.no = party.no \/ missed' \/ saving',
             missed \/ saving => missed' \/ saving'
      PROVE  Shown'
  <2>1. ASSUME NEW s \in Sessions, s <= counts.sessions, whose[s] = copy.no, aws[s] \in {"passed", "manual_review"}
        PROVE  s <= counts'.sessions /\ whose'[s] = copy.no /\ aws'[s] \in {"passed", "manual_review"}
    <3>1. s \in Nat /\ counts.sessions \in Nat /\ counts'.sessions >= counts.sessions /\ counts'.sessions \in Nat
      BY NextIdentityInv, SessionSteps, Bounds DEF IdentityInv, Typed, TypeOK, Counts, Sessions
    <3>2. QED  BY <2>1, <3>1, SessionSteps
  <2>2. Agrees(behind)' = Agrees(behind)
    BY <1>1 DEF Agrees
  <2>3. QED  BY <1>1, <2>1, <2>2 DEF Shown
<1>2. CASE HolderActs \/ ServerActs
  <2>1. UNCHANGED creator
    BY <1>2 DEF HolderActs, OpenOwn, OpenLink, AskLogin, Continue, ContinueRefused, Leave, Pick, SendFails, Send,
                HandleUpload, StartFace, StartRefused, FaceDone, FaceFails, SubmitInApp, SubmitOnWeb, SubmitFails,
                Poll, ServerActs, Stored, SessionReady, Task
  <2>2. UNCHANGED party
    <3>1. CASE HolderActs
      BY <3>1 DEF HolderActs, OpenOwn, OpenLink, AskLogin, Continue, ContinueRefused, Leave, Pick, SendFails, Send,
                  HandleUpload, StartFace, StartRefused, FaceDone, FaceFails, SubmitInApp, SubmitOnWeb, SubmitFails,
                  Poll, vars, Claim, ConfirmBegin, SessionBegin, LivenessResult
    <3>2. CASE ServerActs
      BY <3>2 DEF ServerActs, Stored, SessionReady, Task, Environment, ConfirmCommit, ConfirmOrphan, SessionSave,
                  BeginVerify, FinishVerify, Analysed, VerifyRetried, VerifyGivesUp, CleanUp, Resolve
    <3>3. QED  BY <1>2, <3>1, <3>2
  <2>3. QED  BY <1>1, <2>1, <2>2 DEF creator
<1>3. CASE CreatorActs
  <2>1. CASE Saved \/ PollParties
    <3>1. UNCHANGED vars /\ copy' = Fetched /\ behind' = row.of
      BY <2>1 DEF Saved, PollParties, FetchCopy
    <3>2. QED  BY <3>1, FetchShown
  <2>2. CASE OpenParties
    <3>1. CASE FetchCopy
      BY <2>2, <3>1, FetchShown DEF OpenParties, FetchCopy
    <3>2. CASE UNCHANGED <<copy, behind, missed>>
      BY <1>1, <2>2, <3>2 DEF OpenParties, vars
    <3>3. QED  BY <2>2, <3>1, <3>2 DEF OpenParties
  <2>3. CASE Save
    BY <1>1, <2>3 DEF Save
  <2>4. CASE LeaveParties
    BY <1>1, <2>4 DEF LeaveParties, vars
  <2>5. CASE SavedUnseen
    BY <1>1, <2>5 DEF SavedUnseen, vars
  <2>6. CASE (\E d \in Details : Edit(d)) \/ Discard \/ Invite \/ Proceed
    BY <1>1, <2>6 DEF Edit, Discard, Invite, Proceed, SendInvite, vars
  <2>7. QED  BY <1>3, <2>1, <2>2, <2>3, <2>4, <2>5, <2>6 DEF CreatorActs
<1>4. QED  BY <1>2, <1>3 DEF ScreensNext

\* Whatever the holder, the task and late uploads do, the creator goes on only with
\* a party who was verified as the screen shows it; and with a replaced one only
\* after a save whose outcome the screen has not fetched.
THEOREM ProceedsWithVerified == ScreensSpec => ProceedsVerified
<1> DEFINE Inv == ScreensTypeOK /\ IdentityInv /\ AnswersAreAsked /\ UpToDate /\ Shown
<1>1. ScreensInit => Inv
  <2> SUFFICES ASSUME ScreensInit PROVE Inv
    OBVIOUS
  <2>1. IdentityInv /\ ScreensTypeOK
    BY InitIdentityInv, ScreensInitTyped DEF ScreensInit
  <2>2. AnswersAreAsked /\ starting = {} /\ row.status = "pending"
    BY DEF ScreensInit, Init, NewRow, AnswersAreAsked
  <2>3. copy.no = party.no /\ copy.status = row.status
    BY DEF ScreensInit, Fetched, Fetch
  <2>4. QED  BY <2>1, <2>2, <2>3 DEF Shown, UpToDate, Outdated
<1>2. Inv /\ [ScreensNext]_<<client, allVars>> => Inv'
  <2> SUFFICES ASSUME Inv, [ScreensNext]_<<client, allVars>> PROVE Inv'
    OBVIOUS
  <2>1. ScreensTypeOK'
    BY ScreensTyped DEF IdentityInv
  <2>2. [Next]_vars
    BY ScreensSteps DEF IdentityInv, allVars
  <2>3. IdentityInv' /\ AnswersAreAsked'
    BY <2>2, NextIdentityInv, SessionSteps
  <2>4. CASE ScreensNext
    BY <2>1, <2>2, <2>3, <2>4, NextUpToDate, NextShown
  <2>5. CASE UNCHANGED <<client, allVars>>
    <3>1. UNCHANGED vars /\ UNCHANGED creator
      BY <2>5 DEF allVars
    <3>2. UpToDate'
      BY <3>1 DEF vars, UpToDate, Outdated
    <3>3. Agrees(behind)' = Agrees(behind)
      BY <3>1 DEF creator, Agrees
    <3>4. Shown'
      BY <3>1, <3>3 DEF vars, creator, Shown
    <3>5. QED  BY <2>1, <2>3, <3>2, <3>4
  <2>6. QED  BY <2>4, <2>5
<1>3. Inv => ScreensTypeOK /\ (MayProceed =>
                /\ behind.details = copy.details
                /\ \A s \in Sides : copy.details \in Shows[behind.cards[s]]
                /\ \E s \in Sessions : whose[s] = copy.no /\ aws[s] \in {"passed", "manual_review"}
                /\ copy.no = party.no \/ missed)
  BY DEF Shown, MayProceed, Complete, Agrees
<1>4. QED
  <2> HIDE DEF Inv
  <2>1. QED  BY <1>1, <1>2, <1>3, PTL DEF ScreensSpec, ProceedsVerified

\* The screens come to no verdict in another way than the contract's.
THEOREM ScreensKeepVerdict == ScreensSpec => KeepsVerdict
<1> DEFINE Inv == ScreensTypeOK /\ VerdictInv
<1>1. ScreensInit => Inv
  BY ScreensInitTyped, InitVerdictInv DEF ScreensInit
<1>2. Inv /\ [ScreensNext]_<<client, allVars>> => Inv' /\ [Contract!Next]_(Contract!record)
  <2> SUFFICES ASSUME Inv, [ScreensNext]_<<client, allVars>> PROVE Inv' /\ [Contract!Next]_(Contract!record)
    OBVIOUS
  <2>1. ScreensTypeOK'
    BY ScreensTyped DEF VerdictInv, IdentityInv
  <2>2. [Next]_vars
    BY ScreensSteps DEF VerdictInv, IdentityInv, allVars
  <2>3. QED  BY <2>1, <2>2, NextKeepsVerdict
<1> HIDE DEF Inv
<1>3. QED  BY <1>1, <1>2, PTL DEF ScreensSpec, KeepsVerdict
=============================================================================
