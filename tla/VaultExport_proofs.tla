------------------------- MODULE VaultExport_proofs -------------------------
(***************************************************************************)
(* Theorems about VaultExport, for every set of jobs and every bound, and  *)
(* about VaultScreens, of which it makes an instance.                      *)
(***************************************************************************)
EXTENDS VaultExport, SequenceTheorems, TLAPS

\* Every queued attempt, and what follows a failed one, is a job record.
LEMMA JobRecords ==
    /\ Idle \in JobRecord /\ Queued \in JobRecord
    /\ \A job \in JobRecord : Failed(job) \in JobRecord
BY VaultAssumption DEF VaultAssumption, JobRecord, Idle, Queued, Failed

LEMMA InitTypeOK == Init => TypeOK
<1> SUFFICES ASSUME Init PROVE TypeOK
  OBVIOUS
<1>1. jobs \in [Job -> JobRecord]
  BY JobRecords DEF Init
<1>2. 0 \in 0..MaxSeals /\ 0 \in 0..MaxLosses
  BY VaultAssumption DEF VaultAssumption
<1>3. QED  BY <1>1, <1>2 DEF Init, TypeOK, PdfStatus

\* TypeOK is inductive.
LEMMA NextTypeOK == TypeOK /\ [Next]_vars => TypeOK'
<1> SUFFICES ASSUME TypeOK, [Next]_vars PROVE TypeOK'
  OBVIOUS
<1> USE VaultAssumption, JobRecords
<1>1. ASSUME NEW j \in Job, NEW job \in JobRecord, Set(j, job)
      PROVE  jobs' \in [Job -> JobRecord]
  BY <1>1 DEF Set, TypeOK
<1>2. ASSUME NEW j \in Job, Enqueue(j) PROVE jobs' \in [Job -> JobRecord]
  BY <1>1, <1>2 DEF Enqueue
<1>3. CASE Seal
  BY <1>3 DEF Seal, TypeOK, PdfStatus, VaultAssumption
<1>4. ASSUME NEW j \in Job, RequestExport(j) \/ RetryExport(j) \/ RolledBack(j)
      PROVE  TypeOK'
  BY <1>2, <1>4
     DEF RequestExport, RetryExport, RolledBack, Generating, TypeOK, PdfStatus
<1>5. ASSUME NEW by \in {"failed", "ids"}, ListEntry(by) PROVE TypeOK'
  BY <1>5 DEF ListEntry, TypeOK
<1>6. ASSUME NEW j \in Job, RequeueEntry(j) PROVE TypeOK'
  BY <1>2, <1>6 DEF RequeueEntry, TypeOK, PdfStatus
<1>7. CASE FiveMinutesPass \/ SelectStuck
  BY <1>7 DEF FiveMinutesPass, SelectStuck, TypeOK
<1>8. ASSUME NEW j \in Job, RecoverStuck(j) PROVE TypeOK'
  BY <1>2, <1>8 DEF RecoverStuck, TypeOK
<1>9. ASSUME NEW j \in Job, Work(j) PROVE TypeOK'
  <2>1. CASE Render(j)
    <3>1. [at |-> "rendered", tries |-> jobs[j].tries, of |-> seals] \in JobRecord
      BY DEF TypeOK, JobRecord
    <3>2. QED  BY <1>1, <2>1, <3>1 DEF Render, TypeOK
  <2>2. CASE Upload(j)
    <3>1. [jobs[j] EXCEPT !.at = "uploaded"] \in JobRecord /\ jobs[j].of \in 0..MaxSeals
      BY DEF TypeOK, JobRecord
    <3>2. QED  BY <1>1, <2>2, <3>1 DEF Upload, TypeOK
  <2>3. CASE MarkReady(j)
    <3>1. jobs' \in [Job -> JobRecord]
      BY <1>1, <2>3 DEF MarkReady, TypeOK
    <3>2. QED  BY <2>3, <3>1 DEF MarkReady, TypeOK, PdfStatus
  <2>4. CASE FailAttempt(j)
    BY <1>1, <2>4 DEF FailAttempt, TypeOK
  <2>5. CASE MarkFailed(j)
    BY <1>1, <2>5 DEF MarkFailed, TypeOK, PdfStatus
  <2>6. QED  BY <1>9, <2>1, <2>2, <2>3, <2>4, <2>5 DEF Work
<1>10. ASSUME NEW j \in Job, LoseJob(j) PROVE TypeOK'
  <2>1. jobs' \in [Job -> JobRecord]
    BY <1>1, <1>10 DEF LoseJob
  <2>2. QED  BY <1>10, <2>1 DEF LoseJob, TypeOK, VaultAssumption
<1>11. CASE UNCHANGED vars
  BY <1>11 DEF vars, TypeOK
<1>12. QED
  BY <1>3, <1>4, <1>5, <1>6, <1>7, <1>8, <1>9, <1>10, <1>11 DEF Next

\* Every variable keeps its type.
THEOREM VaultTypeCorrect == Spec => []TypeOK
BY InitTypeOK, NextTypeOK, PTL DEF Spec

-----------------------------------------------------------------------------
(* KeyIsAnObject is not inductive: it rests on what the jobs carry.  A job *)
(* exists only for an entry, an entry only for a sealed agreement, so what *)
(* a job renders is a seal; and a job that says "uploaded" has uploaded.   *)
KeyInv ==
    /\ TypeOK
    /\ KeyIsAnObject
    /\ pdf = "none" => listed = "no" /\ \A j \in Job : jobs[j].at = "idle"
    /\ pdf # "none" => seals # 0
    /\ \A j \in Job : jobs[j].at \in {"rendered", "uploaded"} => jobs[j].of # 0
    /\ \A j \in Job : jobs[j].at = "uploaded" => object # 0

\* What a step that stores one job changes of the others: nothing.
LEMMA OtherJobs ==
    ASSUME TypeOK, NEW j \in Job, NEW job, Set(j, job)
    PROVE  \A k \in Job : jobs'[k] = IF k = j THEN job ELSE jobs[k]
BY DEF Set, TypeOK

LEMMA FailedJob ==
    \A job \in JobRecord : Failed(job).at \in {"queued", "exhausted"}
BY DEF Failed, JobRecord

\* KeyInv is inductive.
LEMMA NextKeyInv == KeyInv /\ [Next]_vars => KeyInv'
<1> SUFFICES ASSUME KeyInv, [Next]_vars PROVE KeyInv'
  OBVIOUS
<1>0. TypeOK /\ TypeOK'
  BY NextTypeOK DEF KeyInv
<1>1. ASSUME NEW j \in Job, Enqueue(j)
      PROVE  \A k \in Job : jobs'[k] = IF k = j THEN Queued ELSE jobs[k]
  BY <1>0, <1>1, OtherJobs DEF Enqueue
<1>2. CASE Seal
  BY <1>0, <1>2 DEF Seal, KeyInv, KeyIsAnObject, TypeOK
<1>3. ASSUME NEW j \in Job, RequestExport(j) \/ RetryExport(j) \/ RolledBack(j)
      PROVE  KeyInv'
  BY <1>0, <1>1, <1>3 DEF RequestExport, RetryExport, RolledBack, Generating,
     Queued, Idle, KeyInv, KeyIsAnObject
<1>4. ASSUME NEW by \in {"failed", "ids"}, ListEntry(by) PROVE KeyInv'
  BY <1>0, <1>4 DEF ListEntry, KeyInv, KeyIsAnObject
<1>5. ASSUME NEW j \in Job, RequeueEntry(j) PROVE KeyInv'
  BY <1>0, <1>1, <1>5 DEF RequeueEntry, Queued, Idle, KeyInv, KeyIsAnObject
<1>6. CASE FiveMinutesPass \/ SelectStuck
  BY <1>0, <1>6 DEF FiveMinutesPass, SelectStuck, KeyInv, KeyIsAnObject
<1>7. ASSUME NEW j \in Job, RecoverStuck(j) PROVE KeyInv'
  BY <1>0, <1>1, <1>7 DEF RecoverStuck, Queued, Idle, KeyInv, KeyIsAnObject
<1>8. ASSUME NEW j \in Job, Work(j) PROVE KeyInv'
  <2>1. jobs[j] \in JobRecord
    BY <1>0 DEF TypeOK
  <2>2. ASSUME NEW job, Set(j, job)
        PROVE  \A k \in Job : jobs'[k] = IF k = j THEN job ELSE jobs[k]
    BY <1>0, <2>2, OtherJobs
  <2>3. jobs[j].at # "idle" => pdf # "none" /\ seals # 0
    BY DEF KeyInv
  <2>4. CASE Render(j)
    BY <1>0, <2>2, <2>3, <2>4 DEF Render, KeyInv, KeyIsAnObject
  <2>5. CASE Upload(j)
    <3> DEFINE job == [jobs[j] EXCEPT !.at = "uploaded"]
    <3>1. job.at = "uploaded" /\ job.of = jobs[j].of
      BY <2>1 DEF JobRecord
    <3> HIDE DEF job
    <3>2. \A k \in Job : jobs'[k] = IF k = j THEN job ELSE jobs[k]
      BY <2>2, <2>5 DEF Upload, job
    <3>3. /\ object' # 0 /\ jobs[j].at = "rendered"
          /\ UNCHANGED <<pdf, key, seals, listed>>
      BY <2>5 DEF Upload, KeyInv
    <3>4. QED  BY <1>0, <2>3, <3>1, <3>2, <3>3 DEF KeyInv, KeyIsAnObject
  <2>6. CASE MarkReady(j)
    BY <1>0, <2>1, <2>2, <2>3, <2>6, FailedJob
       DEF MarkReady, Idle, KeyInv, KeyIsAnObject
  <2>7. CASE FailAttempt(j)
    BY <1>0, <2>1, <2>2, <2>3, <2>7, FailedJob DEF FailAttempt, KeyInv, KeyIsAnObject
  <2>8. CASE MarkFailed(j)
    BY <1>0, <2>2, <2>3, <2>8 DEF MarkFailed, Idle, KeyInv, KeyIsAnObject
  <2>9. QED  BY <1>8, <2>4, <2>5, <2>6, <2>7, <2>8 DEF Work
<1>9. ASSUME NEW j \in Job, LoseJob(j) PROVE KeyInv'
  <2>1. \A k \in Job : jobs'[k] = IF k = j THEN Idle ELSE jobs[k]
    BY <1>0, <1>9, OtherJobs DEF LoseJob
  <2>2. QED  BY <1>0, <1>9, <2>1 DEF LoseJob, Idle, KeyInv, KeyIsAnObject
<1>10. CASE UNCHANGED vars
  BY <1>0, <1>10 DEF vars, KeyInv, KeyIsAnObject
<1>11. QED
  BY <1>2, <1>3, <1>4, <1>5, <1>6, <1>7, <1>8, <1>9, <1>10 DEF Next

\* A key always has an object, and no key is offered while an export is
\* generating, however many duplicate, late or failing jobs there are.
THEOREM KeyAlwaysAnObject == Spec => []KeyIsAnObject
<1>1. Init => KeyInv
  BY InitTypeOK DEF Init, KeyInv, KeyIsAnObject, Idle
<1>2. KeyInv => KeyIsAnObject
  BY DEF KeyInv
<1>3. QED  BY <1>1, <1>2, NextKeyInv, PTL DEF Spec

-----------------------------------------------------------------------------
(* The screens of the sealed agreement (VaultScreens), for any parties,      *)
(* whichever of them use the web.                                            *)

CONSTANTS Parties, Creator, Setups, MaxTurns
VARIABLES setup, status, codes, granted, cache, screen, call, event, shared

Screens == INSTANCE VaultScreens

\* What holds of a party's call, when g have granted, t seals were taken off and the
\* status is s.  A last confirmation is missed by nobody else.  One that was not the
\* last when it was handled saw no seal taken off before; so an answer that says
\* "active" tells of a reopening completed since the call was sent.  And what is
\* pushed is about to be committed, in the status it was checked in.
Sound(c, p, g, t, s) ==
    /\ c.last => c.op = "confirm" /\ c.step \in {"granting", "pushed", "no"} /\ g \cup {p} = Parties
    /\ c.active => c.since < t
    /\ c.op = "confirm" /\ c.step \in {"sent", "granting", "pushed"} => c.since <= t
    /\ c.op = "confirm" /\ c.step = "granting" /\ ~c.last => c.since = 0
    /\ c.op = "confirm" /\ c.step = "committed" => c.since = 0 \/ c.since < t
    /\ c.step = "pushed" => \/ c.op = "request" /\ s = "sealed"
                            \/ c.op = "confirm" /\ c.last /\ s = "reopen_requested"

PushedOnce ==
    \A p, q \in Parties : call[p].step = "pushed" /\ call[q].step = "pushed" => p = q

CallsInv ==
    /\ call \in [Parties -> Screens!Calls]
    /\ \A p \in Parties : Sound(call[p], p, granted, Screens!TakenOff, status)
    /\ PushedOnce
    /\ Screens!TakenOff > 0 => granted = Parties

\* The values the actions give to the records.
LEMMA ScreenRecords ==
    /\ Screens!NoRecord \in Screens!Records /\ Screens!Closed \in Screens!Views
    /\ [Screens!Closed EXCEPT !.open = TRUE] \in Screens!Views
BY DEF Screens!NoRecord, Screens!Records, Screens!Closed, Screens!Views

LEMMA ScreenSteps ==
    ASSUME NEW v \in Screens!Views, NEW b \in BOOLEAN
    PROVE  /\ [v EXCEPT !.sent = b] \in Screens!Views
           /\ [v EXCEPT !.sent = b].reopened = v.reopened
           /\ [v EXCEPT !.confirmed = TRUE, !.reopened = @ \/ b] \in Screens!Views
           /\ [v EXCEPT !.confirmed = TRUE, !.reopened = @ \/ b].reopened = (v.reopened \/ b)
BY DEF Screens!Views

-----------------------------------------------------------------------------
(* The types of the variables that are neither calls nor screens.            *)

OtherTypes ==
    /\ setup \in Setups
    /\ status \in Screens!Statuses
    /\ pdf \in Screens!PdfStatuses
    /\ codes \in [open : SUBSET Parties, valid : BOOLEAN]
    /\ granted \subseteq Parties
    /\ seals \in 1 .. MaxTurns + 1 /\ losses \in 0 .. MaxTurns
    /\ cache \in [Parties -> Screens!Records]
    /\ event \subseteq Screens!Mobile
    /\ shared \in [Parties -> {"nothing", "pdf", "error page"}]

ScreensInv == OtherTypes /\ CallsInv /\ screen \in [Parties -> Screens!Views]

LEMMA TakenOffTypes ==
    ASSUME OtherTypes, Screens!VaultScreensAssumption
    PROVE  Screens!TakenOff \in 0 .. MaxTurns + 1 /\ (status = "active" => Screens!TakenOff >= 1)
<1>1. seals \in 1 .. MaxTurns + 1 /\ MaxTurns \in Nat
  BY DEF OtherTypes, Screens!VaultScreensAssumption
<1>2. QED  BY <1>1 DEF Screens!TakenOff

LEMMA ScreenTypes ==
    ASSUME ScreensInv, Screens!VaultScreensAssumption
    PROVE  /\ CallsInv /\ call \in [Parties -> Screens!Calls] /\ granted \subseteq Parties
           /\ seals \in Int /\ Screens!TakenOff \in Int
           /\ \A p \in Parties : call[p].since \in Int
<1>1. MaxTurns \in Nat /\ seals \in 1 .. MaxTurns + 1 /\ OtherTypes /\ CallsInv
  BY DEF ScreensInv, OtherTypes, Screens!VaultScreensAssumption
<1>2. Screens!TakenOff \in 0 .. MaxTurns + 1
  BY <1>1, TakenOffTypes
<1>3. \A p \in Parties : call[p].since \in 0 .. MaxTurns + 1
  BY <1>1 DEF CallsInv, Screens!Calls
<1>4. granted \subseteq Parties /\ call \in [Parties -> Screens!Calls]
  BY <1>1 DEF OtherTypes, CallsInv
<1>5. QED  BY <1>1, <1>2, <1>3, <1>4

LEMMA ScreensInit == Screens!VaultScreensAssumption /\ Screens!Init => ScreensInv
<1> SUFFICES ASSUME Screens!VaultScreensAssumption, Screens!Init PROVE ScreensInv
  OBVIOUS
<1> USE DEF Screens!Init
<1>1. 1 \in 1 .. MaxTurns + 1 /\ 0 \in 0 .. MaxTurns
  BY DEF Screens!VaultScreensAssumption
<1>2. OtherTypes /\ screen \in [Parties -> Screens!Views]
  BY <1>1, ScreenRecords DEF OtherTypes, Screens!Statuses, Screens!PdfStatuses
<1>3. Screens!Idle \in Screens!Calls
  BY <1>1 DEF Screens!VaultScreensAssumption, Screens!Idle, Screens!Calls
<1>4. \A p \in Parties : call[p] = Screens!Idle
  OBVIOUS
<1>5. Screens!TakenOff = 0
  BY DEF Screens!TakenOff
<1>6. CallsInv
  BY <1>3, <1>4, <1>5 DEF CallsInv, Sound, PushedOnce, Screens!Idle
<1>7. QED  BY <1>2, <1>6 DEF ScreensInv

\* What a device does to its cache: nothing, or it fetches, forgets, or the link
\* it holds expires.
LEMMA CacheTypes ==
    ASSUME OtherTypes, NEW p \in Parties,
           \/ cache' = cache
           \/ Screens!Show(p)
           \/ cache' = [cache EXCEPT ![p] = Screens!NoRecord]
           \/ cache' = [cache EXCEPT ![p].url = "expired"]
    PROVE  cache' \in [Parties -> Screens!Records]
<1>1. cache \in [Parties -> Screens!Records] /\ cache[p] \in Screens!Records
  BY DEF OtherTypes
<1>2. Screens!Fetched \in Screens!Records
  BY DEF OtherTypes, Screens!Fetched, Screens!Records, Screens!Statuses, Screens!PdfStatuses
<1>3. [cache[p] EXCEPT !.url = "expired"] \in Screens!Records
  BY <1>1 DEF Screens!Records
<1>4. CASE cache' = [cache EXCEPT ![p].url = "expired"]
  <2>1. cache' = [cache EXCEPT ![p] = [cache[p] EXCEPT !.url = "expired"]]
    BY <1>1, <1>4
  <2>2. QED  BY <1>1, <1>3, <2>1
<1>5. QED  BY <1>1, <1>2, <1>4, ScreenRecords DEF Screens!Show

\* What a device does without the server, and its answers.
LEMMA DeviceTypes ==
    ASSUME OtherTypes, setup' = setup, NEW p \in Parties,
           \/ Screens!MobileOpen(p) \/ Screens!WebOpen(p) \/ Screens!Poll(p) \/ Screens!WebPoll(p)
           \/ Screens!WebRefetch(p) \/ Screens!EventArrives(p) \/ Screens!EventLost(p)
           \/ \E op \in {"request", "confirm", "resend", "export", "retry"} : Screens!Send(p, op)
           \/ Screens!Answer(p) \/ Screens!UrlExpires(p) \/ Screens!Save(p)
    PROVE  OtherTypes'
<1>1. UNCHANGED Screens!server
  BY DEF Screens!MobileOpen, Screens!WebOpen, Screens!Opened, Screens!Poll, Screens!WebPoll,
     Screens!WebRefetch, Screens!EventArrives, Screens!EventLost, Screens!Send, Screens!Answer,
     Screens!AnswerRequest, Screens!MobileConfirmed, Screens!WebConfirmed,
     Screens!AnswerExport, Screens!Refused, Screens!UrlExpires, Screens!Save
<1>2. \/ cache' = cache
      \/ Screens!Show(p)
      \/ cache' = [cache EXCEPT ![p] = Screens!NoRecord]
      \/ cache' = [cache EXCEPT ![p].url = "expired"]
  BY DEF Screens!MobileOpen, Screens!WebOpen, Screens!Poll, Screens!WebPoll,
     Screens!WebRefetch, Screens!EventArrives, Screens!EventLost, Screens!Send, Screens!Answer,
     Screens!AnswerRequest, Screens!MobileConfirmed, Screens!WebConfirmed,
     Screens!AnswerExport, Screens!Refused, Screens!UrlExpires, Screens!Save
<1>3. cache' \in [Parties -> Screens!Records]
  BY <1>2, CacheTypes
<1>4. event' \subseteq event
  BY DEF Screens!MobileOpen, Screens!WebOpen, Screens!Opened, Screens!Poll, Screens!WebPoll,
     Screens!WebRefetch, Screens!EventArrives, Screens!EventLost, Screens!Send, Screens!Answer,
     Screens!AnswerRequest, Screens!MobileConfirmed, Screens!WebConfirmed,
     Screens!AnswerExport, Screens!Refused, Screens!UrlExpires, Screens!Save
<1>5. \/ shared' = shared
      \/ shared' = [shared EXCEPT ![p] = "pdf"]
      \/ shared' = [shared EXCEPT ![p] = "error page"]
  BY DEF Screens!MobileOpen, Screens!WebOpen, Screens!Opened, Screens!Poll, Screens!WebPoll,
     Screens!WebRefetch, Screens!EventArrives, Screens!EventLost, Screens!Send, Screens!Answer,
     Screens!AnswerRequest, Screens!MobileConfirmed, Screens!WebConfirmed,
     Screens!AnswerExport, Screens!Refused, Screens!UrlExpires, Screens!Save
<1>6. shared' \in [Parties -> {"nothing", "pdf", "error page"}]
  BY <1>5 DEF OtherTypes
<1>7. event' \subseteq Screens!Mobile'
  BY <1>4 DEF OtherTypes, Screens!Mobile, Screens!Web
<1>8. QED  BY <1>1, <1>3, <1>6, <1>7 DEF OtherTypes, Screens!server

\* What the server does for a device.
LEMMA HandleTypes ==
    ASSUME Screens!VaultScreensAssumption, OtherTypes, setup' = setup, NEW p \in Parties, Screens!Handle(p)
    PROVE  OtherTypes'
<1> USE DEF OtherTypes, Screens!server
<1>1. Screens!Mobile' = Screens!Mobile
  BY DEF Screens!Mobile, Screens!Web
<1>2. CASE \/ Screens!HandleRequest(p) \/ Screens!LockToIssue(p) \/ Screens!HandleConfirm(p)
           \/ Screens!CompleteReopen(p) \/ Screens!AnswerConfirm(p) \/ Screens!AbortIssue(p)
  BY <1>1, <1>2 DEF Screens!HandleRequest, Screens!LockToIssue, Screens!HandleConfirm,
     Screens!CompleteReopen, Screens!AnswerConfirm, Screens!AbortIssue
<1>3. CASE Screens!CommitRequest(p)
  BY <1>1, <1>3 DEF Screens!CommitRequest, Screens!Statuses
<1>4. CASE \E fails \in BOOLEAN : Screens!IssueCodes(p, fails)
  <2>1. codes' = codes \/ codes' = [open |-> Parties, valid |-> TRUE]
    BY <1>4 DEF Screens!IssueCodes
  <2>2. [open |-> Parties, valid |-> TRUE] \in [open : SUBSET Parties, valid : BOOLEAN]
    <3>1. Parties \in SUBSET Parties
      OBVIOUS
    <3>2. QED  BY <3>1
  <2>3. codes' \in [open : SUBSET Parties, valid : BOOLEAN]
    BY <2>1, <2>2
  <2>4. QED  BY <1>1, <1>4, <2>3 DEF Screens!IssueCodes
<1>5. CASE Screens!CommitConfirm(p)
  <2>1. codes' = [codes EXCEPT !.open = @ \ {p}] /\ granted' = granted \cup {p}
    BY <1>5 DEF Screens!CommitConfirm
  <2>2. codes' \in [open : SUBSET Parties, valid : BOOLEAN] /\ granted' \subseteq Parties
    BY <2>1
  <2>3. status' \in Screens!Statuses
    BY <1>5 DEF Screens!CommitConfirm, Screens!Statuses
  <2>4. QED  BY <1>1, <1>5, <2>2, <2>3 DEF Screens!CommitConfirm
<1>6. CASE Screens!AbortConfirm(p)
  <2>0. /\ MaxTurns \in Nat /\ seals \in 1 .. MaxTurns + 1 /\ losses \in 0 .. MaxTurns
        /\ seals + losses <= MaxTurns /\ losses' = losses + 1
    BY <1>6 DEF Screens!AbortConfirm, Screens!VaultScreensAssumption
  <2> HIDE DEF OtherTypes
  <2>1. losses' \in 0 .. MaxTurns
    BY <2>0
  <2>2. QED  BY <1>1, <1>6, <2>1 DEF OtherTypes, Screens!AbortConfirm
<1>7. CASE Screens!HandleExport(p) \/ Screens!RefuseExport(p)
  BY <1>1, <1>7 DEF Screens!HandleExport, Screens!RefuseExport, Screens!PdfStatuses
<1>8. QED  BY <1>2, <1>3, <1>4, <1>5, <1>6, <1>7 DEF Screens!Handle

LEMMA ServerTypes ==
    ASSUME Screens!VaultScreensAssumption, OtherTypes, setup' = setup,
           Screens!JobEnds \/ Screens!Reseal \/ Screens!CodesExpire
    PROVE  OtherTypes'
<1> USE DEF OtherTypes
<1>1. Screens!Mobile' = Screens!Mobile
  BY DEF Screens!Mobile, Screens!Web
<1>2. CASE Screens!JobEnds
  BY <1>1, <1>2 DEF Screens!JobEnds, Screens!PdfStatuses
<1>3. CASE Screens!Reseal
  <2>0. /\ MaxTurns \in Nat /\ seals \in 1 .. MaxTurns + 1 /\ losses \in 0 .. MaxTurns
        /\ seals + losses <= MaxTurns /\ seals' = seals + 1
    BY <1>3 DEF Screens!Reseal, Screens!VaultScreensAssumption
  <2> HIDE DEF OtherTypes
  <2>1. seals' \in 1 .. MaxTurns + 1
    BY <2>0
  <2>2. QED  BY <1>1, <1>3, <2>1 DEF OtherTypes, Screens!Reseal, Screens!Statuses
<1>4. CASE Screens!CodesExpire
  <2>0. /\ MaxTurns \in Nat /\ seals \in 1 .. MaxTurns + 1 /\ losses \in 0 .. MaxTurns
        /\ seals + losses <= MaxTurns /\ losses' = losses + 1
    BY <1>4 DEF Screens!CodesExpire, Screens!VaultScreensAssumption
  <2> HIDE DEF OtherTypes
  <2>1. losses' \in 0 .. MaxTurns
    BY <2>0
  <2>2. codes' \in [open : SUBSET Parties, valid : BOOLEAN]
    BY <1>4 DEF OtherTypes, Screens!CodesExpire
  <2>3. QED  BY <1>1, <1>4, <2>1, <2>2 DEF OtherTypes, Screens!CodesExpire
<1>5. QED  BY <1>2, <1>3, <1>4

-----------------------------------------------------------------------------
\* Every press of a button is a call of one of the five operations.
LEMMA Presses ==
    ASSUME NEW p \in Parties,
           \/ Screens!MobileRequest(p) \/ Screens!MobileConfirm(p) \/ Screens!MobileResend(p)
           \/ Screens!MobileExport(p) \/ Screens!MobileRetry(p)
           \/ Screens!WebRequest(p) \/ Screens!WebConfirm(p) \/ Screens!WebRetry(p)
    PROVE  \E op \in {"request", "confirm", "resend", "export", "retry"} : Screens!Send(p, op)
BY DEF Screens!MobileRequest, Screens!MobileConfirm, Screens!MobileResend, Screens!MobileExport,
   Screens!MobileRetry, Screens!WebRequest, Screens!WebConfirm, Screens!WebRetry

\* A step of one call, in which nothing is committed.
LEMMA CallSteps ==
    ASSUME CallsInv, UNCHANGED <<status, seals, granted>>, NEW p \in Parties,
           NEW c \in Screens!Calls, call' = [call EXCEPT ![p] = c],
           Sound(c, p, granted, Screens!TakenOff, status),
           c.step = "pushed" => call[p].step = "pushed" \/ \A q \in Parties : call[q].step # "pushed"
    PROVE  CallsInv'
<1>1. Screens!TakenOff' = Screens!TakenOff
  BY DEF Screens!TakenOff
<1>2. call' \in [Parties -> Screens!Calls] /\ \A q \in Parties : call'[q] = IF q = p THEN c ELSE call[q]
  BY DEF CallsInv
<1>3. \A q \in Parties : Sound(call'[q], q, granted', Screens!TakenOff', status')
  BY <1>1, <1>2 DEF CallsInv
<1>4. PushedOnce'
  BY <1>2 DEF CallsInv, PushedOnce
<1>5. QED  BY <1>1, <1>2, <1>3, <1>4 DEF CallsInv

\* What a device does without the server, and its answers.
LEMMA DeviceCalls ==
    ASSUME Screens!VaultScreensAssumption, ScreensInv, NEW p \in Parties,
           \/ Screens!MobileOpen(p) \/ Screens!WebOpen(p) \/ Screens!Poll(p) \/ Screens!WebPoll(p)
           \/ Screens!WebRefetch(p) \/ Screens!EventArrives(p) \/ Screens!EventLost(p)
           \/ \E op \in {"request", "confirm", "resend", "export", "retry"} : Screens!Send(p, op)
           \/ Screens!Answer(p) \/ Screens!UrlExpires(p) \/ Screens!Save(p)
    PROVE  UNCHANGED <<status, seals, granted>> /\ CallsInv'
<1>1. UNCHANGED <<status, seals, granted>>
  BY DEF Screens!MobileOpen, Screens!WebOpen, Screens!Opened, Screens!Poll, Screens!WebPoll,
     Screens!WebRefetch, Screens!EventArrives, Screens!EventLost, Screens!Send, Screens!Answer,
     Screens!AnswerRequest, Screens!MobileConfirmed, Screens!WebConfirmed,
     Screens!AnswerExport, Screens!Refused, Screens!UrlExpires, Screens!Save, Screens!server
<1>2. /\ CallsInv /\ call[p] \in Screens!Calls /\ Sound(call[p], p, granted, Screens!TakenOff, status)
      /\ call = [call EXCEPT ![p] = call[p]] /\ Screens!TakenOff \in 0 .. MaxTurns + 1
  BY TakenOffTypes DEF ScreensInv, CallsInv
<1>3. CASE call' = call
  BY <1>1, <1>2, <1>3, CallSteps
<1>4. CASE Screens!Opened(p)
  <2> DEFINE c == [call[p] EXCEPT !.heard = FALSE]
  <2>1. call' = [call EXCEPT ![p] = c]
    BY <1>2, <1>4 DEF Screens!Opened
  <2>2. c \in Screens!Calls /\ Sound(c, p, granted, Screens!TakenOff, status) /\ c.step = call[p].step
    BY <1>2 DEF Screens!Calls, Sound
  <2> HIDE DEF c
  <2>3. QED  BY <1>1, <1>2, <2>1, <2>2, CallSteps
<1>5. ASSUME NEW op \in {"request", "confirm", "resend", "export", "retry"}, Screens!Send(p, op) PROVE CallsInv'
  <2> DEFINE since == IF op = "confirm" THEN Screens!TakenOff ELSE 0
             c == [Screens!Idle EXCEPT !.op = op, !.step = "sent", !.heard = Screens!Awaits(p, op), !.since = since]
  <2>1. call' = [call EXCEPT ![p] = c]
    BY <1>5 DEF Screens!Send
  <2>2. since \in 0 .. MaxTurns + 1 /\ Screens!Awaits(p, op) \in BOOLEAN
    BY <1>2 DEF Screens!Awaits
  <2>3. /\ c \in Screens!Calls /\ c.op = op /\ c.step = "sent" /\ ~c.last /\ ~c.active
        /\ c.since = since
    <3> HIDE DEF since
    <3>1. QED  BY <2>2 DEF Screens!Idle, Screens!Calls
  <2>4. op = "confirm" => since <= Screens!TakenOff
    BY <1>2
  <2>5. c \in Screens!Calls
    BY <2>3
  <2>6. Sound(c, p, granted, Screens!TakenOff, status) /\ c.step # "pushed"
    <3> HIDE DEF c, since
    <3>1. QED  BY <2>3, <2>4 DEF Sound
  <2> HIDE DEF c
  <2>7. QED  BY <1>1, <1>2, <2>1, <2>5, <2>6, CallSteps
<1>6. CASE Screens!Answer(p)
  <2>1. call' = [call EXCEPT ![p] = Screens!Idle]
    BY <1>6 DEF Screens!Answer, Screens!AnswerRequest, Screens!MobileConfirmed, Screens!WebConfirmed,
       Screens!AnswerExport, Screens!Refused, Screens!Done
  <2>2. Screens!Idle \in Screens!Calls /\ Screens!Idle.step # "pushed"
    BY DEF Screens!Idle, Screens!Calls, Screens!VaultScreensAssumption
  <2>3. Sound(Screens!Idle, p, granted, Screens!TakenOff, status)
    BY DEF Screens!Idle, Sound
  <2>4. QED  BY <1>1, <1>2, <2>1, <2>2, <2>3, CallSteps
<1>7. QED
  <2>1. call' = call \/ Screens!Opened(p) \/ Screens!Answer(p)
          \/ \E op \in {"request", "confirm", "resend", "export", "retry"} : Screens!Send(p, op)
    BY DEF Screens!MobileOpen, Screens!WebOpen, Screens!Poll, Screens!WebPoll, Screens!WebRefetch,
       Screens!EventArrives, Screens!EventLost, Screens!UrlExpires, Screens!Save
  <2>2. QED  BY <1>1, <1>3, <1>4, <1>5, <1>6, <2>1

\* What the server does for a call before it commits.
LEMMA HandleCalls ==
    ASSUME Screens!VaultScreensAssumption, ScreensInv, NEW p \in Parties,
           Screens!Handle(p), ~Screens!CommitRequest(p), ~Screens!CommitConfirm(p)
    PROVE  UNCHANGED <<status, seals, granted>> /\ CallsInv'
<1>1. UNCHANGED <<status, seals, granted>>
  BY DEF Screens!Handle, Screens!HandleRequest, Screens!LockToIssue, Screens!IssueCodes, Screens!HandleConfirm,
     Screens!CompleteReopen, Screens!AnswerConfirm, Screens!AbortIssue, Screens!AbortConfirm,
     Screens!HandleExport, Screens!RefuseExport, Screens!server
<1>2. /\ CallsInv /\ call[p] \in Screens!Calls /\ Sound(call[p], p, granted, Screens!TakenOff, status)
      /\ Screens!TakenOff \in 0 .. MaxTurns + 1 /\ (status = "active" => Screens!TakenOff >= 1)
      /\ call[p].since \in 0 .. MaxTurns + 1
      /\ Screens!TakenOff > 0 => granted = Parties
      /\ call \in [Parties -> Screens!Calls] /\ granted \subseteq Parties
  BY TakenOffTypes DEF ScreensInv, OtherTypes, CallsInv, Screens!Calls
\* Nothing but where the call is.
<1>3. ASSUME NEW to \in {"issuing", "ok", "no"}, call' = [call EXCEPT ![p].step = to], to = "no" \/ ~call[p].last
      PROVE  CallsInv'
  <2> DEFINE c == [call[p] EXCEPT !.step = to]
  <2>1. call' = [call EXCEPT ![p] = c]
    BY <1>3
  <2>2. /\ c \in Screens!Calls /\ c.step = to /\ c.op = call[p].op /\ c.last = call[p].last
        /\ c.active = call[p].active /\ c.since = call[p].since
    BY <1>2 DEF Screens!Calls
  <2> HIDE DEF c
  <2>3. Sound(c, p, granted, Screens!TakenOff, status) /\ c.step # "pushed"
    BY <1>2, <1>3, <2>2 DEF Sound
  <2>4. QED  BY <1>1, <1>2, <2>1, <2>2, <2>3, CallSteps
\* What goes out before the commit is checked while nobody else holds the agreement.
<1>4. ASSUME Screens!Unlocked, call' = [call EXCEPT ![p].step = "pushed"],
             \/ call[p].op = "request" /\ call[p].step = "sent" /\ status = "sealed"
             \/ /\ call[p].op = "confirm" /\ call[p].step = "granting"
                /\ call[p].last /\ status = "reopen_requested"
      PROVE  CallsInv'
  <2> DEFINE c == [call[p] EXCEPT !.step = "pushed"]
  <2>1. call' = [call EXCEPT ![p] = c]
    BY <1>4
  <2>2. /\ c \in Screens!Calls /\ c.step = "pushed" /\ c.op = call[p].op /\ c.last = call[p].last
        /\ c.active = call[p].active /\ c.since = call[p].since
    BY <1>2 DEF Screens!Calls
  <2> HIDE DEF c
  <2>3. Sound(c, p, granted, Screens!TakenOff, status) /\ \A q \in Parties : call[q].step # "pushed"
    BY <1>2, <1>4, <2>2 DEF Sound, Screens!Unlocked
  <2>4. QED  BY <1>1, <1>2, <2>1, <2>2, <2>3, CallSteps
<1>5. CASE Screens!HandleRequest(p)
  <2>1. CASE call' = [call EXCEPT ![p].step = "no"]
    BY <1>1, <1>3, <2>1
  <2>2. QED  BY <1>1, <1>4, <1>5, <2>1 DEF Screens!HandleRequest, Screens!Step
<1>6. ASSUME NEW to \in {"issuing", "ok", "no"}, call' = [call EXCEPT ![p].step = to],
             to = "no" \/ call[p].op # "confirm" \/ call[p].step = "issuing"
      PROVE  CallsInv'
  <2>1. to = "no" \/ ~call[p].last
    BY <1>2, <1>6 DEF Sound
  <2>2. QED  BY <1>3, <1>6, <2>1
<1>7. CASE \/ Screens!LockToIssue(p) \/ \E fails \in BOOLEAN : Screens!IssueCodes(p, fails)
           \/ Screens!AbortIssue(p) \/ Screens!AbortConfirm(p)
  <2>1. \/ call' = [call EXCEPT ![p].step = "no"]
        \/ call' = [call EXCEPT ![p].step = "issuing"] /\ call[p].op # "confirm"
        \/ call' = [call EXCEPT ![p].step = "ok"] /\ call[p].step = "issuing"
    BY <1>7 DEF Screens!LockToIssue, Screens!Step, Screens!IssueCodes, Screens!AbortIssue, Screens!AbortConfirm
  <2>2. QED  BY <1>1, <1>6, <2>1
<1>8. CASE Screens!HandleExport(p) \/ Screens!RefuseExport(p)
  <2>1. \/ call' = [call EXCEPT ![p].step = "no"]
        \/ call' = [call EXCEPT ![p].step = "ok"] /\ call[p].op # "confirm"
    BY <1>8 DEF Screens!HandleExport, Screens!RefuseExport, Screens!Step
  <2>2. QED  BY <1>1, <1>6, <2>1
<1>9. CASE Screens!HandleConfirm(p)
  <2>0. call[p].op = "confirm" /\ call[p].step = "sent"
    BY <1>9 DEF Screens!HandleConfirm
  <2>1. CASE call' = [call EXCEPT ![p].step = "no"]
    <3>1. "no" \in {"issuing", "ok", "no"}
      OBVIOUS
    <3>2. QED  BY <1>1, <1>3, <2>1, <3>1
  <2>2. CASE call' = [call EXCEPT ![p].step = "granting", ![p].last = (granted \cup {p} = Parties)]
    <3>1. PICK last \in BOOLEAN : last <=> granted \cup {p} = Parties
      OBVIOUS
    <3> DEFINE c == [call[p] EXCEPT !.step = "granting", !.last = last]
    <3>2. call' = [call EXCEPT ![p] = c]
      <4>1. (granted \cup {p} = Parties) = last
        BY <3>1
      <4>2. QED  BY <1>2, <2>2, <4>1 DEF CallsInv
    <3>3. /\ c \in Screens!Calls /\ c.step = "granting" /\ c.op = "confirm" /\ c.last = last
          /\ c.active = call[p].active /\ c.since = call[p].since
      BY <1>2, <2>0 DEF Screens!Calls
    <3> HIDE DEF c
    <3>4. ~last => Screens!TakenOff = 0
      BY <1>2, <3>1
    <3>5. Sound(c, p, granted, Screens!TakenOff, status) /\ c.step # "pushed"
      <4>1. call[p].since <= Screens!TakenOff
        BY <1>2, <2>0 DEF Sound
      <4>2. QED  BY <1>2, <3>1, <3>3, <3>4, <4>1 DEF Sound
    <3>6. QED  BY <1>1, <1>2, <3>2, <3>3, <3>5, CallSteps
  <2>3. QED  BY <1>9, <2>1, <2>2 DEF Screens!HandleConfirm
<1>10. CASE Screens!CompleteReopen(p)
  <2>1. CASE call' = [call EXCEPT ![p].step = "no"]
    BY <1>1, <1>3, <2>1
  <2>2. QED  BY <1>1, <1>4, <1>10, <2>1 DEF Screens!CompleteReopen, Screens!Step
<1>11. CASE Screens!AnswerConfirm(p)
  <2>1. PICK active \in BOOLEAN : active <=> status = "active"
    OBVIOUS
  <2> DEFINE c == [call[p] EXCEPT !.step = "ok", !.active = active]
  <2>2. call[p].op = "confirm" /\ call[p].step = "committed" /\ call' = [call EXCEPT ![p] = c]
    <3>1. (status = "active") = active
      BY <2>1
    <3>2. QED  BY <1>2, <1>11, <3>1 DEF CallsInv, Screens!AnswerConfirm
  <2>3. /\ c \in Screens!Calls /\ c.step = "ok" /\ c.op = "confirm" /\ c.last = call[p].last
        /\ c.active = active /\ c.since = call[p].since
    BY <1>2, <2>2 DEF Screens!Calls
  <2> HIDE DEF c
  <2>4. Sound(c, p, granted, Screens!TakenOff, status) /\ c.step # "pushed"
    BY <1>2, <2>1, <2>2, <2>3 DEF Sound
  <2>5. QED  BY <1>1, <1>2, <2>2, <2>3, <2>4, CallSteps
<1>12. QED  BY <1>1, <1>5, <1>6, <1>7, <1>8, <1>9, <1>10, <1>11 DEF Screens!Handle

\* What a call's invariant says does not weaken when parties grant and seals come off.
LEMMA SoundGrows ==
    ASSUME NEW c \in Screens!Calls, NEW q \in Parties, NEW g, NEW h \in SUBSET Parties, NEW t \in Int, NEW u \in Int,
           NEW s, NEW r, Sound(c, q, g, t, s), g \subseteq h, t <= u, c.step # "pushed"
    PROVE  Sound(c, q, h, u, r)
<1>1. c.since \in Int
  BY DEF Screens!Calls, Screens!VaultScreensAssumption
<1>2. g \cup {q} = Parties => h \cup {q} = Parties
  OBVIOUS
<1>3. QED  BY <1>1, <1>2 DEF Sound

\* A request is committed: nothing else was pushed.
LEMMA RequestCommits ==
    ASSUME Screens!VaultScreensAssumption, ScreensInv, NEW p \in Parties, Screens!CommitRequest(p)
    PROVE  /\ CallsInv' /\ status = "sealed" /\ status' = "reopen_requested"
           /\ UNCHANGED <<granted, seals>> /\ Screens!TakenOff' = Screens!TakenOff
<1>1. /\ CallsInv /\ call[p] \in Screens!Calls /\ Sound(call[p], p, granted, Screens!TakenOff, status)
      /\ Screens!TakenOff \in Int /\ granted \subseteq Parties
  BY ScreenTypes DEF CallsInv
<1>2. /\ call[p].op = "request" /\ call[p].step = "pushed" /\ status' = "reopen_requested"
      /\ call' = [call EXCEPT ![p].step = "committed"] /\ UNCHANGED <<granted, seals>>
  BY DEF Screens!CommitRequest, Screens!Step
<1>3. status = "sealed" /\ ~call[p].last
  BY <1>1, <1>2 DEF Sound
<1>4. Screens!TakenOff' = Screens!TakenOff
  BY <1>2, <1>3 DEF Screens!TakenOff
<1> DEFINE c == [call[p] EXCEPT !.step = "committed"]
<1>5. /\ c \in Screens!Calls /\ c.step = "committed" /\ c.op = "request" /\ c.last = call[p].last
      /\ c.active = call[p].active /\ c.since = call[p].since
  BY <1>1, <1>2 DEF Screens!Calls
<1>6. call' \in [Parties -> Screens!Calls] /\ \A q \in Parties : call'[q] = IF q = p THEN c ELSE call[q]
  BY <1>1, <1>2, <1>5 DEF CallsInv
<1> HIDE DEF c
<1>7. \A q \in Parties : call'[q].step # "pushed"
  BY <1>1, <1>2, <1>5, <1>6 DEF CallsInv, PushedOnce
<1>8. ASSUME NEW q \in Parties PROVE Sound(call'[q], q, granted', Screens!TakenOff', status')
  <2>1. Sound(call'[q], q, granted, Screens!TakenOff, status)
    BY <1>1, <1>2, <1>3, <1>5, <1>6 DEF CallsInv, Sound
  <2>2. call'[q] \in Screens!Calls /\ call'[q].step # "pushed"
    BY <1>6, <1>7
  <2>3. granted \in SUBSET Parties /\ granted \subseteq granted /\ Screens!TakenOff <= Screens!TakenOff
    BY <1>1
  <2>4. Sound(call'[q], q, granted, Screens!TakenOff, status')
    BY <1>1, <2>1, <2>2, <2>3, SoundGrows
  <2>5. QED  BY <1>2, <1>4, <2>4
<1>9. QED  BY <1>1, <1>2, <1>3, <1>4, <1>6, <1>7, <1>8 DEF CallsInv, PushedOnce

\* A confirmation is committed: the last one with the seal taken off, when nothing
\* else was pushed, and the others without.
LEMMA ConfirmCommits ==
    ASSUME Screens!VaultScreensAssumption, ScreensInv, NEW p \in Parties, Screens!CommitConfirm(p)
    PROVE  /\ CallsInv' /\ granted' = granted \cup {p} /\ seals' = seals
           /\ \/ status' = status /\ Screens!TakenOff' = Screens!TakenOff
              \/ /\ status = "reopen_requested" /\ status' = "active" /\ granted' = Parties
                 /\ Screens!TakenOff = seals - 1 /\ Screens!TakenOff' = seals
<1>1. /\ CallsInv /\ call[p] \in Screens!Calls /\ Sound(call[p], p, granted, Screens!TakenOff, status)
      /\ Screens!TakenOff \in Int /\ seals \in Int /\ granted \subseteq Parties /\ call[p].since \in Int
  BY ScreenTypes DEF CallsInv
<1>2. /\ call[p].op = "confirm" /\ call[p].step = (IF call[p].last THEN "pushed" ELSE "granting")
      /\ call' = [call EXCEPT ![p].step = "committed", ![p].last = FALSE]
      /\ granted' = granted \cup {p} /\ seals' = seals
      /\ status' = IF call[p].last THEN "active" ELSE status
  BY DEF Screens!CommitConfirm
<1> DEFINE c == [call[p] EXCEPT !.step = "committed", !.last = FALSE]
<1>3. /\ c \in Screens!Calls /\ c.step = "committed" /\ c.op = "confirm" /\ ~c.last
      /\ c.active = call[p].active /\ c.since = call[p].since
  BY <1>1, <1>2 DEF Screens!Calls
<1>4. call' \in [Parties -> Screens!Calls] /\ \A q \in Parties : call'[q] = IF q = p THEN c ELSE call[q]
  <2>1. call' = [call EXCEPT ![p] = c]
    BY <1>1, <1>2 DEF CallsInv
  <2> HIDE DEF c
  <2>2. QED  BY <1>1, <1>3, <2>1 DEF CallsInv
<1> HIDE DEF c
<1>5. PushedOnce'
  BY <1>1, <1>3, <1>4 DEF CallsInv, PushedOnce
<1>6. CASE call[p].last
  <2>1. status = "reopen_requested" /\ granted' = Parties /\ status' = "active"
    BY <1>1, <1>2, <1>6 DEF Sound
  <2>2. Screens!TakenOff = seals - 1 /\ Screens!TakenOff' = seals
    BY <1>2, <2>1 DEF Screens!TakenOff
  <2>3. \A q \in Parties : call'[q].step # "pushed"
    BY <1>1, <1>2, <1>3, <1>4, <1>6 DEF CallsInv, PushedOnce
  <2>4. Sound(c, p, granted', Screens!TakenOff', status')
    <3>1. c.since < Screens!TakenOff'
      BY <1>1, <1>2, <1>3, <1>6, <2>2 DEF Sound
    <3>2. QED  BY <1>3, <3>1 DEF Sound
  <2>5. ASSUME NEW q \in Parties \ {p} PROVE Sound(call'[q], q, granted', Screens!TakenOff', status')
    <3>1. call'[q] = call[q] /\ call[q] \in Screens!Calls /\ call[q].step # "pushed"
      BY <1>1, <1>4, <2>3 DEF CallsInv
    <3>2. Sound(call[q], q, granted, Screens!TakenOff, status)
      BY <1>1 DEF CallsInv
    <3>3. granted' \in SUBSET Parties /\ granted \subseteq granted' /\ Screens!TakenOff' \in Int
          /\ Screens!TakenOff <= Screens!TakenOff'
      BY <1>1, <1>2, <2>2
    <3>4. QED  BY <1>1, <3>1, <3>2, <3>3, SoundGrows
  <2>6. CallsInv'
    BY <1>4, <1>5, <2>1, <2>4, <2>5 DEF CallsInv
  <2>7. QED  BY <1>2, <2>1, <2>2, <2>6
<1>7. CASE ~call[p].last
  <2>1. status' = status /\ Screens!TakenOff' = Screens!TakenOff
    BY <1>2, <1>7 DEF Screens!TakenOff
  <2>2. Sound(c, p, granted', Screens!TakenOff', status')
    <3>1. c.since = 0
      BY <1>1, <1>2, <1>3, <1>7 DEF Sound
    <3>2. c.active => c.since < Screens!TakenOff'
      BY <1>1, <1>3, <2>1 DEF Sound
    <3>3. QED  BY <1>3, <3>1, <3>2 DEF Sound
  <2>3. ASSUME NEW q \in Parties \ {p} PROVE Sound(call'[q], q, granted', Screens!TakenOff', status')
    <3>1. call'[q] = call[q] /\ Sound(call[q], q, granted, Screens!TakenOff, status)
      BY <1>1, <1>4 DEF CallsInv
    <3>2. granted \cup {q} = Parties => granted' \cup {q} = Parties
      BY <1>1, <1>2
    <3>3. QED  BY <2>1, <3>1, <3>2 DEF Sound
  <2>4. Screens!TakenOff' > 0 => granted' = Parties
    BY <1>1, <1>2, <2>1 DEF CallsInv
  <2>5. CallsInv'
    BY <1>4, <1>5, <2>2, <2>3, <2>4 DEF CallsInv
  <2>6. QED  BY <1>2, <2>1, <2>5
<1>8. QED  BY <1>6, <1>7

\* The agreement is sealed again, under its lock: nothing is pushed, and the seals
\* taken off are the same.
LEMMA ResealCalls ==
    ASSUME Screens!VaultScreensAssumption, ScreensInv, Screens!Reseal
    PROVE  CallsInv'
<1>1. /\ CallsInv /\ granted \subseteq Parties /\ seals \in Int /\ Screens!TakenOff \in Int
  BY ScreenTypes DEF CallsInv
<1>2. /\ status = "active" /\ status' = "sealed" /\ seals' = seals + 1 /\ UNCHANGED <<granted, call>>
      /\ \A q \in Parties : call[q].step # "pushed"
  BY DEF Screens!Reseal, Screens!Unlocked
<1>3. Screens!TakenOff' = Screens!TakenOff
  BY <1>1, <1>2 DEF Screens!TakenOff
<1>4. ASSUME NEW q \in Parties PROVE Sound(call[q], q, granted, Screens!TakenOff, status')
  <2>1. call[q] \in Screens!Calls /\ Sound(call[q], q, granted, Screens!TakenOff, status)
    BY <1>1 DEF CallsInv
  <2>2. QED  BY <1>1, <1>2, <2>1, SoundGrows
<1>5. QED  BY <1>1, <1>2, <1>3, <1>4 DEF CallsInv, PushedOnce

\* The views of the devices keep their type, and one begins to say "reopened" only
\* with an answer that says the agreement is active.
LEMMA DeviceViews ==
    ASSUME ScreensInv, NEW p \in Parties, Screens!Device(p)
    PROVE  /\ screen' \in [Parties -> Screens!Views]
           /\ \A q \in Parties : ~screen[q].reopened /\ screen'[q].reopened =>
                q = p /\ call[p].active
<1>1. /\ screen \in [Parties -> Screens!Views] /\ screen[p] \in Screens!Views
      /\ call[p].active \in BOOLEAN
  BY DEF ScreensInv, CallsInv, Screens!Calls
<1>2. \/ screen' = screen
      \/ screen' = [screen EXCEPT ![p] = [Screens!Closed EXCEPT !.open = TRUE]]
      \/ \E b \in BOOLEAN : screen' = [screen EXCEPT ![p].sent = b]
      \/ screen' = [screen EXCEPT ![p].confirmed = TRUE, ![p].reopened = @ \/ call[p].active]
  <2>1. CASE Screens!MobileOpen(p) \/ Screens!WebOpen(p)
    BY <2>1 DEF Screens!MobileOpen, Screens!WebOpen, Screens!Opened
  <2>2. CASE Screens!Answer(p)
    BY <2>2 DEF Screens!Answer, Screens!AnswerRequest, Screens!MobileConfirmed, Screens!WebConfirmed,
       Screens!AnswerExport, Screens!Refused, Screens!Confirmed
  <2>3. CASE \/ Screens!Poll(p) \/ Screens!WebPoll(p) \/ Screens!WebRefetch(p) \/ Screens!EventArrives(p)
             \/ Screens!EventLost(p) \/ Screens!UrlExpires(p) \/ Screens!Save(p)
             \/ \E op \in {"request", "confirm", "resend", "export", "retry"} : Screens!Send(p, op)
    BY <2>3 DEF Screens!Poll, Screens!WebPoll, Screens!WebRefetch, Screens!EventArrives,
       Screens!EventLost, Screens!UrlExpires, Screens!Save, Screens!Send
  <2>4. CASE Screens!Handle(p)
    BY <2>4 DEF Screens!Handle, Screens!HandleRequest, Screens!CommitRequest, Screens!LockToIssue,
       Screens!IssueCodes, Screens!HandleConfirm, Screens!CompleteReopen, Screens!CommitConfirm,
       Screens!AnswerConfirm, Screens!AbortIssue, Screens!AbortConfirm, Screens!HandleExport,
       Screens!RefuseExport
  <2>5. QED  BY <2>1, <2>2, <2>3, <2>4, Presses DEF Screens!Device
<1>3. CASE screen' = screen
  BY <1>1, <1>3
<1>4. CASE screen' = [screen EXCEPT ![p] = [Screens!Closed EXCEPT !.open = TRUE]]
  BY <1>1, <1>4, ScreenRecords DEF Screens!Closed
<1>5. ASSUME NEW b \in BOOLEAN, screen' = [screen EXCEPT ![p].sent = b]
      PROVE  screen' \in [Parties -> Screens!Views] /\ \A q \in Parties : screen'[q].reopened = screen[q].reopened
  <2> DEFINE v == [screen[p] EXCEPT !.sent = b]
  <2>1. v \in Screens!Views /\ v.reopened = screen[p].reopened
    BY <1>1, ScreenSteps
  <2>2. screen' = [screen EXCEPT ![p] = v]
    BY <1>5
  <2> HIDE DEF v
  <2>3. QED  BY <1>1, <2>1, <2>2
<1>6. CASE screen' = [screen EXCEPT ![p].confirmed = TRUE, ![p].reopened = @ \/ call[p].active]
  <2> DEFINE v == [screen[p] EXCEPT !.confirmed = TRUE, !.reopened = @ \/ call[p].active]
  <2>1. v \in Screens!Views /\ v.reopened = (screen[p].reopened \/ call[p].active)
    BY <1>1, ScreenSteps
  <2>2. screen' = [screen EXCEPT ![p] = v]
    BY <1>1, <1>6
  <2> HIDE DEF v
  <2>3. QED  BY <1>1, <2>1, <2>2
<1>7. QED  BY <1>2, <1>3, <1>4, <1>5, <1>6

\* ScreensInv is inductive.
LEMMA ScreensNext ==
    ASSUME Screens!VaultScreensAssumption, ScreensInv, [Screens!Next]_<<setup, Screens!vars>>
    PROVE  ScreensInv'
<1>1. CASE UNCHANGED <<setup, Screens!vars>>
  BY <1>1 DEF Screens!vars, ScreensInv, OtherTypes, CallsInv, PushedOnce, Screens!TakenOff, Screens!Mobile,
     Screens!Web
<1>2. CASE setup' = setup /\ (Screens!JobEnds \/ Screens!CodesExpire)
  <2>1. OtherTypes'
    BY <1>2, ServerTypes DEF ScreensInv
  <2>2. UNCHANGED <<status, seals, granted, call, screen>>
    BY <1>2 DEF Screens!JobEnds, Screens!CodesExpire
  <2>3. QED  BY <2>1, <2>2 DEF ScreensInv, CallsInv, PushedOnce, Screens!TakenOff
<1>3. CASE setup' = setup /\ Screens!Reseal
  <2>1. screen' = screen
    BY <1>3 DEF Screens!Reseal
  <2>2. QED  BY <1>3, <2>1, ServerTypes, ResealCalls DEF ScreensInv
<1>4. ASSUME NEW p \in Parties, setup' = setup, Screens!Device(p) PROVE ScreensInv'
  <2>1. screen' \in [Parties -> Screens!Views]
    BY <1>4, DeviceViews
  <2>2. CASE Screens!Handle(p)
    <3>1. OtherTypes'
      BY <1>4, <2>2, HandleTypes DEF ScreensInv
    <3>2. CallsInv'
      BY <2>2, HandleCalls, RequestCommits, ConfirmCommits
    <3>3. QED  BY <2>1, <3>1, <3>2 DEF ScreensInv
  <2>3. CASE ~Screens!Handle(p)
    <3>1. \/ Screens!MobileOpen(p) \/ Screens!WebOpen(p) \/ Screens!Poll(p) \/ Screens!WebPoll(p)
          \/ Screens!WebRefetch(p) \/ Screens!EventArrives(p) \/ Screens!EventLost(p)
          \/ \E op \in {"request", "confirm", "resend", "export", "retry"} : Screens!Send(p, op)
          \/ Screens!Answer(p) \/ Screens!UrlExpires(p) \/ Screens!Save(p)
      BY <1>4, <2>3, Presses DEF Screens!Device
    <3>2. QED  BY <1>4, <2>1, <3>1, DeviceTypes, DeviceCalls DEF ScreensInv
  <2>4. QED  BY <2>2, <2>3
<1>5. QED  BY <1>1, <1>2, <1>3, <1>4 DEF Screens!Next

LEMMA ScreensTypeOK == ScreensInv => Screens!TypeOK
BY DEF ScreensInv, OtherTypes, CallsInv, Screens!TypeOK

\* A notice says "reopened" only when a seal was taken off since the call was sent, and
\* everybody has granted.
LEMMA NoticeNext ==
    ASSUME Screens!VaultScreensAssumption, ScreensInv, [Screens!Next]_<<setup, Screens!vars>>
    PROVE  [\A p \in Parties : ~screen[p].reopened /\ screen'[p].reopened =>
                Screens!TakenOff > call[p].since /\ granted = Parties]_(Screens!vars)
<1> SUFFICES ASSUME NEW p \in Parties, ~screen[p].reopened, screen'[p].reopened
             PROVE  Screens!TakenOff > call[p].since /\ granted = Parties
  OBVIOUS
<1>1. \E q \in Parties : Screens!Device(q)
  BY DEF Screens!Next, Screens!vars, Screens!JobEnds, Screens!Reseal, Screens!CodesExpire
<1>2. call[p].active
  BY <1>1, DeviceViews
<1>3. /\ CallsInv /\ call[p] \in Screens!Calls /\ Screens!TakenOff \in Int /\ call[p].since \in 0 .. MaxTurns + 1
      /\ Sound(call[p], p, granted, Screens!TakenOff, status)
  BY TakenOffTypes DEF ScreensInv, CallsInv, Screens!Calls, Screens!VaultScreensAssumption
<1>4. call[p].since < Screens!TakenOff /\ call[p].since >= 0
  BY <1>2, <1>3 DEF Sound
<1>5. QED  BY <1>3, <1>4 DEF CallsInv

\* "Agreement reopened" is said of a reopening that was completed while the device's own
\* confirmation was under way, and when everybody has confirmed a code
\* (ReopenSection.tsx:68-76, 147-154, agreements/api/views.py:258-271).
THEOREM ReopenedMeansBoth ==
    ASSUME Screens!VaultScreensAssumption
    PROVE  Screens!Spec => Screens!ReopenedByBoth
<1>1. Screens!Init => ScreensInv
  BY ScreensInit
<1>2. ScreensInv /\ [Screens!Next]_<<setup, Screens!vars>> => ScreensInv'
  BY ScreensNext
<1>3. ScreensInv /\ [Screens!Next]_<<setup, Screens!vars>>
        => [\A p \in Parties : ~screen[p].reopened /\ screen'[p].reopened =>
                Screens!TakenOff > call[p].since /\ granted = Parties]_(Screens!vars)
  BY NoticeNext
<1>4. QED  BY <1>1, <1>2, <1>3, ScreensTypeOK, PTL DEF Screens!Spec, Screens!ReopenedByBoth

-----------------------------------------------------------------------------
\* The seals taken off, when there are n of them.
History(n) == [i \in 1 .. n |-> [seal |-> i, snapshot |-> i]]

LEMMA HistoryGrows ==
    ASSUME NEW n \in Nat
    PROVE  History(n + 1) = Append(History(n), [seal |-> n + 1, snapshot |-> n + 1])
<1> DEFINE T == [seal : Nat, snapshot : Nat]
           new == [seal |-> n + 1, snapshot |-> n + 1]
           one == History(n + 1)
           two == Append(History(n), new)
<1>1. ASSUME NEW m \in Nat
      PROVE  /\ History(m) \in Seq(T) /\ Len(History(m)) = m
             /\ \A i \in 1 .. m : History(m)[i] = [seal |-> i, snapshot |-> i]
  <2>1. History(m) \in [1 .. m -> T] /\ DOMAIN History(m) = 1 .. m
    BY DEF History
  <2> HIDE DEF T
  <2>2. History(m) \in Seq(T)
    BY <2>1, SeqDef
  <2>3. DOMAIN History(m) = 1 .. Len(History(m)) /\ Len(History(m)) \in Nat
    BY <2>2, LenProperties
  <2>4. Len(History(m)) = m
    BY <2>1, <2>3
  <2>5. QED  BY <2>2, <2>4 DEF History
<1>2. new \in T /\ n + 1 \in Nat
  OBVIOUS
<1> HIDE DEF T
<1>3. /\ one \in Seq(T) /\ Len(one) = n + 1
      /\ \A i \in 1 .. n + 1 : one[i] = [seal |-> i, snapshot |-> i]
  BY <1>1, <1>2
<1>4. /\ two \in Seq(T) /\ Len(two) = n + 1
      /\ \A i \in 1 .. n : two[i] = History(n)[i]
      /\ two[n + 1] = new
  <2> HIDE DEF new
  <2>1. History(n) \in Seq(T) /\ Len(History(n)) = n
    BY <1>1
  <2>2. /\ two \in Seq(T) /\ Len(two) = Len(History(n)) + 1
        /\ \A i \in 1 .. Len(History(n)) : two[i] = History(n)[i]
        /\ two[Len(History(n)) + 1] = new
    BY <1>2, <2>1, AppendProperties
  <2>3. QED  BY <2>1, <2>2
<1> HIDE DEF one, two
<1>5. ASSUME NEW i \in 1 .. Len(one) PROVE one[i] = two[i]
  <2>1. CASE i \in 1 .. n
    <3>1. History(n)[i] = [seal |-> i, snapshot |-> i]
      BY <1>1, <2>1
    <3>2. QED  BY <1>3, <1>4, <2>1, <3>1
  <2>2. CASE i = n + 1
    BY <1>3, <1>4, <2>2
  <2>3. QED  BY <1>3, <2>1, <2>2
<1>6. one = two
  BY <1>3, <1>4, <1>5, SeqEqual
<1>7. QED  BY <1>6 DEF one, two

\* A step that no status, grant or seal notices is no step of the contract.
LEMMA UnnoticedByContract ==
    ASSUME UNCHANGED <<status, granted, seals>>
    PROVE  [Screens!Contract!Next]_(Screens!Contract!contract)
BY DEF Screens!Contract!contract, Screens!TakenOff

\* The transitions of the reopening.
LEMMA ReopeningTaken ==
    /\ status = "sealed" /\ status' = "reopen_requested" => Screens!Contract!Take("request_reopen")
    /\ status = "reopen_requested" /\ status' = "active" => Screens!Contract!Take("bilateral_confirm")
    /\ status = "active" /\ status' = "sealed" => Screens!Contract!Take("seal")
<1>1. ASSUME NEW a, <<status, a, status'>> \in Screens!Contract!Transitions PROVE Screens!Contract!Take(a)
  <2>1. status' = <<status, a, status'>>[3] /\ <<status, a, status'>>[1] = status /\ <<status, a, status'>>[2] = a
    OBVIOUS
  <2>2. QED  BY <1>1, <2>1 DEF Screens!Contract!Take, Screens!Contract!NextState
<1>2. /\ <<"sealed", "request_reopen", "reopen_requested">> \in Screens!Contract!Transitions
      /\ <<"reopen_requested", "bilateral_confirm", "active">> \in Screens!Contract!Transitions
      /\ <<"active", "seal", "sealed">> \in Screens!Contract!Transitions
  BY DEF Screens!Contract!Transitions
<1>3. QED  BY <1>1, <1>2

\* A committed request asks for the reopening.
LEMMA RequestAsks ==
    ASSUME Screens!VaultScreensAssumption, ScreensInv, NEW p \in Parties, Screens!CommitRequest(p)
    PROVE  Screens!Contract!AskReopen
<1>1. /\ status = "sealed" /\ status' = "reopen_requested" /\ UNCHANGED <<granted, seals>>
      /\ Screens!TakenOff' = Screens!TakenOff
  BY RequestCommits
<1>2. QED  BY <1>1, ReopeningTaken DEF Screens!Contract!AskReopen

\* A committed confirmation agrees to it, and the last one takes the seal off.
LEMMA ConfirmAgrees ==
    ASSUME Screens!VaultScreensAssumption, ScreensInv, NEW p \in Parties, Screens!CommitConfirm(p)
    PROVE  Screens!Contract!AgreeToReopen(p)
<1>1. /\ granted' = granted \cup {p} /\ seals' = seals
      /\ \/ status' = status /\ Screens!TakenOff' = Screens!TakenOff
         \/ /\ status = "reopen_requested" /\ status' = "active" /\ granted' = Parties
            /\ Screens!TakenOff = seals - 1 /\ Screens!TakenOff' = seals
  BY ConfirmCommits
<1>2. CASE status' = status /\ Screens!TakenOff' = Screens!TakenOff
  BY <1>1, <1>2 DEF Screens!Contract!AgreeToReopen
<1>3. CASE status = "reopen_requested" /\ status' = "active" /\ granted' = Parties
           /\ Screens!TakenOff = seals - 1 /\ Screens!TakenOff' = seals
  <2>1. Screens!Contract!Take("bilateral_confirm")
    BY <1>3, ReopeningTaken
  <2>2. seals \in 1 .. MaxTurns + 1 /\ seals \in 0 .. MaxTurns + 1
    <3>1. seals \in 1 .. MaxTurns + 1
      BY DEF ScreensInv, OtherTypes
    <3>2. QED  BY <3>1
  <2>3. History(seals) = Append(History(seals - 1), [seal |-> seals, snapshot |-> seals])
    <3>1. seals - 1 \in Nat /\ (seals - 1) + 1 = seals
      BY <2>2
    <3>2. QED  BY <3>1, HistoryGrows
  <2>4. /\ [i \in 1 .. Screens!TakenOff |-> [seal |-> i, snapshot |-> i]] = History(seals - 1)
        /\ [i \in 1 .. Screens!TakenOff |-> [seal |-> i, snapshot |-> i]]' = History(seals)
    BY <1>3 DEF History
  <2>5. QED  BY <1>1, <1>3, <2>1, <2>2, <2>3, <2>4 DEF Screens!Contract!AgreeToReopen
<1>4. QED  BY <1>1, <1>2, <1>3

\* Sealing again seals.
LEMMA ResealSeals ==
    ASSUME Screens!VaultScreensAssumption, ScreensInv, Screens!Reseal PROVE Screens!Contract!Seal
<1>1. /\ status = "active" /\ status' = "sealed" /\ seals' = seals + 1 /\ granted' = granted
      /\ seals + losses <= MaxTurns
  BY DEF Screens!Reseal
<1>2. seals \in 1 .. MaxTurns + 1 /\ losses \in 0 .. MaxTurns /\ MaxTurns \in Nat
  BY DEF ScreensInv, OtherTypes, Screens!VaultScreensAssumption
<1>3. seals + 1 \in (0 .. MaxTurns + 1) \ {0} /\ (seals + 1) - 1 = seals
  BY <1>1, <1>2
<1>4. Screens!TakenOff = seals /\ Screens!TakenOff' = seals
  BY <1>1, <1>3 DEF Screens!TakenOff
<1>5. QED  BY <1>1, <1>3, <1>4, ReopeningTaken DEF Screens!Contract!Seal

LEMMA NextKeepsContract ==
    ASSUME Screens!VaultScreensAssumption, ScreensInv, [Screens!Next]_<<setup, Screens!vars>>
    PROVE  [Screens!Contract!Next]_(Screens!Contract!contract)
<1> SUFFICES ASSUME ~UNCHANGED <<status, granted, seals>> PROVE Screens!Contract!Next
  BY UnnoticedByContract
<1>1. CASE Screens!Reseal
  BY <1>1, ResealSeals DEF Screens!Contract!Next
<1>2. ASSUME NEW p \in Parties, Screens!CommitRequest(p) \/ Screens!CommitConfirm(p)
      PROVE  Screens!Contract!Next
  BY <1>2, RequestAsks, ConfirmAgrees DEF Screens!Contract!Next
<1>3. ~(Screens!JobEnds \/ Screens!CodesExpire \/ UNCHANGED Screens!vars)
  BY DEF Screens!JobEnds, Screens!CodesExpire, Screens!vars
<1>4. ASSUME NEW p \in Parties, Screens!Device(p)
      PROVE  Screens!CommitRequest(p) \/ Screens!CommitConfirm(p)
  <2>1. ~\/ Screens!MobileOpen(p) \/ Screens!WebOpen(p) \/ Screens!Poll(p) \/ Screens!WebPoll(p)
         \/ Screens!WebRefetch(p) \/ Screens!EventArrives(p) \/ Screens!EventLost(p)
         \/ \E op \in {"request", "confirm", "resend", "export", "retry"} : Screens!Send(p, op)
         \/ Screens!Answer(p) \/ Screens!UrlExpires(p) \/ Screens!Save(p)
    BY DEF Screens!MobileOpen, Screens!WebOpen, Screens!Opened, Screens!Poll, Screens!WebPoll,
       Screens!WebRefetch, Screens!EventArrives, Screens!EventLost, Screens!Send, Screens!Answer,
       Screens!AnswerRequest, Screens!MobileConfirmed, Screens!WebConfirmed,
       Screens!AnswerExport, Screens!Refused, Screens!UrlExpires, Screens!Save, Screens!server
  <2>2. Screens!Handle(p)
    BY <1>4, <2>1, Presses DEF Screens!Device
  <2>3. QED  BY <2>2, HandleCalls
<1>5. QED  BY <1>1, <1>2, <1>3, <1>4 DEF Screens!Next, Screens!vars

\* Whatever devices ask for, confirm, lose and hear, the agreement takes a step of
\* the contract or none: its seal comes off with everyone's agreement, once
\* (consent/services.py:397-490).
THEOREM ReopeningKeepsContract ==
    ASSUME Screens!VaultScreensAssumption
    PROVE  Screens!Spec => Screens!KeepsContract
<1>1. Screens!Init => ScreensInv
  BY ScreensInit
<1>2. ScreensInv /\ [Screens!Next]_<<setup, Screens!vars>> => ScreensInv'
  BY ScreensNext
<1>3. ScreensInv /\ [Screens!Next]_<<setup, Screens!vars>>
        => [Screens!Contract!Next]_(Screens!Contract!contract)
  BY NextKeepsContract
<1>4. QED  BY <1>1, <1>2, <1>3, PTL DEF Screens!Spec, Screens!KeepsContract
=============================================================================
