---------------------------- MODULE VaultExport ----------------------------
(***************************************************************************)
(* The PDF export of one sealed agreement's vault entry (apps/vault): the  *)
(* requests that ask for it, the Celery jobs that render and upload it,    *)
(* and the beat task that recovers an export whose job was lost.           *)
(*                                                                         *)
(* Every job writes the same storage key.  delay() is called before the    *)
(* request commits, so a job may exist whose request was rolled back; one  *)
(* that only starts early waits for the row lock when it marks the entry.  *)
(***************************************************************************)
EXTENDS Integers, FiniteSets

CONSTANTS
    Job,         \* jobs the broker and the workers hold at once
    MaxRetries,  \* max_retries of generate_pdf_export
    MaxSeals,    \* bound on seals of the agreement
    MaxLosses    \* bound on jobs lost with their worker or broker

ASSUME VaultAssumption ==
    MaxRetries \in Nat /\ MaxSeals \in Nat /\ MaxLosses \in Nat

VARIABLES
    pdf,         \* VaultEntry.pdf_status, "none" while there is no entry
    key,         \* VaultEntry.pdf_key is set
    object,      \* the seal whose PDF is stored under the key, 0 for none
    seals,       \* number of times the agreement was sealed
    stale,       \* VaultEntry.updated_at is more than five minutes old
    selected,    \* recover_stuck_pdf_generating has read the entry's id
    listed,      \* retry_failed_pdfs has read the entry: "no", "failed", "ids"
    jobs,        \* the generate_pdf_export jobs
    losses       \* jobs lost so far

vars == <<pdf, key, object, seals, stale, selected, listed, jobs, losses>>

PdfStatus == {"none", "pending", "generating", "ready", "failed"}

\* at is how far the attempt has come; of is the seal that was rendered.
JobRecord == [at : {"idle", "queued", "rendered", "uploaded", "exhausted"},
              tries : 0..MaxRetries, of : 0..MaxSeals]
Idle == [at |-> "idle", tries |-> 0, of |-> 0]
Queued == [at |-> "queued", tries |-> 0, of |-> 0]

Set(j, job) == jobs' = [jobs EXCEPT ![j] = job]

\* _enqueue_pdf_export: generate_pdf_export.delay().
Enqueue(j) == jobs[j] = Idle /\ Set(j, Queued)

Init ==
    /\ pdf = "none" /\ key = FALSE /\ object = 0
    /\ seals = 0
    /\ stale = FALSE /\ selected = FALSE /\ listed = "no"
    /\ jobs = [j \in Job |-> Idle]
    /\ losses = 0

-----------------------------------------------------------------------------
(* Requests. *)

\* SealView: the seal and create_for_agreement, which finds the entry of an
\* earlier seal and leaves it alone.
Seal ==
    /\ seals < MaxSeals
    /\ seals' = seals + 1
    /\ pdf' = IF pdf = "none" THEN "pending" ELSE pdf
    /\ UNCHANGED <<key, object, stale, selected, listed, jobs, losses>>

\* _set_generating_and_enqueue.
Generating ==
    /\ pdf' = "generating"
    /\ key' = FALSE
    /\ stale' = FALSE

RequestExport(j) ==
    /\ pdf \notin {"none", "generating"}
    /\ Generating
    /\ Enqueue(j)
    /\ UNCHANGED <<object, seals, selected, listed, losses>>

RetryExport(j) ==
    /\ pdf = "failed"
    /\ Generating
    /\ Enqueue(j)
    /\ UNCHANGED <<object, seals, selected, listed, losses>>

\* Either request, when its transaction fails after delay().
RolledBack(j) ==
    /\ pdf \notin {"none", "generating"}
    /\ Enqueue(j)
    /\ UNCHANGED <<pdf, key, object, seals, stale, selected, listed, losses>>

\* retry_failed_pdfs reads the entries to retry: by their status, or by ids.
Stuck == pdf = "generating" /\ stale
ListEntry(by) ==
    /\ listed = "no"
    /\ pdf # "none"
    /\ by = "failed" => pdf = "failed" \/ Stuck
    /\ listed' = by
    /\ UNCHANGED <<pdf, key, object, seals, stale, selected, jobs, losses>>

\* Its update() filters again, and leaves updated_at and the key alone; the
\* job is enqueued in any case.
RequeueEntry(j) ==
    /\ listed # "no"
    /\ pdf' = IF listed = "ids" \/ pdf = "failed" \/ Stuck THEN "pending" ELSE pdf
    /\ listed' = "no"
    /\ Enqueue(j)
    /\ UNCHANGED <<key, object, seals, stale, selected, losses>>

-----------------------------------------------------------------------------
(* The beat task. *)

FiveMinutesPass ==
    /\ pdf = "generating" /\ ~stale
    /\ stale' = TRUE
    /\ UNCHANGED <<pdf, key, object, seals, selected, listed, jobs, losses>>

\* recover_stuck_pdf_generating reads the ids without a lock.
SelectStuck ==
    /\ Stuck /\ ~selected
    /\ selected' = TRUE
    /\ UNCHANGED <<pdf, key, object, seals, stale, listed, jobs, losses>>

\* Mutant of RecoverStuck: the entry's updated_at is set, no job enqueued.
RecoverStuckWithoutJob(j) ==
    /\ selected
    /\ selected' = FALSE
    /\ stale' = FALSE
    /\ UNCHANGED <<pdf, key, object, seals, listed, jobs, losses>>

\* recover_stuck_export, which locks the entry and asks again.
RecoverStuck(j) ==
    /\ selected
    /\ selected' = FALSE
    /\ \/ pdf = "generating" /\ Enqueue(j) /\ stale' = FALSE
       \/ pdf # "generating" /\ UNCHANGED <<jobs, stale>>
    /\ UNCHANGED <<pdf, key, object, seals, listed, losses>>

-----------------------------------------------------------------------------
(* generate_pdf_export. *)

Render(j) ==
    /\ jobs[j].at = "queued"
    /\ Set(j, [at |-> "rendered", tries |-> jobs[j].tries, of |-> seals])
    /\ UNCHANGED <<pdf, key, object, seals, stale, selected, listed, losses>>

\* Mutant of Upload: the entry is marked without the object being stored.
UploadNothing(j) ==
    /\ jobs[j].at = "rendered"
    /\ Set(j, [jobs[j] EXCEPT !.at = "uploaded"])
    /\ UNCHANGED <<pdf, key, object, seals, stale, selected, listed, losses>>

\* The upload, and head_object's checks of it.
Upload(j) ==
    /\ jobs[j].at = "rendered"
    /\ object' = jobs[j].of
    /\ Set(j, [jobs[j] EXCEPT !.at = "uploaded"])
    /\ UNCHANGED <<pdf, key, seals, stale, selected, listed, losses>>

\* An attempt raises: it is queued again until max_retries.
Failed(job) ==
    IF job.tries < MaxRetries
    THEN [at |-> "queued", tries |-> job.tries + 1, of |-> 0]
    ELSE [job EXCEPT !.at = "exhausted"]

\* mark_pdf_ready, whatever the status is by now.  What follows it in the task
\* may still raise, and the whole job is then tried again.
MarkReady(j) ==
    /\ jobs[j].at = "uploaded"
    /\ pdf' = "ready"
    /\ key' = TRUE
    /\ stale' = FALSE
    /\ \/ Set(j, Idle)
       \/ Set(j, Failed(jobs[j]))
    /\ UNCHANGED <<object, seals, selected, listed, losses>>

\* An exception before mark_pdf_ready committed: storage, size or checksum
\* mismatch, soft time limit.
FailAttempt(j) ==
    /\ jobs[j].at \in {"queued", "rendered", "uploaded"}
    /\ Set(j, Failed(jobs[j]))
    /\ UNCHANGED <<pdf, key, object, seals, stale, selected, listed, losses>>

\* _on_generate_pdf_failure: mark_pdf_failed, whatever the status is by now.
MarkFailed(j) ==
    /\ jobs[j].at = "exhausted"
    /\ pdf' = "failed"
    /\ stale' = FALSE
    /\ Set(j, Idle)
    /\ UNCHANGED <<key, object, seals, selected, listed, losses>>

\* The broker or a worker loses a job (acknowledged when it is received), or
\* on_failure itself raises.
LoseJob(j) ==
    /\ jobs[j] # Idle
    /\ losses < MaxLosses
    /\ losses' = losses + 1
    /\ Set(j, Idle)
    /\ UNCHANGED <<pdf, key, object, seals, stale, selected, listed>>

Work(j) == Render(j) \/ Upload(j) \/ MarkReady(j) \/ FailAttempt(j) \/ MarkFailed(j)

-----------------------------------------------------------------------------
Next ==
    \/ Seal
    \/ \E j \in Job : RequestExport(j)
    \/ \E j \in Job : RetryExport(j)
    \/ \E j \in Job : RolledBack(j)
    \/ \E by \in {"failed", "ids"} : ListEntry(by)
    \/ \E j \in Job : RequeueEntry(j)
    \/ FiveMinutesPass
    \/ SelectStuck
    \/ \E j \in Job : RecoverStuck(j)
    \/ \E j \in Job : Work(j)
    \/ \E j \in Job : LoseJob(j)

Spec == Init /\ [][Next]_vars

\* Workers go on with the jobs they have, time passes, and celery beat runs
\* recover_stuck_pdf_generating every 300 seconds (CELERY_BEAT_SCHEDULE).
Fairness ==
    /\ \A j \in Job : WF_vars(Work(j))
    /\ WF_vars(FiveMinutesPass)
    /\ WF_vars(SelectStuck)
    /\ WF_vars(\E j \in Job : RecoverStuck(j))

FairSpec == Spec /\ Fairness

-----------------------------------------------------------------------------
(* Properties. *)

\* Every variable has its type.
TypeOK ==
    /\ pdf \in PdfStatus
    /\ key \in BOOLEAN
    /\ object \in 0..MaxSeals
    /\ seals \in 0..MaxSeals
    /\ stale \in BOOLEAN /\ selected \in BOOLEAN
    /\ listed \in {"no", "failed", "ids"}
    /\ jobs \in [Job -> JobRecord]
    /\ losses \in 0..MaxLosses

\* While an export is generating no key is offered, not even the one a late
\* duplicate or an earlier export set, and an entry whose key is set has an
\* object stored there: the presigned URL of a ready entry resolves.
KeyIsAnObject ==
    /\ TypeOK
    /\ pdf = "generating" => ~key
    /\ pdf = "ready" => key
    /\ key => object # 0

\* An export that was asked for comes to an end, ready or failed, whatever
\* jobs are lost on the way: request_export and retry_export refuse an entry
\* that is generating, so nothing else would ever move it.
GeneratingEnds == pdf = "generating" ~> pdf # "generating"
=============================================================================
