-------------------------- MODULE EvidenceUploads --------------------------
(* Evidence files between a client and the backend: a presigned upload, a   *)
(* confirmation that is retried, and the list of confirmed evidence as the  *)
(* last resort. The upload routine of the application                       *)
(* (features/evidence/evidenceUploadService.ts) and that of the website     *)
(* (components/evidence/evidenceUploadService.ts) take the same steps; the  *)
(* evidence step of the application keeps one item per slot                 *)
(* (useEvidenceUpload.ts), the website one per file ([id]/evidence/page.tsx).*)
EXTENDS Naturals, Sequences, FiniteSets

CONSTANTS
    Types,         \* evidence_type values; a slot of the application is one
    Photos,        \* files picked in the application
    WebFiles,      \* files dropped on the website
    NoFile,
    NoType,
    Required,      \* slots of the template that are required
    MinPhotos,     \* evidenceRequirements.minimumPhotoCount
    Unsupported,   \* files whose type nobody accepts
    Altered,       \* files whose stored object differs from what was announced
    MaxUploads,    \* bound: uploads begun
    MaxFaults,     \* bound: lost, late or refused calls, unavailable storage
    MaxMounts      \* bound: times a page is left

ASSUME TypesAssumption ==
    /\ Photos \cap WebFiles = {} /\ NoFile \notin Photos \cup WebFiles
    /\ IsFiniteSet(Types) /\ NoType \notin Types /\ Required \subseteq Types
    /\ MinPhotos \in 0 .. Cardinality(Types)
    /\ MaxUploads \in Nat /\ MaxFaults \in Nat /\ MaxMounts \in Nat

VARIABLES
    row,       \* EvidenceItem.upload_status of each upload's row
    made,      \* the rows in the order of created_at
    call,      \* uploadEvidenceItem / uploadEvidenceFile, step by step
    late,      \* confirmations nobody waits for that may still arrive
    mine,      \* uploads of the pages that are mounted now
    slot,      \* items of useEvidenceUpload, per slot
    sheet,     \* the slot UploadSourceSheet is open for
    hydrated,  \* the list asked for on mount has been merged
    item,      \* items of the website's page, per file
    cache,     \* confirmed rows in the website's ["agreements", id]
    faults, mounts

vars == <<row, made, call, late, mine, slot, sheet, hydrated, item, cache, faults, mounts>>
server == <<row, made, late>>
screens == <<mine, slot, sheet, hydrated, item, cache, mounts>>

-----------------------------------------------------------------------------
Files == Photos \cup WebFiles
Uploads == 1 .. MaxUploads
NoRow == 0
Mismatch == {"size", "mime", "checksum"}
Replies == {"none", "ok", "unavailable"} \cup Mismatch
Idle == [phase |-> "free", type |-> NoType, file |-> NoFile, tries |-> 0, reply |-> "none"]
Phases == {"free", "reading", "url", "put", "confirm", "waiting", "list", "uploaded", "failed"}
Active == Phases \ {"free", "uploaded", "failed"}
Empty == [status |-> "pending", file |-> NoFile, remote |-> NoRow, retryable |-> TRUE]
Absent == [status |-> "absent", type |-> NoType, remote |-> NoRow]
Tries == 4                                       \* CONFIRM_RETRY_DELAYS_MS

Calls == [phase : Phases, type : Types \cup {NoType}, file : Files \cup {NoFile},
          tries : 0 .. Tries, reply : Replies]
SlotItems == [status : {"pending", "uploading", "confirming", "uploaded", "failed"},
              file : Photos \cup {NoFile}, remote : {NoRow} \cup Uploads, retryable : BOOLEAN]
PageItems == [status : {"absent", "idle", "hashing", "uploading", "confirming", "uploaded", "failed"},
              type : Types \cup {NoType}, remote : {NoRow} \cup Uploads]

Confirmed(t) == {u \in Uploads : row[u] = "confirmed" /\ call[u].type = t}
Position(u) == CHOOSE i \in DOMAIN made : made[i] = u

\* The list is ordered by -created_at; find() takes its first item.
FirstListed(t) == CHOOSE u \in Confirmed(t) : \A v \in Confirmed(t) : Position(v) <= Position(u)

\* The loop over the list overwrites what it has put in a slot.
LastListed(t) == CHOOSE u \in Confirmed(t) : \A v \in Confirmed(t) : Position(u) <= Position(v)

Init ==
    /\ row = [u \in Uploads |-> "none"] /\ made = <<>> /\ late = [u \in Uploads |-> 0]
    /\ call = [u \in Uploads |-> Idle]
    /\ mine = {} /\ slot = [t \in Types |-> Empty] /\ sheet = NoType /\ hydrated = FALSE
    /\ item = [f \in WebFiles |-> Absent] /\ cache = {}
    /\ faults = 0 /\ mounts = 0

Fault == faults < MaxFaults /\ faults' = faults + 1

-----------------------------------------------------------------------------
(* What a running upload shows: setItems merges into the slot's item, or    *)
(* maps over the page's files; the items of a page that was left are gone.  *)

Slot(u) == slot[call[u].type]
Item(u) == item[call[u].file]

Show(u, slotItem, pageItem) ==
    /\ slot' = IF u \in mine /\ call[u].file \in Photos /\ Slot(u).status # "pending"
               THEN [slot EXCEPT ![call[u].type] = slotItem]
               ELSE slot
    /\ item' = IF u \in mine /\ call[u].file \in WebFiles
               THEN [item EXCEPT ![call[u].file] = pageItem]
               ELSE item

\* describeUploadError words a mismatch for the reader before
\* isNonRetryableEvidenceError looks for the words of the backend.
Worded(kind) == IF kind \in Mismatch THEN "choose_again" ELSE kind
ReplaceOnly(message) == message \in Mismatch \cup {"type"}

\* Mutant of Fails: the catch block sets no status.
FailsUnseen(u, kind) ==
    /\ call' = [call EXCEPT ![u].phase = "failed"]
    /\ UNCHANGED <<slot, item, cache>>

Fails(u, kind) ==
    /\ call' = [call EXCEPT ![u].phase = "failed"]
    /\ Show(u, [Slot(u) EXCEPT !.status = "failed", !.retryable = ~ReplaceOnly(Worded(kind))],
               [Item(u) EXCEPT !.status = "failed"])
    /\ UNCHANGED cache

\* Mutant of Succeeds: only the cached agreement learns of the confirmed row.
SucceedsInCache(u, r) ==
    /\ call' = [call EXCEPT ![u].phase = "uploaded"]
    /\ cache' = cache \cup {r} /\ UNCHANGED <<slot, item>>

\* The page also writes the evidence it was given into the cached agreement.
Succeeds(u, r) ==
    /\ call' = [call EXCEPT ![u].phase = "uploaded"]
    /\ Show(u, [Slot(u) EXCEPT !.status = "uploaded", !.remote = r],
               [Item(u) EXCEPT !.status = "uploaded", !.remote = r])
    /\ cache' = IF call[u].file \in WebFiles THEN cache \cup {r} ELSE cache

Enters(u, phase, shown) ==
    /\ call' = [call EXCEPT ![u].phase = phase, ![u].reply = "none"]
    /\ Show(u, [Slot(u) EXCEPT !.status = shown], [Item(u) EXCEPT !.status = shown])
    /\ UNCHANGED cache

-----------------------------------------------------------------------------
(* The upload routine.                                                       *)

Begins(u, t, f, phase) ==
    /\ u = Cardinality({v \in Uploads : call[v].phase # "free"}) + 1
    /\ call' = [call EXCEPT ![u] = [Idle EXCEPT !.phase = phase, !.type = t, !.file = f]]
    /\ mine' = mine \cup {u}

\* getUploadUrl: the backend creates a pending row with a key of its own; it
\* refuses a type it does not know, and the call or its answer may be lost.
RequestUrl(u) ==
    /\ call[u].phase = "url"
    /\ \/ /\ call[u].file \notin Unsupported
          /\ row' = [row EXCEPT ![u] = "pending"] /\ made' = Append(made, u)
          /\ \/ Enters(u, "put", "uploading") /\ UNCHANGED faults
             \/ Fault /\ Fails(u, "network")
       \/ /\ call[u].file \in Unsupported
          /\ Fails(u, "refused") /\ UNCHANGED <<row, made, faults>>
       \/ Fault /\ Fails(u, "network") /\ UNCHANGED <<row, made>>
    /\ UNCHANGED <<late, mine, sheet, hydrated, mounts>>

\* uploadFileToStorage / uploadToStorage: an error and the timeout of 45 s end
\* the upload before it is confirmed.
Put(u) ==
    /\ call[u].phase = "put"
    /\ \/ Enters(u, "confirm", "confirming") /\ UNCHANGED faults
       \/ Fault /\ Fails(u, "storage")
    /\ UNCHANGED <<server, mine, sheet, hydrated, mounts>>

SendConfirm(u) ==
    /\ call[u].phase = "confirm"
    /\ call' = [call EXCEPT ![u].phase = "waiting", ![u].tries = @ + 1, ![u].reply = "none"]
    /\ UNCHANGED <<server, screens, faults>>

\* confirm_upload: a confirmed row with this key is answered as it is; a pending
\* one is compared with the stored object.
Handles(u, reply) ==
    \/ /\ row[u] = "confirmed" /\ reply = "ok"
       /\ UNCHANGED <<row, faults>>
    \/ /\ row[u] = "pending" /\ call[u].file \in Altered /\ reply \in Mismatch
       /\ UNCHANGED <<row, faults>>
    \/ /\ row[u] = "pending" /\ call[u].file \notin Altered /\ reply = "ok"
       /\ row' = [row EXCEPT ![u] = "confirmed"] /\ UNCHANGED faults
    \/ /\ row[u] = "pending" /\ reply = "unavailable"
       /\ Fault /\ UNCHANGED row

Confirm(u) ==
    /\ call[u].phase = "waiting" /\ call[u].reply = "none"
    /\ \E reply \in Replies :
          /\ Handles(u, reply)
          /\ call' = [call EXCEPT ![u].reply = reply]
    /\ UNCHANGED <<made, late, screens>>

\* A request whose client has given up reaches the backend.
ConfirmLate(u) ==
    /\ late[u] > 0
    /\ \E reply \in Replies : Handles(u, reply)
    /\ late' = [late EXCEPT ![u] = @ - 1]
    /\ UNCHANGED <<made, call, screens>>

\* After a failed attempt: the next one, or the list.
Again(u) == IF call[u].tries < Tries THEN "confirm" ELSE "list"

\* Mutant of TakeReply: an unavailable storage is taken for a success.
TakeAnyReply(u) ==
    /\ call[u].phase = "waiting" /\ call[u].reply \in {"ok", "unavailable"}
    /\ Succeeds(u, u)
    /\ UNCHANGED <<server, mine, sheet, hydrated, mounts, faults>>

\* confirmWithRetry: no answer, and a status that may pass, are tried again.
TakeReply(u) ==
    /\ call[u].phase = "waiting" /\ call[u].reply # "none"
    /\ \/ call[u].reply = "ok" /\ Succeeds(u, u)
       \/ call[u].reply = "unavailable" /\ Enters(u, Again(u), "confirming")
       \/ /\ call[u].reply \in Mismatch
          /\ call' = [call EXCEPT ![u].phase = "list"] /\ UNCHANGED <<slot, item, cache>>
    /\ UNCHANGED <<server, mine, sheet, hydrated, mounts, faults>>

\* Mutant of LoseConfirm: a lost answer ends the upload.
LoseConfirmFails(u) ==
    /\ call[u].phase = "waiting" /\ Fault
    /\ Fails(u, "network")
    /\ UNCHANGED <<server, mine, sheet, hydrated, mounts>>

\* The request or its answer is lost, or comes after the client has given up.
LoseConfirm(u) ==
    /\ call[u].phase = "waiting" /\ Fault
    /\ call' = [call EXCEPT ![u].phase = Again(u), ![u].reply = "none"]
    /\ \/ call[u].reply = "none" /\ late' = [late EXCEPT ![u] = @ + 1]
       \/ UNCHANGED late
    /\ UNCHANGED <<row, made, screens>>

\* findConfirmedEvidence: any confirmed evidence of the type will do.
Recover(u) ==
    /\ call[u].phase = "list"
    /\ \/ /\ Confirmed(call[u].type) # {}
          /\ Succeeds(u, FirstListed(call[u].type)) /\ UNCHANGED faults
       \/ /\ Confirmed(call[u].type) = {}
          /\ Fails(u, IF call[u].reply = "none" THEN "network" ELSE call[u].reply) /\ UNCHANGED faults
       \/ Fault /\ Fails(u, "network")
    /\ UNCHANGED <<server, mine, sheet, hydrated, mounts>>

Upload(u) ==
    \/ RequestUrl(u) \/ Put(u) \/ SendConfirm(u) \/ Confirm(u) \/ TakeReply(u) \/ Recover(u)

-----------------------------------------------------------------------------
(* The evidence step of the application.                                     *)

Busy(t) == slot[t].status \in {"uploading", "confirming"}

\* A tap on a slot that has not failed, or whose file is to be replaced.
OpenSheet(t) ==
    /\ sheet = NoType /\ ~Busy(t)
    /\ slot[t].status = "failed" => ~slot[t].retryable
    /\ sheet' = t
    /\ UNCHANGED <<server, call, mine, slot, hydrated, item, cache, faults, mounts>>

CloseSheet ==
    /\ sheet # NoType
    /\ sheet' = NoType
    /\ UNCHANGED <<server, call, mine, slot, hydrated, item, cache, faults, mounts>>

\* handleSourcePick, pickImage: the sheet closes and the file is read.
Pick(u, f) ==
    /\ sheet # NoType
    /\ Begins(u, sheet, f, "reading")
    /\ sheet' = NoType
    /\ UNCHANGED <<server, slot, hydrated, item, cache, faults, mounts>>

\* uploadLocalImage: the slot shows the file once it has been described; a file
\* that cannot be leaves the slot's item as it was, failed.
Describe(u) ==
    /\ call[u].phase = "reading" /\ call[u].file \in Photos
    /\ IF call[u].file \in Unsupported
          THEN Fails(u, "unsupported")
          ELSE /\ call' = [call EXCEPT ![u].phase = "url"]
               /\ slot' = IF u \notin mine THEN slot ELSE
                            [slot EXCEPT ![call[u].type] =
                                [Empty EXCEPT !.status = "uploading", !.file = call[u].file]]
               /\ UNCHANGED <<item, cache>>
    /\ UNCHANGED <<server, mine, sheet, hydrated, mounts, faults>>

\* retryUpload: an item without a descriptor fails as it has.
Retry(u, t) ==
    /\ slot[t].status = "failed" /\ slot[t].retryable
    /\ slot[t].file # NoFile
    /\ Begins(u, t, slot[t].file, "url")
    /\ UNCHANGED <<server, slot, sheet, hydrated, item, cache, faults, mounts>>

\* The list of the mount, merged under what the slots show already.
Hydrate ==
    /\ ~hydrated
    /\ hydrated' = TRUE
    /\ \/ /\ slot' = [t \in Types |->
                        IF slot[t].status # "pending" \/ Confirmed(t) = {} THEN slot[t]
                        ELSE [Empty EXCEPT !.status = "uploaded", !.remote = LastListed(t)]]
          /\ UNCHANGED faults
       \/ Fault /\ UNCHANGED slot
    /\ UNCHANGED <<server, call, mine, sheet, item, cache, mounts>>

\* Back, Proceed and the end of the process: the uploads of the page go on unseen.
LeaveStep ==
    /\ mounts < MaxMounts /\ mounts' = mounts + 1
    /\ mine' = {u \in mine : call[u].file \in WebFiles}
    /\ slot' = [t \in Types |-> Empty] /\ sheet' = NoType /\ hydrated' = FALSE
    /\ UNCHANGED <<server, call, item, cache, faults>>

Shown == {t \in Types : slot[t].status = "uploaded"}
CanProceed == Cardinality(Shown) >= MinPhotos /\ Required \subseteq Shown

-----------------------------------------------------------------------------
(* The evidence page of the website.                                         *)

Drop(f, t) ==
    /\ item[f].status = "absent"
    /\ item' = [item EXCEPT ![f] = [Absent EXCEPT !.status = "idle", !.type = t]]
    /\ UNCHANGED <<server, call, mine, slot, sheet, hydrated, cache, faults, mounts>>

\* Upload all, and Retry: one upload after the other is begun.
UploadFile(u, f) ==
    /\ item[f].status \in {"idle", "failed"}
    /\ Begins(u, item[f].type, f, "reading")
    /\ item' = [item EXCEPT ![f].status = "hashing"]
    /\ UNCHANGED <<server, slot, sheet, hydrated, cache, faults, mounts>>

Hash(u) ==
    /\ call[u].phase = "reading" /\ call[u].file \in WebFiles
    /\ call' = [call EXCEPT ![u].phase = "url"]
    /\ UNCHANGED <<server, screens, faults>>

Remove(f) ==
    /\ item[f].status \in {"idle", "failed"}
    /\ item' = [item EXCEPT ![f] = Absent]
    /\ UNCHANGED <<server, call, mine, slot, sheet, hydrated, cache, faults, mounts>>

Refetch ==
    /\ WebFiles # {}
    /\ cache' = UNION {Confirmed(t) : t \in Types}
    /\ UNCHANGED <<server, call, mine, slot, sheet, hydrated, item, faults, mounts>>

LeavePage ==
    /\ mounts < MaxMounts /\ mounts' = mounts + 1
    /\ mine' = {u \in mine : call[u].file \in Photos}
    /\ item' = [f \in WebFiles |-> Absent]
    /\ UNCHANGED <<server, call, slot, sheet, hydrated, cache, faults>>

\* Mutant of WebCanProceed: files that were merely selected count.
WebCanProceedSelected == cache # {} \/ \E f \in WebFiles : item[f].status # "absent"

UploadInProgress == \E f \in WebFiles : item[f].status \in {"hashing", "uploading", "confirming"}
WebCanProceed == cache # {} \/ \E f \in WebFiles : item[f].status = "uploaded"

-----------------------------------------------------------------------------
StepScreen ==
    \/ \E t \in Types : OpenSheet(t)
    \/ CloseSheet
    \/ \E u \in Uploads, f \in Photos : Pick(u, f)
    \/ \E u \in Uploads, t \in Types : Retry(u, t)
    \/ Hydrate
    \/ LeaveStep

WebPage ==
    \/ \E f \in WebFiles, t \in Types : Drop(f, t)
    \/ \E u \in Uploads, f \in WebFiles : UploadFile(u, f)
    \/ \E f \in WebFiles : Remove(f)
    \/ Refetch
    \/ LeavePage

Network == \E u \in Uploads : LoseConfirm(u) \/ ConfirmLate(u)
Routine == \E u \in Uploads : Upload(u) \/ Describe(u) \/ Hash(u)

Next == (Photos # {} /\ StepScreen) \/ (WebFiles # {} /\ WebPage) \/ Network \/ Routine

Spec == Init /\ [][Next]_vars

\* The event loop of the client goes on, and every call ends: the calls of the
\* application and the transfer to storage have timeouts.
LiveSpec == Spec /\ \A u \in Uploads : WF_vars(Upload(u) \/ Describe(u) \/ Hash(u))

-----------------------------------------------------------------------------
TypeOK ==
    /\ row \in [Uploads -> {"none", "pending", "confirmed"}]
    /\ \A i \in DOMAIN made : row[made[i]] # "none"
    /\ call \in [Uploads -> Calls]
    /\ late \in [Uploads -> 0 .. MaxFaults] /\ mine \subseteq Uploads
    /\ slot \in [Types -> SlotItems]
    /\ sheet \in Types \cup {NoType} /\ hydrated \in BOOLEAN
    /\ item \in [WebFiles -> PageItems]
    /\ cache \subseteq Uploads /\ faults \in 0 .. MaxFaults /\ mounts \in 0 .. MaxMounts

\* "The Evidence step is complete only when required evidence rows are
\* confirmed by the backend" (evidence-upload-hardening.md:17): a client that
\* lets its user go on has a confirmed row behind every slot it counts
\* (evidence.tsx:38-44, page.tsx:80-84); and every variable keeps its type.
ProceedHasConfirmed ==
    /\ TypeOK
    /\ CanProceed => /\ \A t \in Required : Confirmed(t) # {}
                     /\ Cardinality({t \in Types : Confirmed(t) # {}}) >= MinPhotos
    /\ WebCanProceed => \E t \in Types : Confirmed(t) # {}

\* A retry after a lost answer finds its row confirmed: with fewer lost calls
\* than attempts, no upload is called failed whose row was confirmed
\* (confirmWithRetry, and services.py:339-352).
LossIsRecovered == \A u \in Uploads : call[u].phase = "failed" => row[u] # "confirmed"

\* A slot that shows progress comes to show a result: what one upload of the
\* slot shows is not left behind by another (useEvidenceUpload.ts:103-152). And
\* "Web Upload All cannot hang with all rows confirmed."
\* (evidence-upload-hardening.md:105)
ProgressEnds ==
    /\ \A t \in Types : Busy(t) ~> ~Busy(t)
    /\ UploadInProgress ~> ~UploadInProgress
=============================================================================
