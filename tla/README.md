# Kotoku in TLA+

Kotoku lets the parties of an informal contract (a used car, a room, a loan)
write it down, attach evidence, prove who they are, consent by SMS code, and
seal the result under a hash. The backend is Django (`src/kotoku-backend`) over
PostgreSQL at READ COMMITTED, with Celery workers and a beat schedule; the
mobile application (Expo) and the website (Next.js) under `src/Kotoku-frontend`
call its HTTP API. This directory specifies what must be true of an agreement,
an identity, a subscription, a session and a screen while requests, jobs,
administrators, tabs and devices act at once.

The code promises, in its documents and comments, that a seal rests on the
consent of everybody, that an earlier seal is never lost, that a plan is given
for a verified charge only, and that a screen shows what the backend has
confirmed. Its unit tests run one request after the other. The specifications
are about the other orders: late answers, lost ones, two devices, a process that
dies between two steps.

Paths below are relative to `src/kotoku-backend/apps` when they name a Python
file, and to `src/Kotoku-frontend/kotoku-mobile` or `.../kotoku-web/src` when
they name a TypeScript one, unless they start with `src/`.

## 1. Inventory

### The backend

| Component | State | Operations | What is hard | What makes it correct |
|---|---|---|---|---|
| **agreements** | `Agreement.status`, the text fields, `sealed_at`, `seal_hash`; `AgreementRevision` rows | create, edit, delete, seal, request and complete a reopening, close, cancel; `cleanup_stale_drafts` | edits and deletion read the status without a lock; sealing takes one | the status table is followed; a seal is there exactly when the status says so; a seal is never lost |
| **consent** | `ConsentRecord` rows (party, purpose, granted, created_at); attempt counters in the cache | issue codes, confirm by phone or by public link, the same for a reopening | a confirmation locks its own record, not the agreement, and asks whether it was the last; codes are re-issued meanwhile | one code per party to confirm; only a grant of the current round counts; the last confirmation completes the round |
| **parties** | `Party` rows, replaced or patched as a set | `set_parties`, `patch_parties` | replacing parties cascades over consent, identity, disputes, annotations | no consent and no verdict outlives its party |
| **party invites** | `PartyInvite` token, expiry, `accepted_at` | create and send, claim | the party is replaced under the invite | an invite gives access to the party it was for |
| **evidence** | `EvidenceItem.upload_status` | presigned URL, confirm upload | the client uploads between the two; confirm is repeated | what is confirmed is what was uploaded |
| **identity verification** | `PartyIdentityVerification`: status, liveness, OCR result | reset, queue, verify, liveness session and result, manual review | a slow task writes over a reset; retries run out | a verdict belongs to the evidence it was made from |
| **vault** | `VaultEntry.pdf_status`, key; the stored object | create at the seal, request, retry and recover an export, archive | jobs are lost, repeated, late; enqueued before the commit | an offered key has an object; an export ends |
| **disputes, annotations** | `Dispute.status`; `Annotation` rows | open, investigate, resolve, dismiss; add, edit, delete | two administrators act on the same unlocked row | one final decision per dispute |
| **billing** | none: counts sealed agreements of the month | `check_seal_allowed` | the count is read without a lock | the cap of the plan holds |
| **payments** | `SubscriptionCheckout`, `Subscription`, `Invoice`, `PaymentEvent`, `Account.plan` | initiate, verify, cancel; webhook handlers; daily lapse | webhooks repeat and arrive out of order; a poll applies the same charge | an account has the plan it pays for |
| **auth** | OTP requests, device sessions, PIN and its lock | send and verify codes, refresh and revoke tokens, verify PIN | a refresh token may be used once, and several requests want it | attempts are bounded; a refresh does not end the session it renews |
| **accounts, notifications, audit** | profile rows; `Notification.status`; append-only log | update; dispatch with retries; record | a job sends and dies before it saves | nothing else decides on them |
| **gateways** (`src/kotoku-backend/infrastructure`) | external | S3, Rekognition, Vision, Paystack, SMS | fail, time out, answer late | - |

### The clients

| Component | State | Operations | What is hard | What makes it correct |
|---|---|---|---|---|
| **consent screens** | the query cache of the consent status, the form of a code, the last error of a seal | ask for codes, type them, poll, seal; the page of the SMS link | answers come late, codes expire, one new request undoes the other party's confirmation | no grant is shown that was not given; the parties come to a seal |
| **evidence screens** | one item per slot (application) or per file (website); a confirmation under way | pick, presign, upload, confirm with retries, look at the list | a lost answer is asked for again; two uploads write one slot | going on means confirmed rows; no slot shows progress for ever |
| **identity and parties screens** | the copy of the agreement fetched last, the edits not saved, the local result of the face check | save parties, invite, upload a card, face check, poll | the decision is made by a task nobody is told of | the creator goes on only with a verified party; who waits sees the decision |
| **payment screens** | the reference of the checkout, the state polled last, "a session is already open" | start, pay in a browser, come back, poll, cancel and retry | another device, a cancelled checkout that is paid, a poll that gives up | no success page without a charge, no dead end |
| **mobile session** | tokens on disk and in memory, `refreshPromise`, `AuthGuard` | refresh on 401, start-up refresh, sign-in by code and PIN, log out | the process dies between the rotation and the save; two refreshes share one token | a call that waits is woken; signed-out users get to a sign-in |
| **web session** | access token per tab, one cookie and one stored flag per browser | bootstrap, refresh, log in, sign out | tabs act on shared state with their own copies | tabs agree; recovery ends |
| **vault screens** | the cached record, a local "reopened" flag, the signed link | export, share, request and confirm a reopening | the push comes before the commit, or never | a reopening is said when it happened; a finished PDF is shown |
| **mobile wizard** | the in-memory draft, the mounted layouts with their stacks of steps, rows in SQLite | open, edit, go back, persist | a card is answered when the user is elsewhere; persists of successive changes interleave | a row belongs to one agreement; a draft reaches the disk |
| **web wizard, lists, profile, static pages** | forms over one route each | create, edit, list | - | - |

**How they interact.** `seal_agreement` asks billing for the cap, consent for
the grants, `validate_agreement` for parties, evidence and identity, and
`SealView` creates the vault entry in the same transaction. The last
confirmation of consent moves the agreement on (`confirm_by_phone`), the last
one of a reopening calls `complete_bilateral_reopen`. `set_parties` deletes the
party rows and, by foreign key, their consent records, verifications and
invites; deleting an agreement deletes everything that refers to it. Confirmed
identity evidence and a passed face check queue a verification task; a vault
request queues an export job. A charge is applied by the webhook or by a status
poll, whichever is first, and sets `Account.plan`, which billing reads. Clients
see the backend through React Query caches filled by answers, polls and, for a
reopening and a finished PDF, push events over a WebSocket. Every call of a
client carries an access token and may set off a refresh.

## 2. Modules

| Module | Models | Uses |
|---|---|---|
| `AgreementStates` | `agreements/domain/state_machine.py` and the sets of statuses the policies test | - |
| `AgreementLifecycle` | one agreement: `agreements/services.py`, the consent service, and what parties and evidence write that the seal covers | `AgreementStates` |
| `AgreementContract` | the abstract specification: what an agreement promises, every request atomic | `AgreementStates` |
| `AgreementLifecycle_proofs` | its theorems, the refinement of the contract among them | `AgreementLifecycle` |
| `VaultExport` | the PDF export of one vault entry: requests, jobs, beat, command | - |
| `ConsentScreens` | the consent step, the consent page and the SMS link, with the code attempts of the server | instance of `AgreementContract` |
| `EvidenceUploads` | the upload routines of both clients, their pages, and `evidence/services.py` | - |
| `Identity` | verification of one party: `identity/services.py`, `identity/tasks.py`, `parties/services.py`, the identity part of `evidence/services.py` | instance of `PartyContract` |
| `PartyContract` | the abstract specification of a party: every decision about its identity one step | - |
| `IdentityScreens` | the holder's and the creator's screens | extends `Identity` |
| `AccountContract` | the abstract specification of an account: every payment one step | - |
| `Payments` | checkouts, subscriptions, Paystack's events, poll and lapse of one account | - |
| `CheckoutScreens` | plans, hosted page, bridge and callback screens | extends `Payments`, instance of `AccountContract` |
| `MobileSession` | the application's session and the server's device sessions | - |
| `WebSession` | the same for the tabs of a browser | - |
| `VaultScreens` | the sealed record and its reopening on two devices | instance of `AgreementContract` |
| `MobileWizard` | the draft of the wizard: in the store, in the layouts that are mounted over each other, and on disk | - |
| `VaultExport_proofs` | theorems about the export and about the vault's screens | `VaultExport`, instance of `VaultScreens` |
| `Session_proofs` | theorems about both sessions | `MobileSession`, instance of `WebSession` |
| `IdentityScreens_proofs`, `CheckoutScreens_proofs` | theorems about the screens and the backend module below them | the module of the name |
| `ConsentScreens_proofs`, `EvidenceUploads_proofs`, `MobileWizard_proofs` | theorems | the module of the name |
| `MC...` | values of constants, and the liveness properties, which are about those values | the module of the name |

`IdentityScreens` composes with `Identity` and `CheckoutScreens` with `Payments`
by extension: a client's action is a backend action together with what the
screen makes of it, so that every order of two clients, a task and a gateway is
in one state graph. The other client modules contain the few columns of the
server their screens read; the interplay of those columns with the rest is in
the backend modules.

The sets of records that a type invariant is made of have names (`Calls`, `Rows`,
`Copies`), so that a proof can keep them folded: the prover is told once, in a
lemma, which records the actions write, and reads a type invariant as a list of
memberships.

A definition named `... KeepingX`, `...Any`, `...Once` and so on, with a comment
that begins "Mutant of", is a plausible bug in the definition that follows it. No
action refers to it. It stands there so that each property can be shown to fail
when the code is wrong in that way.

### 2.1 `AgreementLifecycle`

*State.* `status`, `seal`, `sealedAt` are columns of the agreement. `text`
stands for every field the seal hash covers besides parties and evidence, as a
version number. `parties` is the set of party rows, `evidence` gives each item's
upload status. `records` are the consent records; `issue` numbers the batch a
record was issued in, which is the order `created_at` gives; `agreed` is the
version of the text when the party granted it. `revisions` is the sequence of
`AgreementRevision` rows, each with its seal and snapshot. `seal` is the
*content* the hash digests: SHA-256 is taken to be injective. Two ghost
variables, `asked` (first batch of the current round) and `sealCount`, are read
by properties and bounds only.

*Atomicity.* A method that takes `select_for_update` on the agreement before it
reads anything is one action: `RequestOtp`, `SealAgreement`, `RequestReopen`,
`RequestReopenOtp`, `SetParties`, `PatchParties` and so on. Where the code does
not, the model does not:

- `confirm_by_phone` and `confirm_reopen_by_phone` are two steps.
  `BeginConfirm(r)` locks the party's record, grants it inside the transaction
  and asks whether everyone has granted, seeing committed rows and its own.
  `CommitGrant`, `CommitLastConsent` or `CommitLastReopen` is the second step.
  `locked` holds the records in between, `sawAll` those whose transaction saw
  everybody. `AbortConfirm` is a rollback: `next_state` raised, a worker died,
  or PostgreSQL chose it as the victim of a deadlock with `request_otp`, which
  locks the same rows in the other order.
- `update_draft`, `update_active`, `generate_upload_url`, the delete view and
  `cleanup_stale_drafts` test the status of a row they have not locked.
  `CheckStatus(request)` is the test, `SaveText`, `CreateEvidence`,
  `DeleteAgreement` the later write. `save(update_fields=...)` writes only the
  text, and fails on a deleted row.
- `confirm_upload` locks the evidence item and reads no status at all.

*Unrouted methods.* `close_agreement`, `cancel_reopen` and `reopen_agreement`
are public methods with tests and without an HTTP route. The constant `Unrouted`
says which of them have callers.

*Left out.* A wrong or expired code, its attempt counter and lockout: no row
changes here (`ConsentScreens` has them). The plan cap and `validate_agreement`:
they only refuse seals, so a safety property that holds without them holds with
them. Two callers of the same unlocked request at once: their writes do not
depend on each other.

### 2.2 `AgreementContract`

The contract has the parties, who of them has consented in this round, who has
agreed to a reopening, what is sealed and the history of seals, and nothing
else: no codes, batches, locks, requests in flight, text or evidence. A
confirmation is one step; a pending agreement is sealed when everyone has
consented; a seal comes off, into the history, with the last party's agreement.
`AgreementLifecycle!Contract` instantiates it with the mapping
`consented <- ` the parties that have granted a consent record, `reopeners <-`
those that have granted a reopen record, `history <- revisions`, the rest by
name. A confirmation takes effect in the contract when it commits; the first
half, an aborted one, new reopen codes, edits and uploads map to no step. The
contract describes what the code does keep, not all that its documents say:
`reopeners` outlives a reopening, and an active agreement is sealed without a
condition (section 4).

`ConsentScreens` and `VaultScreens` hold the part of the server their screens read,
and each shows that this part keeps the same contract: the consent round from the
reviewed draft on (`consented <- granted`, a seal as soon as the status is "sealed"),
and the reopening from the first seal on (`reopeners <- granted`, `seal <- seals`
unless the agreement is active, `history` the seals before it). So the server that
the screens are checked against promises no more and no less than the one of
`AgreementLifecycle`, with screens that ask late, twice or from an old cache.

### 2.3 `VaultExport`

*State.* `pdf` and `key` are columns of the vault entry; `object` is the seal
whose PDF is stored under the entry's one storage key; `stale` says that
`updated_at` is more than five minutes old. `jobs` are the `generate_pdf_export`
tasks the broker and workers hold, each with the point its attempt has reached
and its retries. `selected` and `listed` are what the beat task and the
`retry_failed_pdfs` command have read without a lock and not yet acted on.

*Actions.* `Seal` creates the entry or finds the earlier one; `RequestExport`
and `RetryExport` set GENERATING and enqueue; `RolledBack` is either of them
failing after `delay()`, which is called before the commit; `ListEntry` and
`RequeueEntry` are the command; `FiveMinutesPass`, `SelectStuck`, `RecoverStuck`
the beat task; `Render`, `Upload`, `MarkReady`, `FailAttempt`, `MarkFailed` a
job; `LoseJob` a job acknowledged by a worker that then dies.

*Left out.* Archiving after the retention date, receipt tokens, rendering, the
deletion of the entry with its agreement (its jobs then fail and change nothing).

### 2.4 `ConsentScreens`

*State.* The server's part: `status`, the `round` of the consent records, who
has `granted`, the failed attempts (`wrong`), the rounds that have expired
(`dead`), what code each party has by SMS. A screen has a `cache` (the consent
status it got last), one `call` under way (`sent`, then `ok`, `no` or `cap` on
its way back) and a `form`. A party may have several screens: the application's
step, the web page or the page behind the link. `kind` is chosen in `Init` and
no step changes it.

*Actions.* `Handle` is the server acting on a call; `Answer` what the screen
does with the answer, or without one (`NoAnswer`: lost after it was acted on).
`Open` leaves and mounts a screen: its call goes on and is no longer heard, but
still writes the cache. `MobileRenew` is the button shown for an expired code.
A request for codes deletes every record, granted ones too, and begins a round.

*Left out.* `sync_consent` and the services' own `verify_otp`; the countdowns;
records of parties who were replaced (`AgreementLifecycle`).

### 2.5 `EvidenceUploads`

`call[u]` is one run of `uploadEvidenceItem` or `uploadEvidenceFile`, which take
the same steps: read the file, get a URL (a pending `row`), put the file,
confirm, wait and confirm again (`Tries`), then look for a confirmed row in the
list. `slot` are the items of `useEvidenceUpload`, one per evidence type; `item`
the files of the web page. `late` are confirmations whose answer was given up
and which may still arrive. A page that is left (`mine`) has uploads running
that show nowhere. A file is *altered* when the stored object does not match
what was announced, and *unsupported* when nobody accepts its type; both come
from the object checks of `confirm_upload`. Byte progress and thumbnails are
left out.

### 2.6 `Identity` and `IdentityScreens`

*State.* `party` is the row of one party, numbered because `set_parties`
replaces it; `row` is its `PartyIdentityVerification`, with `of`, a history
variable for what the verdict was computed from; `cards` are the latest
confirmed images, which belong to a role and so outlive the row.

*Locks.* The task holds the rows from `BeginVerify` to `FinishVerify`,
`VerifyRetried` or `VerifyGivesUp`. `ConfirmBegin` and `ConfirmCommit` are the
two ends of the transaction that confirms an upload: it asks whether the other
pieces are there before its own is visible. `SessionBegin` and `SessionSave` are
the two ends of `create_liveness_session`, which reads the row without a lock and
saves what it read after a call to AWS. Whether an image shows the details is
the constant relation `Shows`: OCR and face comparison are functions of their
input, or the service is unavailable.

*A face check of a verified party.* Neither `initiate_face_check` nor its view asks
for the verdict, and a web invite page opened again can begin one, so `SessionBegin`
has no condition either. It follows that a verdict can come back: the call reads
"verified", the details are corrected and the verdict is reset, the call saves what
it read. `VerifiedMatchesParty` has this as its one exception, in the step that does
it, and says of every other step that it makes no verdict out of date; what is
verified was in any case verified on a card that showed the details of that moment,
after a face check of this row. The agreement is validated again on the server
before consent (`agreements/domain/validators.py:69`).

*The contract.* `PartyContract` has the party's details, the answer of AWS about its
present face check, what the record says of it, the verdict, and `begun`: the verdicts
there were when the face checks under way were asked for. A verdict is come to in one
step: `Judge` needs a face check that passed and, for "verified" or a review of the
card, an image that shows the details of that moment; a correction of the details
takes the verdict back; a record takes over the answer about its own session and no
other; the staff decide only what waits for them; and a face check that starts
(`CheckFace`) leaves the verdict it was begun with (`AskForCheck`), or calls off a
review. `Identity!Contract` maps the five to columns of `party`, `row`, `aws` and
`starting`, and uploads, jobs, what tasks have read, invites and kept images to
nothing. So a task that judges what it read before shows as one that judges at its
end, which is right because it holds the rows meanwhile. The contract keeps what the
code keeps: any verdict may come back with a face check that was begun before a reset,
and an answer "manual review" asked for again is a review again, also after the staff
has approved the face.

*Screens.* `page` is where the holder of the card is, `copy` the agreement as
the creator's screen last fetched it, `draft` details typed and not saved.
`client` says who has which client; it is chosen in `Init` and never changes.
`behind` is a history variable: the reading behind the verdict that the copy
shows.
`Follows(copy)` is the condition under which a screen polls. A save is two requests:
`Save` posts the parties, `Saved` has fetched the agreement again, and `SavedUnseen`
is the fetch that failed, which throws nothing: the form is clean over the old copy,
and `missed` remembers it until the next fetch. The save button is busy while `saving`.
`patch_parties` is in `Identity` only, since no client calls its route.

*Left out.* The older selfie path, the cooldown between face checks, the expiry
of an invite and the telephone number a claim must match.

### 2.7 `Payments` and `CheckoutScreens`

*State.* `checkouts`, `subs` and `plan` are the rows of one account. Paystack is
external: `tx` (the transaction of a reference), `billed` (subscriptions that
renew themselves) and `events`, a *set*, so that webhooks come in any order.
`running` are charges between the read of the account's plan and the lock on the
checkout: a status poll and a webhook may both have one.

*Actions.* `Start`, `Retry`, `Recover`, `CancelHere` and so on are a screen's
button with what the backend does; `Pay` and `Decline` happen at Paystack, also
for a checkout that Kotoku has cancelled. `ApplyCharge` is the rest of
`reconcile_verified_charge` and of `_handle_charge_success`, under the lock;
`StartTogether` is two requests at once, of which the account's lock lets one
wait. `ExpireLapsed` is the daily task.

*The contract.* `AccountContract` has the plan of the account, what each checkout
asks for, which checkouts recover a subscription that is past due, which are paid,
and for each subscription the checkout that made it and its plan; no events, polls,
cancellations, statuses, visits or charges being applied. A payment is one step. A
charge that is booked for the first time appends the row of its checkout
(`Subscribe`), one that is heard of again can only set the plan of its own row
(`Restore`), a recovery makes no row, and the plan is otherwise left alone or
lapses. `CheckoutScreens!Account` instantiates it with `asked <- AskedFor` (the
targets of the checkouts), `paid <- PaidFor` (what went through at Paystack),
`recovery <- Recovering`, `rows <- Rows`, the plan by name. A cancelled checkout
stays payable in the contract, and `Subscribe` may leave the plan as it was,
because the code does (section 4).

*Left out.* A charge whose amount or plan does not match, several months paid at
once, notices, receipts, the embedded page `payment/checkout.tsx` (no screen
opens it).

### 2.8 `MobileSession` and `WebSession`

A token is the number of the `DeviceSession` it was issued for; `ended` says
whether that session is live, was rotated (a refresh token is used once) or was
revoked. In the application `disk` survives `Kill`, `store` does not. `refresh`
is `refreshPromise` of the interceptor, `boot` the start-up request of
`AuthGuard`, which does not share it; both can be refused, lost after the server
has rotated, and answered after a log-out. Both are bare calls without a time
limit (`client.ts:107`, `app/_layout.tsx:85`), so that either may stay without an answer; `beside` is a
history variable that says of each whether the other was, or could be, under way with
it. `GuardRedirect` is the route guard. It leaves signed-out users on every screen of
`AuthGroup`, the PIN screens (`PinScreens`) included. A PIN lets in only whoever has
one, on a device the server knows (`PinWorks`; `trusted` is the fingerprint, which
another version of the system changes); every refusal ends as an error 500, and
leaves the screen as it is (section 4).
On the web the cookie and the persisted flag belong to the browser, access
token and `refresh` to a tab; every `set` of the store writes the flag, and
`StorageEvent` delivers it to the others.

### 2.9 `VaultScreens`

One agreement and a device for each of two parties. `cache` is the vault record
a device holds (with the state of its signed link), `screen` what the open
screen remembers, `event` the devices a push is on its way to: sent inside the
transaction, so it may be there before the commit, and lost. `Handle` and
`Answer` as in `ConsentScreens`. `Reseal` is the whole way from the reopened
agreement to the next seal. `setup` says who uses the web and whether the
behaviour is about the PDF or the reopening.

*Locks.* A confirmation holds its own party's record and nothing else:
`HandleConfirm` grants it and asks whether everybody else's grant is committed, and
two of them overlap freely. Only the one that found so (`last`) goes on to the
agreement (`CompleteReopen`), under its lock (`Unlocked`), and must find it in
`reopen_requested`. `CommitConfirm` is the end of either; `AnswerConfirm` reads the
agreement once more for the answer, after the transaction, and it is this status
(`active`) that the notice of the screen is decided by. New codes (`LockToIssue`,
`IssueCodes`) are a transaction of their own, which takes the agreement first and
then the records: against a last confirmation it can deadlock, and `AbortIssue` and
`AbortConfirm` are the two choices of the database. Granted records stay when codes
are issued and when a reopening is complete, as in the code, so that `granted` only
grows. `since` is a history variable: how many seals had been taken off when a
confirmation was sent. `losses` counts expiries and aborts for the bound.

### 2.10 `MobileWizard`

`store` is `useAgreementStore`, which all agreements share. `view` are the mounted
`StepsLayout`s, the one shown last, each with its agreement, its stack of step screens
and the refs of its `useDraftPersistence` (`row`, `ref`). A card or the screen of a
new agreement asks the server (`OpenDraft`, `NewDraft`), and `opening` are the answers
on their way: `Opened` loads the store and pushes the step *wherever the user is by
then*. A push to another agreement than the one shown mounts a layout over it, which
stays; so two cards that were tapped leave two layouts, and the hooks of both persist
every change of the one store. `Render` is what React makes of a change: the effect of
each mounted hook, in order, with `RefFor` (a ref is cleared when the store's agreement
is another) and `Persist`.

A persist is a chain of SQL statements (`find`, then `insert` or `update`) whose
results come back to JavaScript in between, so that `stmts` holds statements of
several persists; what was found or inserted goes into the ref of the hook that asked
(`Located`), whatever that hook is about by now. `patches` are `updateAgreement` calls,
whose continuation pushes the evidence step, over another agreement's layout as well.
`mixed` is a history variable: the agreements whose drafts one mounted layout was given
one after the other. The store and the form know of the details only whether they are
filled in.

*Left out.* The loads of the store by the consent and reopened screens, and the
cards that lead to the review; the titles and values of a row; validation.

## 3. Runs

| Run | Instance | Properties | Shows |
|---|---|---|---|
| `lifecycle_routes` | 3 parties, 1 item, 4 batches of codes, 1 edit, 2 seals, no unrouted method | `OnePendingRecordPerParty`, `PendingPartiesAllAsked`, `SealMatchesStatus`, `NoSealLost`, `KeepsContract` | what the HTTP API can do keeps the agreement consistent and implements the contract |
| `lifecycle_services` | 2 parties, 3 batches, 2 seals, all unrouted methods | `PendingSealFreshConsent`, `ActivatedByEveryone`, `ReopenedByEveryone` | consent does not depend on the single-party reopening being unused |
| `vault_export` | 2 jobs, 1 retry, 2 seals, 2 losses, fairness | `KeyIsAnObject`, `GeneratingEnds` | duplicates, late failures, re-seals and lost workers never leave a key without its object, and exports end |
| `consent_screens` | 2 parties, creator on the application or the web, the other behind the link or on the application; 2 rounds, 1 attempt, 1 fault | `ShownGrantsAreReal`, `SealedByAll`, `ConsentEndsInSeal`, `KeepsContract` | screens show true grants, a creator on the application gets to a seal, and the round implements the contract |
| `evidence` | 1 slot, 3 photos (good, altered, unsupported), 1 web file, 2 uploads, 1 fault, 1 page left | `ProceedHasConfirmed`, `LossIsRecovered`, `ProgressEnds` | going on means confirmed rows; lost answers are got over |
| `identity` | 2 details, 3 images, 1 edit, 2 uploads, 2 face checks, 1 invite, 1 fault, from a new party or a failed one | `VerifiedMatchesParty`, `FailedIsCurrent`, `KeepsVerdict` | a verdict rests on a card and a face check of this party, goes out of date in one way only, and is come to as the contract says |
| `identity_screens` | 3 pairs of clients, 1 edit, 3 uploads, 1 face check, 1 invite, 2 visits | `ProceedsVerified`, `VerifiedIsSeen`, `WebIsDecided` | the creator goes on only with a party verified as shown; screens that wait see the decision |
| `checkout` | 2 plans, 2 checkouts, 1 renewal, 1 fault, 1 visit, 2 turns | `PlanWasPaid`, `OneRowPerCharge`, `SuccessIsPaid`, `PaidIsActivated`, `NoDeadEnd`, `KeepsAccount` | a charge counts once, and nothing counts without one; plan and rows implement the contract |
| `mobile_session` | 2 calls in flight, 2 sessions | `NoSelfRefusal`, `RequestsSettle`, `SignedOutReachesSignIn` | neither refresh uses a token twice but after a lost answer or beside the other; waiting calls are woken; signed-out users get to a sign-in |
| `web_session` | 2 tabs, 3 sessions | `TabsAgree`, `RecoveryEnds` | tabs agree on who is signed in |
| `vault_screens` | 2 devices, PDF with one on the web, reopening on the application and with the creator on the web | `ReopenedByBoth`, `PdfShown`, `ReopenEnds`, `KeepsContract` | confirmations at once and deadlocks included, a reopening is announced when it happened, ends, and implements the contract |
| `wizard` | 2 agreements, 2 layouts, 2 statements, 3 rows, 2 screens and one more from the review | `RowsKeepTheirAgreement`, `DraftReachesDisk` | interleaved persists mix up no rows but those of drafts that one layout was given both of |

Each module's type invariant is checked once, as a conjunct of the property named
first.

*The properties of the lifecycle.* `OnePendingRecordPerParty`: the lookup of a
party's code by `get()` never finds two. `PendingPartiesAllAsked`: while consent
is pending nobody is without a code of this round, so nothing is stuck.
`PendingSealFreshConsent`: a pending agreement is sealed only on grants of the
current round by everybody, after reopenings too. `ActivatedByEveryone` and
`ReopenedByEveryone`: what a transaction saw before it committed still holds when
it does. `SealMatchesStatus`: hash and date are there exactly in the sealed
statuses, so a revision never records an empty seal. `NoSealLost`: revisions only
grow, and a seal that goes is the next one. `KeepsContract`: the refinement of
section 2.2. The three properties of `lifecycle_services` are proved for every
`Unrouted`, the empty set of the routes included (section 5).

*The properties of the clients* relate a screen to the server, or one device to
another. What each says, and the lines it rests on, stands above its definition.
`KeepsContract`, of the consent screens and of the vault's, is about the part of the
server in those modules (section 2.2), and `KeepsVerdict` and `KeepsAccount` are the
refinements of sections 2.6 and 2.7. Some are weaker than one might wish,
because the code keeps no more:
`ConsentEndsInSeal` and `ReopenEnds` are claimed for the application only,
`NoSelfRefusal`, which is about the shared refresh and the guard's request alike,
excepts a lost answer and the two under way together, and is not claimed for two tabs;
`RequestsSettle` is claimed once the refresh has an answer; `SignedOutReachesSignIn`
counts a PIN screen that lets nobody in, provided that the next start leads on;
`VerifiedMatchesParty` excepts a call that had read the verdict, `ProceedsVerified` a
save whose outcome was not fetched, `RowsKeepTheirAgreement` a layout that was given two
drafts; `ReopenedByBoth` counts grants of an earlier reopening; `PlanWasPaid` says a
plan was paid for and not that it is the last one paid for. Section 4 says what happens in the cases left out.

*Bounds.* Three parties are what the last-confirmation race needs with one more
to be missed. Four batches allow a first consent, one re-issued, one reopening
and the consent to the re-seal; two seals allow a whole reopening cycle; one edit
tells an edited text from a sealed one. One retry tells a first attempt from a
last one, which is all that `max_retries = 3` tells apart; two jobs are a
request's and the recovery's, and two losses exhaust both. Two rounds are what
one re-issue needs, and the only attempt allowed makes the first wrong code the
lockout. Two uploads are one and its replacement, or the two sides of a card; of
three photos one is each way a check can end. Two checkouts are one that is
cancelled and one started after it; `MaxTurns` bounds the sum of faults, visits,
plans, lapses and renewals, since the orders of two of them are what the
properties tell apart, and `First` fixes which of the interchangeable plans is
asked for first. `MaxRunning = 1` lets the poll and the webhook of a charge come
one after the other and not at the same instant; the lock on the checkout
orders them in the code. Two sessions allow one rotation and one answer that is
late for it; on the web a third lets another tab refresh too. One turn of the vault
screens is a second seal, an expiry or an aborted confirmation, each of which starts
the reopening once more. Two layouts are a card answered over another; two statements
are a find of one and an update of the other, and three rows a duplicate and a row of
the second agreement.

*Starting points.* `identity` also starts from a party whose two cards were
unclear (`FailedInit`, the end of a behaviour whose uploads would otherwise count
against the bound). `FailedIsCurrent` excepts an
upload under way while the party is verified: it is confirmed without a check,
also when an earlier upload has had the verdict reset by then and a task has
failed it. With two uploads the run does not come to that; with four, and
without the exception, TLC finds it.

*Deadlock* is checked where the configuration does not say otherwise: for the
vault, the consent screens, sessions and wizard. The others may come to rest: a
deleted agreement is final, and the bounds on uploads, sessions, faults and
checkouts stop the rest.

*Symmetry.* Only `lifecycle_routes` uses it, for parties and evidence. Runs with
liveness use none.

*Fairness.* Nothing is assumed of a gateway's or a job's success anywhere.

- `VaultExport!FairSpec`: workers go on with the jobs they hold (weak fairness
  per job), time passes, beat runs `recover_stuck_pdf_generating` every 300
  seconds (`CELERY_BEAT_SCHEDULE` in `src/kotoku-backend/config/settings/base.py`).
  Losses are bounded: if every job is lost, no export ends.
- `ConsentScreens!ReturningSpec`: messages arrive, lockouts end, the server and
  the screens go on. That the parties come to a seal is about people, so it
  assumes that they press what the screen offers and type the code they have,
  upgrade when the limit is reached, and come back to a screen whose seal was
  refused. It assumes no particular order.
- `EvidenceUploads!LiveSpec`: each upload goes on: the calls of the application and the
  transfer to storage have time limits, and a browser's request ends.
- `IdentityScreens!ScreensLive`: tasks and requests end (a save's fetch in either way),
  screens that poll go on.
  Services that are unavailable are counted, and left out of this run.
- `CheckoutScreens!ScreensLive`: webhooks are processed, a charge being applied
  is applied, screens go on by themselves. Polling is strongly fair: a visit, or
  another answer under way, disables it for a moment and the interval fires
  again. The user checks again after the time limit and presses the button of the
  banner (`NoDeadEnd` is about there being one).
- `MobileSession!Fairness`: calls through `apiClient` are answered or time out (30
  seconds, `client.ts:19`), effects and continuations run. The two refresh requests
  do not go through it: nothing is assumed of their answers. Nothing of the user.
- `WebSession!Fairness`: a browser's request ends, effects run. Nothing of the user.
- `VaultScreens!LiveSpec`: polls and answers; parties who want the agreement
  reopened come back, type the codes they are offered a field for, and the creator asks
  for new ones. The confirmation and the resend are strongly fair because an answer
  under way, or an expired code, disables them again and again; so is the server,
  because a lock that another holds does.
- `MobileWizard!LiveSpec`: SQLite runs what was issued. Nothing of requests or the user.

## 4. Where the code and its documents disagree

These came up while the modules were written; each is a behaviour of a module
here, and the property of section 3 nearest to it is stated so that it holds
beside it. Where one is about a hazard of `PROJECT.json` that has no property,
the note there refers to this section.

### Agreements, consent, vault

- A second reopening completes with one confirmation. `request_reopen_otp` keeps
  granted reopen records and `all_parties_confirmed_reopen` counts any of them
  (`consent/services.py:413`, `agreements/domain/policies.py:60`).
  `state_machine.py:19`: "When all parties confirm reopen OTPs, go back to ACTIVE".
- The last two parties confirm a reopening at once; neither sees the other; the
  agreement stays in `reopen_requested` with nobody left to confirm
  (`consent/services.py:489`) until codes are issued again.
  `agreements/api/views.py:231`: "When the last party confirms, the agreement
  automatically transitions"; `sealed/page.tsx:266`: "Waiting for both parties to
  confirm. Once confirmed, the agreement will return to Active status for editing."
  `ReopenEnds` is what remains: it ends when the creator has asked for new codes and
  somebody has confirmed again. The same race exists for first consent, where it is
  harmless: the agreement stays pending with everyone's grant, and can be sealed.
- `set_parties` on an active agreement removes the consent records, and
  `can_seal` does not look at them (`policies.py:34`). `src/Consent_hardening.md:13`:
  sealed "only after every required party has granted consent".
- An active agreement is edited and sealed without new consent
  (`agreements/services.py:182`). `policies.py:34`: "consent was already verified".
- A revision's snapshot is taken at the reopening, and evidence or an edit can
  land after the seal (`agreements/services.py:376`). `agreements/models.py:72`:
  "Snapshot of agreement state at seal time".
- The delete view's check is not under a lock; an agreement sealed in between is
  deleted (`agreements/api/views.py:105`). `:106`: "Only draft or
  pending-consent agreements can be deleted."
- `reopen_agreement` writes no revision and leaves the hash, which the next seal
  overwrites. Not reachable through a route today, hence the assumption of two
  theorems (section 5).
- The clean-up of stale drafts deletes what its list has become meanwhile
  (`agreements/tasks.py:17`); the contract's `Delete` has no condition, like the code.
- A job that rendered an earlier seal uploads over the PDF of a later one
  (`vault/tasks.py:37`), and of two jobs the last to end decides the status, READY
  over FAILED or the other way round (`vault/tasks.py:62`). An entry put back to
  PENDING whose job is then lost is found by neither the beat task nor the command
  (`vault/management/commands/retry_failed_pdfs.py:85`).
- Seals of two agreements of an account at once pass the monthly cap, which
  nobody locks (`billing/selectors.py:31`). A dispute that was dismissed can be
  resolved by another administrator (`disputes/services.py:69`).

### Consent screens

- No file of the website calls the seal route, and no server code seals when the
  last consent arrives: the page waits for ever. `consent/page.tsx:85`: "When
  all_consented -> agreement gets sealed, redirect".
- Complete consent is undone. The check for it is made while the agreement is
  pending only, and the last confirmation has made it active
  (`consent/services.py:356`); `request_otp` then deletes every grant, and
  `consent.tsx:172` offers the button before the status was loaded.
- The page of the link goes on saying "Your consent is recorded"
  (`ConsentConfirmForm.tsx:46`) after a request for new codes deleted the record.
- After an upgrade the step still shows "Monthly sealing limit reached"
  (`consent.tsx:107`), the error of the last seal, until it is left.
- Polling ends with the first complete status (`useConsentFlow.ts:122`): "Both
  parties have confirmed" (`consent.tsx:340`) stays when codes were issued again.

### Evidence screens

- When the confirmation of a replacement is refused, the replaced photo's row is
  taken for it and the slot shows the new one as done
  (`evidenceUploadService.ts:104`, mobile). On the web a refused file takes the
  row of another file of its type (`components/evidence/evidenceUploadService.ts:115`).
- A mismatch is offered for retry: its text is reworded before
  `isNonRetryableEvidenceError` looks for the backend's words
  (`useEvidenceUpload.ts:135`). `evidence-upload-hardening.md:104`: "Size/MIME/checksum
  mismatch shows Replace, not Retry."
- A replacement that cannot be read leaves a slot whose Retry only says "Please
  choose the photo again before retrying." (`useEvidenceUpload.ts:241`).
- A step opened again shows the photo that was replaced: the loop over the list,
  newest first, keeps the last of a type (`useEvidenceUpload.ts:165`).

### Identity

- Two confirmations that overlap do not see each other, and neither queues the
  verification (`evidence/services.py:129`).
- A side uploaded after the party is verified is shown and kept, and not verified
  (`evidence/services.py:117`).
- The synchronous fallback stores "We will retry automatically." and no task looks
  for such rows (`identity/services.py:361`).
- `create_liveness_session` saves the status it read without a lock: a reset made
  in between is undone, and "verified" stands beside a face check that is pending or
  has failed (`identity/services.py:566`).
- A save of the parties whose second request, the fetch, fails leaves the copy of the
  old parties on the screen with a clean form: with a copy that was verified the
  creator goes on, for rows that were deleted (`parties.tsx:286`, web
  `parties/page.tsx:530`). The server validates again before consent.
- The clean-up clears the key of the face's image and leaves the check passed: an
  upload no longer queues the verification, and no other check is offered
  (`identity/tasks.py:70`).
- A parties screen opened again shows a pending counterparty until it is left: it
  polls only if the invite was sent since it was mounted (`parties.tsx:234`).
- The web page asks for the result once and takes "processing" for done
  (`app/invite/[token]/page.tsx:293`). The application says "Your Ghana Card
  details are being verified." with no card uploaded (`identity-invite.tsx:316`).
- A poll that brings a change fills the form anew and drops edits not saved
  (`parties.tsx:187`); no text says what should become of them.

### Payments

- The daily lapse sets the basic plan whatever the current subscription is
  (`payments/tasks.py:481`): one that lapses between the charge of its replacement
  and that replacement's `subscription.create` takes the plan just paid for.
- A poll of an older reference applies its charge again when the plan is another
  by now (`payments/services.py:388`). `payments/models.py:15`: "a denormalized
  projection of the current verified plan".
- A charge that is applied can leave the account on the basic plan. The account is
  read before the lock, and its plan is written only when it differs from what was
  read (`payments/services.py:354`); when the subscription of another checkout for
  the same plan lapses in between, the row becomes active and the plan stays basic.
  TLC finds it when `Subscribe` of the contract is made to set the plan; that is why
  `Subscribe` leaves the choice. `payments/models.py:15` as above.
- `subscription.create` before `charge.success` finds no row and is never tried
  again (`payments/tasks.py:211`). `invoice.update` after `subscription.disable`
  makes the row active for good (`payments/tasks.py:373`).
- Cancelling a checkout cancels one that was charged and whose webhook is on the
  way (`payments/api/views.py:159`); it stays payable, and a late charge makes a
  second subscription that renews itself. The status route then says "Payment was
  cancelled before confirmation." (`payments/services.py:524`). A Paystack failure
  while a replaced subscription is cancelled is logged only (`payments/tasks.py:98`).
- On the web the banner "Cancel the previous session to start a new one." has a
  disabled button (`plans/page.tsx:364`). The return page says "Payment received"
  after a cancellation as well (`payment/callback/page.tsx:129`).

### Sessions

- `refreshAccessToken` returns null before its `try` when no refresh token is
  stored, and every later 401 of the process gets that null (`api/client.ts:106`).
  A refresh that ends while the store is empty stores a null user (`client.ts:124`).
- A refresh has no time limit (`client.ts:107`, `app/_layout.tsx:85`): as long as one is
  without an answer, every call that got a 401 waits for it.
- The guard sends a new user home before a PIN can be typed, and the invite that
  `usePinSetup` would consume stays (`app/_layout.tsx:119`).
- The PIN views call `ok(..., status=403)`, and `ok` of `common/responses.py` has no
  such parameter: every refusal is an error 500 (`auth/api/views.py:171`, `:178`, `:203`).
  So `force_otp` is never answered, and the way to the OTP flow in
  `pin-reauth.tsx:80` is never shown. A signed-out user on a PIN screen whose PIN is not
  accepted stays there, since the guard does not move him (`_layout.tsx:116`), until the
  application is started again.
- A log-out does not wait for a refresh under way, which signs the user in again
  (`profile.tsx:334`); one that overlaps a sign-in by code on the server survives
  the revocation of the other sessions.
- Tabs opened together each refresh with the same cookie; the second is refused
  and signs every tab out (`lib/apiClient.ts:20`).

### Vault screens and wizard

- On the web the field for a reopen code is shown only while the agreement is
  sealed, and sending the codes ends that (`sealed/page.tsx:168`).
- The notice "The agreement is now editable again." hides every later state of the
  record on a screen that stays (`ReopenSection.tsx:68`).
- The push of a reopening goes out before its transaction commits
  (`agreements/services.py:361`): a device that fetches at once keeps the record from
  before until its screen is opened again, since it polls for the PDF only.
- `downloadAsync` resolves on an expired link, and the error document is shared as
  the PDF (`ExportButton.tsx:38`). No page of the web requests the first export
  (`api/vault.ts:54`).
- Changes before the first insert has returned insert rows of their own, and an
  older persist may end after a newer one (`useDraftPersistence.ts:34`).
- Two cards tapped one after the other mount two layouts (`home.tsx:204`, `:333`). The
  answer for the second changes the store under the first layout; the find or insert
  that this one had begun sets its ref to the first agreement's row afterwards
  (`useDraftPersistence.ts:36`), and its next persist makes that row the second's. The
  covered details form of the first takes over the second's values, and may send them
  as the first's (`details.tsx:65`, `:73`).
- A failed update of the details is queued nowhere (`details.tsx:74`);
  `_layout.tsx:40`: "Changes will sync when you reconnect." A request under way
  when the wizard is left pushes a step of an emptied store.

## 5. Proofs

Every invariant and every action property of section 3 is a theorem; TLC checked
each, and each inductive invariant, on an instance first. The theorems hold for
any sets of parties, screens, files, details, plans, tabs and agreements and for
any bounds, from the assumptions on the constants that each module states
(`ConstantsAssumption`, `VaultAssumption`, ...) and from what is named below. Of
those, `TypesAssumption` says that evidence types are finitely many, which the
enumeration of the code is. Bounds are in the guards, so a theorem for every
value of a bound is one about every finite behaviour without it.

`AgreementLifecycle_proofs`:

1. `TypeCorrect`: `TypeOK` is inductive.
2. The consent properties are not inductive. A commit happens after the check it
   relies on, so one must know that what was seen is still so. `RecordsInv` adds:
   `RecordsOfParties` (a record belongs to a present party and to a batch
   already issued), `ConsentRecordsCurrent` (consent records are of the last
   batch asked for), `PendingHaveRecords` (while pending, everyone has one), and
   `SawAllStillHolds` (for a transaction that saw everybody, every other party's
   grant is still there: grants are committed, never withdrawn, and whatever
   would delete them waits for the locked record). One lemma per action.
3. From `RecordsInv` and `TypeOK`: `OneCodePerParty`, `PendingNeverStuck`,
   and the action properties `PendingSealIsFresh`, `ActivationNeedsEveryone`,
   `ReopeningNeedsEveryone`.
4. `SealIsThere` and `SealsAreKept`, assuming that `reopen_agreement` has no
   caller. With it in `Unrouted` TLC finds `NoSealLost` violated, so the
   assumption is needed.
5. `LifecycleKeepsContract`, the refinement, under the same assumption. Initial
   states map to initial states, and under `RecordsInv` every step of the
   lifecycle is a step of the contract or leaves its variables alone. The work is
   in the commits: `CommitGranters` (a commit adds exactly its party to those who
   have granted) and `LastGranters` (a transaction that saw everyone leaves
   everyone granted, which is `SawAllStillHolds` again).

`VaultExport_proofs`: `VaultTypeCorrect`, and `KeyAlwaysAnObject` by `KeyInv`,
which adds what jobs carry: a job exists only for an entry, an entry only for a
seal, and a job that says "uploaded" has uploaded. `ReopenedMeansBoth` is about
the vault's screens, of which `ScreensInv` is the invariant. Its part `CallsInv` says of
each call (`Sound`) what its request and the server's rows have to do with each other:
who found everybody's grant committed is missed by nobody, since grants are never
withdrawn; who did not was sent when no seal had been taken off; so an answer that says
"active" tells of a reopening completed since its call was sent. `PushedOnce`: one
transaction at a time is between its push and its commit. And a seal is taken off only
with everyone's grant. No lock but the agreement's is assumed in this: confirmations
overlap. `ReopeningKeepsContract` is the refinement of `AgreementContract` by the same
screens, from the same invariant. `HistoryGrows` says of the contract's history, which
is a function of the number of seals, that a seal taken off is appended to it.

`ConsentScreens_proofs`: `ShownGrants` and `SealedByAllParties`, by `ConsentInv`:
a confirmation that was answered for the present round is on record (`Told`), and
an active agreement has everyone's. The first is what lets a screen write a grant
into its cache without having read it from the server. `ScreensKeepContract` is the
refinement of `AgreementContract`; `Stages` is what it adds to the invariant: everyone
is on record once the agreement is active, and a draft has had no round, so that the
first codes and those of a later round are both a step of the contract.

`EvidenceUploads_proofs`: `ProceedConfirmed` and `LossRecovered`. The invariant has
a part for each actor. `CallsInv` relates the phase, the attempts and the answer
of each upload to its row, to the confirmations still on their way and to the
faults so far; `ListInv` says that the list holds the rows there are; `PagesInv`
that an item shows progress exactly as its upload does, that no file of a page
has two uploads, and that what is shown as uploaded has a confirmed row of its
type. `LossRecovered` assumes `MaxFaults < Tries`: with as many lost answers as
attempts the routine gives up, as it must. `Attempted` is the argument: every
attempt but the one under way has cost a fault, so only a file the backend
refuses gets to the end of the list.

`IdentityScreens_proofs`, the backend first:

- `VerifiedIsParty`, by `IdentityInv`: `RowFaced` (what a row says of a face check,
  a check of that row bears out), `ReviewsArePending` (what asks for a review is
  waiting for one, also in what the creation of a session has read and will write
  back), `StartsKnown` (a session is of the party that was there, and a "verified"
  that its creation has read was come to like the row's), `Readout` (the task works
  on the present details, since it holds the lock that a save would need; what is
  verified was read from cards that show the details of then). `OutdatedSteps` is the
  step property: only `SessionSave` with a verdict it had read makes one out of date.
- `VerdictIsKept`, the refinement of `PartyContract`, and `ScreensKeepVerdict`, the same
  for the backend as the screens drive it. `VerdictInv` adds `TaskReady` to
  `IdentityInv`: as long as the task holds the rows, the face check it found passed
  stays so. `Begun` is the contract's `begun`: `BeginningAsks` and `SavingChecksFace` are
  the two ends of a face check, and `JudgedFaces` says what each answer of AWS makes of
  a row.
- `FailedAsItIs`, by `CurrentInv`, which holds while no fault, edit or second face
  check intervenes: every upload under way will queue a task, so that a verdict
  that is out of date is followed by another. Its hypothesis about uploads is part
  of the property (section 3).
- `ScreensTypes`, for the clients as they are.
- `ProceedsWithVerified`. `Shown` relates the copy to what it was fetched from: behind
  "verified" is a reading that shows the copy's details, a face check of that row
  passed, and the row is the present one unless a save is under way or `missed`.
  `UpToDate` is what a fetch needs: no client corrects the details of a row in place, so
  that neither the verdict nor one that a session has read goes out of date.
  `AnswersAreAsked`: AWS answers about sessions that were created.

`CheckoutScreens_proofs`: `PaidPlans`, `OneRow`, `PaidSuccesses`, by `PaymentsInv`
and what the screens add to it. `Opened`: references are used in order, each for
a paid plan. `Makers`: a row is the one its reference has activated, which is why
a second application of a charge, by a webhook or by a poll, finds the row and
makes none. `Recoveries`: a recovery activates the row it is for and no other.
`ChargesPaid`, `PlansPaid`: whatever is applied, waits to be applied or has been
comes from a charge that went through. The lemmas about `Newest` need that a
non-empty set of numbers has a least one (`WFMin` of the
library).

`AccountIsKept` is the refinement of `AccountContract`. The lemma of each action
proves `PaymentsInv'` and `AccountStep`, that the step is one of the contract's or
leaves its variables alone. `Booked` is what the invariant needs for it: a row has
the plan its checkout asked for, a recovery asks for the plan of the row it is for,
and what another checkout has activated is the row it made; so that a charge that
is applied again, by whichever way and with whatever it read before the lock, sets
the plan of its own row. `Effects` names the four ways in which a step that makes no
row and starts no checkout shows in the contract; `EntriesAppended` says that a row
appended to `subs` is one appended to `Rows`.

`Session_proofs`: `MobileNoSelfRefusal`, by `SessionInv`: `Issued` (no token is known
that was not issued), `Successors` (the token a rotation has issued is nobody's yet),
`DiskRotated` (a stored token that is used up has its successor on the way, or its
answer was lost), `Alone` (a request that is not marked `beside` is the only one that
may rotate). `WebTabsAgree`: `TabsAgree` is inductive; the work is that every `set` of
the store tells exactly the other tabs whose view it changes.

`MobileWizard_proofs`: `WizardTypes` and `RowsStayTheirs`. A row is *near* an agreement
when it is that agreement's, or another's that was mixed with it by one layout
(`Near`). `RowsInv`: ids are distinct, and SQLite's next one is new. `ViewInv`: the row
a layout's ref names is near the agreement of that ref. `QueueInv`: an update's row is
near the agreement it was issued for, whatever layout issued it, and what a layout has
issued is for the agreement of its ref or one mixed with it; so a result that arrives
late, when the ref is about another draft, sets a row that is near this one too.
`Keeps`: what is near stays near, since `mixed` only grows; it is what each action is
shown to do, and what the theorem follows from.

*How they are laid out.* A component's invariant is a conjunction of named parts;
one lemma per action, or per group of actions with the same effect, says which
parts it keeps; `Init...` and `Next...` put them together, and the theorem is the
temporal step. The modules that are instantiated, `WebSession` in
`Session_proofs` and `VaultScreens` in `VaultExport_proofs`, are proved about
through the instance, `Web!Spec` and `Screens!Spec`.

*Only model-checked.* The liveness properties: `GeneratingEnds`,
`ConsentEndsInSeal`, `ProgressEnds`, `VerifiedIsSeen`, `WebIsDecided`,
`PaidIsActivated`, `NoDeadEnd`, `RequestsSettle`, `SignedOutReachesSignIn`,
`RecoveryEnds`, `PdfShown`, `ReopenEnds`, `DraftReachesDisk`. They rest on fairness,
that is on ENABLED, which is out of the prover's reach.

*What the proofs changed.* `FailedIsCurrent` was claimed without its exception for
late uploads; the attempt to show `CurrentInv` inductive led to the state, and TLC
with four uploads to the behaviour. `ProceedsVerified` was claimed of the row of
the moment; what the creator relies on is the reading the screen shows, hence
`behind`. `UpdateDraft` removed every row with an id; the proof needs, and SQL
says, that it is one. The first invariant of the vault's screens rested on a lock of
the agreement that a confirmation does not take; without it, the argument is that
grants are never withdrawn. `RowsKeepTheirAgreement` has its exception in terms of what
was mixed, and not of one bad state, because the proof showed how far a wrong row can
travel through refs and statements.

## 6. Plan

Done, in this order: `AgreementStates`, `AgreementLifecycle`, `VaultExport`,
`AgreementContract` with the refinement; then the clients with the parts of the
server they talk to, `ConsentScreens`, `EvidenceUploads`, `Identity` and
`IdentityScreens`, `Payments` and `CheckoutScreens`, `MobileSession`, `WebSession`,
`VaultScreens`, `MobileWizard`; then the proofs of section 5, which state every
safety property of the runs, `AccountContract` and `PartyContract` with their
refinements, and the refinements of `AgreementContract` by the screens. Next, most
important first:

1. **PlanCap** (billing): an account's agreements sealed concurrently against
   the monthly count; theorem: the cap is exceeded by at most the number of
   transactions in flight.
2. **PinLock** (auth): attempts of codes and PIN, with counters saved inside
   transactions that the error rolls back (`auth/services.py:490`).
3. **Disputes** with annotations; **Notifications** with dispatch and retries;
   the **web wizard**.
4. The older consent path (`add_party`, the services' own `request_consent`,
   `verify_otp`, `sync_consent`), which nothing calls, as further members of
   `Unrouted`.

## 7. Not modelled

- *No state of their own*: templates and seed data, health, admin screens and
  framework configuration, the layout of the PDF, read-only views and selectors,
  pricing, legal and landing pages, building blocks of the user interface.
- *External*: S3, Rekognition, Vision, Paystack and SMS appear as outcomes of the
  actions that call them.
- *Code nothing reaches*: the application's sync queue (`src/db/syncQueue.ts`,
  which nothing fills), `payment/checkout.tsx`, `upload_evidence` and the older
  selfie path, the older consent path of section 6.
- *Nothing else decides on them*: audit, accounts' profiles, annotations,
  receipts, archiving after the retention date.
- *Details of modelled parts*: the cooldown between face checks, the expiry of an
  invite and the number it was sent to, charges of a wrong amount, countdowns and
  progress in bytes; what the forms of the wizard hold, and the loads of its store
  from other screens. `patch_parties` is in the backend modules, and no client
  calls it.
