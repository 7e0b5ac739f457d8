------------------------- MODULE AgreementLifecycle -------------------------
(***************************************************************************)
(* One agreement from draft to seal, through bilateral reopening and back  *)
(* (apps/agreements, apps/consent, the parts of apps/parties and           *)
(* apps/evidence that write to it), as transactions of concurrent requests.*)
(*                                                                         *)
(* A service method that takes the agreement's row lock before it reads is *)
(* one atomic step.  Three kinds of request are not, and take two steps:   *)
(*   - confirm_by_phone and confirm_reopen_by_phone lock only the party's  *)
(*     consent record.  Under READ COMMITTED the first step grants it and  *)
(*     asks whether everyone has granted, seeing committed rows and its    *)
(*     own write; the second commits, and applies the status change.       *)
(*   - update_draft and update_active, generate_upload_url, and deletion   *)
(*     (the delete view, cleanup_stale_drafts) read the status without a   *)
(*     lock, and write later.                                              *)
(* A wrong or expired code changes no row and is left out, as are the plan *)
(* cap and validate_agreement, which may only refuse a seal.               *)
(***************************************************************************)
EXTENDS Integers, Sequences, FiniteSets, AgreementStates

CONSTANTS
    Party,       \* Party rows an agreement may have
    Evidence,    \* EvidenceItem rows an agreement may have
    Unrouted,    \* service methods without an HTTP route that callers use
    MaxIssues,   \* bound on batches of codes issued
    MaxText,     \* bound on edits of the text
    MaxSeals     \* bound on seals

UnroutedMethods == {"close_agreement", "cancel_reopen", "reopen_agreement"}

ASSUME ConstantsAssumption ==
    /\ IsFiniteSet(Party)
    /\ Unrouted \subseteq UnroutedMethods
    /\ MaxIssues \in Nat /\ MaxText \in Nat /\ MaxSeals \in Nat

VARIABLES
    status,      \* Agreement.status
    text,        \* version of the fields the seal hash covers
    parties,     \* the agreement's Party rows
    evidence,    \* EvidenceItem.upload_status, "none" where there is no row
    records,     \* ConsentRecord rows
    locked,      \* records whose confirming transaction has not committed
    sawAll,      \* those of them whose transaction saw every party granted
    unlocked,    \* requests between their unlocked status check and their write
    seal,        \* what Agreement.seal_hash digests, NoSeal for ""
    sealedAt,    \* Agreement.sealed_at is set
    revisions,   \* AgreementRevision rows in order
    issued,      \* number of batches of codes issued so far
    asked,       \* ghost: the first batch of the current round, by purpose
    sealCount    \* ghost: number of seals made so far

vars == <<status, text, parties, evidence, records, locked, sawAll, unlocked,
          seal, sealedAt, revisions, issued, asked, sealCount>>

-----------------------------------------------------------------------------
(* Rows. *)

Purpose == {"consent", "reopen"}

\* issue orders the records as created_at does.  agreed is the text's version
\* when the party granted the record, 0 before that.
Record == [party : Party, purpose : Purpose, issue : 1..MaxIssues,
           granted : BOOLEAN, agreed : 0..MaxText]

Uploads == {"none", "pending", "confirmed"}
Requests == {"update", "upload", "delete"}

Confirmed == {e \in Evidence : evidence[e] = "confirmed"}

\* What _compute_seal_hash digests; SHA-256 is taken as injective.
Content == [text |-> text, parties |-> parties, evidence |-> Confirmed]
Contents == [text : 0..MaxText, parties : SUBSET Party, evidence : SUBSET Evidence]
NoSeal == [text |-> 0, parties |-> {}, evidence |-> {}]

Of(rows, purpose) == {r \in rows : r.purpose = purpose}
Granted(rows) == {r \in rows : r.granted}

\* ConsentSelector.all_parties_consented: the latest record of every party.
AllPartiesConsented(rows) ==
    /\ parties # {}
    /\ \A p \in parties : \E r \in Granted(Of(rows, "consent")) :
          /\ r.party = p
          /\ \A s \in Of(rows, "consent") : s.party = p => s.issue <= r.issue

\* policies.all_parties_confirmed_reopen: any granted record of every party.
AllPartiesConfirmedReopen(rows) ==
    /\ parties # {}
    /\ parties = {r.party : r \in Granted(Of(rows, "reopen"))}

Everyone(rows, purpose) ==
    IF purpose = "consent" THEN AllPartiesConsented(rows)
                           ELSE AllPartiesConfirmedReopen(rows)

\* records with r granted, as its own transaction sees them.
Grant(r) ==
    (records \ {r}) \cup {[r EXCEPT !.granted = TRUE, !.agreed = text]}

\* _issue_party_otps: a fresh ungranted record for every party.
Fresh(purpose) ==
    {[party |-> p, purpose |-> purpose, issue |-> issued + 1,
      granted |-> FALSE, agreed |-> 0] : p \in parties}

-----------------------------------------------------------------------------
\* create_draft.
Init ==
    /\ status = "draft"
    /\ text = 0
    /\ parties = {}
    /\ evidence = [e \in Evidence |-> "none"]
    /\ records = {} /\ locked = {} /\ sawAll = {}
    /\ unlocked = {}
    /\ seal = NoSeal /\ sealedAt = FALSE
    /\ revisions = <<>>
    /\ issued = 0
    /\ asked = [u \in Purpose |-> 1]
    /\ sealCount = 0

(* Parties. *)

\* Mutant of SetParties: the status check also lets a pending agreement by.
SetPartiesWhilePending(S) ==
    /\ status \in Editable \cup {"pending_consent"}
    /\ Cardinality(S) >= 2
    /\ locked = {}
    /\ parties' = S
    /\ records' = {}
    /\ UNCHANGED <<status, text, evidence, locked, sawAll, unlocked, seal,
                   sealedAt, revisions, issued, asked, sealCount>>

\* PartyService.set_parties: the old rows go, and their consent records with
\* them.  The cascade waits for the transactions that hold one of those.
SetParties(S) ==
    /\ status \in Editable
    /\ Cardinality(S) >= 2
    /\ locked = {}
    /\ parties' = S
    /\ records' = {}
    /\ UNCHANGED <<status, text, evidence, locked, sawAll, unlocked, seal,
                   sealedAt, revisions, issued, asked, sealCount>>

\* PartyService.patch_parties: fields of existing rows, all under the hash.
PatchParties ==
    /\ status \in Editable
    /\ parties # {}
    /\ text < MaxText
    /\ text' = text + 1
    /\ UNCHANGED <<status, parties, evidence, records, locked, sawAll, unlocked,
                   seal, sealedAt, revisions, issued, asked, sealCount>>

(* Requests that read the status without a lock. *)

\* The check that lets a request of this kind go on to its write.  Deletion is
\* checked by the delete view, or selected by cleanup_stale_drafts ("draft").
Passes(request) ==
    CASE request = "update" -> status \in Editable
      [] request = "upload" -> status \in AcceptsEvidence
      [] request = "delete" -> status \in Deletable

CheckStatus(request) ==
    /\ request \notin unlocked
    /\ Passes(request)
    /\ unlocked' = unlocked \cup {request}
    /\ UNCHANGED <<status, text, parties, evidence, records, locked, sawAll,
                   seal, sealedAt, revisions, issued, asked, sealCount>>

\* update_draft and update_active: save(update_fields=...) writes the text
\* and no other column.
SaveText ==
    /\ "update" \in unlocked
    /\ status # "deleted"
    /\ text < MaxText
    /\ text' = text + 1
    /\ unlocked' = unlocked \ {"update"}
    /\ UNCHANGED <<status, parties, evidence, records, locked, sawAll,
                   seal, sealedAt, revisions, issued, asked, sealCount>>

\* generate_upload_url: the pending EvidenceItem.
CreateEvidence(e) ==
    /\ "upload" \in unlocked
    /\ status # "deleted"
    /\ evidence[e] = "none"
    /\ evidence' = [evidence EXCEPT ![e] = "pending"]
    /\ unlocked' = unlocked \ {"upload"}
    /\ UNCHANGED <<status, text, parties, records, locked, sawAll,
                   seal, sealedAt, revisions, issued, asked, sealCount>>

\* agreement.delete(): the row and everything that refers to it, whatever the
\* status is by now.  The cascade waits for the locked consent records.
DeleteAgreement ==
    /\ "delete" \in unlocked
    /\ status # "deleted"
    /\ locked = {}
    /\ status' = "deleted"
    /\ parties' = {}
    /\ records' = {}
    /\ evidence' = [e \in Evidence |-> "none"]
    /\ revisions' = <<>>
    /\ seal' = NoSeal /\ sealedAt' = FALSE
    /\ unlocked' = {}
    /\ UNCHANGED <<text, locked, sawAll, issued, asked, sealCount>>

\* EvidenceService.confirm_upload: locks the item and reads no status.
ConfirmUpload(e) ==
    /\ evidence[e] = "pending"
    /\ evidence' = [evidence EXCEPT ![e] = "confirmed"]
    /\ UNCHANGED <<status, text, parties, records, locked, sawAll, unlocked,
                   seal, sealedAt, revisions, issued, asked, sealCount>>

(* Consent. *)

\* Mutant of RequestOtp: as for a reopening, granted records are kept, and
\* codes go to the parties that have none.
RequestOtpKeepingGrants ==
    /\ status \in AcceptsConsentRequest
    /\ Cardinality(parties) >= 2
    /\ status = "pending_consent" => ~AllPartiesConsented(records)
    /\ Of(locked, "consent") = {}
    /\ issued < MaxIssues
    /\ status' \in IF status = "pending_consent" THEN {status}
                   ELSE NextState(status, "request_consent")
    /\ LET kept == Granted(Of(records, "consent"))
       IN  records' = Of(records, "reopen") \cup kept \cup
                        {f \in Fresh("consent") : \A r \in kept : r.party # f.party}
    /\ issued' = issued + 1
    /\ asked' = [asked EXCEPT !["consent"] = issued + 1]
    /\ UNCHANGED <<text, parties, evidence, locked, sawAll, unlocked,
                   seal, sealedAt, revisions, sealCount>>

\* ConsentService.request_otp under the agreement's lock: every consent record
\* goes.  The deletion waits for confirmations in flight: those that saw every
\* party granted go on to the agreement's lock and deadlock with it (see
\* AbortConfirm), the others commit a grant that is then deleted.
RequestOtp ==
    /\ status \in AcceptsConsentRequest
    /\ Cardinality(parties) >= 2
    /\ status = "pending_consent" => ~AllPartiesConsented(records)
    /\ Of(sawAll, "consent") = {}
    /\ issued < MaxIssues
    /\ status' \in IF status = "pending_consent" THEN {status}
                   ELSE NextState(status, "request_consent")
    /\ records' = Of(records, "reopen") \cup Fresh("consent")
    /\ locked' = Of(locked, "reopen")
    /\ issued' = issued + 1
    /\ asked' = [asked EXCEPT !["consent"] = issued + 1]
    /\ UNCHANGED <<text, parties, evidence, sawAll, unlocked,
                   seal, sealedAt, revisions, sealCount>>

\* Mutant of BeginConfirm: grants that are not committed yet count.
BeginConfirmReadingUncommitted(r) ==
    /\ r \in records \ locked
    /\ ~r.granted
    /\ locked' = locked \cup {r}
    /\ LET seen == (records \ locked') \cup {[x EXCEPT !.granted = TRUE] : x \in locked'}
       IN  sawAll' = IF Everyone(seen, r.purpose) THEN sawAll \cup {r} ELSE sawAll
    /\ UNCHANGED <<status, text, parties, evidence, records, unlocked,
                   seal, sealedAt, revisions, issued, asked, sealCount>>

\* First half of confirm_by_phone and confirm_reopen_by_phone: the only
\* ungranted record of the party is locked and granted, and the transaction
\* asks whether that was the last one missing.
BeginConfirm(r) ==
    /\ r \in records \ locked
    /\ ~r.granted
    /\ \A s \in Of(records, r.purpose) :
          s.party = r.party /\ ~s.granted => s = r
    /\ locked' = locked \cup {r}
    /\ sawAll' = IF Everyone(Grant(r), r.purpose) THEN sawAll \cup {r} ELSE sawAll
    /\ UNCHANGED <<status, text, parties, evidence, records, unlocked,
                   seal, sealedAt, revisions, issued, asked, sealCount>>

\* The grant is committed and the transaction over.
Commit(r) ==
    /\ records' = Grant(r)
    /\ locked' = locked \ {r}
    /\ sawAll' = sawAll \ {r}
    /\ UNCHANGED <<text, parties, evidence, unlocked, issued, asked, sealCount>>

\* Someone was missing in the first half: only the grant is written.
CommitGrant(r) ==
    /\ r \in locked \ sawAll
    /\ Commit(r)
    /\ UNCHANGED <<status, seal, sealedAt, revisions>>

\* The last consent: a first seal goes through "active", a re-seal, known by
\* its revisions, stays where it is.
CommitLastConsent(r) ==
    /\ r \in sawAll /\ r.purpose = "consent"
    /\ status' \in IF revisions = <<>> THEN NextState(status, "all_consented")
                   ELSE {status}
    /\ Commit(r)
    /\ UNCHANGED <<seal, sealedAt, revisions>>

\* Mutant of CommitLastReopen: seal_hash is not cleared.
CommitLastReopenKeepingHash(r) ==
    /\ r \in sawAll /\ r.purpose = "reopen"
    /\ status' \in NextState(status, "bilateral_confirm")
    /\ revisions' = Append(revisions, [seal |-> seal, snapshot |-> Content])
    /\ sealedAt' = FALSE
    /\ Commit(r)
    /\ UNCHANGED seal

\* Mutant of CommitLastReopen: the revision is written after the seal data
\* has been cleared.
CommitLastReopenClearingFirst(r) ==
    /\ r \in sawAll /\ r.purpose = "reopen"
    /\ status' \in NextState(status, "bilateral_confirm")
    /\ revisions' = Append(revisions, [seal |-> NoSeal, snapshot |-> Content])
    /\ seal' = NoSeal /\ sealedAt' = FALSE
    /\ Commit(r)

\* The last reopen confirmation: complete_bilateral_reopen.  The snapshot is of
\* the agreement as it is now.
CommitLastReopen(r) ==
    /\ r \in sawAll /\ r.purpose = "reopen"
    /\ status' \in NextState(status, "bilateral_confirm")
    /\ revisions' = Append(revisions, [seal |-> seal, snapshot |-> Content])
    /\ seal' = NoSeal /\ sealedAt' = FALSE
    /\ Commit(r)

\* next_state raised, the database chose this transaction as a deadlock's
\* victim, or its worker died: nothing is written.
AbortConfirm(r) ==
    /\ r \in locked
    /\ locked' = locked \ {r}
    /\ sawAll' = sawAll \ {r}
    /\ UNCHANGED <<status, text, parties, evidence, records, unlocked,
                   seal, sealedAt, revisions, issued, asked, sealCount>>

(* Sealing and reopening. *)

\* AgreementService.seal_agreement, when the plan cap and the validation pass.
SealAgreement ==
    /\ status \in {"pending_consent", "active"}
    /\ Confirmed # {}
    /\ status = "pending_consent" => AllPartiesConsented(records)
    /\ Cardinality(parties) >= 2
    /\ sealCount < MaxSeals
    /\ status' \in NextState(status, "seal")
    /\ seal' = Content
    /\ sealedAt' = TRUE
    /\ sealCount' = sealCount + 1
    /\ UNCHANGED <<text, parties, evidence, records, locked, sawAll, unlocked,
                   revisions, issued, asked>>

\* AgreementService.request_reopen; the codes are another transaction.
RequestReopen ==
    /\ status' \in NextState(status, "request_reopen")
    /\ asked' = [asked EXCEPT !["reopen"] = issued + 1]
    /\ UNCHANGED <<text, parties, evidence, records, locked, sawAll, unlocked,
                   seal, sealedAt, revisions, issued, sealCount>>

\* Mutant of RequestReopenOtp: the old codes stay.
RequestReopenOtpKeepingCodes ==
    /\ status = "reopen_requested"
    /\ parties # {}
    /\ issued < MaxIssues
    /\ records' = records \cup Fresh("reopen")
    /\ issued' = issued + 1
    /\ UNCHANGED <<status, text, parties, evidence, locked, sawAll, unlocked,
                   seal, sealedAt, revisions, asked, sealCount>>

\* ConsentService.request_reopen_otp: the ungranted reopen records go, and
\* every party gets a new one.  It waits for confirmations in flight.
RequestReopenOtp ==
    /\ status = "reopen_requested"
    /\ parties # {}
    /\ Of(locked, "reopen") = {}
    /\ issued < MaxIssues
    /\ records' = Of(records, "consent") \cup Granted(Of(records, "reopen"))
                    \cup Fresh("reopen")
    /\ issued' = issued + 1
    /\ UNCHANGED <<status, text, parties, evidence, locked, sawAll, unlocked,
                   seal, sealedAt, revisions, asked, sealCount>>

\* close_agreement and cancel_reopen: only the status (and closed_at) changes.
Move(method, action) ==
    /\ method \in Unrouted
    /\ status' \in NextState(status, action)
    /\ UNCHANGED <<text, parties, evidence, records, locked, sawAll, unlocked,
                   seal, sealedAt, revisions, issued, asked, sealCount>>

CloseAgreement == Move("close_agreement", "close")
CancelReopen == Move("cancel_reopen", "cancel_reopen")

\* reopen_agreement, the single-party reopening within 24 hours of the seal:
\* sealed_at is cleared, seal_hash is not, and no revision is written.
ReopenAgreement ==
    /\ "reopen_agreement" \in Unrouted
    /\ sealedAt
    /\ status' \in NextState(status, "reopen")
    /\ sealedAt' = FALSE
    /\ UNCHANGED <<text, parties, evidence, records, locked, sawAll, unlocked,
                   seal, revisions, issued, asked, sealCount>>

-----------------------------------------------------------------------------
Next ==
    \/ \E S \in SUBSET Party : SetParties(S)
    \/ PatchParties
    \/ \E request \in Requests : CheckStatus(request)
    \/ SaveText
    \/ \E e \in Evidence : CreateEvidence(e)
    \/ \E e \in Evidence : ConfirmUpload(e)
    \/ DeleteAgreement
    \/ RequestOtp
    \/ \E r \in records : BeginConfirm(r)
    \/ \E r \in locked : CommitGrant(r)
    \/ \E r \in locked : CommitLastConsent(r)
    \/ \E r \in locked : CommitLastReopen(r)
    \/ \E r \in locked : AbortConfirm(r)
    \/ SealAgreement
    \/ RequestReopen
    \/ RequestReopenOtp
    \/ CloseAgreement
    \/ CancelReopen
    \/ ReopenAgreement

Spec == Init /\ [][Next]_vars

-----------------------------------------------------------------------------
(* Properties. *)

\* Every variable has its type.
TypeOK ==
    /\ status \in Status
    /\ text \in 0..MaxText
    /\ parties \in SUBSET Party
    /\ evidence \in [Evidence -> Uploads]
    /\ records \in SUBSET Record
    /\ sawAll \in SUBSET locked /\ locked \in SUBSET records
    /\ unlocked \in SUBSET Requests
    /\ seal \in Contents
    /\ sealedAt \in BOOLEAN
    /\ revisions \in Seq([seal : Contents, snapshot : Contents])
    /\ issued \in 0..MaxIssues
    /\ asked \in [Purpose -> 1..(MaxIssues + 1)]
    /\ sealCount \in 0..MaxSeals

\* A party never has two codes of one purpose to confirm: confirm_by_phone and
\* confirm_reopen_by_phone look the ungranted record up with get(), which
\* raises when re-issuing, reopening or a commit left two of them; and every variable
\* keeps its type.
OnePendingRecordPerParty ==
    /\ TypeOK
    /\ \A r, s \in records :
        /\ ~r.granted /\ ~s.granted
        /\ r.party = s.party /\ r.purpose = s.purpose
        => r = s

\* While consent is pending every party has exactly one consent record, of the
\* current round: request_otp, set_parties and the confirmations in flight
\* never leave a party without a code to confirm and the agreement stuck.
PendingPartiesAllAsked ==
    status = "pending_consent" =>
        /\ Cardinality(parties) >= 2
        /\ \A p \in parties : \E r \in Of(records, "consent") :
              /\ r.party = p /\ r.issue = asked["consent"]
              /\ \A s \in Of(records, "consent") : s.party = p => s = r

\* p granted a record of this purpose issued in the purpose's current round.
GrantedThisRound(p, purpose) ==
    \E r \in Granted(Of(records, purpose)) : r.party = p /\ r.issue >= asked[purpose]

\* A seal of a pending agreement rests on a grant by every party to a code of
\* the current round of consent, also when the agreement was sealed, reopened
\* and sent for consent before: no grant of an earlier round counts.
PendingSealFreshConsent ==
    [][status = "pending_consent" /\ status' = "sealed"
         => \A p \in parties : GrantedThisRound(p, "consent")]_vars

\* Pending consent becomes active only when every party has granted a code of
\* the current round, the one that is being committed included, whatever
\* committed between the two halves of that confirmation.
ActivatedByEveryone ==
    [][status = "pending_consent" /\ status' = "active"
         => \A p \in parties' : GrantedThisRound(p, "consent")']_vars

\* A reopening completes only when every party has granted a reopen code in
\* some round, the one that is being committed included.
ReopenedByEveryone ==
    [][status = "reopen_requested" /\ status' = "active"
         => \A p \in parties' : \E r \in Granted(Of(records', "reopen")) : r.party = p]_vars

\* A seal hash and date are there exactly while the status says sealed:
\* AgreementRevision needs both when the agreement is reopened.
SealMatchesStatus ==
    /\ sealedAt <=> status \in Sealed
    /\ sealedAt <=> seal # NoSeal

\* The history of an agreement only grows, and a seal that is taken off or
\* replaced is its next revision, until the agreement itself is deleted.
NoSealLost ==
    [][status' # "deleted" =>
         \/ revisions' = revisions /\ (seal = NoSeal \/ seal' = seal)
         \/ \E shot \in Contents :
               revisions' = Append(revisions, [seal |-> seal, snapshot |-> shot])]_vars

\* The parties who have granted a record of this purpose.
Granters(purpose) == {r.party : r \in Granted(Of(records, purpose))}

Contract == INSTANCE AgreementContract
            WITH consented <- Granters("consent"), reopeners <- Granters("reopen"),
                 history <- revisions

\* Codes, rounds, locks and requests in flight never show: what is committed
\* is a behaviour of the contract, in which every confirmation is one atomic
\* step, a pending agreement is sealed with everyone's consent, and a seal is
\* taken off, into the history, with everyone's agreement.
KeepsContract == Contract!Spec
=============================================================================
