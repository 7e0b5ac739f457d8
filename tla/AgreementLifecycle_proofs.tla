---------------------- MODULE AgreementLifecycle_proofs ----------------------
(***************************************************************************)
(* Theorems about AgreementLifecycle, for every number of parties, every   *)
(* set of evidence and every bound.                                        *)
(***************************************************************************)
EXTENDS AgreementLifecycle, FiniteSetTheorems, TLAPS

-----------------------------------------------------------------------------
(* The transition table. *)

\* t is a successor of s when the table has the row.
LEMMA NextStateInTable ==
    ASSUME NEW s, NEW a, NEW t
    PROVE  t \in NextState(s, a) <=> <<s, a, t>> \in Transitions
<1>1. ASSUME NEW u \in Transitions
      PROVE  u = <<u[1], u[2], u[3]>>
  BY DEF Transitions
<1>2. QED  BY <1>1 DEF NextState

\* The successors under the actions the services take.
LEMMA NextStateOf ==
    ASSUME NEW s, NEW t
    PROVE  /\ t \in NextState(s, "request_consent")
                <=> s \in {"draft", "active"} /\ t = "pending_consent"
           /\ t \in NextState(s, "all_consented") <=> s = "pending_consent" /\ t = "active"
           /\ t \in NextState(s, "seal")
                <=> s \in {"pending_consent", "active"} /\ t = "sealed"
           /\ t \in NextState(s, "request_reopen") <=> s = "sealed" /\ t = "reopen_requested"
           /\ t \in NextState(s, "bilateral_confirm")
                <=> s = "reopen_requested" /\ t = "active"
           /\ t \in NextState(s, "close") <=> s = "sealed" /\ t = "closed"
           /\ t \in NextState(s, "cancel_reopen") <=> s = "reopen_requested" /\ t = "sealed"
           /\ t \in NextState(s, "reopen") <=> s = "sealed" /\ t = "active"
<1>1. ASSUME NEW a
      PROVE  t \in NextState(s, a) <=> <<s, a, t>> \in Transitions
  BY NextStateInTable
<1>2. /\ <<s, "request_consent", t>> \in Transitions
           <=> s \in {"draft", "active"} /\ t = "pending_consent"
      /\ <<s, "all_consented", t>> \in Transitions
           <=> s = "pending_consent" /\ t = "active"
      /\ <<s, "seal", t>> \in Transitions
           <=> s \in {"pending_consent", "active"} /\ t = "sealed"
      /\ <<s, "request_reopen", t>> \in Transitions
           <=> s = "sealed" /\ t = "reopen_requested"
  BY DEF Transitions
<1>3. /\ <<s, "bilateral_confirm", t>> \in Transitions
           <=> s = "reopen_requested" /\ t = "active"
      /\ <<s, "close", t>> \in Transitions <=> s = "sealed" /\ t = "closed"
      /\ <<s, "cancel_reopen", t>> \in Transitions
           <=> s = "reopen_requested" /\ t = "sealed"
      /\ <<s, "reopen", t>> \in Transitions <=> s = "sealed" /\ t = "active"
  BY DEF Transitions
<1>4. QED  BY <1>1, <1>2, <1>3

-----------------------------------------------------------------------------
(* Type correctness. *)

\* What a batch of codes and a grant add to the records.
LEMMA FreshType ==
    ASSUME TypeOK, issued < MaxIssues, NEW purpose \in Purpose
    PROVE  Fresh(purpose) \subseteq Record
<1>1. issued + 1 \in 1..MaxIssues /\ 0 \in 0..MaxText
  BY ConstantsAssumption DEF TypeOK
<1>2. ASSUME NEW p \in parties
      PROVE  [party |-> p, purpose |-> purpose, issue |-> issued + 1,
              granted |-> FALSE, agreed |-> 0] \in Record
  BY <1>1 DEF TypeOK, Record
<1>3. QED  BY <1>2 DEF Fresh

LEMMA GrantType ==
    ASSUME TypeOK, NEW r \in records
    PROVE  Grant(r) \subseteq Record
  BY DEF TypeOK, Grant, Record

LEMMA ContentType ==
    ASSUME TypeOK
    PROVE  Content \in Contents
  BY DEF TypeOK, Content, Contents, Confirmed

LEMMA NoSealType == NoSeal \in Contents
  BY ConstantsAssumption DEF NoSeal, Contents

LEMMA InitTypeOK == Init => TypeOK
<1> SUFFICES ASSUME Init PROVE TypeOK
  OBVIOUS
<1>1. revisions \in Seq([seal : Contents, snapshot : Contents])
  BY DEF Init
<1>2. /\ evidence \in [Evidence -> Uploads]
      /\ asked \in [Purpose -> 1..(MaxIssues + 1)]
  BY ConstantsAssumption DEF Init, Uploads
<1>3. text \in 0..MaxText /\ issued \in 0..MaxIssues /\ sealCount \in 0..MaxSeals
  BY ConstantsAssumption DEF Init
<1>4. /\ parties \in SUBSET Party /\ unlocked \in SUBSET Requests
      /\ records \in SUBSET Record
      /\ sawAll \in SUBSET locked /\ locked \in SUBSET records
      /\ seal \in Contents /\ status \in Status /\ sealedAt \in BOOLEAN
  BY NoSealType DEF Init, Status
<1>5. QED  BY <1>1, <1>2, <1>3, <1>4 DEF TypeOK

LEMMA NextTypeOK == TypeOK /\ [Next]_vars => TypeOK'
<1> SUFFICES ASSUME TypeOK, [Next]_vars PROVE TypeOK'
  OBVIOUS
<1> USE ConstantsAssumption, NoSealType
<1>1. ASSUME NEW S \in SUBSET Party, SetParties(S) PROVE TypeOK'
  BY <1>1 DEF TypeOK, SetParties
<1>2. CASE PatchParties
  BY <1>2 DEF TypeOK, PatchParties
<1>3. ASSUME NEW request \in Requests, CheckStatus(request) PROVE TypeOK'
  BY <1>3 DEF TypeOK, CheckStatus
<1>4. CASE SaveText
  BY <1>4 DEF TypeOK, SaveText
<1>5. ASSUME NEW e \in Evidence, CreateEvidence(e) PROVE TypeOK'
  BY <1>5 DEF TypeOK, CreateEvidence, Uploads
<1>6. ASSUME NEW e \in Evidence, ConfirmUpload(e) PROVE TypeOK'
  BY <1>6 DEF TypeOK, ConfirmUpload, Uploads
<1>7. CASE DeleteAgreement
  <2>1. revisions' \in Seq([seal : Contents, snapshot : Contents])
    BY <1>7 DEF DeleteAgreement
  <2>2. status' \in Status /\ evidence' \in [Evidence -> Uploads]
    BY <1>7 DEF DeleteAgreement, Status, Uploads
  <2>3. QED  BY <1>7, <2>1, <2>2 DEF TypeOK, DeleteAgreement
<1>8. CASE RequestOtp
  <2>1. status' \in Status
    BY <1>8, NextStateOf DEF RequestOtp, Status
  <2>2. records' \subseteq Record
    BY <1>8, FreshType DEF TypeOK, RequestOtp, Of, Purpose
  <2>3. sawAll' \subseteq locked' /\ locked' \subseteq records'
    BY <1>8 DEF TypeOK, RequestOtp, Of, Record, Purpose
  <2>4. QED  BY <1>8, <2>1, <2>2, <2>3 DEF TypeOK, RequestOtp, Purpose
<1>9. ASSUME NEW r \in records, BeginConfirm(r) PROVE TypeOK'
  BY <1>9 DEF TypeOK, BeginConfirm
<1>10. ASSUME NEW r \in locked, Commit(r)
       PROVE  /\ records' \subseteq Record
              /\ sawAll' \subseteq locked' /\ locked' \subseteq records'
  BY <1>10, GrantType DEF TypeOK, Commit, Grant
<1>11. ASSUME NEW r \in locked, CommitGrant(r) PROVE TypeOK'
  BY <1>10, <1>11 DEF TypeOK, CommitGrant, Commit
<1>12. ASSUME NEW r \in locked, CommitLastConsent(r) PROVE TypeOK'
  <2>1. status' \in Status
    BY <1>12, NextStateOf DEF TypeOK, CommitLastConsent, Status
  <2>2. QED  BY <1>10, <1>12, <2>1 DEF TypeOK, CommitLastConsent, Commit
<1>13. ASSUME NEW r \in locked, CommitLastReopen(r) PROVE TypeOK'
  <2>1. status' \in Status
    BY <1>13, NextStateOf DEF CommitLastReopen, Status
  <2>2. revisions' \in Seq([seal : Contents, snapshot : Contents])
    BY <1>13, ContentType DEF TypeOK, CommitLastReopen
  <2>3. QED  BY <1>10, <1>13, <2>1, <2>2 DEF TypeOK, CommitLastReopen, Commit
<1>14. ASSUME NEW r \in locked, AbortConfirm(r) PROVE TypeOK'
  BY <1>14 DEF TypeOK, AbortConfirm
<1>15. CASE SealAgreement
  <2>1. status' \in Status
    BY <1>15, NextStateOf DEF SealAgreement, Status
  <2>2. QED  BY <1>15, <2>1, ContentType DEF TypeOK, SealAgreement
<1>16. CASE RequestReopen
  <2>1. status' \in Status
    BY <1>16, NextStateOf DEF RequestReopen, Status
  <2>2. QED  BY <1>16, <2>1 DEF TypeOK, RequestReopen, Purpose
<1>17. CASE RequestReopenOtp
  <2>1. records' \subseteq Record
    BY <1>17, FreshType DEF TypeOK, RequestReopenOtp, Of, Granted, Purpose
  <2>2. locked' \subseteq records'
    BY <1>17 DEF TypeOK, RequestReopenOtp, Of, Record, Purpose
  <2>3. QED  BY <1>17, <2>1, <2>2 DEF TypeOK, RequestReopenOtp
<1>18. CASE CloseAgreement \/ CancelReopen
  <2>1. status' \in Status
    BY <1>18, NextStateOf DEF CloseAgreement, CancelReopen, Move, Status
  <2>2. QED  BY <1>18, <2>1 DEF TypeOK, CloseAgreement, CancelReopen, Move
<1>19. CASE ReopenAgreement
  <2>1. status' \in Status
    BY <1>19, NextStateOf DEF ReopenAgreement, Status
  <2>2. QED  BY <1>19, <2>1 DEF TypeOK, ReopenAgreement
<1>20. CASE UNCHANGED vars
  BY <1>20 DEF TypeOK, vars
<1>21. QED
  BY <1>1, <1>2, <1>3, <1>4, <1>5, <1>6, <1>7, <1>8, <1>9, <1>11, <1>12, <1>13,
     <1>14, <1>15, <1>16, <1>17, <1>18, <1>19, <1>20 DEF Next

\* Every reachable state is well typed: in particular a confirmation in flight
\* always holds a record that is still there, so no request deletes a record
\* under the transaction that is about to grant it.
THEOREM TypeCorrect == Spec => []TypeOK
<1>1. QED  BY InitTypeOK, NextTypeOK, PTL DEF Spec

-----------------------------------------------------------------------------
(* Consent records.  The properties about them are not inductive: that a    *)
(* pending agreement can only be sealed on grants of the current round       *)
(* needs every consent record to be of that round, and that a confirmation   *)
(* in flight may still count on the others needs their grants to stay.       *)

\* Records belong to the agreement's parties, and were issued.
RecordsOfParties ==
    \A r \in records : r.party \in parties /\ r.issue <= issued

\* There is at most one consent record per party, of the current round.
ConsentRecordsCurrent ==
    \A r \in Of(records, "consent") :
        /\ r.issue = asked["consent"]
        /\ \A s \in Of(records, "consent") : r.party = s.party => r = s

\* While consent is pending every party has one.
PendingHaveRecords ==
    status = "pending_consent" =>
        /\ Cardinality(parties) >= 2
        /\ \A p \in parties : \E r \in Of(records, "consent") : r.party = p

\* A confirmation in flight is of an ungranted record, and what it saw of the
\* other parties still holds.
SawAllStillHolds ==
    /\ \A r \in locked : ~r.granted
    /\ \A r \in sawAll : \A p \in parties :
          p = r.party \/ \E s \in Granted(Of(records, r.purpose)) : s.party = p

RecordsInv ==
    /\ TypeOK
    /\ RecordsOfParties
    /\ ConsentRecordsCurrent
    /\ OnePendingRecordPerParty
    /\ PendingHaveRecords
    /\ SawAllStillHolds

LEMMA InitRecordsInv == Init => RecordsInv
  BY InitTypeOK DEF Init, RecordsInv, RecordsOfParties, ConsentRecordsCurrent,
     OnePendingRecordPerParty, PendingHaveRecords, SawAllStillHolds, Of

\* What the grant of a locked record does to the records.
LEMMA GrantRecord ==
    ASSUME TypeOK, NEW r \in records
    PROVE  LET g == [r EXCEPT !.granted = TRUE, !.agreed = text]
           IN  /\ Grant(r) = (records \ {r}) \cup {g}
               /\ g.party = r.party /\ g.purpose = r.purpose /\ g.issue = r.issue
               /\ g.granted
  BY DEF TypeOK, Grant, Record

\* Steps that leave the records alone, and may only leave "pending_consent".
LEMMA RecordsUntouched ==
    ASSUME RecordsInv, TypeOK',
           UNCHANGED <<parties, records, locked, sawAll, issued>>,
           asked' = asked \/ (asked'["consent"] = asked["consent"]),
           status' = status \/ status' # "pending_consent"
    PROVE  RecordsInv'
  BY DEF RecordsInv, RecordsOfParties, ConsentRecordsCurrent, Granted,
     OnePendingRecordPerParty, PendingHaveRecords, SawAllStillHolds, Of

\* A locked record is granted, the lock released, the status left or changed to
\* anything but "pending_consent".
LEMMA CommitRecordsInv ==
    ASSUME RecordsInv, TypeOK', NEW r \in locked, Commit(r), UNCHANGED asked,
           status' = status \/ status' # "pending_consent"
    PROVE  RecordsInv'
<1> DEFINE g == [r EXCEPT !.granted = TRUE, !.agreed = text]
<1>1. /\ r \in records /\ ~r.granted
      /\ records' = (records \ {r}) \cup {g}
      /\ g.party = r.party /\ g.purpose = r.purpose /\ g.issue = r.issue /\ g.granted
      /\ UNCHANGED <<parties, issued>>
      /\ locked' = locked \ {r} /\ sawAll' = sawAll \ {r}
  BY GrantRecord DEF RecordsInv, TypeOK, SawAllStillHolds, Commit
<1> HIDE DEF g
<1>2. RecordsOfParties'
  BY <1>1 DEF RecordsInv, RecordsOfParties
<1>3. ConsentRecordsCurrent'
  BY <1>1 DEF RecordsInv, ConsentRecordsCurrent, Of
<1>4. OnePendingRecordPerParty'
  BY <1>1 DEF RecordsInv, OnePendingRecordPerParty
<1>5. PendingHaveRecords'
  <2>1. ASSUME status' = "pending_consent"
        PROVE  /\ Cardinality(parties) >= 2
               /\ \A p \in parties : \E x \in Of(records, "consent") : x.party = p
    BY <2>1 DEF RecordsInv, PendingHaveRecords
  <2>2. ASSUME NEW x \in Of(records, "consent")
        PROVE  \E y \in Of(records', "consent") : y.party = x.party
    <3>1. CASE x = r
      BY <1>1, <3>1 DEF Of
    <3>2. CASE x # r
      BY <1>1, <3>2 DEF Of
    <3>3. QED  BY <3>1, <3>2
  <2>3. parties' = parties
    BY <1>1
  <2>4. QED  BY <2>1, <2>2, <2>3 DEF PendingHaveRecords, Of
<1>6. SawAllStillHolds'
  <2>1. ASSUME NEW x \in locked' PROVE ~x.granted
    BY <1>1, <2>1 DEF RecordsInv, SawAllStillHolds
  <2>2. ASSUME NEW x \in sawAll', NEW p \in parties, p # x.party
        PROVE  \E s \in Granted(Of(records', x.purpose)) : s.party = p
    <3>1. PICK s \in Granted(Of(records, x.purpose)) : s.party = p
      BY <1>1, <2>2 DEF RecordsInv, SawAllStillHolds
    <3>2. s # r
      BY <1>1 DEF Granted
    <3>3. QED  BY <1>1, <3>1, <3>2 DEF Granted, Of
  <2>3. QED  BY <1>1, <2>1, <2>2 DEF SawAllStillHolds
<1>7. QED  BY <1>2, <1>3, <1>4, <1>5, <1>6 DEF RecordsInv

\* Properties of a batch of codes.
LEMMA FreshRecord ==
    ASSUME NEW purpose, NEW f \in Fresh(purpose)
    PROVE  /\ f.party \in parties /\ f.purpose = purpose
           /\ f.issue = issued + 1 /\ ~f.granted
           /\ \A h \in Fresh(purpose) : h.party = f.party => h = f
<1> DEFINE New(p) == [party |-> p, purpose |-> purpose, issue |-> issued + 1,
                      granted |-> FALSE, agreed |-> 0]
<1>1. \A h \in Fresh(purpose) : \E p \in parties : h = New(p)
  BY DEF Fresh
<1>2. ASSUME NEW p
      PROVE  /\ New(p).party = p /\ New(p).purpose = purpose
             /\ New(p).issue = issued + 1 /\ ~New(p).granted
  OBVIOUS
<1>3. PICK p \in parties : f = New(p)
  BY <1>1
<1> HIDE DEF New
<1>4. QED  BY <1>1, <1>2, <1>3

LEMMA RequestOtpRecordsInv ==
    ASSUME RecordsInv, TypeOK', RequestOtp
    PROVE  RecordsInv'
<1>1. /\ records' = Of(records, "reopen") \cup Fresh("consent")
      /\ issued \in Nat /\ issued' = issued + 1
      /\ asked'["consent"] = issued + 1
      /\ parties' = parties /\ Cardinality(parties) >= 2
      /\ sawAll' = sawAll /\ Of(sawAll, "consent") = {}
      /\ locked' = Of(locked, "reopen")
  BY DEF RecordsInv, TypeOK, RequestOtp, Purpose
<1>2. Of(records', "consent") = Fresh("consent")
  BY <1>1, FreshRecord DEF Of
<1>3. Of(records', "reopen") = Of(records, "reopen")
  BY <1>1, FreshRecord DEF Of
<1>4. RecordsOfParties'
  <2>1. ASSUME NEW r \in Of(records, "reopen")
        PROVE  r.party \in parties /\ r.issue <= issued + 1
    <3>1. r.party \in parties /\ r.issue <= issued /\ r.issue \in Int
      BY DEF RecordsInv, RecordsOfParties, Of, TypeOK, Record
    <3>2. QED  BY <1>1, <3>1
  <2>2. ASSUME NEW f \in Fresh("consent")
        PROVE  f.party \in parties /\ f.issue <= issued + 1
    BY <1>1, <2>2, FreshRecord
  <2>3. QED  BY <1>1, <2>1, <2>2 DEF RecordsOfParties
<1>5. ConsentRecordsCurrent'
  BY <1>1, <1>2, FreshRecord DEF ConsentRecordsCurrent
<1>6. OnePendingRecordPerParty'
  BY <1>1, FreshRecord DEF RecordsInv, OnePendingRecordPerParty, Of
<1>7. PendingHaveRecords'
  <2>1. ASSUME NEW p \in parties
        PROVE  \E f \in Fresh("consent") : f.party = p
    <3> DEFINE f == [party |-> p, purpose |-> "consent", issue |-> issued + 1,
                     granted |-> FALSE, agreed |-> 0]
    <3>1. f \in Fresh("consent") /\ f.party = p
      BY DEF Fresh
    <3>2. QED  BY <3>1
  <2>2. \A p \in parties' : \E r \in Of(records', "consent") : r.party = p
    BY <1>1, <1>2, <2>1
  <2>3. Cardinality(parties') >= 2
    BY <1>1
  <2>4. QED  BY <2>2, <2>3 DEF PendingHaveRecords, Of
<1>8. SawAllStillHolds'
  <2>1. ASSUME NEW r \in sawAll PROVE r.purpose = "reopen"
    BY <1>1 DEF RecordsInv, TypeOK, Of, Record, Purpose
  <2>2. QED  BY <1>1, <1>3, <2>1 DEF RecordsInv, SawAllStillHolds, Of
<1>9. QED  BY <1>4, <1>5, <1>6, <1>7, <1>8 DEF RecordsInv

LEMMA RequestReopenOtpRecordsInv ==
    ASSUME RecordsInv, TypeOK', RequestReopenOtp
    PROVE  RecordsInv'
<1>1. /\ records' = Of(records, "consent") \cup Granted(Of(records, "reopen"))
                      \cup Fresh("reopen")
      /\ issued \in Nat /\ issued' = issued + 1
      /\ status = "reopen_requested"
      /\ UNCHANGED <<status, parties, asked, locked, sawAll>>
      /\ Of(locked, "reopen") = {}
  BY DEF RecordsInv, TypeOK, RequestReopenOtp
<1>2. Of(records', "consent") = Of(records, "consent")
  BY <1>1, FreshRecord DEF Of, Granted
<1>3. RecordsOfParties'
  <2>1. ASSUME NEW r \in records
        PROVE  r.party \in parties /\ r.issue <= issued + 1
    <3>1. r.party \in parties /\ r.issue <= issued /\ r.issue \in Int
      BY DEF RecordsInv, RecordsOfParties, TypeOK, Record
    <3>2. QED  BY <1>1, <3>1
  <2>2. ASSUME NEW f \in Fresh("reopen")
        PROVE  f.party \in parties /\ f.issue <= issued + 1
    BY <1>1, <2>2, FreshRecord
  <2>3. QED  BY <1>1, <2>1, <2>2 DEF RecordsOfParties, Of, Granted
<1>4. ConsentRecordsCurrent'
  BY <1>1, <1>2 DEF RecordsInv, ConsentRecordsCurrent, Of
<1>5. OnePendingRecordPerParty'
  BY <1>1, FreshRecord DEF RecordsInv, OnePendingRecordPerParty, Of, Granted
<1>6. PendingHaveRecords'
  BY <1>1 DEF PendingHaveRecords
<1>7. SawAllStillHolds'
  <2>1. ASSUME NEW r \in sawAll PROVE r.purpose = "consent"
    BY <1>1 DEF RecordsInv, TypeOK, Of, Record, Purpose
  <2>2. ASSUME NEW r \in sawAll, NEW p \in parties, p # r.party
        PROVE  \E s \in Granted(Of(records', r.purpose)) : s.party = p
    <3>1. PICK s \in Granted(Of(records, r.purpose)) : s.party = p
      BY <2>2 DEF RecordsInv, SawAllStillHolds
    <3>2. Granted(Of(records', r.purpose)) = Granted(Of(records, r.purpose))
      BY <1>2, <2>1
    <3>3. QED  BY <3>1, <3>2
  <2>3. \A r \in locked : ~r.granted
    BY DEF RecordsInv, SawAllStillHolds
  <2>4. QED  BY <1>1, <2>2, <2>3 DEF SawAllStillHolds, Of, Granted
<1>8. QED  BY <1>3, <1>4, <1>5, <1>6, <1>7 DEF RecordsInv

LEMMA BeginConfirmRecordsInv ==
    ASSUME RecordsInv, TypeOK', NEW r \in records, BeginConfirm(r)
    PROVE  RecordsInv'
<1> DEFINE g == [r EXCEPT !.granted = TRUE, !.agreed = text]
<1>1. /\ UNCHANGED <<status, parties, records, issued, asked>>
      /\ ~r.granted /\ locked' = locked \cup {r}
      /\ sawAll' \subseteq sawAll \cup {r}
      /\ r \in sawAll' \ sawAll => Everyone(Grant(r), r.purpose)
      /\ r.purpose \in Purpose
  BY DEF BeginConfirm, RecordsInv, TypeOK, Record
<1>2. Grant(r) = (records \ {r}) \cup {g} /\ g.party = r.party
  BY GrantRecord DEF RecordsInv
<1> HIDE DEF g
<1>3. ASSUME Everyone(Grant(r), r.purpose), NEW p \in parties, p # r.party
      PROVE  \E s \in Granted(Of(records, r.purpose)) : s.party = p
  <2>1. PICK s \in Granted(Of(Grant(r), r.purpose)) : s.party = p
    <3>1. CASE r.purpose = "consent"
      BY <1>3, <3>1 DEF Everyone, AllPartiesConsented
    <3>2. CASE r.purpose = "reopen"
      BY <1>3, <3>2 DEF Everyone, AllPartiesConfirmedReopen
    <3>3. QED  BY <1>1, <3>1, <3>2 DEF Purpose
  <2>2. s \in records
    BY <1>2, <1>3, <2>1 DEF Granted, Of
  <2>3. QED  BY <2>1, <2>2 DEF Granted, Of
<1>4. SawAllStillHolds'
  BY <1>1, <1>3 DEF RecordsInv, SawAllStillHolds, Granted, Of
<1>5. QED
  BY <1>1, <1>4 DEF RecordsInv, RecordsOfParties, ConsentRecordsCurrent,
     OnePendingRecordPerParty, PendingHaveRecords, Of

\* set_parties and deletion empty the records, and are not taken while pending.
LEMMA NoRecordsRecordsInv ==
    ASSUME TypeOK', records' = {}, locked' = {}, sawAll' = {},
           status' # "pending_consent"
    PROVE  RecordsInv'
  BY DEF RecordsInv, RecordsOfParties, ConsentRecordsCurrent, Of,
     OnePendingRecordPerParty, PendingHaveRecords, SawAllStillHolds

LEMMA NextRecordsInv == RecordsInv /\ [Next]_vars => RecordsInv'
<1> SUFFICES ASSUME RecordsInv, [Next]_vars PROVE RecordsInv'
  OBVIOUS
<1>0. TypeOK /\ TypeOK'
  BY NextTypeOK DEF RecordsInv
<1>1. ASSUME NEW S \in SUBSET Party, SetParties(S) PROVE RecordsInv'
  BY <1>0, <1>1, NoRecordsRecordsInv DEF SetParties, Editable, TypeOK
<1>2. CASE PatchParties
  BY <1>0, <1>2, RecordsUntouched DEF PatchParties
<1>3. ASSUME NEW request \in Requests, CheckStatus(request) PROVE RecordsInv'
  BY <1>0, <1>3, RecordsUntouched DEF CheckStatus
<1>4. CASE SaveText
  BY <1>0, <1>4, RecordsUntouched DEF SaveText
<1>5. ASSUME NEW e \in Evidence, CreateEvidence(e) PROVE RecordsInv'
  BY <1>0, <1>5, RecordsUntouched DEF CreateEvidence
<1>6. ASSUME NEW e \in Evidence, ConfirmUpload(e) PROVE RecordsInv'
  BY <1>0, <1>6, RecordsUntouched DEF ConfirmUpload
<1>7. CASE DeleteAgreement
  BY <1>0, <1>7, NoRecordsRecordsInv DEF DeleteAgreement, TypeOK
<1>8. CASE RequestOtp
  BY <1>0, <1>8, RequestOtpRecordsInv
<1>9. ASSUME NEW r \in records, BeginConfirm(r) PROVE RecordsInv'
  BY <1>0, <1>9, BeginConfirmRecordsInv
<1>10. ASSUME NEW r \in locked, CommitGrant(r) PROVE RecordsInv'
  BY <1>0, <1>10, CommitRecordsInv DEF CommitGrant, Commit
<1>11. ASSUME NEW r \in locked, CommitLastConsent(r) PROVE RecordsInv'
  <2>1. status' = status \/ status' # "pending_consent"
    BY <1>11, NextStateOf DEF CommitLastConsent
  <2>2. Commit(r) /\ UNCHANGED asked
    BY <1>11 DEF CommitLastConsent, Commit
  <2>3. QED  BY <1>0, <2>1, <2>2, CommitRecordsInv
<1>12. ASSUME NEW r \in locked, CommitLastReopen(r) PROVE RecordsInv'
  <2>1. status' # "pending_consent"
    BY <1>12, NextStateOf DEF CommitLastReopen
  <2>2. Commit(r) /\ UNCHANGED asked
    BY <1>12 DEF CommitLastReopen, Commit
  <2>3. QED  BY <1>0, <2>1, <2>2, CommitRecordsInv
<1>13. ASSUME NEW r \in locked, AbortConfirm(r) PROVE RecordsInv'
  BY <1>0, <1>13 DEF AbortConfirm, RecordsInv, RecordsOfParties, ConsentRecordsCurrent,
     OnePendingRecordPerParty, PendingHaveRecords, SawAllStillHolds, Of, Granted
<1>14. CASE SealAgreement
  <2>1. status' # "pending_consent"
    BY <1>14, NextStateOf DEF SealAgreement
  <2>2. QED  BY <1>0, <1>14, <2>1, RecordsUntouched DEF SealAgreement
<1>15. CASE RequestReopen
  <2>1. status' # "pending_consent"
    BY <1>15, NextStateOf DEF RequestReopen
  <2>2. asked'["consent"] = asked["consent"]
    BY <1>0, <1>15 DEF RequestReopen, TypeOK, Purpose
  <2>3. QED  BY <1>0, <1>15, <2>1, <2>2, RecordsUntouched DEF RequestReopen
<1>16. CASE RequestReopenOtp
  BY <1>0, <1>16, RequestReopenOtpRecordsInv
<1>17. CASE CloseAgreement \/ CancelReopen
  <2>1. status' # "pending_consent"
    BY <1>17, NextStateOf DEF CloseAgreement, CancelReopen, Move
  <2>2. QED  BY <1>0, <1>17, <2>1, RecordsUntouched DEF CloseAgreement, CancelReopen, Move
<1>18. CASE ReopenAgreement
  <2>1. status' # "pending_consent"
    BY <1>18, NextStateOf DEF ReopenAgreement
  <2>2. QED  BY <1>0, <1>18, <2>1, RecordsUntouched DEF ReopenAgreement
<1>19. CASE UNCHANGED vars
  BY <1>0, <1>19, RecordsUntouched DEF vars
<1>20. QED
  BY <1>1, <1>2, <1>3, <1>4, <1>5, <1>6, <1>7, <1>8, <1>9, <1>10, <1>11, <1>12,
     <1>13, <1>14, <1>15, <1>16, <1>17, <1>18, <1>19 DEF Next

LEMMA RecordsCorrect == Spec => []RecordsInv
<1>1. QED  BY InitRecordsInv, NextRecordsInv, PTL DEF Spec

-----------------------------------------------------------------------------
(* What follows from it. *)

\* No party ever has two codes of one purpose to confirm.
THEOREM OneCodePerParty == Spec => []OnePendingRecordPerParty
<1>1. RecordsInv => OnePendingRecordPerParty
  BY DEF RecordsInv
<1>2. QED  BY <1>1, RecordsCorrect, PTL

\* While consent is pending every party has one record, of the current round.
THEOREM PendingNeverStuck == Spec => []PendingPartiesAllAsked
<1>1. RecordsInv => PendingPartiesAllAsked
  BY DEF RecordsInv, ConsentRecordsCurrent, PendingHaveRecords, PendingPartiesAllAsked, Of
<1>2. QED  BY <1>1, RecordsCorrect, PTL

\* A pending agreement is sealed on grants of the current round only.
THEOREM PendingSealIsFresh == Spec => PendingSealFreshConsent
<1>1. ASSUME RecordsInv, Next, status = "pending_consent", status' = "sealed"
      PROVE  \A p \in parties : GrantedThisRound(p, "consent")
  <2>1. SealAgreement
    BY <1>1, NextStateOf
    DEF Next, SetParties, Editable, PatchParties, CheckStatus, SaveText, CreateEvidence,
        ConfirmUpload, DeleteAgreement, RequestOtp, BeginConfirm, CommitGrant,
        CommitLastConsent, CommitLastReopen, AbortConfirm, RequestReopen,
        RequestReopenOtp, CloseAgreement, CancelReopen, Move, ReopenAgreement
  <2>2. AllPartiesConsented(records)
    BY <1>1, <2>1 DEF SealAgreement
  <2>3. asked["consent"] \in Int
    BY <1>1 DEF RecordsInv, TypeOK, Purpose
  <2>4. QED
    BY <1>1, <2>2, <2>3
    DEF AllPartiesConsented, GrantedThisRound, RecordsInv, ConsentRecordsCurrent,
        Granted, Of
<1>2. RecordsInv /\ [Next]_vars =>
        [status = "pending_consent" /\ status' = "sealed"
           => \A p \in parties : GrantedThisRound(p, "consent")]_vars
  BY <1>1
<1>3. QED  BY <1>2, RecordsCorrect, PTL DEF Spec, PendingSealFreshConsent

\* What the commit of a locked record whose transaction saw everyone leaves.
LEMMA EveryoneGranted ==
    ASSUME RecordsInv, NEW r \in sawAll, Commit(r), NEW p \in parties
    PROVE  \E s \in Granted(Of(records', r.purpose)) : s.party = p
<1> DEFINE g == [r EXCEPT !.granted = TRUE, !.agreed = text]
<1>1. r \in records /\ ~r.granted
  BY DEF RecordsInv, TypeOK, SawAllStillHolds
<1>2. /\ records' = (records \ {r}) \cup {g}
      /\ g.party = r.party /\ g.purpose = r.purpose /\ g.granted
  BY <1>1, GrantRecord DEF RecordsInv, Commit
<1> HIDE DEF g
<1>3. CASE p = r.party
  BY <1>2, <1>3 DEF Granted, Of
<1>4. CASE p # r.party
  <2>1. PICK s \in Granted(Of(records, r.purpose)) : s.party = p
    BY <1>4 DEF RecordsInv, SawAllStillHolds
  <2>2. QED  BY <1>1, <1>2, <2>1 DEF Granted, Of
<1>5. QED  BY <1>3, <1>4

\* Pending consent becomes active only on grants by every party, all of the
\* current round.
THEOREM ActivationNeedsEveryone == Spec => ActivatedByEveryone
<1>1. ASSUME RecordsInv, RecordsInv', Next,
             status = "pending_consent", status' = "active"
      PROVE  \A p \in parties' : GrantedThisRound(p, "consent")'
  <2>1. PICK r \in locked : CommitLastConsent(r)
    BY <1>1, NextStateOf
    DEF Next, SetParties, Editable, PatchParties, CheckStatus, SaveText, CreateEvidence,
        ConfirmUpload, DeleteAgreement, RequestOtp, BeginConfirm, CommitGrant,
        CommitLastReopen, AbortConfirm, SealAgreement, RequestReopen,
        RequestReopenOtp, CloseAgreement, CancelReopen, Move, ReopenAgreement
  <2>2. r \in sawAll /\ r.purpose = "consent" /\ Commit(r) /\ parties' = parties
    BY <2>1 DEF CommitLastConsent, Commit
  <2>3. ASSUME NEW p \in parties
        PROVE  \E s \in Granted(Of(records', "consent")) : s.party = p
    BY <1>1, <2>2, EveryoneGranted
  <2>4. \A s \in Of(records', "consent") : s.issue = asked'["consent"]
    BY <1>1 DEF RecordsInv, ConsentRecordsCurrent, Of
  <2>5. asked'["consent"] \in Int
    BY <1>1 DEF RecordsInv, TypeOK, Purpose
  <2>6. QED  BY <2>2, <2>3, <2>4, <2>5 DEF GrantedThisRound, Granted, Of
<1>2. RecordsInv /\ RecordsInv' /\ [Next]_vars =>
        [status = "pending_consent" /\ status' = "active"
           => \A p \in parties' : GrantedThisRound(p, "consent")']_vars
  BY <1>1
<1>3. QED  BY <1>2, RecordsCorrect, PTL DEF Spec, ActivatedByEveryone

\* A reopening completes only on a reopen grant by every party.
THEOREM ReopeningNeedsEveryone == Spec => ReopenedByEveryone
<1>1. ASSUME RecordsInv, Next, status = "reopen_requested", status' = "active"
      PROVE  \A p \in parties' : \E r \in Granted(Of(records', "reopen")) : r.party = p
  <2>1. PICK r \in locked : CommitLastReopen(r)
    BY <1>1, NextStateOf
    DEF Next, SetParties, Editable, PatchParties, CheckStatus, SaveText, CreateEvidence,
        ConfirmUpload, DeleteAgreement, RequestOtp, BeginConfirm, CommitGrant,
        CommitLastConsent, AbortConfirm, SealAgreement, RequestReopen,
        RequestReopenOtp, CloseAgreement, CancelReopen, Move, ReopenAgreement
  <2>2. r \in sawAll /\ r.purpose = "reopen" /\ Commit(r) /\ parties' = parties
    BY <2>1 DEF CommitLastReopen, Commit
  <2>3. QED  BY <1>1, <2>2, EveryoneGranted
<1>2. RecordsInv /\ [Next]_vars =>
        [status = "reopen_requested" /\ status' = "active"
           => \A p \in parties' :
                \E r \in Granted(Of(records', "reopen")) : r.party = p]_vars
  BY <1>1
<1>3. QED  BY <1>2, RecordsCorrect, PTL DEF Spec, ReopenedByEveryone

-----------------------------------------------------------------------------
(* Seals, without the single-party reopening. *)

\* No content that can be sealed digests to the empty hash.
LEMMA ContentIsNotNoSeal ==
    ASSUME Cardinality(parties) >= 2
    PROVE  Content # NoSeal
  BY FS_EmptySet DEF Content, NoSeal

LEMMA NextSealMatchesStatus ==
    ASSUME "reopen_agreement" \notin Unrouted,
           TypeOK, SealMatchesStatus, [Next]_vars
    PROVE  SealMatchesStatus'
<1>1. ASSUME UNCHANGED <<sealedAt, seal>>, (status' \in Sealed) <=> (status \in Sealed)
      PROVE  SealMatchesStatus'
  BY <1>1 DEF SealMatchesStatus
<1>2. ASSUME sealedAt' = FALSE, seal' = NoSeal, status' \notin Sealed
      PROVE  SealMatchesStatus'
  BY <1>2 DEF SealMatchesStatus
<1>3. CASE RequestOtp
  BY <1>1, <1>3, NextStateOf DEF RequestOtp, Sealed, AcceptsConsentRequest
<1>4. ASSUME NEW r \in locked, CommitLastConsent(r) PROVE SealMatchesStatus'
  BY <1>1, <1>4, NextStateOf DEF CommitLastConsent, Sealed
<1>5. ASSUME NEW r \in locked, CommitLastReopen(r) PROVE SealMatchesStatus'
  BY <1>2, <1>5, NextStateOf DEF CommitLastReopen, Sealed
<1>6. CASE SealAgreement
  <2>1. sealedAt' = TRUE /\ seal' # NoSeal
    BY <1>6, ContentIsNotNoSeal DEF SealAgreement
  <2>2. status' \in Sealed
    BY <1>6, NextStateOf DEF SealAgreement, Sealed
  <2>3. QED  BY <2>1, <2>2 DEF SealMatchesStatus
<1>7. CASE RequestReopen
  BY <1>1, <1>7, NextStateOf DEF RequestReopen, Sealed
<1>8. CASE CloseAgreement \/ CancelReopen
  BY <1>1, <1>8, NextStateOf DEF CloseAgreement, CancelReopen, Move, Sealed
<1>9. CASE ReopenAgreement
  BY <1>9 DEF ReopenAgreement
<1>10. CASE DeleteAgreement
  BY <1>2, <1>10 DEF DeleteAgreement, Sealed
<1>11. CASE UNCHANGED <<status, seal, sealedAt>>
  BY <1>1, <1>11
<1>12. QED
  BY <1>3, <1>4, <1>5, <1>6, <1>7, <1>8, <1>9, <1>10, <1>11
  DEF Next, vars, SetParties, PatchParties, CheckStatus, SaveText, CreateEvidence,
      ConfirmUpload, BeginConfirm, CommitGrant, AbortConfirm, RequestReopenOtp

\* A seal hash and date are there exactly while the status says sealed.
THEOREM SealIsThere ==
    ASSUME "reopen_agreement" \notin Unrouted
    PROVE  Spec => []SealMatchesStatus
<1>1. Init => SealMatchesStatus
  BY DEF Init, SealMatchesStatus, Sealed
<1>2. TypeOK /\ SealMatchesStatus /\ [Next]_vars => SealMatchesStatus'
  BY NextSealMatchesStatus
<1>3. QED  BY <1>1, <1>2, TypeCorrect, PTL DEF Spec

\* No seal is ever taken off or replaced without becoming the next revision.
THEOREM SealsAreKept ==
    ASSUME "reopen_agreement" \notin Unrouted
    PROVE  Spec => NoSealLost
<1> DEFINE Kept == status' # "deleted" =>
        \/ revisions' = revisions /\ (seal = NoSeal \/ seal' = seal)
        \/ \E shot \in Contents :
              revisions' = Append(revisions, [seal |-> seal, snapshot |-> shot])
<1>1. ASSUME TypeOK, SealMatchesStatus, Next PROVE Kept
  <2>1. CASE SealAgreement
    <3>1. seal = NoSeal
      BY <1>1, <2>1 DEF SealAgreement, SealMatchesStatus, Sealed
    <3>2. QED  BY <2>1, <3>1 DEF SealAgreement
  <2>2. ASSUME NEW r \in locked, CommitLastReopen(r) PROVE Kept
    BY <1>1, <2>2, ContentType DEF CommitLastReopen
  <2>3. CASE DeleteAgreement
    BY <2>3 DEF DeleteAgreement
  <2>4. CASE UNCHANGED <<revisions, seal>>
    BY <2>4
  <2>5. QED
    BY <1>1, <2>1, <2>2, <2>3, <2>4
    DEF Next, SetParties, PatchParties, CheckStatus, SaveText, CreateEvidence,
        ConfirmUpload, RequestOtp, BeginConfirm, CommitGrant, CommitLastConsent,
        AbortConfirm, RequestReopen, RequestReopenOtp, CloseAgreement, CancelReopen,
        Move, ReopenAgreement
<1>2. TypeOK /\ SealMatchesStatus /\ [Next]_vars => [Kept]_vars
  BY <1>1
<1>3. QED  BY <1>2, TypeCorrect, SealIsThere, PTL DEF Spec, NoSealLost

-----------------------------------------------------------------------------
(* AgreementLifecycle implements AgreementContract as long as the single-    *)
(* party reopening has no caller.                                            *)

LEMMA SameTable ==
    ASSUME NEW s, NEW a
    PROVE  Contract!NextState(s, a) = NextState(s, a)
BY DEF Contract!NextState, Contract!Transitions, NextState, Transitions

\* Who has granted stays the same when the granted records do.
LEMMA SameGranters ==
    ASSUME NEW u, Granted(Of(records', u)) = Granted(Of(records, u))
    PROVE  Granters(u)' = Granters(u)
BY DEF Granters

\* A commit adds the record's party to those who have granted its purpose.
LEMMA CommitGranters ==
    ASSUME RecordsInv, NEW r \in locked, Commit(r)
    PROVE  /\ Granters(r.purpose)' = Granters(r.purpose) \cup {r.party}
           /\ \A u \in Purpose \ {r.purpose} : Granters(u)' = Granters(u)
           /\ r.party \in parties /\ r.purpose \in Purpose
<1> DEFINE g == [r EXCEPT !.granted = TRUE, !.agreed = text]
<1>1. r \in records /\ ~r.granted /\ r.party \in parties /\ r.purpose \in Purpose
  BY DEF RecordsInv, TypeOK, SawAllStillHolds, RecordsOfParties, Record
<1>2. /\ records' = (records \ {r}) \cup {g}
      /\ g.party = r.party /\ g.purpose = r.purpose /\ g.granted
  BY <1>1, GrantRecord DEF RecordsInv, Commit
<1> HIDE DEF g
<1>3. Granters(r.purpose)' = Granters(r.purpose) \cup {r.party}
  BY <1>1, <1>2 DEF Granters, Granted, Of
<1>4. ASSUME NEW u \in Purpose \ {r.purpose} PROVE Granters(u)' = Granters(u)
  BY <1>1, <1>2, <1>4 DEF Granters, Granted, Of
<1>5. QED  BY <1>1, <1>3, <1>4

\* Whoever has granted a record is a party.
LEMMA GrantersAreParties ==
    ASSUME RecordsInv, NEW u PROVE Granters(u) \subseteq parties
BY DEF RecordsInv, RecordsOfParties, Granters, Granted, Of

\* After the commit of a transaction that saw everyone, everyone has granted.
LEMMA LastGranters ==
    ASSUME RecordsInv, RecordsInv', NEW r \in sawAll, Commit(r), parties' = parties
    PROVE  Granters(r.purpose)' = parties
<1>1. parties \subseteq Granters(r.purpose)'
  BY EveryoneGranted DEF Granters
<1>2. Granters(r.purpose)' \subseteq parties
  BY DEF RecordsInv, RecordsOfParties, Granters, Granted, Of
<1>3. QED  BY <1>1, <1>2

-----------------------------------------------------------------------------
(* One lemma for each way a confirmation ends. *)

LEMMA CommitGrantKeeps ==
    ASSUME RecordsInv, NEW r \in locked, CommitGrant(r)
    PROVE  Contract!Next
<1>1. Commit(r) /\ UNCHANGED <<status, parties, seal, revisions>>
  BY DEF CommitGrant, Commit
<1>2. CASE r.purpose = "consent"
  <2>1. Contract!Consent(r.party)
    BY <1>1, <1>2, CommitGranters DEF Contract!Consent, Purpose
  <2>2. QED  BY <1>1, <2>1, CommitGranters DEF Contract!Next
<1>3. CASE r.purpose = "reopen"
  <2>1. Contract!AgreeToReopen(r.party)
    BY <1>1, <1>3, CommitGranters DEF Contract!AgreeToReopen, Purpose
  <2>2. QED  BY <1>1, <2>1, CommitGranters DEF Contract!Next
<1>4. QED  BY <1>1, <1>2, <1>3, CommitGranters DEF Purpose

LEMMA CommitLastConsentKeeps ==
    ASSUME RecordsInv, RecordsInv', NEW r \in locked, CommitLastConsent(r)
    PROVE  Contract!Next
<1>1. /\ Commit(r) /\ r \in sawAll /\ r.purpose = "consent"
      /\ UNCHANGED <<parties, seal, revisions>>
  BY DEF CommitLastConsent, Commit
<1>2. /\ Granters("consent")' = parties
      /\ Granters("consent")' = Granters("consent") \cup {r.party}
      /\ Granters("reopen")' = Granters("reopen")
      /\ r.party \in parties
  BY <1>1, LastGranters, CommitGranters DEF Purpose
<1>3. status' = status \/ status' \in Contract!NextState(status, "all_consented")
  BY SameTable DEF CommitLastConsent
<1>4. Contract!Consent(r.party)
  BY <1>1, <1>2, <1>3 DEF Contract!Consent, Contract!Take
<1>5. QED  BY <1>2, <1>4 DEF Contract!Next

LEMMA CommitLastReopenKeeps ==
    ASSUME RecordsInv, RecordsInv', NEW r \in locked, CommitLastReopen(r)
    PROVE  Contract!Next
<1>1. /\ Commit(r) /\ r \in sawAll /\ r.purpose = "reopen" /\ parties' = parties
      /\ seal' = NoSeal
      /\ revisions' = Append(revisions, [seal |-> seal, snapshot |-> Content])
  BY DEF CommitLastReopen, Commit
<1>2. /\ Granters("reopen")' = parties
      /\ Granters("reopen")' = Granters("reopen") \cup {r.party}
      /\ Granters("consent")' = Granters("consent")
      /\ r.party \in parties
  BY <1>1, LastGranters, CommitGranters DEF Purpose
<1>3. status' \in Contract!NextState(status, "bilateral_confirm")
  BY SameTable DEF CommitLastReopen
<1>4. Content \in Contents
  BY ContentType DEF RecordsInv
<1>5. Contract!AgreeToReopen(r.party)
  BY <1>1, <1>2, <1>3, <1>4 DEF Contract!AgreeToReopen, Contract!Take
<1>6. QED  BY <1>2, <1>5 DEF Contract!Next

-----------------------------------------------------------------------------
\* Every step of the lifecycle is a step of the contract, or none.
LEMMA NextKeepsContract ==
    ASSUME "reopen_agreement" \notin Unrouted, RecordsInv, RecordsInv', [Next]_vars
    PROVE  [Contract!Next]_(Contract!contract)
<1> DEFINE Stutter == UNCHANGED <<status, parties, seal, revisions,
                                  Granters("consent"), Granters("reopen")>>
<1>1. ASSUME UNCHANGED <<status, parties, records, seal, revisions>> PROVE Stutter
  BY <1>1, SameGranters
<1>2. ASSUME records' = {} PROVE Granters("consent")' = {} /\ Granters("reopen")' = {}
  BY <1>2 DEF Granters, Granted, Of
<1>3. ASSUME NEW S \in SUBSET Party, SetParties(S) PROVE Contract!Next
  BY <1>2, <1>3 DEF SetParties, Contract!Next, Contract!ReplaceParties,
     Editable, Contract!Editable
<1>4. CASE DeleteAgreement
  BY <1>2, <1>4 DEF DeleteAgreement, Contract!Next, Contract!Delete
<1>5. CASE RequestOtp
  <2>1. Granters("consent")' = {} /\ Granters("reopen")' = Granters("reopen")
    BY <1>5, FreshRecord DEF RequestOtp, RecordsInv, TypeOK, Granters, Granted, Of
  <2>2. \/ status' \in Contract!NextState(status, "request_consent")
        \/ status = "pending_consent" /\ status' = status
    BY <1>5, SameTable DEF RequestOtp
  <2>3. QED
    BY <1>5, <2>1, <2>2 DEF RequestOtp, Contract!Next, Contract!AskConsent, Contract!Take
<1>6. CASE SealAgreement
  <2>1. Content \in Contents /\ Content # NoSeal
    BY <1>6, ContentType, ContentIsNotNoSeal DEF SealAgreement, RecordsInv
  <2>2. status = "pending_consent" => Granters("consent") = parties
    <3>1. Granters("consent") \subseteq parties
      BY GrantersAreParties
    <3>2. QED  BY <1>6, <3>1 DEF SealAgreement, AllPartiesConsented, Granters
  <2>3. Granters("consent")' = Granters("consent") /\ Granters("reopen")' = Granters("reopen")
    BY <1>6, SameGranters DEF SealAgreement
  <2>4. status' \in Contract!NextState(status, "seal")
    BY <1>6, SameTable DEF SealAgreement
  <2>5. QED
    BY <1>6, <2>1, <2>2, <2>3, <2>4 DEF SealAgreement, Contract!Next, Contract!Seal,
       Contract!Take
<1>7. CASE RequestReopen
  <2>1. Granters("consent")' = Granters("consent") /\ Granters("reopen")' = Granters("reopen")
    BY <1>7, SameGranters DEF RequestReopen
  <2>2. QED
    BY <1>7, <2>1, SameTable DEF RequestReopen, Contract!Next, Contract!AskReopen,
       Contract!Take
<1>8. CASE RequestReopenOtp
  <2>1. Granters("consent")' = Granters("consent") /\ Granters("reopen")' = Granters("reopen")
    BY <1>8, FreshRecord
       DEF RequestReopenOtp, RecordsInv, TypeOK, Granters, Granted, Of
  <2>2. Stutter
    BY <1>8, <2>1 DEF RequestReopenOtp
  <2>3. QED  BY <2>2 DEF Contract!contract
<1>9. CASE CloseAgreement \/ CancelReopen
  <2>1. Granters("consent")' = Granters("consent") /\ Granters("reopen")' = Granters("reopen")
    BY <1>9, SameGranters DEF CloseAgreement, CancelReopen, Move
  <2>2. \/ status' \in Contract!NextState(status, "close")
        \/ status' \in Contract!NextState(status, "cancel_reopen")
    BY <1>9, SameTable DEF CloseAgreement, CancelReopen, Move
  <2>3. QED
    BY <1>9, <2>1, <2>2 DEF CloseAgreement, CancelReopen, Move, Contract!Next,
       Contract!Move, Contract!Take
<1>10. CASE ReopenAgreement
  BY <1>10 DEF ReopenAgreement
<1>11. CASE UNCHANGED <<status, parties, records, seal, revisions>>
  BY <1>1, <1>11 DEF Contract!contract
<1>12. QED
  BY <1>3, <1>4, <1>5, <1>6, <1>7, <1>8, <1>9, <1>10, <1>11, CommitGrantKeeps,
     CommitLastConsentKeeps, CommitLastReopenKeeps
  DEF Next, vars, PatchParties, CheckStatus, SaveText, CreateEvidence, ConfirmUpload,
      BeginConfirm, AbortConfirm

\* Whatever requests run concurrently, what is committed is a behaviour of the
\* contract: atomic confirmations, seals with everyone's pending consent, and
\* seals taken off into the history with everyone's agreement.
THEOREM LifecycleKeepsContract ==
    ASSUME "reopen_agreement" \notin Unrouted
    PROVE  Spec => KeepsContract
<1>1. Init => Contract!Init
  BY DEF Init, Contract!Init, Granters, Granted, Of
<1>2. RecordsInv /\ RecordsInv' /\ [Next]_vars => [Contract!Next]_(Contract!contract)
  BY NextKeepsContract
<1>3. QED  BY <1>1, <1>2, RecordsCorrect, PTL DEF Spec, KeepsContract, Contract!Spec
=============================================================================
