-------------------------- MODULE AgreementStates --------------------------
(***************************************************************************)
(* The agreement status machine of apps/agreements/domain: the statuses,   *)
(* the transition table, and the sets of statuses the policies test.       *)
(***************************************************************************)

\* The status column, and "deleted" for an agreement whose row is gone.
Status == {"draft", "pending_consent", "active", "sealed", "reopen_requested",
           "closed", "archived", "expired", "deleted"}

\* _TRANSITIONS: current status, action, next status.
Transitions ==
    { <<"draft", "add_party", "draft">>,
      <<"draft", "request_consent", "pending_consent">>,
      <<"pending_consent", "all_consented", "active">>,
      <<"pending_consent", "seal", "sealed">>,
      <<"active", "request_consent", "pending_consent">>,
      <<"active", "seal", "sealed">>,
      <<"sealed", "close", "closed">>,
      <<"sealed", "reopen", "active">>,
      <<"sealed", "request_reopen", "reopen_requested">>,
      <<"reopen_requested", "bilateral_confirm", "active">>,
      <<"reopen_requested", "cancel_reopen", "sealed">>,
      <<"sealed", "archive", "archived">>,
      <<"closed", "archive", "archived">>,
      <<"sealed", "expire", "expired">> }

\* next_state: the one successor, or no successor where the code raises a
\* DomainError and the transaction rolls back.
NextState(current, action) ==
    {t[3] : t \in {u \in Transitions : u[1] = current /\ u[2] = action}}

\* Statuses in which the owner may replace the parties or edit the text.
Editable == {"draft", "active"}

\* Statuses in which evidence may be requested (generate_upload_url).
AcceptsEvidence == {"draft", "pending_consent", "active"}

\* Statuses from which consent may be requested (can_request_consent).
AcceptsConsentRequest == {"draft", "pending_consent", "active"}

\* Statuses the delete view accepts.
Deletable == {"draft", "pending_consent"}

\* Statuses of an agreement that carries a seal.
Sealed == {"sealed", "reopen_requested", "closed", "archived", "expired"}
=============================================================================
