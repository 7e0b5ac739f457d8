------------------------- MODULE AgreementContract -------------------------
(***************************************************************************)
(* What an agreement promises its parties, with every request atomic: who  *)
(* has consented, who has agreed to reopen, what is sealed, and the seals  *)
(* that were taken off.  There are no codes, rounds, locks or requests in  *)
(* flight here: AgreementLifecycle shows that those never show through.    *)
(***************************************************************************)
EXTENDS Sequences, FiniteSets, AgreementStates

CONSTANTS
    Party,       \* parties an agreement may have
    Contents,    \* what can be sealed
    NoSeal       \* stands for no seal

VARIABLES
    status,      \* where the agreement is in the table of transitions
    parties,     \* its parties
    consented,   \* those who have consented in this round
    reopeners,   \* those who have agreed to a reopening
    seal,        \* what is sealed
    history      \* the seals taken off, each with its snapshot

contract == <<status, parties, consented, reopeners, seal, history>>

Take(action) == status' \in NextState(status, action)

-----------------------------------------------------------------------------
Init ==
    /\ status = "draft"
    /\ parties = {} /\ consented = {} /\ reopeners = {}
    /\ seal = NoSeal /\ history = <<>>

\* Other parties have consented to nothing.
ReplaceParties ==
    /\ status \in Editable
    /\ parties' \in SUBSET Party
    /\ consented' = {} /\ reopeners' = {}
    /\ UNCHANGED <<status, seal, history>>

\* A round of consent begins, and whoever consented before is asked again.
AskConsent ==
    /\ \/ Take("request_consent")
       \/ status = "pending_consent" /\ UNCHANGED status
    /\ consented' = {}
    /\ UNCHANGED <<parties, reopeners, seal, history>>

\* A party consents.  The last one may make a first agreement active.
Consent(p) ==
    /\ consented' = consented \cup {p}
    /\ \/ UNCHANGED status
       \/ consented' = parties /\ Take("all_consented")
    /\ UNCHANGED <<parties, reopeners, seal, history>>

\* Where consent is pending, a seal needs all of it.
Seal ==
    /\ Take("seal")
    /\ status = "pending_consent" => consented = parties
    /\ seal' \in Contents \ {NoSeal}
    /\ UNCHANGED <<parties, consented, reopeners, history>>

AskReopen ==
    /\ Take("request_reopen")
    /\ UNCHANGED <<parties, consented, reopeners, seal, history>>

\* A party agrees to reopen.  Only the last one can take the seal off, and it
\* goes into the history.
AgreeToReopen(p) ==
    /\ reopeners' = reopeners \cup {p}
    /\ \/ UNCHANGED <<status, seal, history>>
       \/ /\ reopeners' = parties
          /\ Take("bilateral_confirm")
          /\ seal' = NoSeal
          /\ \E shot \in Contents :
                history' = Append(history, [seal |-> seal, snapshot |-> shot])
    /\ UNCHANGED <<parties, consented>>

\* The agreement is closed, or the reopening called off: the seal stays.
Move ==
    /\ Take("close") \/ Take("cancel_reopen")
    /\ UNCHANGED <<parties, consented, reopeners, seal, history>>

\* Nothing is left of a deleted agreement.
Delete ==
    /\ status' = "deleted"
    /\ parties' = {} /\ consented' = {} /\ reopeners' = {}
    /\ seal' = NoSeal /\ history' = <<>>

Next ==
    \/ ReplaceParties
    \/ AskConsent
    \/ \E p \in parties : Consent(p)
    \/ Seal
    \/ AskReopen
    \/ \E p \in parties : AgreeToReopen(p)
    \/ Move
    \/ Delete

Spec == Init /\ [][Next]_contract
=============================================================================
