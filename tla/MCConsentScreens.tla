-------------------------- MODULE MCConsentScreens --------------------------
(* Screens of a creator a and a counterparty b, and what they come to.      *)
EXTENDS ConsentScreens

CONSTANTS a, b, a1, b1

MCParties == {a, b}
MCOwner == [s \in Screens |-> IF s = b1 THEN b ELSE a]

Screen(creators, others) == [s \in Screens |-> IF s = b1 THEN others ELSE creators]

\* The creator on the application with the counterparty behind the link of the
\* SMS, and the creator on the web with the counterparty on the application.
MCKinds == {Screen("mobile", "link"), Screen("web", "mobile")}

\* Once a creator on the application has asked for codes, the agreement is
\* sealed: expired and mistyped codes, the lockout, lost answers, codes asked for
\* again and a limit reached on the way leave the parties a way on.
ConsentEndsInSeal == kind[a1] = "mobile" /\ status = "pending_consent" ~> status = "sealed"
=============================================================================
