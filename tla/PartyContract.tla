---------------------------- MODULE PartyContract ----------------------------
(***************************************************************************)
(* What an agreement is told about a party's identity, with every decision *)
(* one step: the face check, the verdict about the card, and the reviews   *)
(* by the staff.  There are no uploads, tasks, locks, retries or stored    *)
(* images here: Identity shows that none of them makes a verdict that was  *)
(* not come to in one of these ways.                                       *)
(***************************************************************************)
CONSTANTS
    Details,     \* what a party's name and Ghana Card number may be
    Images,      \* images of a side of a card
    Shows        \* the details an image can be read as showing

VARIABLES
    details,     \* the party's details
    answer,      \* what AWS answers about the present face check, "none" before one
    face,        \* what the party's record says of it
    verdict,     \* pending, verified, failed, or the review that is waited for
    begun        \* what was the verdict when the face checks under way were asked for

record == <<details, answer, face, verdict, begun>>

Answers == {"processing", "passed", "failed", "manual_review"}
Reviews == {"liveness_manual_review", "face_match_manual_review"}

Init ==
    /\ details \in Details
    /\ answer = "none" /\ face = "none" /\ verdict = "pending" /\ begun = {}

\* The party is replaced, by itself or another: nothing is known of it.
Replace ==
    /\ details' \in Details
    /\ answer' = "none" /\ face' = "none" /\ verdict' = "pending" /\ begun' = {}

\* The face stays that of the party.
Correct ==
    /\ details' \in Details
    /\ verdict' = "pending"
    /\ UNCHANGED <<answer, face, begun>>

AskForCheck ==
    /\ begun' = begun \cup {verdict}
    /\ UNCHANGED <<details, answer, face, verdict>>

\* Another face check calls off a review; any other verdict is again what it was
\* when the check was asked for, whatever has become of it since.
CheckFace ==
    /\ answer' \in Answers
    /\ face' = "pending"
    /\ \E v \in begun :
        /\ verdict' = IF v \in Reviews THEN "pending" ELSE v
        /\ begun' \in {begun, begun \ {v}}
    /\ UNCHANGED details

Analyse ==
    /\ answer = "processing" /\ answer' \in Answers
    /\ UNCHANGED <<details, face, verdict, begun>>

\* The record takes over the answer about the present face check, and no other.
TakeAnswer ==
    /\ \/ /\ answer = "passed" /\ face' = "passed"
          /\ verdict' = "pending" \/ (verdict \notin Reviews /\ UNCHANGED verdict)
       \/ /\ answer = "manual_review" /\ face' = "manual_review"
          /\ verdict' = "liveness_manual_review"
       \/ answer = "failed" /\ face' = "failed" /\ UNCHANGED verdict
    /\ UNCHANGED <<details, answer, begun>>

\* The card is compared with a face that was checked, and what is more than
\* failed needs a card that shows the details.
Judge ==
    /\ face = "passed"
    /\ \/ verdict' = "failed"
       \/ /\ verdict' \in {"verified", "face_match_manual_review"}
          /\ \E i \in Images : details \in Shows[i]
    /\ UNCHANGED <<details, answer, face, begun>>

\* There is a new image, or no result.
Withdraw ==
    /\ verdict' = "pending"
    /\ UNCHANGED <<details, answer, face, begun>>

Approve ==
    /\ \/ verdict = "liveness_manual_review" /\ face' = "passed" /\ verdict' = "pending"
       \/ verdict = "face_match_manual_review" /\ verdict' = "verified" /\ UNCHANGED face
    /\ UNCHANGED <<details, answer, begun>>

Reject ==
    /\ verdict \in Reviews /\ verdict' = "failed"
    /\ UNCHANGED <<details, answer, face, begun>>

Next ==
    \/ Replace \/ Correct
    \/ AskForCheck \/ CheckFace \/ Analyse \/ TakeAnswer
    \/ Judge \/ Withdraw
    \/ Approve \/ Reject

Spec == Init /\ [][Next]_record
=============================================================================
