------------------------- MODULE MCIdentityScreens -------------------------
(* Holders and creators for TLC, and what their screens must come to.       *)
EXTENDS IdentityScreens

CONSTANTS ama, kofi, clear

MCShows == [i \in Images |-> {ama}]

\* The creator's own card, and the other party's.
MCClients == {[holder |-> "own", creator |-> "web"], [holder |-> "mobile", creator |-> "mobile"],
              [holder |-> "web", creator |-> "web"]}

\* A screen of the application that shows the face check as passed on it comes
\* to show what the task has decided, unless a side of the card is replaced
\* (identity-invite.tsx:52-68), and a screen of the creator that has sent the
\* invite what became of the other party (parties.tsx:228-241, web
\* page.tsx:550-574).
VerifiedIsSeen ==
    /\ page = "upload" /\ local = "passed" /\ Complete(Fetched)
            ~> page # "upload" \/ Complete(seen) \/ ~Complete(Fetched) \/ counts.uploads > Cardinality(Sides)
    /\ open /\ sent /\ copy.status = "pending" /\ Complete(Fetched)
            ~> ~open \/ Complete(copy) \/ ~Complete(Fetched)

\* A face check that passed on the web, after both sides have arrived, is
\* followed by a decision about the card (page.tsx:242-301).
WebIsDecided ==
    (page = "done" /\ row.live = "passed") ~> (row.status # "pending" \/ page # "done" \/ ~Access)
=============================================================================
