--------------------------- MODULE MCVaultScreens ---------------------------
(* Liveness of VaultScreens, for TLC.                                       *)
EXTENDS VaultScreens

CONSTANTS a, b

\* The PDF with one party on the web, the reopening with the creator on the web,
\* and with both parties on the application.
MCSetups == {[web |-> {b}, uses |-> {"pdf"}], [web |-> {a}, uses |-> {"reopen"}], [web |-> {}, uses |-> {"reopen"}]}

\* A record that says the PDF is being prepared does not go on saying so when
\* the PDF is ready, whether or not the push event arrives (useVault.ts:28-34).
PdfShown ==
    \A p \in Parties :
        p \in Mobile /\ screen[p].open /\ pdf = "ready" /\ cache[p].pdf = "generating"
            ~> pdf # "ready" \/ cache[p].pdf # "generating"

\* A requested reopening is completed by parties of the application who open
\* the record and type the codes they are offered a field for. Lost answers and
\* events, expired codes, a request without codes and a deadlock are got over, and
\* also that both confirm at once, which by itself completes nothing, whatever the
\* page says ("Waiting for both parties to confirm. Once confirmed, the agreement
\* will return to Active status for editing", sealed/page.tsx:266): the creator
\* has to ask for new codes, and a party has to confirm again.
ReopenEnds == Web = {} /\ status = "reopen_requested" ~> status # "reopen_requested"
=============================================================================
