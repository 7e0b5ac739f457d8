--------------------------- MODULE MCMobileWizard ---------------------------
(* Liveness of MobileWizard, for TLC.                                       *)
EXTENDS MobileWizard

\* A draft that stays open in the wizard gets its row in SQLite, through the
\* lookups, inserts and updates of all its changes (useDraftPersistence.ts:26-53).
DraftReachesDisk ==
    \A a \in Agreements :
        view # <<>> /\ store.id = a ~> RowsOf(a) # {} \/ view = <<>> \/ store.id # a
=============================================================================
