---------------------------- MODULE MCWebSession ----------------------------
(* Liveness of WebSession, for TLC.                                         *)
EXTENDS WebSession

\* The spinner of AppLayout ends: a tab that believes in a session without an
\* access token gets one or gives the session up (layout.tsx:26-39).
RecoveryEnds ==
    \A t \in Tabs : tab[t].open /\ tab[t].auth /\ tab[t].token = 0
                        ~> tab[t].token # 0 \/ ~tab[t].auth
=============================================================================
