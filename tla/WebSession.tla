----------------------------- MODULE WebSession -----------------------------
(***************************************************************************)
(* The sign-in session of the web application: apiClient.ts with its       *)
(* refresh of the access token, the session store persisted in the         *)
(* localStorage that all tabs share, AuthBootstrap, the log-in and         *)
(* sign-out handlers, and the rotation of the refresh cookie by the        *)
(* server.  Every tab runs its own copy of the program; the cookie and the *)
(* localStorage belong to the browser.  A token is the number of its       *)
(* DeviceSession, 0 for none.                                              *)
(***************************************************************************)
EXTENDS Integers

CONSTANTS
    Tabs,          \* tabs of one browser
    MaxSessions    \* bound: DeviceSessions the server creates

ASSUME WebSessionAssumption == MaxSessions \in Nat \ {0}

VARIABLES
    issued,    \* number of DeviceSessions created
    ended,     \* DeviceSession -> "live", or its revoked_reason
    expired,   \* access tokens past their expiry
    cookie,    \* the refresh cookie, HttpOnly
    stored,    \* isAuthenticated as persisted in localStorage
    tab,       \* the session store of each tab
    event,     \* tabs with an undelivered storage event
    refresh,   \* refreshPromise of each tab
    call       \* an API call of each tab

server == <<issued, ended, expired>>
vars == <<issued, ended, expired, cookie, stored, tab, event, refresh, call>>

Token == 0 .. MaxSessions
NoRefresh == [step |-> "none", tok |-> 0, new |-> 0]
NoCall == [step |-> "idle", tok |-> 0, retried |-> FALSE, kind |-> "query"]
Closed == [open |-> FALSE, auth |-> FALSE, token |-> 0]

\* What a tab, a refresh and a call may hold.
Sessions == [open : BOOLEAN, auth : BOOLEAN, token : Token]
Refreshes == [step : {"none", "sent", "rotated", "refused", "failed"}, tok : Token, new : Token]
Calls == [step : {"idle", "sent", "waiting"}, tok : Token, retried : BOOLEAN, kind : {"query", "signout"}]

TypeOK ==
    /\ issued \in Token
    /\ ended \in [1 .. MaxSessions -> {"live", "rotated", "revoked"}]
    /\ expired \subseteq 1 .. MaxSessions
    /\ cookie \in Token
    /\ stored \in BOOLEAN
    /\ tab \in [Tabs -> Sessions]
    /\ event \subseteq Tabs
    /\ refresh \in [Tabs -> Refreshes]
    /\ call \in [Tabs -> Calls]

Init ==
    /\ issued = 0
    /\ ended = [s \in 1 .. MaxSessions |-> "live"]
    /\ expired = {}
    /\ cookie = 0
    /\ stored = FALSE
    /\ tab = [t \in Tabs |-> Closed]
    /\ event = {}
    /\ refresh = [t \in Tabs |-> NoRefresh]
    /\ call = [t \in Tabs |-> NoCall]

-----------------------------------------------------------------------------
(* The server.                                                              *)

Live(s) == s \in 1 .. issued /\ ended[s] = "live"
Revoked(S) == [s \in 1 .. MaxSessions |-> IF s \in S /\ Live(s) THEN "revoked" ELSE ended[s]]

ServerRevokes ==
    /\ ended' = Revoked(1 .. issued)
    /\ ended' # ended
    /\ UNCHANGED <<issued, expired, cookie, stored, tab, event, refresh, call>>

AccessExpires(s) ==
    /\ s \in 1 .. issued
    /\ s \notin expired
    /\ expired' = expired \cup {s}
    /\ UNCHANGED <<issued, ended, cookie, stored, tab, event, refresh, call>>

-----------------------------------------------------------------------------
(* The persisted store.  Every set() writes the tab's own isAuthenticated,  *)
(* and the other tabs hear of it when that changes the stored value.        *)

Others(t) == {u \in Tabs \ {t} : tab[u].open}

\* Mutant of SetStore: no other tab hears of it.
SetStoreSilently(t, session) ==
    /\ tab' = [tab EXCEPT ![t] = session]
    /\ stored' = session.auth
    /\ UNCHANGED event

SetStore(t, session) ==
    /\ tab' = [tab EXCEPT ![t] = session]
    /\ stored' = session.auth
    /\ event' = IF session.auth # stored THEN event \cup Others(t) ELSE event

SignedOut(t) == [tab[t] EXCEPT !.auth = FALSE, !.token = 0]

Open(t) ==
    /\ ~tab[t].open
    /\ tab' = [tab EXCEPT ![t] = [open |-> TRUE, auth |-> stored, token |-> 0]]
    /\ UNCHANGED <<server, cookie, stored, event, refresh, call>>

\* A tab is closed or reloaded: what it waited for is answered to nobody, but a
\* rotation on the server has happened.
Close(t) ==
    /\ tab[t].open
    /\ tab' = [tab EXCEPT ![t] = Closed]
    /\ event' = event \ {t}
    /\ refresh' = [refresh EXCEPT ![t] = NoRefresh]
    /\ call' = [call EXCEPT ![t] = NoCall]
    /\ UNCHANGED <<server, cookie, stored>>

\* AuthBootstrap.handleStorage rehydrates: the access token stays.
StorageEvent(t) ==
    /\ t \in event
    /\ tab' = [tab EXCEPT ![t].auth = stored]
    /\ event' = event \ {t}
    /\ UNCHANGED <<server, cookie, stored, refresh, call>>

-----------------------------------------------------------------------------
(* The refresh: the browser attaches the cookie it has when the request     *)
(* leaves, and obeys Set-Cookie when the answer arrives.                    *)

StartRefresh(t) ==
    refresh' = [refresh EXCEPT ![t] = [step |-> "sent", tok |-> cookie, new |-> 0]]

Bootstrap(t) ==
    /\ tab[t].open /\ tab[t].auth /\ tab[t].token = 0
    /\ refresh[t].step = "none"
    /\ StartRefresh(t)
    /\ UNCHANGED <<server, cookie, stored, tab, event, call>>

RefreshServer(t) ==
    /\ refresh[t].step = "sent"
    /\ IF Live(refresh[t].tok)
         THEN /\ issued < MaxSessions
              /\ issued' = issued + 1
              /\ ended' = [ended EXCEPT ![refresh[t].tok] = "rotated"]
              /\ refresh' = [refresh EXCEPT ![t].step = "rotated", ![t].new = issued + 1]
         ELSE /\ refresh' = [refresh EXCEPT ![t].step = "refused"]
              /\ UNCHANGED <<issued, ended>>
    /\ UNCHANGED <<expired, cookie, stored, tab, event, call>>

\* No answer, or one that is neither 2xx nor a refusal (the throttle's 429).
RefreshFails(t) ==
    /\ refresh[t].step \in {"sent", "rotated"}
    /\ refresh' = [refresh EXCEPT ![t].step = "failed"]
    /\ UNCHANGED <<server, cookie, stored, tab, event, call>>

\* setAccessToken leaves isAuthenticated alone; a waiting call is sent again.
RefreshKeeps(t) ==
    /\ refresh[t].step = "rotated"
    /\ cookie' = refresh[t].new
    /\ SetStore(t, [tab[t] EXCEPT !.token = refresh[t].new])
    /\ call' = IF call[t].step = "waiting"
               THEN [call EXCEPT ![t].step = "sent", ![t].tok = refresh[t].new, ![t].retried = TRUE]
               ELSE call
    /\ refresh' = [refresh EXCEPT ![t] = NoRefresh]
    /\ UNCHANGED server

\* Mutant of RefreshDrops: the failed refresh leaves the session in the store.
RefreshDropsNothing(t) ==
    /\ refresh[t].step \in {"refused", "failed"}
    /\ cookie' = IF refresh[t].step = "refused" THEN 0 ELSE cookie
    /\ call' = IF call[t].step = "waiting" THEN [call EXCEPT ![t] = NoCall] ELSE call
    /\ refresh' = [refresh EXCEPT ![t] = NoRefresh]
    /\ UNCHANGED <<server, stored, tab, event>>

\* clearSession; a refusal also deletes the cookie, whatever it is by now.
RefreshDrops(t) ==
    /\ refresh[t].step \in {"refused", "failed"}
    /\ cookie' = IF refresh[t].step = "refused" THEN 0 ELSE cookie
    /\ SetStore(t, SignedOut(t))
    /\ call' = IF call[t].step = "waiting" THEN [call EXCEPT ![t] = NoCall] ELSE call
    /\ refresh' = [refresh EXCEPT ![t] = NoRefresh]
    /\ UNCHANGED server

-----------------------------------------------------------------------------
(* API calls, the sign-out of the profile page and the log-in.              *)

AuthOk(t) == call[t].tok # 0 /\ call[t].tok \notin expired

\* AppLayout mounts the pages once the tab holds an access token.
Send(t, kind) ==
    /\ tab[t].open /\ tab[t].auth /\ tab[t].token # 0
    /\ call[t].step = "idle"
    /\ call' = [call EXCEPT ![t] = [step |-> "sent", tok |-> tab[t].token,
                                    retried |-> FALSE, kind |-> kind]]
    /\ UNCHANGED <<server, cookie, stored, tab, event, refresh>>

\* handleSignOut clears the session whatever came of the call.
Settle(t) ==
    /\ call' = [call EXCEPT ![t] = NoCall]
    /\ IF call[t].kind = "signout"
         THEN SetStore(t, SignedOut(t))
         ELSE UNCHANGED <<tab, stored, event>>

Accepted(t) ==
    /\ call[t].step = "sent"
    /\ AuthOk(t)
    /\ Settle(t)
    /\ IF call[t].kind = "signout"
         THEN ended' = Revoked({call[t].tok}) /\ cookie' = 0
         ELSE UNCHANGED <<ended, cookie>>
    /\ UNCHANGED <<issued, expired, refresh>>

Rejected(t) ==
    /\ call[t].step = "sent"
    /\ AuthOk(t) \/ call[t].retried    \* a network error, or the second 401
    /\ Settle(t)
    /\ UNCHANGED <<server, cookie, refresh>>

Unauthorized(t) ==
    /\ call[t].step = "sent"
    /\ ~AuthOk(t) /\ ~call[t].retried
    /\ call' = [call EXCEPT ![t].step = "waiting"]
    /\ IF refresh[t].step = "none" THEN StartRefresh(t) ELSE UNCHANGED refresh
    /\ UNCHANGED <<server, cookie, stored, tab, event>>

\* VerifyForm.handleSubmit; AuthService.verify_otp revokes the other sessions.
Login(t) ==
    /\ tab[t].open /\ ~tab[t].auth
    /\ issued < MaxSessions
    /\ issued' = issued + 1
    /\ ended' = Revoked(1 .. issued)
    /\ cookie' = issued + 1
    /\ SetStore(t, [open |-> TRUE, auth |-> TRUE, token |-> issued + 1])
    /\ UNCHANGED <<expired, refresh, call>>

-----------------------------------------------------------------------------
Refresh(t) == RefreshServer(t) \/ RefreshFails(t) \/ RefreshKeeps(t) \/ RefreshDrops(t)
Answer(t) == Accepted(t) \/ Rejected(t) \/ Unauthorized(t)

Next ==
    \/ \E t \in Tabs : \/ Open(t) \/ Close(t) \/ StorageEvent(t) \/ Bootstrap(t)
                       \/ Refresh(t) \/ Answer(t) \/ Login(t)
                       \/ \E kind \in {"query", "signout"} : Send(t, kind)
    \/ ServerRevokes
    \/ \E s \in 1 .. MaxSessions : AccessExpires(s)

\* The browser delivers events and answers or fails calls; effects run.
Fairness ==
    \A t \in Tabs : /\ WF_vars(StorageEvent(t)) /\ WF_vars(Bootstrap(t))
                    /\ WF_vars(Refresh(t)) /\ WF_vars(Answer(t))

Spec == Init /\ [][Next]_vars /\ Fairness

-----------------------------------------------------------------------------
(* Properties.                                                              *)

\* Tabs without an undelivered storage event agree with the stored session on
\* whether somebody is signed in, although each writes its own view of it on
\* every set (sessionStore.ts:21-71, AuthBootstrap.tsx:13-21); and every
\* variable keeps its type.
TabsAgree ==
    /\ TypeOK
    /\ \A t \in Tabs : tab[t].open /\ t \notin event => tab[t].auth = stored
=============================================================================
