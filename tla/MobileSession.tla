--------------------------- MODULE MobileSession ---------------------------
(***************************************************************************)
(* The sign-in session of the mobile application: the axios client with    *)
(* its refresh-on-401 interceptor (src/api/client.ts), the secure store,   *)
(* the in-memory session store, the start-up and route guard of            *)
(* app/_layout.tsx, the OTP and PIN hooks, the log-out of the profile      *)
(* screen, and the server's device sessions, whose refresh tokens are      *)
(* rotated on every use.                                                   *)
(*                                                                         *)
(* One device and one user.  A token is the number of the DeviceSession it *)
(* was issued for, 0 when there is none.  The data stored on the device    *)
(* survives Kill; everything else on the device is memory of the process.  *)
(***************************************************************************)
EXTENDS Integers

CONSTANTS
    Requests,      \* slots for API calls in flight at the same time
    MaxSessions    \* bound: DeviceSessions the server creates

ASSUME MobileSessionAssumption == MaxSessions \in Nat \ {0}

VARIABLES
    issued,    \* number of DeviceSessions created
    ended,     \* DeviceSession -> "live", or its revoked_reason
    expired,   \* access tokens past their expiry
    hasPin,    \* a UserPin row exists
    trusted,   \* some session was created with this device's present fingerprint
    disk,      \* expo-secure-store
    store,     \* useSessionStore
    hydrated,  \* AuthGuard's state
    route,     \* the screen in view
    boot,      \* AuthGuard's own refresh request
    refresh,   \* refreshPromise of client.ts
    req,       \* API calls through apiClient
    lost,      \* history: rotated sessions whose successor never reached the disk
    out        \* history: the user logged out and has not signed in since

server == <<issued, ended, expired, hasPin, trusted>>
vars == <<issued, ended, expired, hasPin, trusted, disk, store, hydrated, route, boot, refresh, req, lost, out>>

Token == 0 .. MaxSessions
PinScreens == {"pin-setup", "pin-reauth"}
AuthGroup == {"welcome", "verify-otp"} \cup PinScreens
Routes == AuthGroup \cup {"home", "invite"}

NoDisk  == [token |-> 0, pin |-> FALSE]
NoStore == [token |-> 0, known |-> FALSE, auth |-> FALSE, invite |-> FALSE]
NoCall  == [step |-> "none", tok |-> 0, new |-> 0, beside |-> FALSE]
Idle    == [step |-> "idle", tok |-> 0, retried |-> FALSE, kind |-> "query"]

\* What the device, the start-up request, the shared refresh and a call may hold.
Disks == [token : Token, pin : BOOLEAN]
Stores == [token : Token, known : BOOLEAN, auth : BOOLEAN, invite : BOOLEAN]
\* "beside" is history: the other of the two requests was, or could be, under way too.
Boots == [step : {"none", "sent", "rotated", "refused", "lost", "done"},
          tok : Token, new : Token, beside : BOOLEAN]
Refreshes == [step : {"none", "sent", "rotated", "refused", "lost", "stuck"},
              tok : Token, new : Token, beside : BOOLEAN]
Calls == [step : {"idle", "sent", "waiting"}, tok : Token, retried : BOOLEAN, kind : {"query", "plan"}]

TypeOK ==
    /\ issued \in Token
    /\ ended \in [1 .. MaxSessions -> {"live", "rotated", "revoked"}]
    /\ expired \subseteq 1 .. MaxSessions
    /\ hasPin \in BOOLEAN /\ trusted \in BOOLEAN
    /\ disk \in Disks
    /\ store \in Stores
    /\ hydrated \in BOOLEAN
    /\ route \in Routes
    /\ boot \in Boots
    /\ refresh \in Refreshes
    /\ req \in [Requests -> Calls]
    /\ lost \subseteq 1 .. MaxSessions
    /\ out \in BOOLEAN

NoRefresh == NoCall

Init ==
    /\ issued = 0
    /\ ended = [s \in 1 .. MaxSessions |-> "live"]
    /\ expired = {}
    /\ hasPin \in BOOLEAN /\ trusted \in BOOLEAN
    /\ disk = NoDisk
    /\ store = NoStore
    /\ hydrated = FALSE
    /\ route \in {"home", "invite"}
    /\ boot = NoCall
    /\ refresh = NoRefresh
    /\ req = [r \in Requests |-> Idle]
    /\ lost = {}
    /\ out = FALSE

-----------------------------------------------------------------------------
(* The server: DeviceSession rows.                                          *)

Live(s) == s \in 1 .. issued /\ ended[s] = "live"

\* TokenService.refresh: the presented session is revoked as "rotated" and a
\* new one is created.
Rotate(s) ==
    /\ issued < MaxSessions
    /\ issued' = issued + 1
    /\ ended' = [ended EXCEPT ![s] = "rotated"]

\* A login elsewhere, a sign-out of all devices, or the age of the session.
ServerRevokes ==
    /\ \E s \in 1 .. issued : Live(s)
    /\ ended' = [s \in 1 .. MaxSessions |-> IF Live(s) THEN "revoked" ELSE ended[s]]
    /\ UNCHANGED <<issued, expired, hasPin, trusted, disk, store, hydrated, route, boot, refresh, req, lost, out>>

AccessExpires(s) ==
    /\ s \in 1 .. issued
    /\ s \notin expired
    /\ expired' = expired \cup {s}
    /\ UNCHANGED <<issued, ended, hasPin, trusted, disk, store, hydrated, route, boot, refresh, req, lost, out>>

-----------------------------------------------------------------------------
(* Start-up and the route guard of app/_layout.tsx.                         *)

Booted == [NoCall EXCEPT !.step = "done"]

BootStart ==
    /\ boot.step = "none"
    /\ IF disk.token = 0
         THEN /\ hydrated' = TRUE
              /\ boot' = Booted
         ELSE /\ boot' = [NoCall EXCEPT !.step = "sent", !.tok = disk.token, !.beside = (refresh.step # "none")]
              /\ UNCHANGED hydrated
    /\ UNCHANGED <<server, disk, store, route, refresh, req, lost, out>>

BootServer ==
    /\ boot.step = "sent"
    /\ IF Live(boot.tok)
         THEN /\ Rotate(boot.tok)
              /\ boot' = [boot EXCEPT !.step = "rotated", !.new = issued + 1]
         ELSE /\ boot' = [boot EXCEPT !.step = "refused"]
              /\ UNCHANGED <<issued, ended>>
    /\ UNCHANGED <<expired, hasPin, trusted, disk, store, hydrated, route, refresh, req, lost, out>>

BootLost ==
    /\ boot.step \in {"sent", "rotated"}
    /\ lost' = IF boot.step = "rotated" THEN lost \cup {boot.tok} ELSE lost
    /\ boot' = [boot EXCEPT !.step = "lost"]
    /\ UNCHANGED <<server, disk, store, hydrated, route, refresh, req, out>>

\* saveTokens and setSession with the phone and account read from the disk.
BootKeeps ==
    /\ boot.step = "rotated"
    /\ disk' = [disk EXCEPT !.token = boot.new]
    /\ store' = [store EXCEPT !.token = boot.new, !.known = TRUE, !.auth = TRUE]
    /\ hydrated' = TRUE
    /\ boot' = Booted
    /\ UNCHANGED <<server, route, refresh, req, lost, out>>

\* A refusal and a network error alike clear the disk, never the store.
BootDrops ==
    /\ boot.step \in {"refused", "lost"}
    /\ disk' = NoDisk
    /\ route' = IF disk.pin THEN "pin-reauth" ELSE route
    /\ hydrated' = TRUE
    /\ boot' = Booted
    /\ UNCHANGED <<server, store, refresh, req, lost, out>>

\* Mutant of GuardRedirect: only the users who are signed in are moved.
GuardRedirectHomeOnly ==
    /\ hydrated
    /\ store.auth /\ route \in AuthGroup
    /\ route' = "home"
    /\ UNCHANGED <<server, disk, store, hydrated, boot, refresh, req, lost, out>>

\* The effect of AuthGuard: it knows nothing of the PIN or of the invite.
GuardRedirect ==
    /\ hydrated
    /\ \/ /\ ~store.auth /\ route \notin AuthGroup
          /\ route' = "welcome"
       \/ /\ store.auth /\ route \in AuthGroup
          /\ route' = "home"
    /\ UNCHANGED <<server, disk, store, hydrated, boot, refresh, req, lost, out>>

\* Another version of the system is another device to the server.
Kill ==
    /\ lost' = lost \cup {c.tok : c \in {d \in {boot, refresh} : d.step = "rotated"}}
    /\ store' = NoStore
    /\ hydrated' = FALSE
    /\ route' \in {"home", "invite"}
    /\ boot' = NoCall
    /\ refresh' = NoRefresh
    /\ req' = [r \in Requests |-> Idle]
    /\ trusted' \in {trusted, FALSE}
    /\ UNCHANGED <<issued, ended, expired, hasPin, disk, out>>

-----------------------------------------------------------------------------
(* client.ts: requests, and the refresh shared by all of them.              *)

Forget == /\ disk' = NoDisk
          /\ store' = NoStore

\* usePlan is mounted with the home screen and asks whether or not anybody is
\* signed in; the other queries wait for isAuthenticated.
Send(r, kind) ==
    /\ req[r].step = "idle"
    /\ IF kind = "plan" THEN route = "home" ELSE store.auth
    /\ req' = [req EXCEPT ![r] = [step |-> "sent", tok |-> disk.token,
                                  retried |-> FALSE, kind |-> kind]]
    /\ UNCHANGED <<server, disk, store, hydrated, route, boot, refresh, lost, out>>

\* The access token is a JWT: only its expiry is looked at, not its session.
AuthOk(r) == req[r].tok # 0 /\ req[r].tok \notin expired

\* An answer other than the first 401, a network error included.
Settled(r) ==
    /\ req[r].step = "sent"
    /\ req' = [req EXCEPT ![r] = Idle]
    /\ UNCHANGED <<server, disk, store, hydrated, route, boot, refresh, lost, out>>

\* 401 to a request that was not retried yet: wait for the shared refresh, or
\* start it.  Without a stored refresh token the promise resolves to null
\* before its try block, whose finally would have reset it.
Unauthorized(r) ==
    /\ req[r].step = "sent"
    /\ ~AuthOk(r)
    /\ ~req[r].retried
    /\ \/ /\ refresh.step \in {"sent", "rotated", "refused", "lost"}
          /\ req' = [req EXCEPT ![r].step = "waiting"]
          /\ UNCHANGED <<disk, store, boot, refresh>>
       \/ /\ refresh.step = "none"
          /\ disk.token # 0
          /\ refresh' = [step |-> "sent", tok |-> disk.token, new |-> 0, beside |-> boot.step # "done"]
          /\ boot' = IF boot.step = "sent" THEN [boot EXCEPT !.beside = TRUE] ELSE boot
          /\ req' = [req EXCEPT ![r].step = "waiting"]
          /\ UNCHANGED <<disk, store>>
       \/ /\ refresh.step = "stuck" \/ (refresh.step = "none" /\ disk.token = 0)
          /\ refresh' = [NoRefresh EXCEPT !.step = "stuck"]
          /\ req' = [req EXCEPT ![r] = Idle]
          /\ Forget
          /\ UNCHANGED boot
    /\ UNCHANGED <<server, hydrated, route, lost, out>>

RefreshServer ==
    /\ refresh.step = "sent"
    /\ IF Live(refresh.tok)
         THEN /\ Rotate(refresh.tok)
              /\ refresh' = [refresh EXCEPT !.step = "rotated", !.new = issued + 1]
         ELSE /\ refresh' = [refresh EXCEPT !.step = "refused"]
              /\ UNCHANGED <<issued, ended>>
    /\ UNCHANGED <<expired, hasPin, trusted, disk, store, hydrated, route, boot, req, lost, out>>

RefreshLost ==
    /\ refresh.step \in {"sent", "rotated"}
    /\ lost' = IF refresh.step = "rotated" THEN lost \cup {refresh.tok} ELSE lost
    /\ refresh' = [refresh EXCEPT !.step = "lost"]
    /\ UNCHANGED <<server, disk, store, hydrated, route, boot, req, out>>

\* Mutant of RefreshKeeps: the rotated refresh token is not saved.
RefreshKeepsInMemory ==
    /\ refresh.step = "rotated"
    /\ store' = [store EXCEPT !.token = refresh.new, !.auth = TRUE]
    /\ req' = [r \in Requests |->
                 IF req[r].step = "waiting"
                 THEN [req[r] EXCEPT !.step = "sent", !.tok = refresh.new, !.retried = TRUE]
                 ELSE req[r]]
    /\ refresh' = NoRefresh
    /\ UNCHANGED <<server, disk, hydrated, route, boot, lost, out>>

\* saveTokens, then setSession with whatever phone and account the store has;
\* every waiting request is sent again with the stored token.
RefreshKeeps ==
    /\ refresh.step = "rotated"
    /\ disk' = [disk EXCEPT !.token = refresh.new]
    /\ store' = [store EXCEPT !.token = refresh.new, !.auth = TRUE]
    /\ req' = [r \in Requests |->
                 IF req[r].step = "waiting"
                 THEN [req[r] EXCEPT !.step = "sent", !.tok = refresh.new, !.retried = TRUE]
                 ELSE req[r]]
    /\ refresh' = NoRefresh
    /\ UNCHANGED <<server, hydrated, route, boot, lost, out>>

\* Mutant of RefreshDrops: only the caller that started the refresh is told.
RefreshDropsUnheard ==
    /\ refresh.step \in {"refused", "lost"}
    /\ Forget
    /\ refresh' = NoRefresh
    /\ UNCHANGED <<server, hydrated, route, boot, req, lost, out>>

RefreshDrops ==
    /\ refresh.step \in {"refused", "lost"}
    /\ Forget
    /\ req' = [r \in Requests |-> IF req[r].step = "waiting" THEN Idle ELSE req[r]]
    /\ refresh' = NoRefresh
    /\ UNCHANGED <<server, hydrated, route, boot, lost, out>>

-----------------------------------------------------------------------------
(* The screens of the (auth) group and of the invite link.                  *)

\* InviteScreen.handleContinue of somebody who is not signed in.  The button is
\* there once the invite was fetched, long after the disk was read.
ContinueInvite ==
    /\ route = "invite"
    /\ boot.step # "none"
    /\ ~store.auth
    /\ store' = [store EXCEPT !.invite = TRUE]
    /\ route' = "welcome"
    /\ UNCHANGED <<server, disk, hydrated, boot, refresh, req, lost, out>>

SendOtp ==
    /\ route = "welcome"
    /\ route' = "verify-otp"
    /\ UNCHANGED <<server, disk, store, hydrated, boot, refresh, req, lost, out>>

SignIn(n, pin) ==
    /\ issued' = n
    /\ disk' = [token |-> n, pin |-> pin]
    /\ out' = FALSE

\* AuthService.verify_otp revokes every other session and keeps the fingerprint with
\* the new one; useVerifyOtp stores it and picks the next screen.
VerifyOtp ==
    /\ route = "verify-otp"
    /\ issued < MaxSessions
    /\ SignIn(issued + 1, hasPin)
    /\ ended' = [s \in 1 .. MaxSessions |-> IF Live(s) THEN "revoked" ELSE ended[s]]
    /\ store' = [token |-> issued + 1, known |-> TRUE, auth |-> TRUE,
                 invite |-> store.invite /\ ~hasPin]
    /\ trusted' = TRUE
    /\ route' = IF ~hasPin THEN "pin-setup" ELSE IF store.invite THEN "invite" ELSE "home"
    /\ UNCHANGED <<expired, hasPin, hydrated, boot, refresh, req, lost>>

\* PinService.setup, then usePinSetup, which opens the pending invite.
PinSetup ==
    /\ route = "pin-setup"
    /\ store.auth
    /\ hasPin' = TRUE
    /\ disk' = [disk EXCEPT !.pin = TRUE]
    /\ store' = [store EXCEPT !.invite = FALSE]
    /\ route' = IF store.invite THEN "invite" ELSE "home"
    /\ UNCHANGED <<issued, ended, expired, trusted, hydrated, boot, refresh, req, lost, out>>

\* Where the PIN is good: PinService.verify refuses every other one, every PIN of a
\* device it does not know, and a user who has none.
PinWorks == hasPin /\ trusted

\* PinService.verify creates a session beside those that are live.  A refusal changes
\* nothing: all of them end as an error of the server, since the view hands ok() a
\* status it does not take, and the screen shows the field again.  Its way to the OTP
\* flow needs the flag that is never answered.
PinVerify ==
    /\ route = "pin-reauth"
    /\ PinWorks
    /\ issued < MaxSessions
    /\ SignIn(issued + 1, TRUE)
    /\ store' = [store EXCEPT !.token = issued + 1, !.known = TRUE, !.auth = TRUE]
    /\ route' = "home"
    /\ UNCHANGED <<ended, expired, hasPin, trusted, hydrated, boot, refresh, req, lost>>

\* The profile screen clears the device only; DeviceSession is not told.
Logout ==
    /\ store.auth
    /\ route = "home"
    /\ Forget
    /\ out' = TRUE
    /\ UNCHANGED <<server, hydrated, route, boot, refresh, req, lost>>

-----------------------------------------------------------------------------
User == Logout \/ ContinueInvite \/ SendOtp \/ VerifyOtp \/ PinSetup \/ PinVerify \/ Kill

Startup == BootStart \/ BootServer \/ BootLost \/ BootKeeps \/ BootDrops \/ GuardRedirect

Answer(r) == Settled(r) \/ Unauthorized(r)

SharedRefresh == RefreshServer \/ RefreshLost \/ RefreshKeeps \/ RefreshDrops

Next ==
    \/ User \/ Startup \/ SharedRefresh \/ ServerRevokes
    \/ \E s \in 1 .. MaxSessions : AccessExpires(s)
    \/ \E r \in Requests, kind \in {"query", "plan"} : Send(r, kind)
    \/ \E r \in Requests : Answer(r)

\* A call through apiClient is answered or times out after 30 s, effects and
\* continuations run once they are due.  The two refresh requests are bare and have no
\* time limit: nothing says that their answer comes.  Nothing is assumed of the user.
Fairness ==
    /\ WF_vars(BootStart \/ BootKeeps \/ BootDrops) /\ WF_vars(GuardRedirect)
    /\ WF_vars(RefreshKeeps \/ RefreshDrops)
    /\ \A r \in Requests : WF_vars(Answer(r))

Spec == Init /\ [][Next]_vars /\ Fairness

-----------------------------------------------------------------------------
(* Properties.                                                              *)

\* Neither the interceptor's shared refresh nor the guard's request at start-up presents
\* a token that a rotation of this same installation has used up, but for two reasons:
\* the answer of that rotation was lost, or the two requests, which have no mutex in
\* common, were under way together (client.ts:93-134, _layout.tsx:83-99). And every
\* variable keeps its type.
NoSelfRefusal ==
    /\ TypeOK
    /\ \A c \in {boot, refresh} : c.step = "sent" /\ ended[c.tok] = "rotated" => c.beside \/ c.tok \in lost
=============================================================================
