--------------------------- MODULE MCMobileSession ---------------------------
(* Liveness of MobileSession, for TLC.                                      *)
EXTENDS MobileSession

\* No call is left waiting for the shared refresh once that has an answer: whatever the
\* answer is, and whoever started the refresh, each request that got a 401 is retried
\* or rejected (client.ts:96-149).  A refresh without an answer, which has no time
\* limit, holds up every call that waits for it.
RequestsSettle ==
    []<>(refresh.step # "sent") => \A r \in Requests : req[r].step # "idle" ~> req[r].step = "idle"

\* A screen that signs its user in.
CanSignIn == route \in {"welcome", "verify-otp"} \/ (route = "pin-reauth" /\ PinWorks)

\* A signed-out user of a hydrated application ends on a screen to sign in from, and
\* never in a circle of redirects; or else on a PIN screen that lets nobody in and that
\* the guard does not take him off, but then with no token stored: the next start leads
\* to the OTP flow (_layout.tsx:104-122, pin-reauth.tsx:80-97).
SignedOutReachesSignIn ==
    hydrated /\ ~store.auth ~>
        CanSignIn \/ (route \in PinScreens /\ disk.token = 0) \/ store.auth \/ ~hydrated
=============================================================================
