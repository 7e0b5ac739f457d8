------------------------- MODULE MCCheckoutScreens -------------------------
(* Devices of an account for TLC, and what they must come to.               *)
EXTENDS CheckoutScreens

CONSTANTS plus, protect

\* What is paid is activated, also when the checkout was cancelled while its
\* event was on the way ("Safe to call after abandoning the Paystack popup",
\* api/views.py:146), unless the event is lost.
PaidIsActivated ==
    (\E r \in Refs : tx[r] = "success")
        ~> faults > 0 \/ \A r \in Refs : tx[r] = "success" => checkouts[r].activated # 0

\* No screen is a dead end. A paid checkout whose callback is open gets a final
\* verdict, or is left, also when polls fail or run into the time limit
\* (payment/callback.tsx:54-66); and a mobile user who is told of an open session
\* gets out of it with the button of the banner (plans.tsx:144-150).
NoDeadEnd ==
    /\ page \in {"callback", "polling", "timeout"} /\ tx[ref] = "success"
            ~> page \in {"plans", "success"} \/ seen \in {"failed", "cancelled"}
    /\ kind = "mobile" => (blocked ~> ~blocked \/ page # "plans")
=============================================================================
