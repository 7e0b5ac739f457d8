-------------------------- MODULE CheckoutScreens --------------------------
(***************************************************************************)
(* Paying for a plan, as the account's devices go through it, on top of    *)
(* Payments: the plans screens of the mobile application and the web, the  *)
(* page of Paystack in a browser, the web page that hands over to the      *)
(* application (the bridge), and the callback screens, which poll until    *)
(* the backend has confirmed the charge.                                   *)
(***************************************************************************)
EXTENDS Payments

CONSTANTS
    Kinds,       \* the kinds of device a behaviour may follow: "mobile", "web"
    First,       \* the plan asked for first: the paid plans are interchangeable
    MaxVisits,   \* bound: returns to a page of Paystack or a callback left before
    MaxTurns     \* bound: plans asked for, faults, returns, and periods that end or
                 \* are renewed, together

ASSUME CheckoutScreensAssumption ==
    /\ Kinds \subseteq {"mobile", "web"}
    /\ First \in Plans /\ MaxVisits \in Nat /\ MaxTurns \in Nat

VARIABLES
    kind,     \* the kind of the device, which never changes
    page,     \* where the device is
    ref,      \* the reference of its last checkout
    asked,    \* the plan "Cancel & retry" would ask for while it is shown, Basic for none
    blocked,  \* whether it shows "A payment session is already open"
    seen,     \* the checkout status last polled
    visits

screens == <<page, ref, asked, blocked, seen, visits>>
allVars == <<vars, screens>>

Pages == {"plans", "retry", "paystack", "bridge", "callback", "polling", "timeout", "cancelling", "cancelled", "success"}
Verdicts == {"none", "pending", "processing", "succeeded", "failed", "cancelled"}

ScreensTypeOK ==
    /\ TypeOK
    /\ kind \in Kinds
    /\ page \in Pages
    /\ ref \in Refs \cup {0}
    /\ asked \in Plans \cup {Basic}
    /\ blocked \in BOOLEAN
    /\ seen \in Verdicts
    /\ visits \in 0 .. MaxVisits

ScreensInit ==
    /\ Init
    /\ kind \in Kinds
    /\ page = "plans"
    /\ ref = 0
    /\ asked = Basic
    /\ blocked = FALSE
    /\ seen = "none"
    /\ visits = 0

Visit == visits < MaxVisits /\ visits' = visits + 1
Go(from, to) == page \in from /\ page' = to

-----------------------------------------------------------------------------
(* The plans screens.                                                        *)

\* Mutant of Remembered: the mobile application forgets the plan as well.
RememberedNever(p) == Basic

\* The plan the banner would retry: the mobile application keeps the argument
\* of the last request; the web resets actingPlanId in the same catch block.
Remembered(p) == IF kind = "mobile" THEN p ELSE Basic

\* The browser is sent to the page of the new checkout.
Start(p) ==
    /\ Go({"plans", "retry"}, "paystack")
    /\ InitiateSubscription(p)
    /\ ref' = CHOOSE r \in Unused : TRUE
    /\ asked' = Basic /\ blocked' = FALSE
    /\ UNCHANGED <<seen, visits>>

\* At the same time as another device of the account, which is not followed.
StartTogether(p, q) ==
    /\ Go({"plans"}, "paystack")
    /\ InitiateTwice(p, q)
    /\ ref' = CHOOSE r \in Unused : TRUE
    /\ asked' = Basic /\ blocked' = FALSE
    /\ UNCHANGED <<seen, visits>>

\* The checkout exists, and the screen did not hear of it or could not open it.
StartUnheard(p) ==
    /\ Go({"plans", "retry"}, "plans")
    /\ faults < MaxFaults
    /\ MayStart(p)
    /\ \E r \in Unused :
        /\ checkouts' = [checkouts EXCEPT ![r] = NewCheckout(p, Current, 0)]
        /\ tx' = [tx EXCEPT ![r] = "open"]
    /\ faults' = faults + 1
    /\ asked' = Basic /\ blocked' = FALSE
    /\ UNCHANGED <<plan, subs, ended, running, billed, events, renewals, ref, seen, visits>>

StartRefused(p) ==
    /\ Go({"plans", "retry"}, "plans")
    /\ Open # {}
    /\ asked' = Remembered(p)
    /\ blocked' = TRUE
    /\ UNCHANGED <<vars, ref, seen, visits>>

\* The first half of "Cancel & retry", also when nothing is open any more; the
\* second half is a Start with the plan remembered.
CancelAndRetry ==
    /\ blocked /\ asked # Basic
    /\ Go({"plans"}, "retry")
    /\ CancelCheckout \/ (Open = {} /\ UNCHANGED vars)
    /\ UNCHANGED <<ref, asked, blocked, seen, visits>>

Retry ==
    \/ Start(asked) \/ StartUnheard(asked) \/ StartRefused(asked)
    \/ /\ ~MayStart(asked) /\ Open = {}
       /\ Go({"retry"}, "plans")
       /\ asked' = Basic /\ blocked' = FALSE
       /\ UNCHANGED <<vars, ref, seen, visits>>

\* The subscription screen.
Recover ==
    /\ Go({"plans"}, "paystack")
    /\ InitiateRecovery
    /\ ref' = CHOOSE r \in Unused : TRUE
    /\ UNCHANGED <<asked, blocked, seen, visits>>

EndSubscription ==
    /\ page = "plans"
    /\ CancelSubscription
    /\ UNCHANGED screens

-----------------------------------------------------------------------------
(* In the browser.                                                           *)

After(to) == IF kind = "mobile" THEN "bridge" ELSE to

\* Paystack sends the payer on: the web to the callback page, a mobile user to
\* the bridge first.
PayHere ==
    /\ Go({"paystack"}, After("callback"))
    /\ Pay(ref)
    /\ seen' = "none"
    /\ UNCHANGED <<ref, asked, blocked, visits>>

\* "Cancel" on Paystack's page leads to the same pages with payment_state=cancelled.
CancelHere ==
    /\ Go({"paystack"}, After("cancelling"))
    /\ seen' = "cancelled"
    /\ UNCHANGED <<vars, ref, asked, blocked, visits>>

Close ==
    /\ Go({"paystack", "bridge", "callback", "timeout", "cancelled", "success"}, "plans")
    /\ seen' = "none"
    /\ UNCHANGED <<vars, ref, asked, blocked, visits>>

\* The bridge redirects to the application with the parameters it was given.
OpenApp ==
    /\ Go({"bridge"}, IF seen = "cancelled" THEN "cancelling" ELSE "callback")
    /\ UNCHANGED <<vars, ref, asked, blocked, seen, visits>>

\* An old tab, the history of the browser.
Return ==
    /\ Visit /\ ref # 0
    /\ \/ Go({"plans"}, "callback") /\ seen' = "none"
       \/ Go({"plans"}, "paystack") /\ tx[ref] # "success" /\ UNCHANGED seen
    /\ UNCHANGED <<vars, ref, asked, blocked>>

-----------------------------------------------------------------------------
(* The callback screens.                                                     *)

\* The cancelled page cancels whatever is open when it is mounted, or fails to.
SyncCancellation ==
    /\ Go({"cancelling"}, "cancelled")
    /\ \/ CancelCheckout
       \/ Open = {} /\ UNCHANGED vars
       \/ Fault /\ UNCHANGED <<plan, checkouts, subs, ended, running, paystack, renewals>>
    /\ UNCHANGED <<ref, asked, blocked, seen, visits>>

\* Mutant of Settled: any answer ends the polling.
SettledAny == seen # "none"

\* An answer that ends the polling.
Settled == seen \in {"succeeded", "failed", "cancelled"}

\* Every two seconds, and the button.
Poll ==
    /\ ~Settled
    /\ Go({"callback"}, "polling")
    /\ CheckoutStatus(ref) \/ (checkouts[ref].status \in {"cancelled", "failed"} /\ UNCHANGED vars)
    /\ UNCHANGED <<ref, asked, blocked, seen, visits>>

\* Mutant of StatusOf: an account on the plan asked for has paid for it.
StatusOfPlan(r) ==
    CASE plan = checkouts[r].target -> "succeeded"
      [] checkouts[r].status = "cancelled" -> "cancelled"
      [] checkouts[r].status = "failed" -> "failed"
      [] OTHER -> "pending"

\* What the status route answers.
StatusOf(r) ==
    CASE checkouts[r].status = "cancelled" -> "cancelled"
      [] checkouts[r].status = "failed" -> "failed"
      [] plan = checkouts[r].target /\ checkouts[r].status \in {"charged", "created"} -> "succeeded"
      [] checkouts[r].status = "pending" -> "pending"
      [] OTHER -> "processing"

PollAnswered ==
    /\ page = "polling"
    /\ ~\E c \in running : c.by = "poll" /\ c.ref = ref
    /\ seen' = StatusOf(ref)
    /\ Go({"polling"}, IF seen' = "succeeded" THEN "success" ELSE "callback")
    /\ UNCHANGED <<vars, ref, asked, blocked, visits>>

\* An error keeps what is shown; the next poll follows.
PollFails ==
    /\ Fault
    /\ Go({"polling"}, "callback")
    /\ UNCHANGED <<plan, checkouts, subs, ended, running, paystack, renewals, ref, asked, blocked, seen, visits>>

\* After 45 seconds "Still confirming payment", until the user checks again.
TimeOut ==
    /\ Visit /\ ~Settled
    /\ Go({"callback"}, "timeout")
    /\ UNCHANGED <<vars, ref, asked, blocked, seen>>

CheckAgain ==
    /\ Go({"timeout"}, "callback")
    /\ UNCHANGED <<vars, ref, asked, blocked, seen, visits>>

User ==
    \/ \E p \in Plans \ {plan} : page = "plans" /\ (Start(p) \/ StartUnheard(p) \/ StartRefused(p))
    \/ \E p, q \in Plans : StartTogether(p, q)
    \/ CancelAndRetry \/ Recover \/ EndSubscription
    \/ PayHere \/ CancelHere \/ Close \/ Return \/ CheckAgain

Screen ==
    \/ page = "retry" /\ Retry
    \/ OpenApp \/ SyncCancellation
    \/ Poll \/ PollAnswered \/ PollFails \/ TimeOut

\* The plans asked for so far.
Asked == {checkouts[r].target : r \in Refs} \ {Basic}

Bounded ==
    /\ \A n \in {renewals, Cardinality(ended)} : faults + visits + Cardinality(Asked) + n <= MaxTurns
    /\ \A r \in Refs : r = 1 => checkouts[r].target \in {Basic, First}

ScreensNext ==
    /\ \/ (Backend \/ External) /\ UNCHANGED screens
       \/ User \/ Screen
    /\ UNCHANGED kind
    /\ Bounded'

ScreensSpec == ScreensInit /\ [][ScreensNext]_<<kind, allVars>>

\* Screens go on by themselves; a user on a callback screen checks again, and a
\* user who is told of an open session presses the button of the banner.
ScreensLive ==
    /\ ScreensSpec
    /\ WF_allVars(UNCHANGED screens /\ \E r \in Refs : BeginEvent(r) \/ SubscriptionCreate(r))
    /\ WF_allVars(UNCHANGED screens /\ \E c \in running : ApplyCharge(c))
    /\ WF_allVars(OpenApp \/ SyncCancellation \/ PollAnswered \/ (page = "retry" /\ Retry))
    /\ SF_allVars(Poll)
    /\ WF_allVars(CheckAgain \/ CancelAndRetry)

-----------------------------------------------------------------------------
(* Properties.                                                              *)

\* A paid plan was paid for: polls that find a transaction open, late events and
\* lapses in any order never give a plan no charge went through for
\* ("the plan is only promoted after Paystack delivers a verified charge.success",
\* usePayment.ts:11); and every variable keeps its type.
PlanWasPaid ==
    /\ ScreensTypeOK
    /\ plan # Basic => \E r \in Refs : tx[r] = "success" /\ checkouts[r].target = plan

\* A charge makes one subscription, whoever applies it and how often
\* (services.py:388-402).
OneRowPerCharge ==
    \A i, j \in DOMAIN subs : subs[i].ref = subs[j].ref => i = j

\* "Kotoku only shows success after the backend confirms your upgraded account"
\* (payment/callback.tsx): nobody is shown a success for a charge that did not go
\* through, whatever other checkouts, cancellations and late events do meanwhile.
SuccessIsPaid ==
    page = "success" => tx[ref] = "success"
-----------------------------------------------------------------------------
(* The contract of the account (AccountContract).                            *)

AskedFor == [r \in Refs |-> checkouts[r].target]
Recovering == {r \in Refs : checkouts[r].recovers # 0}
PaidFor == {r \in Refs : tx[r] = "success"}
Rows == [i \in DOMAIN subs |-> [ref |-> subs[i].ref, plan |-> subs[i].plan]]

Account == INSTANCE AccountContract
           WITH asked <- AskedFor, recovery <- Recovering, paid <- PaidFor, rows <- Rows

\* Polls, late or repeated events, cancellations and recoveries never show through
\* in what the account is given: a charge is booked once, a row keeps the plan its
\* charge paid for, a recovery makes no row, and the plan is the one of a charge
\* that is applied, or lapses (services.py:318-480, tasks.py:481).
KeepsAccount == Account!Spec
=============================================================================
