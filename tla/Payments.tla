------------------------------ MODULE Payments ------------------------------
(***************************************************************************)
(* Plans, checkouts and subscriptions of one account (apps/payments):      *)
(* starting and cancelling a checkout, the events Paystack delivers in any *)
(* order, the status poll that may apply a charge before its event does,   *)
(* cancellation, recovery of a failed renewal, and the daily lapse.        *)
(*                                                                         *)
(* A charge is read (plan of the account) and applied under the checkout's *)
(* lock in two steps.  Paystack is external: a subscription checkout that  *)
(* is paid creates a subscription there, known by the checkout's reference.*)
(***************************************************************************)
EXTENDS Integers, Sequences, FiniteSets

CONSTANTS
    Plans,         \* paid plans
    Basic,         \* the plan of an account that pays nothing
    MaxCheckouts,  \* bound: checkouts started
    MaxRenewals,   \* bound: renewals Paystack attempts
    MaxRunning,    \* bound: charges being applied at a time
    MaxFaults      \* bound: events that fail or come twice, Paystack calls that fail

ASSUME PaymentsAssumption ==
    /\ Basic \notin Plans
    /\ MaxCheckouts \in Nat /\ MaxRenewals \in Nat /\ MaxRunning \in Nat /\ MaxFaults \in Nat

VARIABLES
    plan,       \* Account.plan
    checkouts,  \* reference -> its SubscriptionCheckout
    subs,       \* the Subscription rows, oldest first
    ended,      \* rows whose current period has passed
    running,    \* charges being applied: who, which reference, the plan read before the lock
    tx,         \* Paystack: state of each transaction
    billed,     \* Paystack: references whose subscription renews itself
    events,     \* webhook events not processed yet
    renewals,
    faults

vars == <<plan, checkouts, subs, ended, running, tx, billed, events, renewals, faults>>
paystack == <<tx, billed, events>>
bounds == <<renewals, faults>>

Refs == 1 .. MaxCheckouts
NoCheckout == [status |-> "none", target |-> Basic, recovers |-> 0, replaces |-> 0, activated |-> 0]
Event(type, r) == [type |-> type, ref |-> r]

Statuses == {"none", "pending", "charged", "created", "cancelled", "failed"}
AnyPlan == Plans \cup {Basic}

\* The rows of the checkouts when there are n subscriptions, and those of the
\* subscriptions; charges that are being applied, and webhook events.
Checkouts(n) == [status : Statuses, target : AnyPlan, recovers : 0 .. n, replaces : 0 .. n, activated : 0 .. n]
Subscriptions == [ref : Refs, plan : Plans, code : Refs \cup {0}, ending : BOOLEAN,
                  status : {"pending", "active", "past_due", "cancelled", "expired", "replaced"}]
Charges == [by : {"poll", "event"}, ref : Refs, seen : AnyPlan]
Events == [type : {"charge", "create", "payment_failed", "update", "disable"}, ref : Refs]

TypeOK ==
    /\ plan \in AnyPlan
    /\ checkouts \in [Refs -> Checkouts(Len(subs))]
    /\ subs \in Seq(Subscriptions)
    /\ ended \subseteq DOMAIN subs
    /\ running \subseteq Charges
    /\ tx \in [Refs -> {"none", "open", "failed", "success"}]
    /\ billed \subseteq Refs
    /\ events \subseteq Events
    /\ renewals \in 0 .. MaxRenewals /\ faults \in 0 .. MaxFaults

Init ==
    /\ plan = Basic
    /\ checkouts = [r \in Refs |-> NoCheckout]
    /\ subs = <<>> /\ ended = {} /\ running = {}
    /\ tx = [r \in Refs |-> "none"]
    /\ billed = {} /\ events = {}
    /\ renewals = 0 /\ faults = 0

Fault == faults < MaxFaults /\ faults' = faults + 1

-----------------------------------------------------------------------------
(* Selectors.                                                                *)

\* The newest of a set of rows or references, 0 when there is none.
Newest(S) == IF S = {} THEN 0 ELSE CHOOSE i \in S : \A j \in S : j <= i

Current == Newest({i \in DOMAIN subs : subs[i].status \in {"active", "past_due", "cancelled"}})

Open == {r \in Refs : checkouts[r].status \in {"pending", "charged"}}

Unused == {r \in Refs : checkouts[r].status = "none" /\ \A q \in 1 .. r - 1 : checkouts[q].status # "none"}

\* Rows of the account's Paystack customer; all rows have the same.
Kept == {i \in DOMAIN subs : subs[i].status # "replaced"}
WithCode(r) == Newest({i \in Kept : subs[i].code = r})

-----------------------------------------------------------------------------
(* Starting and cancelling a checkout.                                       *)

MayStart(p) ==
    /\ ~(Current # 0 /\ subs[Current].status = "active" /\ subs[Current].plan = p)
    /\ Open = {}

NewCheckout(p, replaces, recovers) ==
    [NoCheckout EXCEPT !.status = "pending", !.target = p, !.replaces = replaces, !.recovers = recovers]

InitiateSubscription(p) ==
    /\ MayStart(p)
    /\ \E r \in Unused :
        /\ checkouts' = [checkouts EXCEPT ![r] = NewCheckout(p, Current, 0)]
        /\ tx' = [tx EXCEPT ![r] = "open"]
    /\ UNCHANGED <<plan, subs, ended, running, billed, events, bounds>>

\* Two requests at once: with no current subscription the locked check of each
\* finds no row to lock, and both checkouts are created.
InitiateTwice(p, q) ==
    /\ Current = 0 /\ MayStart(p) /\ MayStart(q)
    /\ \E r \in Unused :
        /\ r + 1 \in Refs
        /\ checkouts' = [checkouts EXCEPT ![r] = NewCheckout(p, 0, 0), ![r + 1] = NewCheckout(q, 0, 0)]
        /\ tx' = [tx EXCEPT ![r] = "open", ![r + 1] = "open"]
    /\ UNCHANGED <<plan, subs, ended, running, billed, events, bounds>>

InitiateRecovery ==
    /\ Open = {} /\ Current # 0
    /\ subs[Current].status = "past_due"
    /\ \E r \in Unused :
        /\ checkouts' = [checkouts EXCEPT ![r] = NewCheckout(subs[Current].plan, 0, Current)]
        /\ tx' = [tx EXCEPT ![r] = "open"]
    /\ UNCHANGED <<plan, subs, ended, running, billed, events, bounds>>

\* Every open checkout of the account, charged ones as well.
CancelCheckout ==
    /\ Open # {}
    /\ checkouts' = [r \in Refs |-> IF r \in Open THEN [checkouts[r] EXCEPT !.status = "cancelled"] ELSE checkouts[r]]
    /\ UNCHANGED <<plan, subs, ended, running, paystack, bounds>>

-----------------------------------------------------------------------------
(* Paystack.                                                                 *)

\* The payer may come back to the page of any transaction that is not paid.
Pay(r) ==
    /\ tx[r] \in {"open", "failed"}
    /\ tx' = [tx EXCEPT ![r] = "success"]
    /\ billed' = IF checkouts[r].recovers = 0 THEN billed \cup {r} ELSE billed
    /\ events' = events \cup {Event("charge", r)} \cup IF checkouts[r].recovers = 0 THEN {Event("create", r)} ELSE {}
    /\ UNCHANGED <<plan, checkouts, subs, ended, running, bounds>>

Decline(r) ==
    /\ tx[r] = "open"
    /\ tx' = [tx EXCEPT ![r] = "failed"]
    /\ UNCHANGED <<plan, checkouts, subs, ended, running, billed, events, bounds>>

\* A renewal comes due at the end of the period.
Renew(i, type) ==
    /\ renewals < MaxRenewals
    /\ i \in ended /\ subs[i].code \in billed
    /\ renewals' = renewals + 1
    /\ events' = events \cup {Event(type, subs[i].code)}
    /\ UNCHANGED <<plan, checkouts, subs, ended, running, tx, billed, faults>>

PeriodEnds(i) ==
    /\ i \in DOMAIN subs \ ended
    /\ subs[i].code # 0
    /\ ended' = ended \cup {i}
    /\ UNCHANGED <<plan, checkouts, subs, running, paystack, bounds>>

-----------------------------------------------------------------------------
(* Applying a charge.                                                        *)

\* The plan is read before the checkout is locked.
BeginCharge(r, who) ==
    /\ Cardinality(running) < MaxRunning
    /\ running' = running \cup {[by |-> who, ref |-> r, seen |-> plan]}

\* Mutant of CheckoutStatus: every answer of Paystack is taken for a charge.
CheckoutStatusAny(r) ==
    /\ checkouts[r].status \notin {"none", "cancelled", "failed"}
    /\ BeginCharge(r, "poll")
    /\ UNCHANGED <<plan, checkouts, subs, ended, paystack, bounds>>

\* The status route asks Paystack unless the checkout is closed.  What has not
\* been tried is "abandoned" there, and may also be under way.
CheckoutStatus(r) ==
    /\ checkouts[r].status \notin {"none", "cancelled", "failed"}
    /\ \/ /\ tx[r] = "success"
          /\ BeginCharge(r, "poll")
          /\ UNCHANGED checkouts
       \/ /\ tx[r] \in {"open", "failed"}
          /\ checkouts' = [checkouts EXCEPT ![r].status = IF tx[r] = "open" THEN "cancelled" ELSE "failed"]
          /\ UNCHANGED running
    /\ UNCHANGED <<plan, subs, ended, paystack, bounds>>

BeginEvent(r) ==
    /\ Event("charge", r) \in events
    /\ BeginCharge(r, "event")
    /\ UNCHANGED <<plan, checkouts, subs, ended, paystack, bounds>>

\* Mutant of ApplySubscription: a charge always makes a row of its own.
ApplySubscriptionNew(r, seen) ==
    LET c == checkouts[r]
        row == [ref |-> r, plan |-> c.target, code |-> 0, ending |-> FALSE,
                status |-> IF c.replaces = 0 THEN "active" ELSE "pending"]
    IN /\ subs' = Append(subs, row)
       /\ checkouts' = [checkouts EXCEPT ![r].status = "charged", ![r].activated = Len(subs) + 1]
       /\ plan' = IF seen # c.target THEN c.target ELSE plan
       /\ UNCHANGED ended

\* Mutant of ApplySubscription: a cancelled checkout stays cancelled.
ApplySubscriptionOpen(r, seen) ==
    LET c == checkouts[r]
        row == [ref |-> r, plan |-> c.target, code |-> 0, ending |-> FALSE,
                status |-> IF c.replaces = 0 THEN "active" ELSE "pending"]
    IN IF c.activated # 0 \/ c.status = "cancelled"
       THEN UNCHANGED <<plan, checkouts, subs, ended>>
       ELSE /\ subs' = Append(subs, row)
            /\ checkouts' = [checkouts EXCEPT ![r].status = "charged", ![r].activated = Len(subs) + 1]
            /\ plan' = IF seen # c.target THEN c.target ELSE plan
            /\ UNCHANGED ended

\* Nothing is left to do when the row exists and the plan that was read is the
\* one paid for; otherwise the row is made, or set again, pending when another
\* subscription has to be replaced first.
ApplySubscription(r, seen) ==
    LET c == checkouts[r]
        status == IF c.replaces = 0 THEN "active" ELSE "pending"
        row == [ref |-> r, plan |-> c.target, code |-> 0, ending |-> FALSE, status |-> status]
    IN IF c.status \in {"charged", "created"} /\ c.activated # 0 /\ seen = c.target
       THEN UNCHANGED <<plan, checkouts, subs, ended>>
       ELSE /\ subs' = IF c.activated = 0 THEN Append(subs, row)
                       ELSE [subs EXCEPT ![c.activated].plan = c.target, ![c.activated].status = status,
                                         ![c.activated].ending = FALSE]
            /\ checkouts' = [checkouts EXCEPT ![r].status = "charged",
                                              ![r].activated = IF @ = 0 THEN Len(subs) + 1 ELSE @]
            /\ plan' = IF seen # c.target THEN c.target ELSE plan
            /\ UNCHANGED ended

\* The paid month is added to the period of the row that is past due.
ApplyRecovery(r) ==
    LET c == checkouts[r]
        i == c.recovers
    IN IF c.status = "created" /\ c.activated = i /\ subs[i].status = "active" /\ plan = subs[i].plan
       THEN UNCHANGED <<plan, checkouts, subs, ended>>
       ELSE /\ subs' = [subs EXCEPT ![i].status = "active", ![i].ending = FALSE]
            /\ ended' = ended \ {i}
            /\ checkouts' = [checkouts EXCEPT ![r].status = "created", ![r].activated = i]
            /\ plan' = subs[i].plan

\* An event whose task dies before it is marked processed is delivered again.
ApplyCharge(c) ==
    /\ c \in running
    /\ running' = running \ {c}
    /\ IF checkouts[c.ref].recovers = 0 THEN ApplySubscription(c.ref, c.seen) ELSE ApplyRecovery(c.ref)
    /\ IF c.by = "event"
       THEN \/ events' = events \ {Event("charge", c.ref)} /\ UNCHANGED faults
            \/ Fault /\ UNCHANGED events
       ELSE UNCHANGED <<events, faults>>
    /\ UNCHANGED <<tx, billed, renewals>>

-----------------------------------------------------------------------------
(* The other events.                                                         *)

\* The row a new Paystack subscription is written to: the newest that has none
\* yet, else the newest there is.
CreatedRow ==
    LET blank == {i \in Kept : subs[i].code = 0} IN
    IF blank # {} THEN Newest(blank) ELSE Newest(Kept)

\* Mutant of CreatedBy: always the newest that is not closed.
CreatedByNewest(i) == Newest({r \in Refs : checkouts[r].status \in {"pending", "charged", "created"}})

\* The checkout that made the row, else the newest that is not closed.
CreatedBy(i) ==
    LET made == {r \in Refs : checkouts[r].activated = i} IN
    IF made # {} THEN Newest(made)
    ELSE Newest({r \in Refs : checkouts[r].status \in {"pending", "charged", "created"}})

\* The replaced subscription is cancelled at Paystack, whose failure is only logged.
SubscriptionCreate(r) ==
    LET i == CreatedRow
        by == CreatedBy(i)
        old == IF by = 0 THEN 0 ELSE checkouts[by].replaces
        replace == old # 0 /\ subs[old].status # "replaced"
        code == IF replace THEN subs[old].code ELSE 0
        rest == events \ {Event("create", r)}
    IN /\ Event("create", r) \in events
       /\ IF i = 0 THEN UNCHANGED <<checkouts, subs, ended, billed, faults>> /\ events' = rest
          ELSE /\ subs' = [j \in DOMAIN subs |->
                            IF j = old /\ replace THEN [subs[j] EXCEPT !.status = "replaced", !.ending = FALSE]
                            ELSE IF j = i THEN [subs[j] EXCEPT !.status = "active", !.code = r, !.ending = FALSE]
                            ELSE subs[j]]
               /\ ended' = ended \ {i}
               /\ checkouts' = IF by = 0 THEN checkouts
                               ELSE [checkouts EXCEPT ![by].status = "created", ![by].activated = i]
               /\ IF code \in billed
                  THEN \/ billed' = billed \ {code} /\ events' = rest \cup {Event("disable", code)} /\ UNCHANGED faults
                       \/ Fault /\ events' = rest /\ UNCHANGED billed
                  ELSE events' = rest /\ UNCHANGED <<billed, faults>>
       /\ UNCHANGED <<plan, running, tx, renewals>>

\* The row an event is about: a failed renewal may also name it by e-mail.
Found(e) == IF e.type = "payment_failed" /\ WithCode(e.ref) = 0 THEN Newest(Kept) ELSE WithCode(e.ref)

StatusAfter(type) ==
    CASE type = "payment_failed" -> "past_due"
      [] type = "disable" -> "cancelled"
      [] type = "update" -> "active"

\* Whatever the status was before.
SubscriptionEvent(e) ==
    LET i == Found(e) IN
    /\ e \in events /\ e.type \in {"payment_failed", "disable", "update"}
    /\ events' = events \ {e}
    /\ subs' = IF i = 0 THEN subs
               ELSE [subs EXCEPT ![i].status = StatusAfter(e.type),
                                 ![i].ending = IF e.type = "payment_failed" THEN @ ELSE e.type = "disable"]
    /\ ended' = IF e.type = "update" THEN ended \ {i} ELSE ended
    /\ UNCHANGED <<plan, checkouts, running, tx, billed, bounds>>

\* A handler that raises is not tried again.
EventFails(e) ==
    /\ e \in events
    /\ Fault
    /\ events' = events \ {e}
    /\ UNCHANGED <<plan, checkouts, subs, ended, running, tx, billed, renewals>>

-----------------------------------------------------------------------------

\* The mark is lost when there are two active rows.
CancelSubscription ==
    LET i == Current
        active == {j \in DOMAIN subs : subs[j].status = "active"}
    IN /\ i # 0 /\ subs[i].status = "active" /\ subs[i].code # 0
       /\ billed' = billed \ {subs[i].code}
       /\ events' = IF subs[i].code \in billed THEN events \cup {Event("disable", subs[i].code)} ELSE events
       /\ subs' = IF active = {i} THEN [subs EXCEPT ![i].ending = TRUE] ELSE subs
       /\ UNCHANGED <<plan, checkouts, ended, running, tx, bounds>>

\* The daily task.
ExpireLapsed(i) ==
    /\ i \in ended
    /\ subs[i].status \in {"cancelled", "past_due"}
    /\ subs' = [subs EXCEPT ![i].status = "expired"]
    /\ plan' = Basic
    /\ UNCHANGED <<checkouts, ended, running, paystack, bounds>>

Backend ==
    \/ \E e \in events : SubscriptionEvent(e) \/ EventFails(e)
    \/ \E r \in Refs : BeginEvent(r) \/ SubscriptionCreate(r)
    \/ \E c \in running : ApplyCharge(c)
    \/ \E i \in DOMAIN subs : ExpireLapsed(i) \/ PeriodEnds(i)

External ==
    \/ \E r \in Refs : Pay(r) \/ Decline(r)
    \/ \E i \in DOMAIN subs, type \in {"payment_failed", "update"} : Renew(i, type)
=============================================================================
