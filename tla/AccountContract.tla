--------------------------- MODULE AccountContract ---------------------------
(***************************************************************************)
(* What an account is owed for its payments, with every payment one step:  *)
(* the plan each checkout asks for, which of them are paid, and the rows   *)
(* of its subscriptions.  There are no webhooks, polls, cancellations or   *)
(* charges being applied here: Payments shows that, in whatever order they *)
(* come, the account's plan and rows change as if there were none.         *)
(***************************************************************************)
EXTENDS Sequences

CONSTANTS
    Refs,        \* references of checkouts
    Plans,       \* paid plans
    Basic        \* the plan of an account that pays nothing

VARIABLES
    plan,        \* the plan of the account
    asked,       \* the plan each checkout asks for, Basic for none
    recovery,    \* the checkouts that pay for a subscription that is past due
    paid,        \* the checkouts that were paid
    rows         \* the subscriptions: the checkout that made each, and its plan

account == <<plan, asked, recovery, paid, rows>>

Init ==
    /\ plan = Basic
    /\ asked = [r \in Refs |-> Basic]
    /\ recovery = {} /\ paid = {} /\ rows = <<>>

\* New checkouts, one or two at once; what was asked for stays.  One that recovers
\* is for the plan of a row.
Ask ==
    /\ asked' \in [Refs -> Plans \cup {Basic}]
    /\ \A r \in Refs : asked[r] # Basic => asked'[r] = asked[r]
    /\ recovery \subseteq recovery' /\ recovery' \subseteq Refs
    /\ \A r \in recovery' \ recovery :
         asked[r] = Basic /\ \E i \in DOMAIN rows : rows[i].plan = asked'[r]
    /\ UNCHANGED <<plan, paid, rows>>

\* Also when the checkout was cancelled.
Pay(r) ==
    /\ asked[r] # Basic /\ r \notin paid
    /\ paid' = paid \cup {r}
    /\ UNCHANGED <<plan, asked, recovery, rows>>

\* What is paid for the first time makes a row, of the plan that was asked for.
\* The account may be left on its plan: it was read before.
Subscribe(r) ==
    /\ r \in paid \ recovery
    /\ \A i \in DOMAIN rows : rows[i].ref # r
    /\ rows' = Append(rows, [ref |-> r, plan |-> asked[r]])
    /\ plan' \in {plan, asked[r]}
    /\ UNCHANGED <<asked, recovery, paid>>

\* A charge that is heard of again, or that pays for what is past due, can only
\* set the plan of the row it is for.
Restore(r) ==
    /\ r \in paid
    /\ plan' = asked[r]
    /\ \E i \in DOMAIN rows :
        /\ r \in recovery \/ rows[i].ref = r
        /\ rows[i].plan = asked[r]
    /\ UNCHANGED <<asked, recovery, paid, rows>>

Lapse ==
    /\ plan' = Basic
    /\ rows # <<>>
    /\ UNCHANGED <<asked, recovery, paid, rows>>

Next ==
    \/ Ask
    \/ \E r \in Refs : Pay(r) \/ Subscribe(r) \/ Restore(r)
    \/ Lapse

Spec == Init /\ [][Next]_account
=============================================================================
