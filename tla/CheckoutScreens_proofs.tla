----------------------- MODULE CheckoutScreens_proofs -----------------------
(***************************************************************************)
(* Theorems about Payments and the screens on top of it, for any plans,    *)
(* kinds of device and bounds.                                             *)
(***************************************************************************)
EXTENDS CheckoutScreens, SequenceTheorems, WellFoundedInduction, TLAPS

-----------------------------------------------------------------------------
(* The selectors and the rows.                                               *)

\* The newest of some rows is one of them.
LEMMA NewestIn ==
    ASSUME NEW n \in Nat, NEW S, S \subseteq 1 .. n
    PROVE  /\ Newest(S) \in S \cup {0}
           /\ Newest(S) = 0 <=> S = {}
<1>1. CASE S = {}
  BY <1>1 DEF Newest
<1>2. CASE S # {}
  <2> DEFINE T == {n - i : i \in S}
  <2>1. T \subseteq Nat /\ T # {}
    <3>1. \A i \in S : n - i \in Nat
      OBVIOUS
    <3>2. QED  BY <1>2, <3>1
  <2>2. PICK m \in T : \A k \in T : ~(<<k, m>> \in OpToRel(<, Nat))
    BY <2>1, WFMin, NatLessThanWellFounded, Zenon
  <2>3. \A k \in T : ~(k < m)
    BY <2>1, <2>2 DEF OpToRel
  <2>4. PICK i \in S : m = n - i
    OBVIOUS
  <2>5. \A j \in S : j <= i
    <3> TAKE j \in S
    <3>1. n - j \in T
      OBVIOUS
    <3>2. QED  BY <2>3, <2>4, <3>1
  <2>6. Newest(S) \in S
    BY <1>2, <2>5 DEF Newest
  <2>7. QED  BY <1>2, <2>6
<1>3. QED  BY <1>1, <1>2

LEMMA Numbers == MaxCheckouts \in Nat /\ Basic \notin Plans /\ Refs \subseteq Nat \ {0}
BY PaymentsAssumption DEF PaymentsAssumption, Refs

\* The rows of the checkouts.
LEMMA CheckoutRows ==
    ASSUME NEW n \in Nat
    PROVE  /\ NoCheckout \in Checkouts(n)
           /\ Checkouts(n) \subseteq Checkouts(n + 1)
           /\ \A c \in Checkouts(n), s \in Statuses : [c EXCEPT !.status = s] \in Checkouts(n)
           /\ \A c \in Checkouts(n), s \in Statuses, i \in 0 .. n :
                [c EXCEPT !.status = s, !.activated = i] \in Checkouts(n)
<1>1. NoCheckout \in Checkouts(n)
  BY DEF NoCheckout, Checkouts, Statuses, AnyPlan
<1>2. Checkouts(n) \subseteq Checkouts(n + 1)
  BY DEF Checkouts
<1>3. /\ \A c \in Checkouts(n), s \in Statuses : [c EXCEPT !.status = s] \in Checkouts(n)
      /\ \A c \in Checkouts(n), s \in Statuses, i \in 0 .. n :
                [c EXCEPT !.status = s, !.activated = i] \in Checkouts(n)
  BY DEF Checkouts
<1>4. QED  BY <1>1, <1>2, <1>3

LEMMA NewRows ==
    ASSUME NEW n \in Nat, NEW p \in Plans, NEW i \in 0 .. n, NEW j \in 0 .. n
    PROVE  /\ NewCheckout(p, i, j) \in Checkouts(n)
           /\ NewCheckout(p, i, j).status = "pending" /\ NewCheckout(p, i, j).target = p
           /\ NewCheckout(p, i, j).recovers = j /\ NewCheckout(p, i, j).activated = 0
<1>1. NoCheckout \in Checkouts(n) /\ NoCheckout.activated = 0
  BY CheckoutRows DEF NoCheckout
<1>2. QED  BY <1>1 DEF NewCheckout, Checkouts, Statuses, AnyPlan

SubStatuses == {"pending", "active", "past_due", "cancelled", "expired", "replaced"}

\* The rows of the subscriptions: what is changed keeps its reference.
LEMMA SubRows ==
    ASSUME NEW s \in Subscriptions, NEW st \in SubStatuses, NEW b \in BOOLEAN
    PROVE  /\ [s EXCEPT !.status = st] \in Subscriptions
           /\ [s EXCEPT !.ending = b] \in Subscriptions
           /\ [s EXCEPT !.status = st, !.ending = b] \in Subscriptions
           /\ \A r \in Refs \cup {0} : [s EXCEPT !.status = st, !.code = r, !.ending = b] \in Subscriptions
           /\ \A p \in Plans : [s EXCEPT !.plan = p, !.status = st, !.ending = b] \in Subscriptions
<1>1. [s EXCEPT !.status = st] \in Subscriptions
  BY DEF Subscriptions, SubStatuses
<1>2. [s EXCEPT !.ending = b] \in Subscriptions
  BY DEF Subscriptions
<1>3. [s EXCEPT !.status = st, !.ending = b] \in Subscriptions
  BY DEF Subscriptions, SubStatuses
<1>4. ASSUME NEW r \in Refs \cup {0} PROVE [s EXCEPT !.status = st, !.code = r, !.ending = b] \in Subscriptions
  BY DEF Subscriptions, SubStatuses
<1>5. ASSUME NEW p \in Plans PROVE [s EXCEPT !.plan = p, !.status = st, !.ending = b] \in Subscriptions
  BY DEF Subscriptions, SubStatuses
<1>6. QED  BY <1>1, <1>2, <1>3, <1>4, <1>5

\* Changing rows of a list of subscriptions.
LEMMA Rewritten ==
    ASSUME NEW s \in Seq(Subscriptions), NEW t \in [DOMAIN s -> Subscriptions]
    PROVE  t \in Seq(Subscriptions) /\ Len(t) = Len(s) /\ DOMAIN t = DOMAIN s
<1>1. Len(s) \in Nat /\ DOMAIN s = 1 .. Len(s)
  BY LenProperties
<1>2. t \in Seq(Subscriptions)
  BY <1>1, SeqDef
<1>3. Len(t) \in Nat /\ DOMAIN t = 1 .. Len(t)
  BY <1>2, LenProperties
<1>4. QED  BY <1>1, <1>2, <1>3

\* The list of the subscriptions.
LEMMA Lists ==
    ASSUME TypeOK
    PROVE  /\ Len(subs) \in Nat /\ DOMAIN subs = 1 .. Len(subs)
           /\ \A i \in DOMAIN subs :
                /\ subs[i] \in Subscriptions
                /\ subs[i].ref \in Refs /\ subs[i].plan \in Plans /\ subs[i].code \in Refs \cup {0}
           /\ subs \in [DOMAIN subs -> Subscriptions]
           /\ Current \in DOMAIN subs \cup {0} /\ CreatedRow \in DOMAIN subs \cup {0}
           /\ \A e : Found(e) \in DOMAIN subs \cup {0}
<1>1. subs \in Seq(Subscriptions)
  BY DEF TypeOK
<1>2. /\ Len(subs) \in Nat /\ DOMAIN subs = 1 .. Len(subs)
      /\ subs \in [DOMAIN subs -> Subscriptions]
  BY <1>1, LenProperties, Zenon
<1>3. ASSUME NEW i \in DOMAIN subs
      PROVE  /\ subs[i] \in Subscriptions
             /\ subs[i].ref \in Refs /\ subs[i].plan \in Plans /\ subs[i].code \in Refs \cup {0}
  <2>1. subs[i] \in Subscriptions
    BY <1>2
  <2>2. QED  BY <2>1 DEF Subscriptions
<1>4. \A S : S \subseteq DOMAIN subs => Newest(S) \in DOMAIN subs \cup {0}
  <2> TAKE S
  <2>1. HAVE S \subseteq DOMAIN subs
  <2>2. QED  BY <1>2, <2>1, NewestIn
<1>5. Current \in DOMAIN subs \cup {0}
  BY <1>4 DEF Current
<1>6. CreatedRow \in DOMAIN subs \cup {0}
  <2>1. Newest(Kept) \in DOMAIN subs \cup {0} /\ Newest({i \in Kept : subs[i].code = 0}) \in DOMAIN subs \cup {0}
    BY <1>4 DEF Kept
  <2>2. QED  BY <2>1, Zenon DEF CreatedRow
<1>7. ASSUME NEW e PROVE Found(e) \in DOMAIN subs \cup {0}
  <2>1. Newest(Kept) \in DOMAIN subs \cup {0} /\ WithCode(e.ref) \in DOMAIN subs \cup {0}
    BY <1>4 DEF Kept, WithCode
  <2>2. QED  BY <2>1, Zenon DEF Found
<1>8. QED  BY <1>2, <1>3, <1>5, <1>6, <1>7

\* The rows that checkouts name.
LEMMA RowNumbers ==
    ASSUME TypeOK, NEW r \in Refs
    PROVE  /\ checkouts[r] \in Checkouts(Len(subs))
           /\ checkouts[r].recovers # 0 => checkouts[r].recovers \in DOMAIN subs
           /\ checkouts[r].activated # 0 => checkouts[r].activated \in DOMAIN subs
<1>1. checkouts[r] \in Checkouts(Len(subs))
  BY DEF TypeOK
<1>2. Len(subs) \in Nat /\ DOMAIN subs = 1 .. Len(subs)
  BY Lists
<1>3. QED  BY <1>1, <1>2 DEF Checkouts

\* A step that makes no row keeps the types, where each variable does.
LEMMA TypeSteps ==
    ASSUME TypeOK,
           plan' \in AnyPlan, subs' \in [DOMAIN subs -> Subscriptions],
           checkouts' \in [Refs -> Checkouts(Len(subs))],
           ended' \subseteq DOMAIN subs, running' \subseteq Charges,
           tx' \in [Refs -> {"none", "open", "failed", "success"}],
           billed' \subseteq Refs, events' \subseteq Events,
           renewals' \in 0 .. MaxRenewals, faults' \in 0 .. MaxFaults
    PROVE  TypeOK' /\ DOMAIN subs' = DOMAIN subs
<1>1. subs' \in Seq(Subscriptions) /\ Len(subs') = Len(subs) /\ DOMAIN subs' = DOMAIN subs
  BY Rewritten DEF TypeOK
<1>2. QED  BY <1>1 DEF TypeOK

-----------------------------------------------------------------------------
(* The invariant of the payments.                                            *)

Paid(p) == \E r \in Refs : tx[r] = "success" /\ checkouts[r].target = p

\* References are used one after the other, each for a paid plan.
Opened ==
    \A r \in Refs :
        /\ checkouts[r].status = "none" => checkouts[r] = NoCheckout /\ tx[r] = "none"
        /\ checkouts[r].status # "none" =>
            /\ checkouts[r].target \in Plans
            /\ \A q \in 1 .. r : checkouts[q].status # "none"

\* A recovery activates nothing but the row it is for.
Recoveries ==
    \A r \in Refs : checkouts[r].recovers # 0 => checkouts[r].activated \in {0, checkouts[r].recovers}

\* Every row is the one its reference has activated.
Makers == \A i \in DOMAIN subs : checkouts[subs[i].ref].activated = i

\* What is being applied, or has been, was paid.
ChargesPaid ==
    /\ \A c \in running : tx[c.ref] = "success"
    /\ \A e \in events : e.type = "charge" => tx[e.ref] = "success"
    /\ \A r \in Refs :
         checkouts[r].activated # 0 \/ checkouts[r].status \in {"charged", "created"} => tx[r] = "success"

\* The plan, and the plan of every row, was paid.
PlansPaid ==
    /\ plan # Basic => Paid(plan)
    /\ \A i \in DOMAIN subs : Paid(subs[i].plan)

\* A row has the plan its checkout asked for, a recovery asks for the plan of the row
\* it is for, and what another checkout has activated is the row it made.
Booked ==
    /\ \A i \in DOMAIN subs :
         checkouts[subs[i].ref].recovers = 0 /\ checkouts[subs[i].ref].target = subs[i].plan
    /\ \A r \in Refs : checkouts[r].recovers # 0 => subs[checkouts[r].recovers].plan = checkouts[r].target
    /\ \A r \in Refs :
         checkouts[r].recovers = 0 /\ checkouts[r].activated # 0 => subs[checkouts[r].activated].ref = r

PaymentsInv == TypeOK /\ Opened /\ Recoveries /\ Makers /\ ChargesPaid /\ PlansPaid /\ Booked

\* The step is one of the account's contract, or none.
AccountStep == [Account!Next]_(Account!account)

LEMMA InitPaymentsInv == Init => PaymentsInv
<1> SUFFICES ASSUME Init PROVE PaymentsInv
  OBVIOUS
<1>1. subs = <<>> /\ Len(subs) = 0 /\ DOMAIN subs = {} /\ subs \in Seq(Subscriptions)
  BY EmptySeq DEF Init
<1>2. \A r \in Refs : checkouts[r] = NoCheckout /\ tx[r] = "none"
  BY DEF Init
<1>3. TypeOK
  <2>1. checkouts \in [Refs -> Checkouts(Len(subs))]
    BY <1>1, CheckoutRows DEF Init
  <2>2. renewals \in 0 .. MaxRenewals /\ faults \in 0 .. MaxFaults
    BY PaymentsAssumption DEF Init, PaymentsAssumption
  <2>3. QED  BY <1>1, <2>1, <2>2 DEF Init, TypeOK, AnyPlan
<1>4. \A r \in Refs : checkouts[r].status = "none" /\ checkouts[r].recovers = 0 /\ checkouts[r].activated = 0
  BY <1>2 DEF NoCheckout
<1>5. Booked
  <2>1. DOMAIN subs = {}
    BY <1>1
  <2>2. QED  BY <1>4, <2>1, Zenon DEF Booked
<1>6. QED  BY <1>1, <1>2, <1>3, <1>4, <1>5
           DEF Init, PaymentsInv, Opened, Recoveries, Makers, ChargesPaid, PlansPaid

\* A checkout r, as a step that starts none leaves it.
Moves(r) ==
    \/ checkouts'[r] = checkouts[r]
    \/ /\ checkouts[r].status # "none" /\ checkouts'[r].status # "none"
       /\ checkouts'[r].target = checkouts[r].target /\ checkouts'[r].recovers = checkouts[r].recovers
       /\ \/ checkouts'[r].activated = checkouts[r].activated
          \/ /\ checkouts[r].activated = 0 /\ checkouts[r].recovers # 0 /\ tx[r] = "success"
             /\ checkouts'[r].activated = checkouts[r].recovers
       /\ checkouts'[r].status \in {"charged", "created"} => tx[r] = "success"

\* A step that makes no row and starts no checkout, as the account sees it: one
\* charge may go through, the plan may lapse, or be set by a charge that went through.
Effects ==
    \/ plan' = plan /\ tx' = tx
    \/ plan' = plan /\ \E r \in Refs : \A q \in Refs \ {r} : tx'[q] = "success" <=> tx[q] = "success"
    \/ plan' = Basic /\ DOMAIN subs # {} /\ tx' = tx
    \/ /\ tx' = tx
       /\ \E r \in Refs, i \in DOMAIN subs :
            /\ tx[r] = "success" /\ plan' = checkouts[r].target /\ subs[i].plan = checkouts[r].target
            /\ checkouts[r].recovers # 0 \/ subs[i].ref = r

\* A step that starts no checkout and makes no row keeps the invariant.
LEMMA KeepSteps ==
    ASSUME PaymentsInv, TypeOK',
           \A r \in Refs : Moves(r),
           \A r \in Refs : tx'[r] = tx[r] \/ (tx[r] \notin {"none", "success"} /\ tx'[r] # "none"),
           DOMAIN subs' = DOMAIN subs,
           \A i \in DOMAIN subs : subs'[i].ref = subs[i].ref /\ subs'[i].plan = subs[i].plan,
           \A c \in running' : tx'[c.ref] = "success",
           \A e \in events' : e.type = "charge" => tx'[e.ref] = "success",
           Effects
    PROVE  PaymentsInv' /\ AccountStep
<1> USE DEF PaymentsInv
<1>1. Opened'
  <2>1. \A r \in Refs : checkouts'[r].status = "none" <=> checkouts[r].status = "none"
    BY DEF Moves
  <2>2. ASSUME NEW r \in Refs, checkouts'[r].status = "none" PROVE checkouts'[r] = NoCheckout /\ tx'[r] = "none"
    BY <2>2 DEF Opened, Moves
  <2>3. ASSUME NEW r \in Refs, checkouts'[r].status # "none"
        PROVE  checkouts'[r].target \in Plans /\ \A q \in 1 .. r : checkouts'[q].status # "none"
    <3>1. checkouts[r].target \in Plans /\ \A q \in 1 .. r : checkouts[q].status # "none"
      BY <2>1, <2>3 DEF Opened
    <3>2. checkouts'[r].target = checkouts[r].target
      BY DEF Moves
    <3>3. 1 .. r \subseteq Refs
      BY Numbers DEF Refs
    <3>4. QED  BY <2>1, <3>1, <3>2, <3>3
  <2>4. QED  BY <2>2, <2>3 DEF Opened
<1>2. Recoveries'
  BY DEF Recoveries, Moves
<1>3. Makers'
  <2>1. ASSUME NEW i \in DOMAIN subs PROVE checkouts'[subs'[i].ref].activated = i
    <3>1. DOMAIN subs = 1 .. Len(subs) /\ Len(subs) \in Nat /\ subs[i].ref \in Refs
      BY Lists
    <3>2. checkouts[subs[i].ref].activated = i /\ i # 0
      BY <3>1 DEF Makers
    <3>3. QED  BY <3>1, <3>2 DEF Moves
  <2>2. QED  BY <2>1 DEF Makers
<1>4. ChargesPaid'
  <2>1. ASSUME NEW r \in Refs, checkouts'[r].activated # 0 \/ checkouts'[r].status \in {"charged", "created"}
        PROVE  tx'[r] = "success"
    <3>1. tx[r] = "success"
      BY <2>1 DEF ChargesPaid, Moves
    <3>2. QED  BY <3>1
  <2>2. QED  BY <2>1 DEF ChargesPaid
<1>5. ASSUME NEW p, Paid(p) PROVE Paid(p)'
  BY <1>5 DEF Paid, Moves
<1>6. PlansPaid'
  <2>1. plan' = plan \/ plan' = Basic \/ Paid(plan')
    BY DEF Effects, Paid
  <2>2. plan' # Basic => Paid(plan')
    BY <2>1 DEF PlansPaid
  <2>3. plan' # Basic => Paid(plan)'
    BY <1>5, <2>2 DEF Paid
  <2>4. ASSUME NEW i \in DOMAIN subs PROVE Paid(subs[i].plan)'
    <3>1. Paid(subs[i].plan) /\ subs'[i].plan = subs[i].plan
      BY DEF PlansPaid
    <3>2. QED  BY <1>5, <3>1 DEF Paid
  <2>5. QED  BY <2>3, <2>4 DEF PlansPaid
<1>7. Booked'
  <2>1. \A r \in Refs : /\ checkouts'[r].target = checkouts[r].target /\ checkouts'[r].recovers = checkouts[r].recovers
                        /\ checkouts[r].recovers = 0 => checkouts'[r].activated = checkouts[r].activated
    BY DEF Moves
  <2>2. \A i \in DOMAIN subs : subs[i].ref \in Refs
    BY Lists
  <2>3. \A r \in Refs : /\ checkouts[r].recovers # 0 => checkouts[r].recovers \in DOMAIN subs
                        /\ checkouts[r].activated # 0 => checkouts[r].activated \in DOMAIN subs
    BY RowNumbers
  <2>4. \A i \in DOMAIN subs :
          checkouts'[subs'[i].ref].recovers = 0 /\ checkouts'[subs'[i].ref].target = subs'[i].plan
    BY <2>1, <2>2 DEF Booked
  <2>5. \A r \in Refs : checkouts'[r].recovers # 0 => subs'[checkouts'[r].recovers].plan = checkouts'[r].target
    BY <2>1, <2>3 DEF Booked
  <2>6. \A r \in Refs :
          checkouts'[r].recovers = 0 /\ checkouts'[r].activated # 0 => subs'[checkouts'[r].activated].ref = r
    BY <2>1, <2>3 DEF Booked
  <2>7. QED  BY <2>4, <2>5, <2>6 DEF Booked
<1>8. AccountStep
  <2>1. AskedFor' = AskedFor /\ Recovering' = Recovering
    BY DEF Moves, AskedFor, Recovering
  <2>2. Rows' = Rows
    BY DEF Rows
  <2>3. CASE plan' = plan /\ PaidFor' = PaidFor
    BY <2>1, <2>2, <2>3 DEF AccountStep, Account!account
  <2>4. CASE plan' = plan /\ \E r \in Refs : \A q \in Refs \ {r} : tx'[q] = "success" <=> tx[q] = "success"
    <3>1. PICK r \in Refs : \A q \in Refs \ {r} : tx'[q] = "success" <=> tx[q] = "success"
      BY <2>4
    <3>2. CASE tx'[r] = "success" /\ tx[r] # "success"
      <4>1. checkouts[r].target # Basic
        BY <3>2, Numbers DEF Opened
      <4>2. PaidFor' = PaidFor \cup {r} /\ r \notin PaidFor
        BY <3>1, <3>2 DEF PaidFor
      <4>3. Account!Pay(r)
        BY <2>1, <2>2, <2>4, <4>1, <4>2 DEF Account!Pay, AskedFor
      <4>4. QED  BY <4>3 DEF AccountStep, Account!Next
    <3>3. CASE ~(tx'[r] = "success" /\ tx[r] # "success")
      <4>1. \A q \in Refs : tx'[q] = "success" <=> tx[q] = "success"
        BY <3>1, <3>3
      <4>2. PaidFor' = PaidFor
        BY <4>1 DEF PaidFor
      <4>3. QED  BY <2>3, <2>4, <4>2
    <3>4. QED  BY <3>2, <3>3
  <2>5. CASE plan' = Basic /\ DOMAIN subs # {} /\ tx' = tx
    <3>1. Rows # <<>>
      BY <2>5, EmptySeq DEF Rows
    <3>2. Account!Lapse
      BY <2>1, <2>2, <2>5, <3>1 DEF Account!Lapse, PaidFor
    <3>3. QED  BY <3>2 DEF AccountStep, Account!Next
  <2>6. ASSUME NEW r \in Refs, NEW i \in DOMAIN subs, tx' = tx,
               tx[r] = "success", plan' = checkouts[r].target, subs[i].plan = checkouts[r].target,
               checkouts[r].recovers # 0 \/ subs[i].ref = r
        PROVE  AccountStep
    <3>1. r \in PaidFor /\ (checkouts[r].recovers # 0 => r \in Recovering) /\ AskedFor[r] = checkouts[r].target
      BY <2>6 DEF PaidFor, Recovering, AskedFor
    <3>2. i \in DOMAIN Rows /\ Rows[i].ref = subs[i].ref /\ Rows[i].plan = subs[i].plan
      BY DEF Rows
    <3>3. PaidFor' = PaidFor
      BY <2>6 DEF PaidFor
    <3>4. Account!Restore(r)
      BY <2>1, <2>2, <2>6, <3>1, <3>2, <3>3 DEF Account!Restore
    <3>5. QED  BY <3>4 DEF AccountStep, Account!Next
  <2>7. tx' = tx => PaidFor' = PaidFor
    BY DEF PaidFor
  <2>8. QED  BY <2>3, <2>4, <2>5, <2>6, <2>7 DEF Effects
<1>9. QED  BY <1>1, <1>2, <1>3, <1>4, <1>6, <1>7, <1>8

\* A step that starts checkouts keeps the invariant.
LEMMA OpenSteps ==
    ASSUME PaymentsInv, TypeOK', UNCHANGED <<plan, subs, running, events>>,
           NEW S \in SUBSET Refs,
           \A r \in S : checkouts[r].status = "none" /\ \A q \in 1 .. r : q \in S \/ checkouts[q].status # "none",
           \A r \in S : /\ checkouts'[r].status = "pending" /\ checkouts'[r].target \in Plans
                        /\ checkouts'[r].activated = 0 /\ tx'[r] = "open",
           \A r \in S : checkouts'[r].recovers # 0 =>
                /\ checkouts'[r].recovers \in DOMAIN subs
                /\ subs[checkouts'[r].recovers].plan = checkouts'[r].target,
           \A r \in Refs \ S : checkouts'[r] = checkouts[r] /\ tx'[r] = tx[r]
    PROVE  PaymentsInv' /\ AccountStep
<1> USE DEF PaymentsInv
<1>1. Opened'
  <2>1. ASSUME NEW r \in Refs, checkouts'[r].status = "none" PROVE checkouts'[r] = NoCheckout /\ tx'[r] = "none"
    BY <2>1 DEF Opened
  <2>2. ASSUME NEW r \in Refs, checkouts'[r].status # "none"
        PROVE  checkouts'[r].target \in Plans /\ \A q \in 1 .. r : checkouts'[q].status # "none"
    <3>1. \A q \in 1 .. r : q \in S \/ checkouts[q].status # "none"
      BY <2>2 DEF Opened
    <3>2. 1 .. r \subseteq Refs
      BY Numbers DEF Refs
    <3>3. QED  BY <2>2, <3>1, <3>2 DEF Opened
  <2>3. QED  BY <2>1, <2>2 DEF Opened
<1>2. Recoveries'
  BY DEF Recoveries
<1>3. \A r \in Refs : checkouts[r].status = "none" => checkouts[r].activated = 0
  BY DEF Opened, NoCheckout
<1>4. Makers'
  <2>1. ASSUME NEW i \in DOMAIN subs PROVE checkouts'[subs[i].ref].activated = i
    <3>1. DOMAIN subs = 1 .. Len(subs) /\ Len(subs) \in Nat /\ subs[i].ref \in Refs
      BY Lists
    <3>2. checkouts[subs[i].ref].activated = i /\ i # 0
      BY <3>1 DEF Makers
    <3>3. QED  BY <1>3, <3>1, <3>2
  <2>2. QED  BY <2>1 DEF Makers
<1>5. \A r \in Refs : tx[r] = "success" => r \notin S
  BY DEF Opened
<1>6. ChargesPaid'
  BY <1>5 DEF ChargesPaid, TypeOK, Charges, Events
<1>7. ASSUME NEW p, Paid(p) PROVE Paid(p)'
  BY <1>5, <1>7 DEF Paid
<1>8. PlansPaid'
  BY <1>7 DEF PlansPaid
<1>9. \A r \in S : checkouts[r] = NoCheckout /\ checkouts[r].target = Basic /\ checkouts[r].recovers = 0
  BY DEF Opened, NoCheckout
<1>10. Booked'
  <2>1. ASSUME NEW i \in DOMAIN subs
        PROVE  checkouts'[subs[i].ref].recovers = 0 /\ checkouts'[subs[i].ref].target = subs[i].plan
    <3>1. DOMAIN subs = 1 .. Len(subs) /\ Len(subs) \in Nat /\ subs[i].ref \in Refs
      BY Lists
    <3>2. checkouts[subs[i].ref].activated = i /\ i # 0
      BY <3>1 DEF Makers
    <3>3. subs[i].ref \notin S
      BY <1>3, <3>2
    <3>4. QED  BY <3>1, <3>3 DEF Booked
  <2>2. \A r \in Refs : checkouts'[r].recovers # 0 => subs[checkouts'[r].recovers].plan = checkouts'[r].target
    BY DEF Booked
  <2>3. \A r \in Refs :
          checkouts'[r].recovers = 0 /\ checkouts'[r].activated # 0 => subs[checkouts'[r].activated].ref = r
    BY DEF Booked
  <2>4. QED  BY <2>1, <2>2, <2>3 DEF Booked
<1>11. AccountStep
  <2>1. AskedFor' \in [Refs -> Plans \cup {Basic}]
    BY DEF AskedFor, TypeOK, Checkouts, AnyPlan
  <2>2. \A r \in Refs : AskedFor[r] # Basic => AskedFor'[r] = AskedFor[r]
    BY <1>9 DEF AskedFor
  <2>3. Recovering \subseteq Recovering' /\ Recovering' \subseteq Refs
    BY <1>9 DEF Recovering
  <2>4. ASSUME NEW r \in Recovering' \ Recovering
        PROVE  AskedFor[r] = Basic /\ \E i \in DOMAIN Rows : Rows[i].plan = AskedFor'[r]
    <3>1. r \in S /\ checkouts'[r].recovers # 0
      BY DEF Recovering
    <3>2. AskedFor[r] = Basic /\ AskedFor'[r] = checkouts'[r].target
      BY <1>9, <3>1 DEF AskedFor
    <3>3. checkouts'[r].recovers \in DOMAIN Rows /\ Rows[checkouts'[r].recovers].plan = checkouts'[r].target
      BY <3>1 DEF Rows
    <3>4. QED  BY <3>2, <3>3
  <2>5. Rows' = Rows /\ PaidFor' = PaidFor
    BY <1>5 DEF Rows, PaidFor
  <2>6. Account!Ask
    BY <2>1, <2>2, <2>3, <2>4, <2>5 DEF Account!Ask
  <2>7. QED  BY <2>6 DEF AccountStep, Account!Next
<1>12. QED  BY <1>1, <1>2, <1>4, <1>6, <1>8, <1>10, <1>11

-----------------------------------------------------------------------------
(* The steps of the payments.                                                *)

LEMMA FaultSteps ==
    ASSUME TypeOK
    PROVE  /\ Fault => faults' \in 0 .. MaxFaults
           /\ UNCHANGED faults => faults' \in 0 .. MaxFaults
           /\ UNCHANGED renewals => renewals' \in 0 .. MaxRenewals
BY PaymentsAssumption DEF TypeOK, Fault, PaymentsAssumption

\* A checkout is started.
LEMMA StartSteps ==
    ASSUME PaymentsInv, NEW p \in Plans, NEW r \in Unused, NEW i \in 0 .. Len(subs), NEW j \in 0 .. Len(subs),
           j # 0 => subs[j].plan = p,
           checkouts' = [checkouts EXCEPT ![r] = NewCheckout(p, i, j)],
           tx' = [tx EXCEPT ![r] = "open"],
           UNCHANGED <<plan, subs, ended, running, billed, events, renewals>>, faults' \in 0 .. MaxFaults
    PROVE  PaymentsInv' /\ AccountStep
<1>0. TypeOK
  BY DEF PaymentsInv
<1>1. r \in Refs /\ checkouts[r].status = "none" /\ \A q \in 1 .. r - 1 : checkouts[q].status # "none"
  BY DEF Unused
<1>2. /\ NewCheckout(p, i, j) \in Checkouts(Len(subs)) /\ NewCheckout(p, i, j).status = "pending"
      /\ NewCheckout(p, i, j).target = p /\ NewCheckout(p, i, j).activated = 0
      /\ NewCheckout(p, i, j).recovers = j /\ (j # 0 => j \in DOMAIN subs)
  BY <1>0, Lists, NewRows
<1>3. checkouts' \in [Refs -> Checkouts(Len(subs))] /\ tx' \in [Refs -> {"none", "open", "failed", "success"}]
  BY <1>0, <1>2 DEF TypeOK
<1>4. TypeOK'
  BY <1>0, <1>3 DEF TypeOK
<1>5. \A q \in Refs : /\ checkouts'[q] = IF q = r THEN NewCheckout(p, i, j) ELSE checkouts[q]
                      /\ tx'[q] = IF q = r THEN "open" ELSE tx[q]
  BY <1>0 DEF TypeOK
<1>6. \A q \in {r} : checkouts[q].status = "none" /\ \A k \in 1 .. q : k \in {r} \/ checkouts[k].status # "none"
  BY <1>1, Numbers DEF Refs
<1>7. {r} \in SUBSET Refs
  BY <1>1
<1>8. \A q \in {r} : /\ checkouts'[q].status = "pending" /\ checkouts'[q].target \in Plans
                     /\ checkouts'[q].activated = 0 /\ tx'[q] = "open"
  BY <1>1, <1>2, <1>5
<1>9. \A q \in Refs \ {r} : checkouts'[q] = checkouts[q] /\ tx'[q] = tx[q]
  BY <1>5
<1>10. \A q \in {r} : checkouts'[q].recovers # 0 =>
         /\ checkouts'[q].recovers \in DOMAIN subs
         /\ subs[checkouts'[q].recovers].plan = checkouts'[q].target
  BY <1>1, <1>2, <1>5
<1>11. QED  BY <1>4, <1>6, <1>7, <1>8, <1>9, <1>10, OpenSteps

\* Two are started at once.
LEMMA StartTwice ==
    ASSUME PaymentsInv, NEW p \in Plans, NEW q \in Plans, InitiateTwice(p, q)
    PROVE  PaymentsInv' /\ AccountStep
<1>0. TypeOK
  BY DEF PaymentsInv
<1>1. PICK r \in Unused :
        /\ r + 1 \in Refs
        /\ checkouts' = [checkouts EXCEPT ![r] = NewCheckout(p, 0, 0), ![r + 1] = NewCheckout(q, 0, 0)]
        /\ tx' = [tx EXCEPT ![r] = "open", ![r + 1] = "open"]
  BY DEF InitiateTwice
<1>2. r \in Refs /\ checkouts[r].status = "none" /\ \A k \in 1 .. r - 1 : checkouts[k].status # "none"
  BY DEF Unused
<1>3. checkouts[r + 1].status = "none"
  <2>1. r \in 1 .. r + 1
    BY <1>2, Numbers DEF Refs
  <2>2. QED  BY <1>1, <1>2, <2>1 DEF PaymentsInv, Opened
<1>4. \A k \in Plans : /\ NewCheckout(k, 0, 0) \in Checkouts(Len(subs)) /\ NewCheckout(k, 0, 0).status = "pending"
                       /\ NewCheckout(k, 0, 0).target = k /\ NewCheckout(k, 0, 0).activated = 0
                       /\ NewCheckout(k, 0, 0).recovers = 0
  BY <1>0, Lists, NewRows
<1>5. /\ checkouts' \in [Refs -> Checkouts(Len(subs))] /\ tx' \in [Refs -> {"none", "open", "failed", "success"}]
  BY <1>0, <1>1, <1>4 DEF TypeOK
<1>6. TypeOK'
  BY <1>0, <1>5 DEF TypeOK, InitiateTwice, bounds
<1>7. r # r + 1
  BY <1>2, Numbers
<1>8. \A k \in Refs : /\ checkouts'[k] = IF k = r THEN NewCheckout(p, 0, 0)
                                          ELSE IF k = r + 1 THEN NewCheckout(q, 0, 0) ELSE checkouts[k]
                      /\ tx'[k] = IF k \in {r, r + 1} THEN "open" ELSE tx[k]
  BY <1>0, <1>1, <1>2, <1>7 DEF TypeOK
<1>9. \A k \in 1 .. r + 1 : k \in {r, r + 1} \/ checkouts[k].status # "none"
  BY <1>2, Numbers DEF Refs
<1>10. {r, r + 1} \in SUBSET Refs /\ 1 .. r \subseteq 1 .. r + 1
  BY <1>1, <1>2, Numbers
<1>11. UNCHANGED <<plan, subs, running, events>>
  BY DEF InitiateTwice
<1>12. \A k \in {r, r + 1} :
         checkouts[k].status = "none" /\ \A m \in 1 .. k : m \in {r, r + 1} \/ checkouts[m].status # "none"
  BY <1>2, <1>3, <1>9, <1>10
<1>13. \A k \in {r, r + 1} : /\ checkouts'[k].status = "pending" /\ checkouts'[k].target \in Plans
                             /\ checkouts'[k].activated = 0 /\ tx'[k] = "open" /\ checkouts'[k].recovers = 0
  <2>1. checkouts'[r] = NewCheckout(p, 0, 0) /\ tx'[r] = "open"
    BY <1>2, <1>8
  <2>2. checkouts'[r + 1] = NewCheckout(q, 0, 0) /\ tx'[r + 1] = "open"
    BY <1>1, <1>7, <1>8
  <2>3. QED  BY <1>4, <2>1, <2>2
<1>14. \A k \in Refs \ {r, r + 1} : checkouts'[k] = checkouts[k] /\ tx'[k] = tx[k]
  BY <1>8
<1>15. QED  BY <1>6, <1>10, <1>11, <1>12, <1>13, <1>14, OpenSteps

\* What the user starts and cancels.
LEMMA CheckoutSteps ==
    ASSUME PaymentsInv,
           \/ \E p \in Plans : InitiateSubscription(p)
           \/ InitiateRecovery \/ CancelCheckout
    PROVE  PaymentsInv' /\ AccountStep
<1>0. TypeOK
  BY DEF PaymentsInv
<1>1. Current \in 0 .. Len(subs) /\ 0 \in 0 .. Len(subs)
  BY <1>0, Lists
<1>2. ASSUME NEW p \in Plans, InitiateSubscription(p) PROVE PaymentsInv' /\ AccountStep
  <2>1. /\ UNCHANGED <<plan, subs, ended, running, billed, events, renewals>> /\ faults' \in 0 .. MaxFaults
    BY <1>0, <1>2 DEF InitiateSubscription, bounds, TypeOK
  <2>2. PICK r \in Unused : /\ checkouts' = [checkouts EXCEPT ![r] = NewCheckout(p, Current, 0)]
                            /\ tx' = [tx EXCEPT ![r] = "open"]
    BY <1>2 DEF InitiateSubscription
  <2>3. QED  BY <1>1, <2>1, <2>2, StartSteps
<1>3. CASE InitiateRecovery
  <2>1. /\ UNCHANGED <<plan, subs, ended, running, billed, events, renewals>> /\ faults' \in 0 .. MaxFaults
    BY <1>0, <1>3 DEF InitiateRecovery, bounds, TypeOK
  <2>2. PICK r \in Unused : /\ checkouts' = [checkouts EXCEPT ![r] = NewCheckout(subs[Current].plan, 0, Current)]
                            /\ tx' = [tx EXCEPT ![r] = "open"]
    BY <1>3 DEF InitiateRecovery
  <2>3. subs[Current].plan \in Plans
    BY <1>0, <1>3, Lists DEF InitiateRecovery
  <2>4. QED  BY <1>1, <2>1, <2>2, <2>3, StartSteps
<1>4. CASE CancelCheckout
  <2>1. UNCHANGED <<plan, subs, ended, running, tx, billed, events, renewals, faults>>
    BY <1>4 DEF CancelCheckout, paystack, bounds
  <2>2. \A r \in Refs : checkouts'[r] = IF r \in Open THEN [checkouts[r] EXCEPT !.status = "cancelled"] ELSE checkouts[r]
    BY <1>4 DEF CancelCheckout
  <2>3. checkouts' \in [Refs -> Checkouts(Len(subs))]
    <3>1. Len(subs) \in Nat /\ checkouts \in [Refs -> Checkouts(Len(subs))] /\ "cancelled" \in Statuses
      BY <1>0, Lists DEF TypeOK, Statuses
    <3>2. \A r \in Refs : [checkouts[r] EXCEPT !.status = "cancelled"] \in Checkouts(Len(subs))
      BY <3>1, CheckoutRows
    <3>3. QED  BY <1>4, <3>1, <3>2 DEF CancelCheckout
  <2>4. TypeOK'
    BY <1>0, <2>1, <2>3 DEF TypeOK
  <2>5. ASSUME NEW r \in Refs PROVE Moves(r)
    <3>1. checkouts[r] \in Checkouts(Len(subs))
      BY <1>0 DEF TypeOK
    <3>2. CASE r \in Open
      <4>1. checkouts'[r] = [checkouts[r] EXCEPT !.status = "cancelled"] /\ checkouts[r].status # "none"
        BY <2>2, <3>2 DEF Open
      <4>2. QED  BY <3>1, <4>1 DEF Moves, Checkouts
    <3>3. CASE r \notin Open
      BY <2>2, <3>3 DEF Moves
    <3>4. QED  BY <3>2, <3>3
  <2>6. QED  BY <2>1, <2>4, <2>5, KeepSteps DEF PaymentsInv, ChargesPaid, Effects
<1>5. QED  BY <1>2, <1>3, <1>4

\* Paystack, and what is read before a charge is applied.
LEMMA ReadingSteps ==
    ASSUME PaymentsInv,
           \/ External
           \/ \E r \in Refs : BeginEvent(r) \/ CheckoutStatus(r)
           \/ \E e \in events : EventFails(e)
           \/ \E i \in DOMAIN subs : PeriodEnds(i)
    PROVE  PaymentsInv' /\ AccountStep
<1>0. /\ TypeOK /\ subs \in [DOMAIN subs -> Subscriptions]
      /\ \A i \in DOMAIN subs : subs[i].code \in Refs \cup {0}
  BY Lists DEF PaymentsInv
\* The steps that change neither plan, checkouts nor rows.
<1>1. ASSUME UNCHANGED <<plan, checkouts, subs>>, ended' \subseteq DOMAIN subs,
             running' \subseteq Charges, \A c \in running' \ running : tx[c.ref] = "success",
             tx' \in [Refs -> {"none", "open", "failed", "success"}],
             \A r \in Refs : tx'[r] = tx[r] \/ (tx[r] \notin {"none", "success"} /\ tx'[r] # "none"),
             billed' \subseteq Refs,
             events' \subseteq Events, \A e \in events' \ events : e.type = "charge" => tx'[e.ref] = "success",
             renewals' \in 0 .. MaxRenewals, faults' \in 0 .. MaxFaults, Effects
      PROVE  PaymentsInv' /\ AccountStep
  <2>1. TypeOK'
    BY <1>0, <1>1 DEF TypeOK
  <2>2. \A r \in Refs : Moves(r)
    BY <1>1 DEF Moves
  <2>3. \A r \in Refs : tx[r] = "success" => tx'[r] = "success"
    BY <1>1
  <2>4. \A c \in running' : tx'[c.ref] = "success"
    <3> TAKE c \in running'
    <3>1. c.ref \in Refs
      BY <1>1 DEF Charges
    <3>2. QED  BY <1>1, <2>3, <3>1 DEF PaymentsInv, ChargesPaid
  <2>5. \A e \in events' : e.type = "charge" => tx'[e.ref] = "success"
    <3> TAKE e \in events'
    <3>1. e.ref \in Refs
      BY <1>1 DEF Events
    <3>2. QED  BY <1>1, <2>3, <3>1 DEF PaymentsInv, ChargesPaid
  <2>6. QED  BY <1>1, <2>1, <2>2, <2>4, <2>5, KeepSteps
<1>2. ASSUME NEW r \in Refs, Pay(r) PROVE PaymentsInv' /\ AccountStep
  <2>1. /\ tx' = [tx EXCEPT ![r] = "success"] /\ tx[r] \in {"open", "failed"}
        /\ UNCHANGED <<plan, checkouts, subs, ended, running, renewals, faults>>
        /\ billed' \subseteq billed \cup {r}
        /\ events' \subseteq events \cup {Event("charge", r), Event("create", r)}
    BY <1>2 DEF Pay, bounds
  <2>2. /\ tx' \in [Refs -> {"none", "open", "failed", "success"}] /\ tx'[r] = "success"
        /\ \A q \in Refs : tx'[q] = tx[q] \/ (tx[q] \notin {"none", "success"} /\ tx'[q] # "none")
    BY <1>0, <2>1 DEF TypeOK
  <2>3. /\ \A t \in {"charge", "create"} : Event(t, r) \in Events /\ Event(t, r).ref = r
        /\ billed \subseteq Refs /\ events \subseteq Events /\ running \subseteq Charges /\ ended \subseteq DOMAIN subs
        /\ renewals \in 0 .. MaxRenewals /\ faults \in 0 .. MaxFaults
    BY <1>0 DEF TypeOK, Event, Events
  <2>4. events' \subseteq Events /\ \A e \in events' \ events : tx'[e.ref] = "success"
    BY <2>1, <2>2, <2>3
  <2>5. Effects
    BY <1>0, <2>1 DEF Effects, TypeOK
  <2>6. QED  BY <1>1, <2>1, <2>2, <2>3, <2>4, <2>5
<1>3. ASSUME NEW r \in Refs, Decline(r) PROVE PaymentsInv' /\ AccountStep
  <2>1. /\ tx' = [tx EXCEPT ![r] = "failed"] /\ tx[r] = "open"
        /\ UNCHANGED <<plan, checkouts, subs, ended, running, billed, events, renewals, faults>>
    BY <1>3 DEF Decline, bounds
  <2>2. /\ tx' \in [Refs -> {"none", "open", "failed", "success"}]
        /\ \A q \in Refs : tx'[q] = tx[q] \/ (tx[q] \notin {"none", "success"} /\ tx'[q] # "none")
    BY <1>0, <2>1 DEF TypeOK
  <2>3. Effects
    BY <1>0, <2>1 DEF Effects, TypeOK
  <2>4. QED  BY <1>0, <1>1, <2>1, <2>2, <2>3 DEF TypeOK
<1>4. ASSUME NEW i \in DOMAIN subs, NEW type \in {"payment_failed", "update"}, Renew(i, type) PROVE PaymentsInv' /\ AccountStep
  <2>1. /\ UNCHANGED <<plan, checkouts, subs, ended, running, tx, billed, faults>>
        /\ renewals' = renewals + 1 /\ renewals < MaxRenewals /\ subs[i].code \in billed
        /\ events' = events \cup {Event(type, subs[i].code)}
    BY <1>4 DEF Renew
  <2>2. Event(type, subs[i].code) \in Events /\ Event(type, subs[i].code).type # "charge"
    BY <1>0, <2>1 DEF TypeOK, Event, Events
  <2>3. renewals' \in 0 .. MaxRenewals
    BY <1>0, <2>1, PaymentsAssumption DEF TypeOK, PaymentsAssumption
  <2>4. events' \subseteq Events /\ \A e \in events' \ events : e.type # "charge"
    BY <1>0, <2>1, <2>2 DEF TypeOK
  <2>5. QED  BY <1>0, <1>1, <2>1, <2>3, <2>4 DEF TypeOK, Effects
\* A charge that was paid begins to be applied.
<1>5. ASSUME NEW r \in Refs, NEW who \in {"poll", "event"}, BeginCharge(r, who), tx[r] = "success",
             UNCHANGED <<plan, checkouts, subs, ended, tx, billed, events, renewals, faults>>
      PROVE  PaymentsInv' /\ AccountStep
  <2>1. running' = running \cup {[by |-> who, ref |-> r, seen |-> plan]}
    BY <1>5 DEF BeginCharge
  <2>2. [by |-> who, ref |-> r, seen |-> plan] \in Charges
    BY <1>0 DEF TypeOK, Charges
  <2>3. running' \subseteq Charges /\ \A c \in running' \ running : tx[c.ref] = "success"
    BY <1>0, <1>5, <2>1, <2>2 DEF TypeOK
  <2>4. QED  BY <1>0, <1>1, <1>5, <2>3 DEF TypeOK, Effects
<1>6. ASSUME NEW r \in Refs, BeginEvent(r) PROVE PaymentsInv' /\ AccountStep
  <2>1. Event("charge", r) \in events /\ Event("charge", r).type = "charge" /\ Event("charge", r).ref = r
    BY <1>6 DEF BeginEvent, Event
  <2>2. tx[r] = "success"
    BY <2>1 DEF PaymentsInv, ChargesPaid
  <2>3. QED  BY <1>5, <1>6, <2>2 DEF BeginEvent, paystack, bounds
<1>7. ASSUME NEW r \in Refs, CheckoutStatus(r) PROVE PaymentsInv' /\ AccountStep
  <2>1. UNCHANGED <<plan, subs, ended, tx, billed, events, renewals, faults>> /\ checkouts[r].status # "none"
    BY <1>7 DEF CheckoutStatus, paystack, bounds
  <2>2. CASE tx[r] = "success"
    <3>1. BeginCharge(r, "poll") /\ UNCHANGED checkouts
      BY <1>7, <2>2 DEF CheckoutStatus
    <3>2. QED  BY <1>5, <2>1, <2>2, <3>1
  <2>3. CASE tx[r] # "success"
    <3> DEFINE st == IF tx[r] = "open" THEN "cancelled" ELSE "failed"
    <3>1. checkouts' = [checkouts EXCEPT ![r].status = st] /\ UNCHANGED running
      BY <1>7, <2>3 DEF CheckoutStatus
    <3>2. st \in {"cancelled", "failed"}
      OBVIOUS
    <3> HIDE DEF st
    <3>3. checkouts[r] \in Checkouts(Len(subs)) /\ [checkouts[r] EXCEPT !.status = st] \in Checkouts(Len(subs))
      BY <1>0, <3>2, Lists, CheckoutRows DEF TypeOK, Statuses
    <3>4. /\ checkouts' \in [Refs -> Checkouts(Len(subs))]
          /\ \A q \in Refs : checkouts'[q] = IF q = r THEN [checkouts[r] EXCEPT !.status = st] ELSE checkouts[q]
      BY <1>0, <3>1, <3>3 DEF TypeOK
    <3>5. TypeOK'
      BY <1>0, <2>1, <3>1, <3>4 DEF TypeOK
    <3>6. ASSUME NEW q \in Refs PROVE Moves(q)
      <4>1. CASE q = r
        BY <2>1, <3>2, <3>3, <3>4, <4>1 DEF Moves, Checkouts
      <4>2. CASE q # r
        BY <3>4, <4>2 DEF Moves
      <4>3. QED  BY <4>1, <4>2
    <3>7. QED  BY <2>1, <3>1, <3>5, <3>6, KeepSteps DEF PaymentsInv, ChargesPaid, Effects
  <2>4. QED  BY <2>2, <2>3
<1>8. ASSUME NEW e \in events, EventFails(e) PROVE PaymentsInv' /\ AccountStep
  BY <1>0, <1>1, <1>8, FaultSteps DEF EventFails, TypeOK, Effects
<1>9. ASSUME NEW i \in DOMAIN subs, PeriodEnds(i) PROVE PaymentsInv' /\ AccountStep
  BY <1>0, <1>1, <1>9 DEF PeriodEnds, TypeOK, Effects, paystack, bounds
<1>10. QED  BY <1>2, <1>3, <1>4, <1>6, <1>7, <1>8, <1>9 DEF External

\* What the contract says of the rows.
Entries(s) == [i \in DOMAIN s |-> [ref |-> s[i].ref, plan |-> s[i].plan]]

LEMMA EntriesSeq ==
    ASSUME NEW s \in Seq(Subscriptions)
    PROVE  /\ Entries(s) \in Seq([ref : Refs, plan : Plans])
           /\ Len(Entries(s)) = Len(s)
           /\ \A i \in 1 .. Len(s) : Entries(s)[i] = [ref |-> s[i].ref, plan |-> s[i].plan]
<1> DEFINE T == [ref : Refs, plan : Plans]
           n == Len(s)
<1>1. Len(s) \in Nat /\ DOMAIN s = 1 .. Len(s) /\ \A i \in 1 .. Len(s) : s[i] \in Subscriptions
  BY LenProperties
<1>2. \A i \in 1 .. Len(s) : s[i].ref \in Refs /\ s[i].plan \in Plans
  BY <1>1 DEF Subscriptions
<1>3. Entries(s) \in [1 .. n -> T] /\ n \in Nat
  BY <1>1, <1>2 DEF Entries
<1> HIDE DEF T, n
<1>4. Entries(s) \in Seq(T)
  BY <1>3, SeqDef
<1>5. DOMAIN Entries(s) = 1 .. n /\ DOMAIN Entries(s) = 1 .. Len(Entries(s)) /\ Len(Entries(s)) \in Nat
  BY <1>3, <1>4, LenProperties
<1>6. Len(Entries(s)) = n
  BY <1>3, <1>5
<1>7. QED  BY <1>1, <1>4, <1>6 DEF Entries, T, n

LEMMA EntriesAppended ==
    ASSUME NEW s \in Seq(Subscriptions), NEW row \in Subscriptions
    PROVE  Entries(Append(s, row)) = Append(Entries(s), [ref |-> row.ref, plan |-> row.plan])
<1> DEFINE T == [ref : Refs, plan : Plans]
           new == [ref |-> row.ref, plan |-> row.plan]
           one == Entries(Append(s, row))
           two == Append(Entries(s), new)
<1>1. /\ Append(s, row) \in Seq(Subscriptions) /\ Len(Append(s, row)) = Len(s) + 1
      /\ \A i \in 1 .. Len(s) : Append(s, row)[i] = s[i]
      /\ Append(s, row)[Len(s) + 1] = row /\ Len(s) \in Nat
  BY AppendProperties, LenProperties
<1>2. new \in T
  BY DEF Subscriptions
<1>3. /\ Entries(s) \in Seq(T) /\ Len(Entries(s)) = Len(s)
      /\ \A i \in 1 .. Len(s) : Entries(s)[i] = [ref |-> s[i].ref, plan |-> s[i].plan]
  BY EntriesSeq
<1>4. /\ one \in Seq(T) /\ Len(one) = Len(s) + 1
      /\ \A i \in 1 .. Len(s) + 1 : one[i] = [ref |-> Append(s, row)[i].ref, plan |-> Append(s, row)[i].plan]
  BY <1>1, EntriesSeq
<1> HIDE DEF T, new
<1>5. /\ two \in Seq(T) /\ Len(two) = Len(s) + 1
      /\ \A i \in 1 .. Len(s) : two[i] = Entries(s)[i]
      /\ two[Len(s) + 1] = new
  <2>1. /\ two \in Seq(T) /\ Len(two) = Len(Entries(s)) + 1
        /\ \A i \in 1 .. Len(Entries(s)) : two[i] = Entries(s)[i]
        /\ two[Len(Entries(s)) + 1] = new
    BY <1>2, <1>3, AppendProperties
  <2>2. QED  BY <1>3, <2>1
<1> HIDE DEF one, two
<1>6. ASSUME NEW i \in 1 .. Len(one) PROVE one[i] = two[i]
  <2>1. CASE i \in 1 .. Len(s)
    BY <1>1, <1>3, <1>4, <1>5, <2>1
  <2>2. CASE i = Len(s) + 1
    BY <1>1, <1>4, <1>5, <2>2 DEF new
  <2>3. QED  BY <1>1, <1>4, <2>1, <2>2
<1>7. one = two
  BY <1>4, <1>5, <1>6, SeqEqual
<1>8. QED  BY <1>7 DEF one, two, new

\* A charge makes a row.
LEMMA AppendSteps ==
    ASSUME PaymentsInv, NEW r \in Refs, tx[r] = "success", checkouts[r].activated = 0, checkouts[r].recovers = 0,
           NEW row \in Subscriptions, row.ref = r, row.plan = checkouts[r].target,
           subs' = Append(subs, row),
           checkouts' = [checkouts EXCEPT ![r].status = "charged", ![r].activated = Len(subs) + 1],
           plan' \in {plan, checkouts[r].target},
           running' \subseteq running, events' \subseteq events, faults' \in 0 .. MaxFaults,
           UNCHANGED <<ended, tx, billed, renewals>>
    PROVE  PaymentsInv' /\ AccountStep
<1>0. /\ TypeOK /\ Len(subs) \in Nat /\ DOMAIN subs = 1 .. Len(subs) /\ subs \in Seq(Subscriptions)
      /\ \A i \in DOMAIN subs : subs[i].ref \in Refs
  BY Lists DEF PaymentsInv, TypeOK
<1>1. /\ subs' \in Seq(Subscriptions) /\ Len(subs') = Len(subs) + 1 /\ DOMAIN subs' = 1 .. Len(subs) + 1
      /\ \A i \in 1 .. Len(subs) : subs'[i] = subs[i]
      /\ subs'[Len(subs) + 1] = row
  <2>1. /\ subs' \in Seq(Subscriptions) /\ Len(subs') = Len(subs) + 1
        /\ \A i \in 1 .. Len(subs) : subs'[i] = subs[i]
        /\ subs'[Len(subs) + 1] = row
    BY <1>0, AppendProperties
  <2>2. QED  BY <2>1, LenProperties
<1>2. /\ checkouts[r].status # "none" /\ checkouts[r].target \in Plans
      /\ checkouts[r] \in Checkouts(Len(subs))
  BY <1>0 DEF PaymentsInv, Opened, TypeOK
<1>3. [checkouts[r] EXCEPT !.status = "charged", !.activated = Len(subs) + 1] \in Checkouts(Len(subs) + 1)
  <2>1. checkouts[r] \in Checkouts(Len(subs) + 1)
    BY <1>0, <1>2, CheckoutRows
  <2>2. Len(subs) + 1 \in Nat /\ Len(subs) + 1 \in 0 .. Len(subs) + 1 /\ "charged" \in Statuses
    BY <1>0 DEF Statuses
  <2>3. QED  BY <2>1, <2>2, CheckoutRows
<1>4. /\ \A q \in Refs : checkouts'[q] = IF q = r THEN [checkouts[r] EXCEPT !.status = "charged", !.activated = Len(subs) + 1]
                                        ELSE checkouts[q]
      /\ checkouts' \in [Refs -> Checkouts(Len(subs) + 1)]
  <2>1. checkouts \in [Refs -> Checkouts(Len(subs) + 1)]
    <3>1. Checkouts(Len(subs)) \subseteq Checkouts(Len(subs) + 1)
      BY <1>0, CheckoutRows
    <3>2. QED  BY <1>0, <3>1 DEF TypeOK
  <2>2. QED  BY <1>3, <2>1
<1>5. /\ checkouts'[r].status = "charged" /\ checkouts'[r].activated = Len(subs) + 1
      /\ checkouts'[r].target = checkouts[r].target /\ checkouts'[r].recovers = 0
      /\ \A q \in Refs \ {r} : checkouts'[q] = checkouts[q]
  BY <1>2, <1>4 DEF Checkouts
<1>6. TypeOK'
  BY <1>0, <1>1, <1>2, <1>4 DEF TypeOK, AnyPlan
<1>7. Opened'
  <2>1. \A q \in Refs : checkouts'[q].status = "none" => q # r /\ checkouts[q].status = "none"
    BY <1>5
  <2>2. ASSUME NEW q \in Refs, checkouts'[q].status = "none" PROVE checkouts'[q] = NoCheckout /\ tx'[q] = "none"
    BY <1>5, <2>1, <2>2 DEF PaymentsInv, Opened
  <2>3. ASSUME NEW q \in Refs, checkouts'[q].status # "none"
        PROVE  checkouts'[q].target \in Plans /\ \A k \in 1 .. q : checkouts'[k].status # "none"
    <3>1. checkouts[q].target \in Plans /\ \A k \in 1 .. q : checkouts[k].status # "none"
      BY <1>2, <1>5, <2>3 DEF PaymentsInv, Opened
    <3>2. 1 .. q \subseteq Refs
      BY Numbers DEF Refs
    <3>3. QED  BY <1>5, <2>1, <3>1, <3>2
  <2>4. QED  BY <2>2, <2>3 DEF Opened
<1>8. Recoveries'
  <2>1. \A q \in Refs : checkouts'[q].recovers # 0 => checkouts'[q] = checkouts[q]
    BY <1>5
  <2>2. QED  BY <2>1 DEF PaymentsInv, Recoveries
<1>9. Makers'
  <2>1. ASSUME NEW i \in DOMAIN subs' PROVE checkouts'[subs'[i].ref].activated = i
    <3>1. CASE i = Len(subs) + 1
      BY <1>1, <1>5, <3>1
    <3>2. CASE i \in DOMAIN subs
      <4>1. checkouts[subs[i].ref].activated = i /\ i # 0
        BY <1>0, <3>2 DEF PaymentsInv, Makers
      <4>2. subs[i].ref \in Refs /\ subs'[i] = subs[i]
        BY <1>0, <1>1, <3>2
      <4>3. subs[i].ref # r
        BY <4>1
      <4>4. QED  BY <1>5, <4>1, <4>2, <4>3
    <3>3. QED  BY <1>0, <1>1, <3>1, <3>2
  <2>2. QED  BY <2>1 DEF Makers
<1>10. ChargesPaid'
  BY <1>5 DEF PaymentsInv, ChargesPaid
<1>11. \A p : Paid(p) => Paid(p)'
  BY <1>5 DEF Paid
<1>12. Paid(checkouts[r].target)
  BY DEF Paid
<1>13. PlansPaid'
  <2>1. plan' # Basic => Paid(plan')
    BY <1>12 DEF PaymentsInv, PlansPaid
  <2>2. \A i \in DOMAIN subs' : Paid(subs'[i].plan)
    BY <1>0, <1>1, <1>12 DEF PaymentsInv, PlansPaid
  <2>3. plan' # Basic => Paid(plan)'
    BY <1>11, <2>1 DEF Paid
  <2>4. ASSUME NEW i \in DOMAIN subs' PROVE Paid(subs[i].plan)'
    BY <1>11, <2>2 DEF Paid
  <2>5. QED  BY <2>3, <2>4 DEF PlansPaid
\* Every other row was made by another checkout.
<1>14. \A i \in DOMAIN subs : subs[i].ref \in Refs \ {r}
  <2>1. \A i \in DOMAIN subs : checkouts[subs[i].ref].activated = i /\ i # 0
    BY <1>0 DEF PaymentsInv, Makers
  <2>2. QED  BY <1>0, <2>1
<1>15. Booked'
  <2>1. ASSUME NEW i \in DOMAIN subs'
        PROVE  checkouts'[subs'[i].ref].recovers = 0 /\ checkouts'[subs'[i].ref].target = subs'[i].plan
    <3>1. CASE i = Len(subs) + 1
      BY <1>1, <1>5, <3>1
    <3>2. CASE i \in DOMAIN subs
      <4>1. subs[i].ref \in Refs \ {r} /\ subs'[i] = subs[i]
        BY <1>0, <1>1, <1>14, <3>2
      <4>2. checkouts'[subs[i].ref] = checkouts[subs[i].ref]
        BY <1>5, <4>1
      <4>3. QED  BY <3>2, <4>1, <4>2 DEF PaymentsInv, Booked
    <3>3. i = Len(subs) + 1 \/ i \in DOMAIN subs
      BY <1>0, <1>1
    <3>4. QED  BY <3>1, <3>2, <3>3
  <2>2. ASSUME NEW q \in Refs, checkouts'[q].recovers # 0
        PROVE  subs'[checkouts'[q].recovers].plan = checkouts'[q].target
    <3>1. checkouts'[q] = checkouts[q]
      BY <1>5, <2>2
    <3>2. checkouts[q].recovers # 0
      BY <2>2, <3>1
    <3>3. checkouts[q].recovers \in DOMAIN subs
      BY <1>0, <3>2, RowNumbers
    <3>4. QED  BY <1>0, <1>1, <3>1, <3>2, <3>3 DEF PaymentsInv, Booked
  <2>3. ASSUME NEW q \in Refs, checkouts'[q].recovers = 0, checkouts'[q].activated # 0
        PROVE  subs'[checkouts'[q].activated].ref = q
    <3>1. CASE q = r
      BY <1>1, <1>5, <3>1
    <3>2. CASE q # r
      <4>1. checkouts'[q] = checkouts[q]
        BY <1>5, <3>2
      <4>2. checkouts[q].recovers = 0 /\ checkouts[q].activated # 0
        BY <2>3, <4>1
      <4>3. checkouts[q].activated \in DOMAIN subs
        BY <1>0, <4>2, RowNumbers
      <4>4. QED  BY <1>0, <1>1, <4>1, <4>2, <4>3 DEF PaymentsInv, Booked
    <3>3. QED  BY <3>1, <3>2
  <2>4. QED  BY <2>1, <2>2, <2>3 DEF Booked
<1>16. AccountStep
  <2> DEFINE new == [ref |-> r, plan |-> checkouts[r].target]
  <2>1. AskedFor' = AskedFor /\ Recovering' = Recovering /\ PaidFor' = PaidFor
    <3>1. \A q \in Refs : checkouts'[q].target = checkouts[q].target /\ checkouts'[q].recovers = checkouts[q].recovers
      BY <1>5
    <3>2. QED  BY <3>1 DEF AskedFor, Recovering, PaidFor
  <2>2. r \in PaidFor \ Recovering /\ AskedFor[r] = checkouts[r].target
    BY DEF PaidFor, Recovering, AskedFor
  <2>3. \A i \in DOMAIN Rows : Rows[i].ref # r
    BY <1>14 DEF Rows
  <2>4. Rows' = Append(Rows, new)
    BY <1>0, EntriesAppended DEF Rows, Entries
  <2>5. Account!Subscribe(r)
    BY <2>1, <2>2, <2>3, <2>4 DEF Account!Subscribe
  <2>6. QED  BY <2>5 DEF AccountStep, Account!Next
<1>17. QED  BY <1>6, <1>7, <1>8, <1>9, <1>10, <1>13, <1>15, <1>16 DEF PaymentsInv

\* A charge is applied.
LEMMA ApplySteps ==
    ASSUME PaymentsInv, NEW c \in running, ApplyCharge(c)
    PROVE  PaymentsInv' /\ AccountStep
<1> DEFINE r == c.ref
           k == checkouts[r]
<1>0. /\ TypeOK /\ Len(subs) \in Nat /\ DOMAIN subs = 1 .. Len(subs)
      /\ subs \in [DOMAIN subs -> Subscriptions]
      /\ \A i \in DOMAIN subs : subs[i] \in Subscriptions
  BY Lists DEF PaymentsInv
<1>1. r \in Refs /\ tx[r] = "success"
  BY <1>0 DEF PaymentsInv, ChargesPaid, TypeOK, Charges
<1>2. k \in Checkouts(Len(subs)) /\ k.status # "none" /\ k.target \in Plans
  BY <1>0, <1>1 DEF PaymentsInv, Opened, TypeOK
<1>3. k.recovers \in 0 .. Len(subs) /\ k.activated \in 0 .. Len(subs)
  BY <1>2 DEF Checkouts
<1>4. /\ running' \subseteq running /\ events' \subseteq events /\ faults' \in 0 .. MaxFaults
      /\ UNCHANGED <<tx, billed, renewals>>
  BY <1>0, FaultSteps DEF ApplyCharge
<1> HIDE DEF r, k
\* The steps that make no row.
<1>6. ASSUME subs' \in [DOMAIN subs -> Subscriptions],
             \A i \in DOMAIN subs : subs'[i].ref = subs[i].ref /\ subs'[i].plan = subs[i].plan,
             checkouts' \in [Refs -> Checkouts(Len(subs))], \A q \in Refs : Moves(q),
             ended' \subseteq ended, plan' \in AnyPlan, Effects
      PROVE  PaymentsInv' /\ AccountStep
  <2>1. TypeOK' /\ DOMAIN subs' = DOMAIN subs
    BY <1>0, <1>4, <1>6, TypeSteps DEF TypeOK
  <2>2. \A d \in running' : tx'[d.ref] = "success"
    BY <1>4 DEF PaymentsInv, ChargesPaid
  <2>3. \A e \in events' : e.type = "charge" => tx'[e.ref] = "success"
    BY <1>4 DEF PaymentsInv, ChargesPaid
  <2>4. QED  BY <1>4, <1>6, <2>1, <2>2, <2>3, KeepSteps
<1>7. CASE UNCHANGED <<plan, checkouts, subs, ended>>
  BY <1>0, <1>4, <1>6, <1>7 DEF Moves, TypeOK, Effects
<1>8. CASE k.recovers = 0 /\ ~UNCHANGED <<plan, checkouts, subs, ended>>
  <2>0. ApplySubscription(r, c.seen)
    BY <1>8, Zenon DEF ApplyCharge, r, k
  <2> DEFINE st == IF k.replaces = 0 THEN "active" ELSE "pending"
             row == [ref |-> r, plan |-> k.target, code |-> 0, ending |-> FALSE, status |-> st]
  <2>1. /\ subs' = IF k.activated = 0 THEN Append(subs, row)
                  ELSE [subs EXCEPT ![k.activated].plan = k.target, ![k.activated].status = st,
                                    ![k.activated].ending = FALSE]
        /\ checkouts' = [checkouts EXCEPT ![r].status = "charged", ![r].activated = IF @ = 0 THEN Len(subs) + 1 ELSE @]
        /\ plan' = IF c.seen # k.target THEN k.target ELSE plan
        /\ UNCHANGED ended
    BY <1>8, <2>0, Zenon DEF ApplySubscription, k
  <2>2. st \in SubStatuses /\ plan' \in {plan, k.target}
    BY <2>1 DEF SubStatuses
  <2>3. CASE k.activated = 0
    <3>1. row \in Subscriptions /\ row.ref = r /\ row.plan = k.target
      BY <1>1, <1>2, <2>2 DEF Subscriptions, SubStatuses
    <3>2. subs' = Append(subs, row)
      BY <2>1, <2>3
    <3>3. checkouts' = [checkouts EXCEPT ![r].status = "charged", ![r].activated = Len(subs) + 1]
      BY <1>0, <1>1, <2>1, <2>3 DEF k, TypeOK
    <3> HIDE DEF row
    <3>4. QED  BY <1>1, <1>4, <1>8, <2>1, <2>2, <2>3, <3>1, <3>2, <3>3, AppendSteps DEF k
  <2>4. CASE k.activated # 0
    <3> DEFINE i == k.activated
    <3>1. i \in DOMAIN subs
      BY <1>0, <1>3, <2>4
    <3> HIDE DEF i, st, row
    <3>2. subs' = [subs EXCEPT ![i].plan = k.target, ![i].status = st, ![i].ending = FALSE]
      BY <2>1, <2>4 DEF i
    <3>3. \A j \in DOMAIN subs :
            subs'[j] = IF j = i THEN [subs[i] EXCEPT !.plan = k.target, !.status = st, !.ending = FALSE] ELSE subs[j]
      BY <1>0, <3>1, <3>2
    <3>4. [subs[i] EXCEPT !.plan = k.target, !.status = st, !.ending = FALSE] \in Subscriptions
      BY <1>0, <1>2, <2>2, <3>1, SubRows
    <3>5. subs' \in [DOMAIN subs -> Subscriptions]
      BY <1>0, <3>1, <3>2, <3>3, <3>4
    <3>6. /\ \A j \in DOMAIN subs : subs'[j].ref = subs[j].ref /\ subs'[j].plan = subs[j].plan
          /\ subs[i].ref = r /\ subs[i].plan = k.target
      <4>0. subs[i].ref = r /\ subs[i].plan = k.target
        <5>1. subs[i].ref = r
          BY <1>1, <1>8, <2>4 DEF PaymentsInv, Booked, k, i
        <5>2. QED  BY <3>1, <5>1 DEF PaymentsInv, Booked, k
      <4>1. subs[i] \in Subscriptions
        BY <1>0, <3>1
      <4>2. LET s == [subs[i] EXCEPT !.plan = k.target, !.status = st, !.ending = FALSE]
            IN s.ref = subs[i].ref /\ s.plan = k.target
        BY <4>1 DEF Subscriptions
      <4>3. QED  BY <3>1, <3>3, <4>0, <4>2
    <3>7. checkouts' = [checkouts EXCEPT ![r] = [k EXCEPT !.status = "charged", !.activated = i]]
      BY <1>0, <1>1, <2>1, <2>4 DEF k, i, TypeOK
    <3>8. [k EXCEPT !.status = "charged", !.activated = i] \in Checkouts(Len(subs))
      BY <1>0, <1>2, <1>3, CheckoutRows DEF i, Statuses
    <3>9. checkouts' \in [Refs -> Checkouts(Len(subs))]
      BY <1>0, <3>7, <3>8 DEF TypeOK
    <3>10. ASSUME NEW q \in Refs PROVE Moves(q)
      <4>1. CASE q = r
        <5>1. checkouts'[r] = [k EXCEPT !.status = "charged", !.activated = i]
          BY <1>0, <1>1, <3>7 DEF TypeOK
        <5>2. /\ checkouts'[r].status = "charged" /\ checkouts'[r].activated = k.activated
              /\ checkouts'[r].target = k.target /\ checkouts'[r].recovers = k.recovers
          BY <1>2, <5>1 DEF Checkouts, i
        <5>3. QED  BY <1>1, <1>2, <4>1, <5>2 DEF Moves, k
      <4>2. CASE q # r
        BY <1>0, <3>7, <4>2 DEF Moves, TypeOK
      <4>3. QED  BY <4>1, <4>2
    <3>11. Effects
      <4>1. CASE plan' = plan
        BY <1>4, <4>1 DEF Effects
      <4>2. CASE plan' = k.target
        BY <1>1, <1>4, <3>1, <3>6, <4>2 DEF Effects, k
      <4>3. QED  BY <2>2, <4>1, <4>2
    <3>12. plan' \in AnyPlan
      BY <1>0, <1>2, <2>2 DEF TypeOK, AnyPlan
    <3>13. QED  BY <1>6, <2>1, <3>5, <3>6, <3>9, <3>10, <3>11, <3>12
  <2>5. QED  BY <2>3, <2>4
<1>9. CASE k.recovers # 0 /\ ~UNCHANGED <<plan, checkouts, subs, ended>>
  <2> DEFINE i == k.recovers
  <2>0. ApplyRecovery(r)
    BY <1>9, Zenon DEF ApplyCharge, r, k
  <2>1. /\ subs' = [subs EXCEPT ![i].status = "active", ![i].ending = FALSE]
        /\ ended' = ended \ {i}
        /\ checkouts' = [checkouts EXCEPT ![r].status = "created", ![r].activated = i]
        /\ plan' = subs[i].plan
    BY <1>9, <2>0, Zenon DEF ApplyRecovery, k
  <2>2. i \in DOMAIN subs
    BY <1>0, <1>3, <1>9
  <2> HIDE DEF i
  <2>3. \A j \in DOMAIN subs :
          subs'[j] = IF j = i THEN [subs[i] EXCEPT !.status = "active", !.ending = FALSE] ELSE subs[j]
    BY <1>0, <2>1, <2>2
  <2>4. [subs[i] EXCEPT !.status = "active", !.ending = FALSE] \in Subscriptions
    BY <1>0, <2>2, SubRows DEF SubStatuses
  <2>5. subs' \in [DOMAIN subs -> Subscriptions]
    BY <1>0, <2>1, <2>2, <2>3, <2>4
  <2>6. ASSUME NEW j \in DOMAIN subs PROVE subs'[j].ref = subs[j].ref /\ subs'[j].plan = subs[j].plan
    <3>1. CASE j = i
      <4>1. subs[i] \in Subscriptions /\ subs'[i] = [subs[i] EXCEPT !.status = "active", !.ending = FALSE]
        BY <1>0, <2>2, <2>3
      <4>2. QED  BY <3>1, <4>1 DEF Subscriptions
    <3>2. CASE j # i
      BY <2>3, <3>2
    <3>3. QED  BY <3>1, <3>2
  <2>7. checkouts' = [checkouts EXCEPT ![r] = [k EXCEPT !.status = "created", !.activated = i]]
    BY <1>0, <1>1, <2>1 DEF k, TypeOK
  <2>8. [k EXCEPT !.status = "created", !.activated = i] \in Checkouts(Len(subs))
    BY <1>0, <1>2, <1>3, CheckoutRows DEF i, Statuses
  <2>9. checkouts' \in [Refs -> Checkouts(Len(subs))]
    BY <1>0, <2>7, <2>8 DEF TypeOK
  <2>10. ASSUME NEW q \in Refs PROVE Moves(q)
    <3>1. CASE q = r
      <4>1. checkouts'[r] = [k EXCEPT !.status = "created", !.activated = i]
        BY <1>0, <1>1, <2>7 DEF TypeOK
      <4>2. /\ checkouts'[r].status = "created" /\ checkouts'[r].activated = i
            /\ checkouts'[r].target = k.target /\ checkouts'[r].recovers = k.recovers
        BY <1>2, <4>1 DEF Checkouts
      <4>3. k.activated \in {0, i}
        BY <1>1, <1>9 DEF PaymentsInv, Recoveries, k, i
      <4>4. QED  BY <1>1, <1>2, <1>9, <3>1, <4>2, <4>3 DEF Moves, k, i
    <3>2. CASE q # r
      BY <1>0, <2>7, <3>2 DEF Moves, TypeOK
    <3>3. QED  BY <3>1, <3>2
  <2>11. Effects /\ plan' \in AnyPlan
    <3>1. subs[i].plan \in Plans
      BY <1>0, <2>2 DEF Subscriptions
    <3>2. subs[i].plan = k.target
      BY <1>1, <1>9 DEF PaymentsInv, Booked, k, i
    <3>3. Effects
      BY <1>1, <1>4, <1>9, <2>1, <2>2, <3>2 DEF Effects, k
    <3>4. QED  BY <2>1, <3>1, <3>3 DEF AnyPlan
  <2>12. QED  BY <1>6, <2>1, <2>5, <2>6, <2>9, <2>10, <2>11
<1>10. QED  BY <1>7, <1>8, <1>9

\* The other events, the end of a subscription and the daily lapse.
LEMMA EventSteps ==
    ASSUME PaymentsInv,
           \/ \E e \in events : SubscriptionEvent(e)
           \/ CancelSubscription
           \/ \E i \in DOMAIN subs : ExpireLapsed(i)
    PROVE  PaymentsInv' /\ AccountStep
<1>0. /\ TypeOK /\ Len(subs) \in Nat /\ DOMAIN subs = 1 .. Len(subs)
      /\ subs \in [DOMAIN subs -> Subscriptions]
      /\ \A i \in DOMAIN subs : subs[i] \in Subscriptions /\ subs[i].code \in Refs \cup {0}
      /\ Current \in DOMAIN subs \cup {0} /\ \A e : Found(e) \in DOMAIN subs \cup {0}
  BY Lists DEF PaymentsInv
\* At most one row changes, in its status and in the mark that it ends.
<1>1. ASSUME NEW i \in DOMAIN subs, NEW st \in SubStatuses, NEW b \in BOOLEAN,
             subs' = [subs EXCEPT ![i] = [subs[i] EXCEPT !.status = st, !.ending = b]] \/ subs' = subs,
             UNCHANGED <<checkouts, running, tx, renewals, faults>>, plan' \in {plan, Basic},
             ended' \subseteq ended, billed' \subseteq billed,
             events' \subseteq Events, \A e \in events' \ events : e.type # "charge"
      PROVE  PaymentsInv' /\ AccountStep
  <2>1. [subs[i] EXCEPT !.status = st, !.ending = b] \in Subscriptions
    BY <1>0, SubRows
  <2>2. subs' \in [DOMAIN subs -> Subscriptions]
    BY <1>0, <1>1, <2>1
  <2>3. \A j \in DOMAIN subs : subs'[j].ref = subs[j].ref /\ subs'[j].plan = subs[j].plan
    <3> TAKE j \in DOMAIN subs
    <3>1. CASE subs'[j] = subs[j]
      BY <3>1
    <3>2. CASE subs'[j] = [subs[i] EXCEPT !.status = st, !.ending = b] /\ j = i
      <4>1. subs[i] \in Subscriptions
        BY <1>0
      <4>2. QED  BY <3>2, <4>1 DEF Subscriptions
    <3>3. QED  BY <1>0, <1>1, <3>1, <3>2
  <2>4. plan' \in AnyPlan
    BY <1>0, <1>1 DEF TypeOK, AnyPlan
  <2>5. TypeOK' /\ DOMAIN subs' = DOMAIN subs
    BY <1>0, <1>1, <2>2, <2>4, TypeSteps DEF TypeOK
  <2>6. \A e \in events' : e.type = "charge" => tx'[e.ref] = "success"
    BY <1>1 DEF PaymentsInv, ChargesPaid
  <2>7. \A c \in running' : tx'[c.ref] = "success"
    BY <1>1 DEF PaymentsInv, ChargesPaid
  <2>8. \A r \in Refs : Moves(r)
    BY <1>1 DEF Moves
  <2>9. Effects
    BY <1>1 DEF Effects
  <2>10. QED  BY <1>1, <2>3, <2>5, <2>6, <2>7, <2>8, <2>9, KeepSteps
<1>2. ASSUME NEW e \in events, SubscriptionEvent(e) PROVE PaymentsInv' /\ AccountStep
  <2> DEFINE i == Found(e)
             b == IF e.type = "payment_failed" THEN subs[i].ending ELSE e.type = "disable"
  <2>1. /\ UNCHANGED <<plan, checkouts, running, tx, billed, renewals, faults>>
        /\ ended' \subseteq ended /\ events' \subseteq events /\ events' \subseteq Events
        /\ e.type \in {"payment_failed", "disable", "update"}
        /\ subs' = IF i = 0 THEN subs
                  ELSE [subs EXCEPT ![i].status = StatusAfter(e.type),
                                    ![i].ending = IF e.type = "payment_failed" THEN @ ELSE e.type = "disable"]
    BY <1>0, <1>2 DEF SubscriptionEvent, bounds, TypeOK
  <2>2. StatusAfter(e.type) \in SubStatuses
    BY <2>1 DEF StatusAfter, SubStatuses
  <2> HIDE DEF i
  <2>3. i \in DOMAIN subs \cup {0}
    BY <1>0 DEF i
  <2>4. CASE i = 0
    <3>1. TypeOK'
      BY <1>0, <2>1, <2>4, TypeSteps DEF TypeOK
    <3>2. QED  BY <2>1, <2>4, <3>1, KeepSteps DEF PaymentsInv, ChargesPaid, Moves, Effects
  <2>5. CASE i \in DOMAIN subs
    <3>1. subs[i].ending \in BOOLEAN
      BY <1>0, <2>5 DEF Subscriptions
    <3>2. b \in BOOLEAN
      BY <3>1
    <3>3. subs' = [subs EXCEPT ![i].status = StatusAfter(e.type), ![i].ending = b]
      BY <1>0, <2>1, <2>5
    <3> HIDE DEF b
    <3>4. subs' = [subs EXCEPT ![i] = [subs[i] EXCEPT !.status = StatusAfter(e.type), !.ending = b]]
      BY <1>0, <2>5, <3>3
    <3>5. /\ plan' \in {plan, Basic} /\ billed' \subseteq billed /\ \A x \in events' \ events : x.type # "charge"
          /\ UNCHANGED <<checkouts, running, tx, renewals, faults>>
      BY <2>1
    <3> DEFINE st == StatusAfter(e.type)
    <3>6. st \in SubStatuses /\ subs' = [subs EXCEPT ![i] = [subs[i] EXCEPT !.status = st, !.ending = b]]
      BY <2>2, <3>4
    <3> HIDE DEF st
    <3>7. ended' \subseteq ended /\ events' \subseteq Events
      BY <2>1
    <3>8. QED  BY <1>1, <2>5, <3>2, <3>5, <3>6, <3>7
  <2>6. QED  BY <2>3, <2>4, <2>5
<1>3. CASE CancelSubscription
  <2> DEFINE i == Current
  <2>1. /\ i # 0 /\ subs[i].status = "active" /\ subs[i].code # 0
        /\ billed' = billed \ {subs[i].code}
        /\ events' \subseteq events \cup {Event("disable", subs[i].code)}
        /\ subs' = subs \/ subs' = [subs EXCEPT ![i].ending = TRUE]
        /\ UNCHANGED <<plan, checkouts, ended, running, tx, renewals, faults>>
    BY <1>3 DEF CancelSubscription, bounds
  <2> HIDE DEF i
  <2>2. i \in DOMAIN subs
    BY <1>0, <2>1 DEF i
  <2>3. subs[i] \in Subscriptions /\ subs[i].code \in Refs
    BY <1>0, <2>1, <2>2
  <2>4. Event("disable", subs[i].code) \in Events /\ Event("disable", subs[i].code).type # "charge"
    BY <2>3 DEF Event, Events
  <2>5. [subs[i] EXCEPT !.ending = TRUE] = [subs[i] EXCEPT !.status = "active", !.ending = TRUE]
    BY <2>1, <2>3 DEF Subscriptions
  <2>6. subs' = [subs EXCEPT ![i] = [subs[i] EXCEPT !.status = "active", !.ending = TRUE]] \/ subs' = subs
    BY <2>1, <2>5
  <2>7. events' \subseteq Events /\ \A e \in events' \ events : e.type # "charge"
    BY <1>0, <2>1, <2>4 DEF TypeOK
  <2>8. QED  BY <1>1, <2>1, <2>2, <2>6, <2>7 DEF SubStatuses
<1>4. ASSUME NEW i \in DOMAIN subs, ExpireLapsed(i) PROVE PaymentsInv' /\ AccountStep
  <2>1. /\ subs' = [subs EXCEPT ![i].status = "expired"] /\ plan' = Basic
        /\ UNCHANGED <<checkouts, ended, running, tx, billed, events, renewals, faults>>
    BY <1>4 DEF ExpireLapsed, paystack, bounds
  <2>2. subs[i] \in Subscriptions /\ subs[i].ending \in BOOLEAN
    BY <1>0 DEF Subscriptions
  <2>3. [subs[i] EXCEPT !.status = "expired"] = [subs[i] EXCEPT !.status = "expired", !.ending = subs[i].ending]
    BY <2>2 DEF Subscriptions
  <2>4. subs' = [subs EXCEPT ![i] = [subs[i] EXCEPT !.status = "expired", !.ending = subs[i].ending]]
    BY <2>1, <2>3
  <2>5. QED  BY <1>0, <1>1, <2>1, <2>2, <2>4 DEF SubStatuses, TypeOK
<1>5. QED  BY <1>2, <1>3, <1>4

\* A new subscription of Paystack's is written to a row: the checkout it belongs
\* to is the one that made the row.
LEMMA CreateSteps ==
    ASSUME PaymentsInv, NEW r \in Refs, SubscriptionCreate(r)
    PROVE  PaymentsInv' /\ AccountStep
<1> DEFINE i == CreatedRow
           by == CreatedBy(i)
           old == IF by = 0 THEN 0 ELSE checkouts[by].replaces
           replace == old # 0 /\ subs[old].status # "replaced"
           code == IF replace THEN subs[old].code ELSE 0
           rest == events \ {Event("create", r)}
<1>0. /\ TypeOK /\ Len(subs) \in Nat /\ DOMAIN subs = 1 .. Len(subs)
      /\ subs \in [DOMAIN subs -> Subscriptions]
      /\ \A j \in DOMAIN subs : subs[j] \in Subscriptions /\ subs[j].ref \in Refs /\ subs[j].code \in Refs \cup {0}
      /\ i \in DOMAIN subs \cup {0}
  BY Lists DEF PaymentsInv
<1>1. UNCHANGED <<plan, running, tx, renewals>>
  BY DEF SubscriptionCreate
<1>2. CASE i = 0
  <2>1. UNCHANGED <<checkouts, subs, ended, billed, faults>> /\ events' = rest
    BY <1>2 DEF SubscriptionCreate
  <2>2. TypeOK'
    BY <1>0, <1>1, <2>1 DEF TypeOK
  <2>3. QED  BY <1>1, <2>1, <2>2, KeepSteps DEF PaymentsInv, ChargesPaid, Moves, Effects
<1>3. CASE i # 0
  <2>1. by \in Refs /\ checkouts[by].activated = i
    <3> DEFINE made == {q \in Refs : checkouts[q].activated = i}
    <3>1. subs[i].ref \in made
      BY <1>0, <1>3 DEF PaymentsInv, Makers
    <3>2. Newest(made) \in made
      BY <3>1, NewestIn, Numbers DEF Refs
    <3>3. by = Newest(made)
      BY <3>1 DEF CreatedBy
    <3>4. QED  BY <3>2, <3>3
  <2>2. /\ subs' = [j \in DOMAIN subs |->
                      IF j = old /\ replace THEN [subs[j] EXCEPT !.status = "replaced", !.ending = FALSE]
                      ELSE IF j = i THEN [subs[j] EXCEPT !.status = "active", !.code = r, !.ending = FALSE]
                      ELSE subs[j]]
        /\ ended' = ended \ {i}
        /\ checkouts' = IF by = 0 THEN checkouts
                        ELSE [checkouts EXCEPT ![by].status = "created", ![by].activated = i]
        /\ IF code \in billed
           THEN \/ billed' = billed \ {code} /\ events' = rest \cup {Event("disable", code)} /\ UNCHANGED faults
                \/ Fault /\ events' = rest /\ UNCHANGED billed
           ELSE events' = rest /\ UNCHANGED <<billed, faults>>
    BY <1>3, Zenon DEF SubscriptionCreate
  <2>3. by # 0 /\ i \in DOMAIN subs
    BY <1>0, <1>3, <2>1, Numbers
  <2> HIDE DEF i, by, old, replace, code, rest
  <2>4. ASSUME NEW j \in DOMAIN subs
        PROVE  subs'[j] \in Subscriptions /\ subs'[j].ref = subs[j].ref /\ subs'[j].plan = subs[j].plan
    <3>1. subs[j] \in Subscriptions
      BY <1>0
    <3>2. subs'[j] \in {subs[j], [subs[j] EXCEPT !.status = "replaced", !.ending = FALSE],
                        [subs[j] EXCEPT !.status = "active", !.code = r, !.ending = FALSE]}
      BY <2>2
    <3>3. subs'[j] \in Subscriptions
      BY <3>1, <3>2, SubRows DEF SubStatuses
    <3>4. QED  BY <3>1, <3>2, <3>3 DEF Subscriptions
  <2>5. subs' \in [DOMAIN subs -> Subscriptions]
    BY <2>2, <2>4
  <2>6. /\ checkouts[by] \in Checkouts(Len(subs)) /\ checkouts[by].status # "none" /\ tx[by] = "success"
    <3>1. checkouts[by].activated # 0
      BY <1>3, <2>1
    <3>2. tx[by] = "success"
      BY <2>1, <3>1 DEF PaymentsInv, ChargesPaid
    <3>3. QED  BY <1>0, <2>1, <3>2 DEF PaymentsInv, Opened, TypeOK
  <2>7. checkouts' = [checkouts EXCEPT ![by] = [checkouts[by] EXCEPT !.status = "created", !.activated = i]]
    BY <1>0, <2>1, <2>2, <2>3 DEF TypeOK
  <2>8. [checkouts[by] EXCEPT !.status = "created", !.activated = i] \in Checkouts(Len(subs))
    <3>1. i \in 0 .. Len(subs) /\ "created" \in Statuses
      BY <1>0, <2>3 DEF Statuses
    <3>2. QED  BY <1>0, <2>6, <3>1, CheckoutRows
  <2>9. checkouts' \in [Refs -> Checkouts(Len(subs))]
    BY <1>0, <2>7, <2>8 DEF TypeOK
  <2>10. ASSUME NEW q \in Refs PROVE Moves(q)
    <3>1. CASE q = by
      <4>1. checkouts'[by] = [checkouts[by] EXCEPT !.status = "created", !.activated = i]
        BY <1>0, <2>1, <2>7 DEF TypeOK
      <4>2. /\ checkouts'[by].status = "created" /\ checkouts'[by].activated = checkouts[by].activated
            /\ checkouts'[by].target = checkouts[by].target /\ checkouts'[by].recovers = checkouts[by].recovers
        BY <2>1, <2>6, <4>1 DEF Checkouts
      <4>3. QED  BY <2>6, <3>1, <4>2 DEF Moves
    <3>2. CASE q # by
      BY <1>0, <2>7, <3>2 DEF Moves, TypeOK
    <3>3. QED  BY <3>1, <3>2
  <2>11. /\ billed' \subseteq Refs /\ faults' \in 0 .. MaxFaults
         /\ events' \subseteq Events /\ \A e \in events' \ events : e.type # "charge"
    <3>1. billed \subseteq Refs /\ events \subseteq Events /\ rest \subseteq events
      BY <1>0 DEF TypeOK, rest
    <3>2. code \in billed => Event("disable", code) \in Events /\ Event("disable", code).type # "charge"
      BY <3>1 DEF Event, Events
    <3>3. CASE code \in billed /\ billed' = billed \ {code} /\ events' = rest \cup {Event("disable", code)}
               /\ UNCHANGED faults
      BY <1>0, <3>1, <3>2, <3>3, FaultSteps
    <3>4. CASE events' = rest /\ UNCHANGED billed /\ (Fault \/ UNCHANGED faults)
      BY <1>0, <3>1, <3>4, FaultSteps
    <3>5. QED  BY <2>2, <3>3, <3>4
  <2>12. TypeOK' /\ DOMAIN subs' = DOMAIN subs
    <3>1. /\ plan' \in AnyPlan /\ ended' \subseteq DOMAIN subs /\ running' \subseteq Charges
          /\ tx' \in [Refs -> {"none", "open", "failed", "success"}] /\ renewals' \in 0 .. MaxRenewals
      BY <1>0, <1>1, <2>2 DEF TypeOK
    <3>2. QED  BY <1>0, <2>5, <2>9, <2>11, <3>1, TypeSteps
  <2>13. /\ \A e \in events' : e.type = "charge" => tx'[e.ref] = "success"
         /\ \A c \in running' : tx'[c.ref] = "success"
    BY <1>1, <2>11 DEF PaymentsInv, ChargesPaid
  <2>14. Effects
    BY <1>1 DEF Effects
  <2>15. QED  BY <1>1, <2>4, <2>10, <2>12, <2>13, <2>14, KeepSteps
<1>4. QED  BY <1>2, <1>3

-----------------------------------------------------------------------------
(* The screens.                                                              *)

\* What the screens hold.
Held ==
    /\ kind \in Kinds /\ page \in Pages /\ ref \in Refs \cup {0} /\ asked \in AnyPlan
    /\ blocked \in BOOLEAN /\ seen \in Verdicts /\ visits \in 0 .. MaxVisits

\* Outside of the plans a screen is about a checkout, a plan is retried that was
\* asked for, and what is shown as a success was paid.
Shown ==
    /\ page \notin {"plans", "retry"} => ref # 0
    /\ page = "retry" => asked \in Plans
    /\ page = "success" => tx[ref] = "success"

ScreensInv == PaymentsInv /\ Held /\ Shown

LEMMA FrameSteps ==
    ASSUME PaymentsInv, UNCHANGED <<plan, checkouts, subs, ended, running, tx, billed, events, renewals>>,
           UNCHANGED faults \/ Fault
    PROVE  PaymentsInv' /\ AccountStep
<1>1. TypeOK'
  BY FaultSteps DEF PaymentsInv, TypeOK
<1>2. QED  BY <1>1, KeepSteps DEF PaymentsInv, ChargesPaid, Moves, Effects

\* Plans are started from the screens that show them.
LEMMA StartScreens ==
    ASSUME PaymentsInv, Held, NEW p \in Plans, Start(p) \/ StartUnheard(p) \/ StartRefused(p), UNCHANGED kind
    PROVE  ScreensInv' /\ AccountStep
<1>0. TypeOK
  BY DEF PaymentsInv
<1>1. CASE Start(p)
  <2>1. PaymentsInv' /\ AccountStep
    BY <1>1, CheckoutSteps DEF Start
  <2>2. Unused # {}
    BY <1>1 DEF Start, InitiateSubscription
  <2>3. /\ ref' \in Refs /\ page' = "paystack" /\ asked' = Basic /\ blocked' = FALSE
        /\ UNCHANGED <<seen, visits>>
    BY <1>1, <2>2 DEF Start, Go, Unused
  <2>4. Held' /\ Shown'
    BY <2>3, Numbers DEF Held, Shown, Pages, AnyPlan
  <2>5. QED  BY <2>1, <2>4 DEF ScreensInv
<1>2. CASE StartUnheard(p)
  <2>1. PaymentsInv' /\ AccountStep
    <3>1. PICK r \in Unused : /\ checkouts' = [checkouts EXCEPT ![r] = NewCheckout(p, Current, 0)]
                              /\ tx' = [tx EXCEPT ![r] = "open"]
      BY <1>2 DEF StartUnheard
    <3>2. Current \in 0 .. Len(subs) /\ 0 \in 0 .. Len(subs)
      BY <1>0, Lists
    <3>3. faults' \in 0 .. MaxFaults /\ UNCHANGED <<plan, subs, ended, running, billed, events, renewals>>
      BY <1>0, <1>2, FaultSteps DEF StartUnheard, Fault
    <3>4. QED  BY <3>1, <3>2, <3>3, StartSteps
  <2>2. page' = "plans" /\ asked' = Basic /\ blocked' = FALSE /\ UNCHANGED <<ref, seen, visits>>
    BY <1>2 DEF StartUnheard, Go
  <2>3. Held' /\ Shown'
    BY <2>2 DEF Held, Shown, Pages, AnyPlan
  <2>4. QED  BY <2>1, <2>3 DEF ScreensInv
<1>3. CASE StartRefused(p)
  <2>1. PaymentsInv' /\ AccountStep
    BY <1>3, FrameSteps DEF StartRefused, vars
  <2>2. page' = "plans" /\ asked' \in {p, Basic} /\ blocked' = TRUE /\ UNCHANGED <<ref, seen, visits>>
    BY <1>3 DEF StartRefused, Go, Remembered
  <2>3. Held' /\ Shown'
    BY <2>2 DEF Held, Shown, Pages, AnyPlan
  <2>4. QED  BY <2>1, <2>3 DEF ScreensInv
<1>4. QED  BY <1>1, <1>2, <1>3

\* A transaction that went through stays so.
LEMMA SuccessStays ==
    ASSUME TypeOK, Backend \/ External, NEW r \in Refs, tx[r] = "success"
    PROVE  tx'[r] = "success"
<1>1. ASSUME NEW q \in Refs, Pay(q) \/ Decline(q) PROVE tx'[r] = "success"
  BY <1>1 DEF TypeOK, Pay, Decline
<1>2. ASSUME UNCHANGED tx PROVE tx'[r] = "success"
  BY <1>2
<1>3. CASE Backend
  BY <1>2, <1>3 DEF Backend, SubscriptionEvent, EventFails, BeginEvent, SubscriptionCreate, ApplyCharge, ExpireLapsed,
                    PeriodEnds, paystack
<1>4. CASE External
  BY <1>1, <1>2, <1>4 DEF External, Renew
<1>5. QED  BY <1>3, <1>4

LEMMA NextScreensInv == ScreensInv /\ [ScreensNext]_<<kind, allVars>> => ScreensInv' /\ AccountStep
<1> SUFFICES ASSUME ScreensInv, [ScreensNext]_<<kind, allVars>> PROVE ScreensInv' /\ AccountStep
  OBVIOUS
<1>0. PaymentsInv /\ Held /\ Shown /\ TypeOK
  BY DEF ScreensInv, PaymentsInv
\* The pages that a screen goes to without a charge.
<1>1. ASSUME PaymentsInv' /\ AccountStep, UNCHANGED <<kind, visits>> \/ (Visit /\ UNCHANGED kind), UNCHANGED ref,
             asked' = asked \/ asked' = Basic, blocked' = blocked \/ blocked' = FALSE,
             seen' \in Verdicts, page' \in Pages \ {"retry", "success"},
             page' # "plans" => ref # 0
      PROVE  ScreensInv' /\ AccountStep
  <2>1. visits' \in 0 .. MaxVisits /\ UNCHANGED kind
    BY <1>0, <1>1, CheckoutScreensAssumption DEF Held, Visit, CheckoutScreensAssumption
  <2>2. Held' /\ Shown'
    BY <1>0, <1>1, <2>1 DEF Held, Shown, AnyPlan
  <2>3. QED  BY <1>1, <2>2 DEF ScreensInv
<1>2. CASE UNCHANGED <<kind, allVars>>
  <2>1. PaymentsInv' /\ AccountStep
    BY <1>0, <1>2, FrameSteps DEF allVars, vars
  <2>2. Held' /\ Shown'
    BY <1>0, <1>2 DEF allVars, vars, screens, Held, Shown
  <2>3. QED  BY <2>1, <2>2 DEF ScreensInv
<1>3. CASE (Backend \/ External) /\ UNCHANGED <<screens, kind>>
  <2>1. PaymentsInv' /\ AccountStep
    BY <1>0, <1>3, ReadingSteps, ApplySteps, EventSteps, CreateSteps DEF Backend
  <2>2. Held'
    BY <1>0, <1>3 DEF screens, Held
  <2>3. page = "success" => ref \in Refs
    BY <1>0 DEF Held, Shown
  <2>4. Shown'
    BY <1>0, <1>3, <2>3, SuccessStays DEF screens, Shown
  <2>5. QED  BY <2>1, <2>2, <2>4 DEF ScreensInv
<1>4. CASE User /\ UNCHANGED kind
  <2>1. ASSUME NEW p \in Plans, Start(p) \/ StartUnheard(p) \/ StartRefused(p) PROVE ScreensInv' /\ AccountStep
    BY <1>0, <1>4, <2>1, StartScreens
  <2>2. ASSUME NEW p \in Plans, NEW q \in Plans, StartTogether(p, q) PROVE ScreensInv' /\ AccountStep
    <3>1. PaymentsInv' /\ AccountStep
      BY <1>0, <2>2, StartTwice DEF StartTogether
    <3>2. Unused # {}
      BY <2>2 DEF StartTogether, InitiateTwice
    <3>3. /\ ref' \in Refs /\ page' = "paystack" /\ asked' = Basic /\ blocked' = FALSE
          /\ UNCHANGED <<seen, visits>>
      BY <2>2, <3>2 DEF StartTogether, Go, Unused
    <3>4. Held' /\ Shown'
      BY <1>0, <1>4, <3>3, Numbers DEF Held, Shown, Pages, AnyPlan
    <3>5. QED  BY <3>1, <3>4 DEF ScreensInv
  <2>3. CASE CancelAndRetry
    <3>1. PaymentsInv' /\ AccountStep
      BY <1>0, <2>3, CheckoutSteps, FrameSteps DEF CancelAndRetry, vars
    <3>2. page' = "retry" /\ asked # Basic /\ UNCHANGED <<ref, asked, blocked, seen, visits>>
      BY <2>3 DEF CancelAndRetry, Go
    <3>3. Held' /\ Shown'
      BY <1>0, <1>4, <3>2 DEF Held, Shown, Pages, AnyPlan
    <3>4. QED  BY <3>1, <3>3 DEF ScreensInv
  <2>4. CASE Recover
    <3>1. PaymentsInv' /\ AccountStep
      BY <1>0, <2>4, CheckoutSteps DEF Recover
    <3>2. Unused # {}
      BY <2>4 DEF Recover, InitiateRecovery
    <3>3. /\ ref' \in Refs /\ page' = "paystack" /\ UNCHANGED <<asked, blocked, seen, visits>>
      BY <2>4, <3>2 DEF Recover, Go, Unused
    <3>4. Held' /\ Shown'
      BY <1>0, <1>4, <3>3, Numbers DEF Held, Shown, Pages, AnyPlan
    <3>5. QED  BY <3>1, <3>4 DEF ScreensInv
  <2>5. CASE EndSubscription
    <3>1. PaymentsInv' /\ AccountStep /\ page = "plans" /\ UNCHANGED screens
      BY <1>0, <2>5, EventSteps DEF EndSubscription
    <3>2. Held' /\ Shown'
      BY <1>0, <1>4, <3>1 DEF Held, Shown, screens
    <3>3. QED  BY <3>1, <3>2 DEF ScreensInv
  <2>6. CASE PayHere
    <3>1. page = "paystack" /\ ref \in Refs
      BY <1>0, <2>6 DEF PayHere, Go, Held, Shown
    <3>2. PaymentsInv' /\ AccountStep
      BY <1>0, <2>6, <3>1, ReadingSteps DEF PayHere, External
    <3>3. page' \in {"bridge", "callback"} /\ seen' = "none" /\ UNCHANGED <<ref, asked, blocked, visits>>
      BY <2>6 DEF PayHere, Go, After
    <3>4. QED  BY <1>0, <1>1, <1>4, <3>1, <3>2, <3>3, Numbers DEF Pages, Verdicts
  <2>7. CASE CancelHere \/ Close \/ Return \/ CheckAgain
    <3>1. PaymentsInv' /\ AccountStep
      BY <1>0, <2>7, FrameSteps DEF CancelHere, Close, Return, CheckAgain, vars
    <3>2. /\ page' \in {"bridge", "cancelling", "plans", "callback", "paystack"} /\ seen' \in Verdicts
          /\ (page' # "plans" => ref # 0)
          /\ UNCHANGED <<ref, asked, blocked>> /\ (UNCHANGED visits \/ Visit)
      BY <1>0, <2>7 DEF CancelHere, Close, Return, CheckAgain, Go, After, Held, Shown, Verdicts
    <3>3. QED  BY <1>1, <1>4, <3>1, <3>2 DEF Pages
  <2>8. QED  BY <1>4, <2>1, <2>2, <2>3, <2>4, <2>5, <2>6, <2>7 DEF User
<1>5. CASE Screen /\ UNCHANGED kind
  <2>1. CASE page = "retry" /\ Retry
    <3>1. asked \in Plans
      BY <1>0, <2>1 DEF Shown
    <3>2. CASE Start(asked) \/ StartUnheard(asked) \/ StartRefused(asked)
      BY <1>0, <1>5, <3>1, <3>2, StartScreens
    <3>3. CASE Go({"retry"}, "plans") /\ asked' = Basic /\ blocked' = FALSE /\ UNCHANGED <<vars, ref, seen, visits>>
      <4>1. PaymentsInv' /\ AccountStep
        BY <1>0, <3>3, FrameSteps DEF vars
      <4>2. QED  BY <1>0, <1>1, <1>5, <3>3, <4>1 DEF Go, Pages, Held
    <3>4. QED  BY <2>1, <3>2, <3>3 DEF Retry
  <2>2. CASE OpenApp \/ TimeOut
    <3>1. PaymentsInv' /\ AccountStep
      BY <1>0, <2>2, FrameSteps DEF OpenApp, TimeOut, vars
    <3>2. /\ page' \in {"cancelling", "callback", "timeout"} /\ ref # 0 /\ seen' \in Verdicts
          /\ UNCHANGED <<ref, asked, blocked>> /\ (UNCHANGED visits \/ Visit)
      BY <1>0, <2>2 DEF OpenApp, TimeOut, Go, Held, Shown
    <3>3. QED  BY <1>1, <1>5, <3>1, <3>2 DEF Pages
  <2>3. CASE SyncCancellation
    <3>1. PaymentsInv' /\ AccountStep
      BY <1>0, <2>3, FrameSteps, CheckoutSteps DEF SyncCancellation, vars, paystack
    <3>2. page' = "cancelled" /\ ref # 0 /\ seen' \in Verdicts /\ UNCHANGED <<ref, asked, blocked, visits>>
      BY <1>0, <2>3 DEF SyncCancellation, Go, Held, Shown
    <3>3. QED  BY <1>1, <1>5, <3>1, <3>2 DEF Pages
  <2>4. CASE Poll
    <3>1. page' = "polling" /\ ref \in Refs /\ seen' \in Verdicts /\ UNCHANGED <<ref, asked, blocked, visits>>
      BY <1>0, <2>4 DEF Poll, Go, Held, Shown
    <3>2. PaymentsInv' /\ AccountStep
      BY <1>0, <2>4, <3>1, FrameSteps, ReadingSteps DEF Poll, vars
    <3>3. QED  BY <1>1, <1>5, <3>1, <3>2, Numbers DEF Pages
  <2>5. CASE PollAnswered
    <3>1. /\ PaymentsInv' /\ AccountStep /\ UNCHANGED tx
      BY <1>0, <2>5, FrameSteps DEF PollAnswered, vars
    <3>2. /\ ref \in Refs /\ seen' = StatusOf(ref) /\ UNCHANGED <<ref, asked, blocked, visits>>
          /\ page' = (IF seen' = "succeeded" THEN "success" ELSE "callback")
      BY <1>0, <2>5 DEF PollAnswered, Go, Held, Shown
    <3>3. /\ StatusOf(ref) \in Verdicts
          /\ StatusOf(ref) = "succeeded" => checkouts[ref].status \in {"charged", "created"}
      BY DEF StatusOf, Verdicts
    <3>4. StatusOf(ref) = "succeeded" => tx[ref] = "success"
      BY <1>0, <3>2, <3>3 DEF PaymentsInv, ChargesPaid
    <3>5. Held' /\ Shown'
      BY <1>0, <1>5, <3>1, <3>2, <3>3, <3>4, Numbers DEF Held, Shown, Pages
    <3>6. QED  BY <3>1, <3>5 DEF ScreensInv
  <2>6. CASE PollFails
    <3>1. PaymentsInv' /\ AccountStep
      BY <1>0, <2>6, FrameSteps DEF PollFails, paystack
    <3>2. page' = "callback" /\ ref # 0 /\ seen' \in Verdicts /\ UNCHANGED <<ref, asked, blocked, visits>>
      BY <1>0, <2>6 DEF PollFails, Go, Held, Shown
    <3>3. QED  BY <1>1, <1>5, <3>1, <3>2 DEF Pages
  <2>7. QED  BY <1>5, <2>1, <2>2, <2>3, <2>4, <2>5, <2>6 DEF Screen
<1>6. QED  BY <1>2, <1>3, <1>4, <1>5 DEF ScreensNext

LEMMA InitScreensInv == ScreensInit => ScreensInv
<1> SUFFICES ASSUME ScreensInit PROVE ScreensInv
  OBVIOUS
<1>1. PaymentsInv
  BY InitPaymentsInv DEF ScreensInit
<1>2. kind \in Kinds /\ page = "plans" /\ ref = 0 /\ asked = Basic /\ blocked \in BOOLEAN /\ seen = "none" /\ visits = 0
  BY Zenon DEF ScreensInit
<1>3. Held /\ Shown
  BY <1>2, CheckoutScreensAssumption DEF Held, Shown, Pages, Verdicts, AnyPlan, CheckoutScreensAssumption
<1>4. QED  BY <1>1, <1>3 DEF ScreensInv

\* An account has a paid plan only when a charge for that plan went through, in
\* whatever order polls, events, cancellations and lapses come.
THEOREM PaidPlans == ScreensSpec => []PlanWasPaid
<1>1. ScreensInv => PlanWasPaid
  BY DEF ScreensInv, PaymentsInv, PlansPaid, Paid, Held, ScreensTypeOK, AnyPlan, PlanWasPaid
<1>2. QED  BY <1>1, InitScreensInv, NextScreensInv, PTL DEF ScreensSpec

\* A charge makes one subscription, whoever applies it and how often.
THEOREM OneRow == ScreensSpec => []OneRowPerCharge
<1>1. ScreensInv => OneRowPerCharge
  BY DEF ScreensInv, PaymentsInv, Makers, OneRowPerCharge
<1>2. QED  BY <1>1, InitScreensInv, NextScreensInv, PTL DEF ScreensSpec

\* Nobody is shown a success for a charge that did not go through.
THEOREM PaidSuccesses == ScreensSpec => []SuccessIsPaid
<1>1. ScreensInv => SuccessIsPaid
  BY DEF ScreensInv, Shown, SuccessIsPaid
<1>2. QED  BY <1>1, InitScreensInv, NextScreensInv, PTL DEF ScreensSpec

-----------------------------------------------------------------------------
(* The contract of the account.                                              *)

LEMMA InitAccount == Init => Account!Init
<1> SUFFICES ASSUME Init PROVE Account!Init
  OBVIOUS
<1>1. subs = <<>> /\ DOMAIN subs = {}
  BY EmptySeq DEF Init
<1>2. \A r \in Refs : checkouts[r].target = Basic /\ checkouts[r].recovers = 0 /\ tx[r] # "success"
  BY DEF Init, NoCheckout
<1>3. AskedFor = [r \in Refs |-> Basic] /\ Recovering = {} /\ PaidFor = {}
  BY <1>2 DEF AskedFor, Recovering, PaidFor
<1>4. Rows = <<>>
  <2>1. subs \in Seq(Subscriptions) /\ <<>> \in Seq([ref : Refs, plan : Plans]) /\ Len(subs) = 0
    BY <1>1, EmptySeq
  <2>2. Entries(subs) \in Seq([ref : Refs, plan : Plans]) /\ Len(Entries(subs)) = 0
    BY <2>1, EntriesSeq
  <2>3. Entries(subs) = <<>>
    BY <2>2, EmptySeq
  <2>4. QED  BY <2>3 DEF Rows, Entries
<1>5. QED  BY <1>3, <1>4 DEF Init, Account!Init

\* Whatever devices, polls, webhooks, cancellations, recoveries and lapses do, and
\* in whatever order, what the account is given is a behaviour of its contract: a
\* row for a paid charge and no second one, with the plan that was asked for, and a
\* plan that is set by a charge with a row or lapses.
THEOREM AccountIsKept == ScreensSpec => KeepsAccount
<1>1. ScreensInit => Account!Init
  BY InitAccount DEF ScreensInit
<1>2. ScreensInv /\ [ScreensNext]_<<kind, allVars>> => [Account!Next]_(Account!account)
  BY NextScreensInv DEF AccountStep
<1>3. QED  BY <1>1, <1>2, InitScreensInv, NextScreensInv, PTL DEF ScreensSpec, KeepsAccount, Account!Spec
=============================================================================
