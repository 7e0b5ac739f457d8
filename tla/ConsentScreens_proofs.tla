------------------------ MODULE ConsentScreens_proofs ------------------------
(***************************************************************************)
(* Theorems about ConsentScreens, for any parties, screens, kinds of       *)
(* screens and bounds.                                                     *)
(***************************************************************************)
EXTENDS ConsentScreens, TLAPS

\* What screens start with and what the status route answers is of its type.
LEMMA Records ==
    ASSUME NEW n \in Nat
    PROVE  /\ Unloaded \in Caches(n) /\ NoCall \in Calls(n) /\ Fresh \in Forms
           /\ \A op \in {"validate", "request", "confirm", "seal"} :
                [NoCall EXCEPT !.op = op, !.step = "sent"] \in Calls(n)
           /\ TypeOK => Answered \in Caches(round)
<1>1. Everyone \in BOOLEAN
  BY DEF Everyone
<1>2. TypeOK => Answered \in Caches(round)
  BY <1>1 DEF Answered, Caches, TypeOK
<1>3. Unloaded \in Caches(n) /\ Fresh \in Forms
  BY DEF Unloaded, Fresh, Caches, Forms
<1>4. NoCall \in Calls(n)
  BY DEF NoCall, Calls
<1>5. \A op \in {"validate", "request", "confirm", "seal"} :
        [NoCall EXCEPT !.op = op, !.step = "sent"] \in Calls(n)
  BY <1>4 DEF Calls
<1>6. QED  BY <1>2, <1>3, <1>4, <1>5

\* The changes of a call.
LEMMA CallSteps ==
    ASSUME NEW n \in Nat, NEW c \in Calls(n)
    PROVE  /\ \A h \in BOOLEAN : [c EXCEPT !.heard = h] \in Calls(n)
           /\ \A t \in {"no", "ok", "cap"} : [c EXCEPT !.step = t] \in Calls(n)
           /\ \A t \in {"no", "sent", c.step}, op \in {"request", c.op} :
                [c EXCEPT !.op = op, !.step = t] \in Calls(n)
           /\ \A t \in {"no", "ok"}, r \in 0 .. n : [c EXCEPT !.step = t, !.round = r] \in Calls(n)
BY DEF Calls

\* The changes of what a screen has cached.
LEMMA CacheSteps ==
    ASSUME NEW n \in Nat, NEW c \in Caches(n), NEW r \in 0 .. n
    PROVE  /\ [c EXCEPT !.loaded = TRUE, !.round = r, !.granted = {}, !.all = FALSE] \in Caches(n)
           /\ \A p \in Parties : WithGrant(c, p, r) \in Caches(n)
BY DEF Caches, WithGrant

\* Records of an earlier round are records of a later one.
LEMMA Rounds ==
    ASSUME NEW n \in Nat
    PROVE  0 .. n \subseteq 0 .. n + 1 /\ Caches(n) \subseteq Caches(n + 1) /\ Calls(n) \subseteq Calls(n + 1)
BY DEF Caches, Calls

LEMMA InitTypeOK == Init => TypeOK
<1> SUFFICES ASSUME Init PROVE TypeOK
  OBVIOUS
<1>1. MaxRounds \in Nat /\ MaxWrong \in Nat /\ MaxFaults \in Nat
  BY ConsentScreensAssumption DEF ConsentScreensAssumption
<1>2. Unloaded \in Caches(0) /\ NoCall \in Calls(0) /\ Fresh \in Forms
  BY Records
<1>3. QED  BY <1>1, <1>2 DEF Init, Statuses, TypeOK

\* TypeOK is inductive.
LEMMA NextTypeOK == TypeOK /\ [Next]_<<kind, vars>> => TypeOK'
<1> SUFFICES ASSUME TypeOK, Next PROVE TypeOK'
  BY DEF vars, server, TypeOK
<1> USE ConsentScreensAssumption DEF ConsentScreensAssumption
<1>0. round \in Nat /\ kind' = kind
  BY DEF TypeOK, Next
<1>1. Answered \in Caches(round) /\ Unloaded \in Caches(round) /\ NoCall \in Calls(round) /\ Fresh \in Forms
  BY <1>0, Records
<1>2. ASSUME NEW s \in Screens, NEW op \in {"validate", "request", "confirm", "seal"}, Send(s, op)
      PROVE  TypeOK'
  <2>1. [NoCall EXCEPT !.op = op, !.step = "sent"] \in Calls(round)
    BY <1>0, Records
  <2>2. QED  BY <1>0, <1>2, <2>1 DEF Send, server, TypeOK
<1>3. CASE CodesExpire \/ Upgrade \/ TakeLastSeal
  <2>1. CASE CodesExpire
    <3>1. dead' \in 0 .. MaxRounds
      BY <2>1 DEF CodesExpire, TypeOK
    <3>2. QED  BY <1>0, <2>1, <3>1 DEF CodesExpire, TypeOK
  <2>2. CASE Upgrade
    BY <1>0, <2>2 DEF Upgrade, TypeOK
  <2>3. CASE TakeLastSeal
    <3>1. faults' \in 0 .. MaxFaults /\ capped' \in BOOLEAN
      BY <2>3 DEF TakeLastSeal, Fault, TypeOK
    <3>2. QED  BY <1>0, <2>3, <3>1 DEF TakeLastSeal, TypeOK
  <2>4. QED  BY <1>3, <2>1, <2>2, <2>3
<1>4. ASSUME NEW p \in Parties, DeliverSms(p) \/ LockoutEnds(p) PROVE TypeOK'
  BY <1>0, <1>4 DEF DeliverSms, LockoutEnds, TypeOK
<1>5. ASSUME NEW s \in Screens, Open(s) \/ OpenLink(s) PROVE TypeOK'
  <2>0. \A b \in BOOLEAN : [Fresh EXCEPT !.confirmed = b] \in Forms
    BY DEF Fresh, Forms
  <2>1. call[s] \in Calls(round) /\ [Fresh EXCEPT !.confirmed = (Owner[s] \in granted)] \in Forms
    <3>1. (Owner[s] \in granted) \in BOOLEAN
      OBVIOUS
    <3>2. QED  BY <2>0, <3>1 DEF TypeOK
  <2>2. \A h \in BOOLEAN : [call[s] EXCEPT !.heard = h] \in Calls(round)
    BY <1>0, <2>1, CallSteps
  <2>3. call' \in [Screens -> Calls(round)]
    BY <1>5, <2>2 DEF Open, OpenLink, TypeOK
  <2>4. form' \in [Screens -> Forms]
    BY <1>1, <1>5, <2>1 DEF Open, OpenLink, TypeOK
  <2>5. cache' \in [Screens -> Caches(round)]
    BY <1>1, <1>5 DEF Open, OpenLink, TypeOK
  <2>6. QED  BY <1>0, <1>5, <2>3, <2>4, <2>5 DEF Open, OpenLink, Fault, server, TypeOK
<1>6. ASSUME NEW s \in Screens, Poll(s) \/ Refresh(s) PROVE TypeOK'
  BY <1>0, <1>1, <1>6 DEF Poll, Refresh, server, TypeOK
<1>7. ASSUME NEW s \in Screens,
             \/ MobileRequest(s) \/ MobileRenew(s) \/ MobileConfirm(s) \/ Seal(s)
             \/ WebRequest(s) \/ WebConfirm(s) \/ LinkConfirm(s)
      PROVE  TypeOK'
  BY <1>2, <1>7 DEF MobileRequest, MobileRenew, MobileConfirm, Seal, WebRequest, WebConfirm, LinkConfirm
<1>8. ASSUME NEW s \in Screens, Handle(s) PROVE TypeOK'
  <2>0. call[s] \in Calls(round) /\ Owner[s] \in Parties
    BY DEF TypeOK
  <2>1. ASSUME NEW valid \in BOOLEAN, Validate(s, valid) PROVE TypeOK'
    <3>1. call' \in [Screens -> Calls(round)]
      BY <1>0, <2>0, <2>1, CallSteps DEF Validate, TypeOK
    <3>2. QED  BY <1>0, <2>1, <3>1 DEF Validate, Fault, TypeOK
  <2>2. CASE IssueCodes(s)
    <3>1. round + 1 \in 0 .. MaxRounds /\ 0 .. round \subseteq 0 .. round + 1
      BY <1>0, <2>2 DEF IssueCodes, TypeOK
    <3>2. cache \in [Screens -> Caches(round + 1)] /\ call \in [Screens -> Calls(round + 1)]
      BY <1>0, Rounds DEF TypeOK
    <3>3. [call[s] EXCEPT !.step = "ok", !.round = round + 1] \in Calls(round + 1)
      <4>1. call[s] \in Calls(round + 1) /\ round + 1 \in Nat /\ round + 1 \in 0 .. round + 1
        BY <1>0, <3>2
      <4>2. QED  BY <4>1, CallSteps
    <3>4. call' \in [Screens -> Calls(round + 1)] /\ wrong' \in [Parties -> 0 .. MaxWrong]
      BY <2>2, <3>2, <3>3 DEF IssueCodes
    <3>5. sms' \in [Parties -> 0 .. round + 1]
      BY <2>2, <3>1 DEF IssueCodes, TypeOK
    <3>6. QED  BY <1>0, <2>2, <3>1, <3>2, <3>4, <3>5 DEF IssueCodes, TypeOK, Statuses
  <2>3. CASE RequestFails(s) \/ HandleSeal(s)
    <3>0. PICK t \in {"no", "ok", "cap"} : call' = [call EXCEPT ![s].step = t]
      BY <2>3 DEF RequestFails, HandleSeal, Ends
    <3>1. call' \in [Screens -> Calls(round)]
      BY <1>0, <2>0, <3>0, CallSteps DEF TypeOK
    <3>2. QED  BY <1>0, <2>3, <3>1 DEF RequestFails, HandleSeal, Fault, TypeOK, Statuses
  <2>4. ASSUME NEW typo \in BOOLEAN, Confirm(s, typo) PROVE TypeOK'
    <3>1. wrong' \in [Parties -> 0 .. MaxWrong]
      BY <2>4 DEF Confirm, Pending, TypeOK
    <3>2. call[s] \in Calls(round) /\ round \in Nat /\ round \in 0 .. round /\ 0 \in 0 .. round
      BY <1>0, <2>0
    <3>3. call' \in [Screens -> Calls(round)]
      <4>1. PICK g \in BOOLEAN : call' = [call EXCEPT ![s].step = IF g THEN "ok" ELSE "no",
                                                      ![s].round = IF g THEN round ELSE 0]
        BY <2>4, Zenon DEF Confirm
      <4>2. CASE g
        <5>1. call' = [call EXCEPT ![s].step = "ok", ![s].round = round]
          BY <4>1, <4>2
        <5>2. [call[s] EXCEPT !.step = "ok", !.round = round] \in Calls(round)
          BY <3>2, CallSteps
        <5>3. QED  BY <5>1, <5>2 DEF TypeOK
      <4>3. CASE ~g
        <5>1. call' = [call EXCEPT ![s].step = "no", ![s].round = 0]
          BY <4>1, <4>3
        <5>2. [call[s] EXCEPT !.step = "no", !.round = 0] \in Calls(round)
          BY <3>2, CallSteps
        <5>3. QED  BY <5>1, <5>2 DEF TypeOK
      <4>4. QED  BY <4>2, <4>3
    <3>4. QED  BY <1>0, <2>0, <2>4, <3>1, <3>3 DEF Confirm, Fault, TypeOK, Statuses
  <2>5. QED  BY <1>8, <2>1, <2>2, <2>3, <2>4 DEF Handle
<1>9. ASSUME NEW s \in Screens, Answer(s) PROVE TypeOK'
  <2>0. /\ call[s].round \in 0 .. round /\ call[s].step \in {"idle", "sent", "ok", "no", "cap"}
        /\ cache[s] \in Caches(round) /\ form[s] \in Forms /\ Owner[s] \in Parties
        /\ kind[s] \in {"mobile", "web", "link"}
    BY DEF TypeOK, Calls
  <2>1. call' \in [Screens -> Calls(round)]
    BY <1>1, <1>9 DEF Answer, RequestAnswered, ConfirmAnswered, SealAnswered, NoAnswer, Done, TypeOK
  <2>2. CASE RequestAnswered(s)
    <3>1. cache' \in [Screens -> Caches(round)]
      BY <1>0, <1>1, <2>0, <2>2, CacheSteps DEF RequestAnswered, TypeOK
    <3>2. form' \in [Screens -> Forms]
      BY <2>0, <2>2 DEF RequestAnswered, TypeOK, Forms
    <3>3. QED  BY <1>0, <2>1, <2>2, <3>1, <3>2 DEF RequestAnswered, server, TypeOK
  <2>3. CASE ConfirmAnswered(s)
    <3>1. cache' \in [Screens -> Caches(round)]
      BY <1>0, <1>1, <2>0, <2>3, CacheSteps DEF ConfirmAnswered, TypeOK
    <3>2. form' \in [Screens -> Forms]
      BY <2>0, <2>3 DEF ConfirmAnswered, TypeOK, Forms
    <3>3. QED  BY <1>0, <2>1, <2>3, <3>1, <3>2 DEF ConfirmAnswered, server, TypeOK
  <2>4. CASE SealAnswered(s)
    <3>1. cache' \in [Screens -> Caches(round)]
      BY <1>1, <2>4 DEF SealAnswered, TypeOK
    <3>2. form' \in [Screens -> Forms]
      BY <2>0, <2>4 DEF SealAnswered, TypeOK, Forms
    <3>3. QED  BY <1>0, <2>1, <2>4, <3>1, <3>2 DEF SealAnswered, server, TypeOK
  <2>5. CASE NoAnswer(s)
    BY <1>0, <2>1, <2>5 DEF NoAnswer, Fault, TypeOK
  <2>6. QED  BY <1>9, <2>2, <2>3, <2>4, <2>5 DEF Answer
<1>10. QED  BY <1>3, <1>4, <1>5, <1>6, <1>7, <1>8, <1>9 DEF Next

-----------------------------------------------------------------------------
(* What a confirmation has been told: an answer of the current round on its  *)
(* way to a screen names a granted record.                                   *)

Told ==
    \A s \in Screens :
      call[s].op = "confirm" /\ call[s].step = "ok" /\ call[s].round = round => Owner[s] \in granted

\* What the status says of the records.
Stages ==
    /\ status \in {"active", "sealed"} => Everyone
    /\ status = "draft" => round = 0

ConsentInv == ShownGrantsAreReal /\ Told /\ Stages

LEMMA InitConsentInv == Init => ConsentInv
<1> SUFFICES ASSUME Init PROVE ConsentInv
  OBVIOUS
<1>1. TypeOK
  BY InitTypeOK
<1>2. QED  BY <1>1 DEF Init, Unloaded, NoCall, ConsentInv, ShownGrantsAreReal, Told, Stages

\* ConsentInv is inductive.
LEMMA NextConsentInv == ConsentInv /\ [Next]_<<kind, vars>> => ConsentInv'
<1> SUFFICES ASSUME ConsentInv, [Next]_<<kind, vars>> PROVE ConsentInv'
  OBVIOUS
<1>1. TypeOK /\ TypeOK'
  BY NextTypeOK DEF ConsentInv, ShownGrantsAreReal
<1>2. SUFFICES ASSUME Next
               PROVE  /\ \A s \in Screens : cache'[s].round = round' => cache'[s].granted \subseteq granted'
                      /\ Told'
                      /\ Stages'
  <2>1. CASE UNCHANGED <<kind, vars>>
    BY <2>1, <1>1 DEF vars, ConsentInv, ShownGrantsAreReal, Told, Stages, Everyone
  <2>2. CASE Next
    BY <1>1, <1>2, <2>2 DEF ConsentInv, ShownGrantsAreReal
  <2>3. QED  BY <2>1, <2>2
<1> USE <1>1 DEF ConsentInv, ShownGrantsAreReal, Told, Stages, Everyone
<1> DEFINE Good(c) == c.round = round => c.granted \subseteq granted
<1>3. /\ round \in Nat /\ granted \subseteq Parties /\ Good(Answered) /\ Good(Unloaded)
      /\ \A s \in Screens : cache[s].round \in 0 .. round /\ call[s].round \in 0 .. round
  <2>1. round \in Nat /\ granted \subseteq Parties
    BY ConsentScreensAssumption DEF TypeOK, ConsentScreensAssumption
  <2>2. \A s \in Screens : cache[s].round \in 0 .. round /\ call[s].round \in 0 .. round
    BY DEF TypeOK, Caches, Calls
  <2>3. Good(Answered) /\ Good(Unloaded)
    BY DEF Answered, Unloaded
  <2>4. QED  BY <2>1, <2>2, <2>3
<1>4. ASSUME UNCHANGED <<status, round, granted, cache, call>> PROVE ConsentInv'
  BY <1>4
<1>5. CASE \/ CodesExpire \/ Upgrade \/ TakeLastSeal
           \/ \E p \in Parties : DeliverSms(p) \/ LockoutEnds(p)
  BY <1>4, <1>5 DEF CodesExpire, Upgrade, TakeLastSeal, DeliverSms, LockoutEnds
\* What is asked and what is opened changes no record and answers no call.
<1>6. ASSUME NEW s \in Screens, UNCHANGED <<status, round, granted, cache>>,
             NEW c, call' = [call EXCEPT ![s] = c], c.step # "ok" \/ c.op # "confirm"
      PROVE  ConsentInv'
  BY <1>6 DEF TypeOK
<1>7. ASSUME NEW s \in Screens, NEW op \in {"validate", "request", "confirm", "seal"}, Send(s, op)
      PROVE  ConsentInv'
  <2>1. [NoCall EXCEPT !.op = op, !.step = "sent"].step # "ok"
    BY DEF NoCall
  <2>2. QED  BY <1>6, <1>7, <2>1 DEF Send, server
<1>8. ASSUME NEW s \in Screens,
             \/ MobileRequest(s) \/ MobileRenew(s) \/ MobileConfirm(s) \/ Seal(s)
             \/ WebRequest(s) \/ WebConfirm(s) \/ LinkConfirm(s)
      PROVE  ConsentInv'
  BY <1>7, <1>8 DEF MobileRequest, MobileRenew, MobileConfirm, Seal, WebRequest, WebConfirm, LinkConfirm
<1>9. ASSUME NEW s \in Screens, Open(s) \/ OpenLink(s) \/ Poll(s) \/ Refresh(s)
      PROVE  ConsentInv'
  <2>1. \A t \in Screens : Good(cache'[t]) /\ UNCHANGED <<round, granted, status>>
    BY <1>3, <1>9 DEF Open, OpenLink, Poll, Refresh, server, TypeOK
  <2>2. \A t \in Screens : /\ call'[t].op = call[t].op /\ call'[t].step = call[t].step
                           /\ call'[t].round = call[t].round
    BY <1>9 DEF Open, OpenLink, Poll, Refresh, TypeOK, Calls
  <2>3. QED  BY <2>1, <2>2
<1>10. ASSUME NEW s \in Screens, Handle(s) PROVE ConsentInv'
  <2>1. ASSUME NEW valid \in BOOLEAN, Validate(s, valid) PROVE ConsentInv'
    BY <2>1 DEF Validate, TypeOK, Calls
  <2>2. CASE IssueCodes(s)
    BY <1>3, <2>2 DEF IssueCodes, TypeOK, Calls
  <2>3. CASE RequestFails(s)
    BY <2>3 DEF RequestFails, Ends, TypeOK, Calls
  <2>4. CASE HandleSeal(s)
    BY <2>4 DEF HandleSeal, CanSeal, Ends, TypeOK, Calls
  <2>5. ASSUME NEW typo \in BOOLEAN, Confirm(s, typo) PROVE ConsentInv'
    <3>1. /\ UNCHANGED <<round, cache>> /\ granted \subseteq granted'
          /\ status' = "active" => status = "active" \/ granted' = Parties
          /\ granted' # granted => round > 0
      BY <2>5 DEF Confirm, Pending
    <3>2. /\ \A t \in Screens \ {s} : call'[t] = call[t]
          /\ call'[s].step = "ok" => Owner[s] \in granted'
      BY <2>5 DEF Confirm, TypeOK, Calls
    <3>3. Stages'
      BY <2>5, <3>1 DEF Confirm, Pending, TypeOK
    <3>4. QED  BY <3>1, <3>2, <3>3
  <2>6. QED  BY <1>10, <2>1, <2>2, <2>3, <2>4, <2>5 DEF Handle
<1>11. ASSUME NEW s \in Screens, Answer(s) PROVE ConsentInv'
  <2>1. CASE RequestAnswered(s)
    BY <1>3, <2>1 DEF RequestAnswered, Done, NoCall, server, TypeOK, Caches
  <2>2. CASE ConfirmAnswered(s)
    <3>1. call' = [call EXCEPT ![s] = NoCall] /\ UNCHANGED <<status, round, granted>>
      BY <2>2 DEF ConfirmAnswered, Done, server
    <3>2. kind[s] \in {"mobile", "web", "link"} /\ cache[s] \in Caches(round)
      BY ConsentScreensAssumption DEF TypeOK, ConsentScreensAssumption
    <3>3. call[s].round = round => Owner[s] \in granted
      BY <2>2 DEF ConfirmAnswered
    <3>4. Good(WithGrant(cache[s], Owner[s], call[s].round))
      BY <1>3, <3>2, <3>3 DEF WithGrant, Caches
    <3>5. \A t \in Screens : Good(cache'[t])
      <4>1. CASE kind[s] = "mobile"
        BY <2>2, <3>4, <4>1 DEF ConfirmAnswered, TypeOK
      <4>2. CASE kind[s] = "web"
        BY <1>3, <2>2, <4>2 DEF ConfirmAnswered, TypeOK
      <4>3. CASE kind[s] = "link"
        BY <2>2, <4>3 DEF ConfirmAnswered
      <4>4. QED  BY <3>2, <4>1, <4>2, <4>3
    <3>6. QED  BY <3>1, <3>5 DEF NoCall, TypeOK
  <2>3. CASE SealAnswered(s)
    BY <1>3, <2>3 DEF SealAnswered, Done, NoCall, server, TypeOK
  <2>4. CASE NoAnswer(s)
    BY <2>4 DEF NoAnswer, Done, NoCall, TypeOK
  <2>5. QED  BY <1>11, <2>1, <2>2, <2>3, <2>4 DEF Answer
<1>12. QED  BY <1>2, <1>5, <1>8, <1>9, <1>10, <1>11 DEF Next

-----------------------------------------------------------------------------

\* No screen shows a confirmation that the server has not recorded, and every
\* variable keeps its type (useConsentFlow.ts:37-44, 88-103).
THEOREM ShownGrants == Spec => []ShownGrantsAreReal
<1>1. ConsentInv => ShownGrantsAreReal
  BY DEF ConsentInv
<1>2. QED  BY <1>1, InitConsentInv, NextConsentInv, PTL DEF Spec

\* A step to "sealed" is taken with the confirmation of every party on record
\* (apps/agreements/services.py, the seal; consent.tsx:161).
THEOREM SealedByAllParties == Spec => SealedByAll
<1>1. ConsentInv /\ [Next]_<<kind, vars>> => [status' = "sealed" /\ status # "sealed" => Everyone]_vars
  <2> SUFFICES ASSUME ConsentInv, Next, status' = "sealed", status # "sealed" PROVE Everyone
    BY DEF vars
  <2>1. CASE \/ CodesExpire \/ Upgrade \/ TakeLastSeal
             \/ \E p \in Parties : DeliverSms(p) \/ LockoutEnds(p)
    BY <2>1 DEF CodesExpire, Upgrade, TakeLastSeal, DeliverSms, LockoutEnds
  <2>2. ASSUME NEW s \in Screens, Open(s) \/ OpenLink(s) \/ Poll(s) \/ Refresh(s) PROVE Everyone
    BY <2>2 DEF Open, OpenLink, Poll, Refresh, server
  <2>3. ASSUME NEW s \in Screens,
               \/ MobileRequest(s) \/ MobileRenew(s) \/ MobileConfirm(s) \/ Seal(s)
               \/ WebRequest(s) \/ WebConfirm(s) \/ LinkConfirm(s)
        PROVE  Everyone
    BY <2>3 DEF MobileRequest, MobileRenew, MobileConfirm, Seal, WebRequest, WebConfirm, LinkConfirm, Send, server
  <2>4. ASSUME NEW s \in Screens, Handle(s) PROVE Everyone
    <3>1. CASE HandleSeal(s)
      BY <3>1 DEF HandleSeal, CanSeal, ConsentInv, Stages
    <3>2. CASE \E valid \in BOOLEAN : Validate(s, valid)
      BY <3>2 DEF Validate
    <3>3. CASE IssueCodes(s) \/ RequestFails(s)
      BY <3>3 DEF IssueCodes, RequestFails
    <3>4. CASE \E typo \in BOOLEAN : Confirm(s, typo)
      BY <3>4 DEF Confirm
    <3>5. QED  BY <2>4, <3>1, <3>2, <3>3, <3>4 DEF Handle
  <2>5. ASSUME NEW s \in Screens, Answer(s) PROVE Everyone
    BY <2>5 DEF Answer, RequestAnswered, ConfirmAnswered, SealAnswered, NoAnswer, server
  <2>6. QED  BY <2>1, <2>2, <2>3, <2>4, <2>5 DEF Next
<1>2. QED  BY <1>1, InitConsentInv, NextConsentInv, PTL DEF Spec, SealedByAll

-----------------------------------------------------------------------------
(* The contract.                                                             *)

\* A step that no record and no status notices is no step of the contract.
LEMMA Unnoticed ==
    ASSUME UNCHANGED <<status, granted>> PROVE [Contract!Next]_(Contract!contract)
BY DEF Contract!contract

\* The transitions that the requests of the screens take.
LEMMA Taken ==
    /\ status \in {"draft", "active"} /\ status' = "pending_consent" => Contract!Take("request_consent")
    /\ status = "pending_consent" /\ status' = "active" => Contract!Take("all_consented")
    /\ status \in {"pending_consent", "active"} /\ status' = "sealed" => Contract!Take("seal")
<1>1. ASSUME NEW a, <<status, a, status'>> \in Contract!Transitions PROVE Contract!Take(a)
  <2>1. status' = <<status, a, status'>>[3] /\ <<status, a, status'>>[1] = status /\ <<status, a, status'>>[2] = a
    OBVIOUS
  <2>2. QED  BY <1>1, <2>1 DEF Contract!Take, Contract!NextState
<1>2. /\ <<"draft", "request_consent", "pending_consent">> \in Contract!Transitions
      /\ <<"active", "request_consent", "pending_consent">> \in Contract!Transitions
      /\ <<"pending_consent", "all_consented", "active">> \in Contract!Transitions
      /\ <<"pending_consent", "seal", "sealed">> \in Contract!Transitions
      /\ <<"active", "seal", "sealed">> \in Contract!Transitions
  BY DEF Contract!Transitions
<1>3. QED  BY <1>1, <1>2

\* Codes are issued for an agreement that waits for consent, or comes to.
LEMMA IssuingAsks ==
    ASSUME TypeOK, NEW s \in Screens, IssueCodes(s) PROVE Contract!AskConsent
<1>1. status \in {"draft", "active", "pending_consent"} /\ status' = "pending_consent" /\ granted' = {}
  BY DEF IssueCodes, CanRequest
<1>2. status # "pending_consent" => Contract!Take("request_consent")
  BY <1>1, Taken
<1>3. QED  BY <1>1, <1>2 DEF Contract!AskConsent

\* A code counts only while consent is pending.
LEMMA ConfirmingConsents ==
    ASSUME ConsentInv, NEW s \in Screens, NEW typo \in BOOLEAN, Confirm(s, typo)
    PROVE  UNCHANGED <<status, granted>> \/ Contract!Consent(Owner[s])
<1>1. CASE UNCHANGED <<status, granted>>
  BY <1>1
<1>2. CASE ~UNCHANGED <<status, granted>>
  <2>1. /\ Pending(Owner[s]) /\ granted' = granted \cup {Owner[s]}
        /\ status' = IF granted' = Parties THEN "active" ELSE status
    BY <1>2 DEF Confirm
  <2>2. Owner[s] \in Parties
    BY ConsentScreensAssumption DEF ConsentScreensAssumption
  <2>3. status = "pending_consent"
    BY <2>1, <2>2 DEF Pending, ConsentInv, Stages, Everyone, ShownGrantsAreReal, TypeOK, Statuses
  <2>4. granted' = Parties => Contract!Take("all_consented")
    BY <2>1, <2>3, Taken
  <2>5. (status' = "sealed") = (status = "sealed")
    BY <2>1, <2>3
  <2>6. QED  BY <2>1, <2>4, <2>5 DEF Contract!Consent
<1>3. QED  BY <1>1, <1>2

LEMMA SealingSeals ==
    ASSUME NEW s \in Screens, HandleSeal(s)
    PROVE  UNCHANGED <<status, granted>> \/ Contract!Seal
<1>1. CASE status' = status
  BY <1>1 DEF HandleSeal
<1>2. CASE status' # status
  <2>1. CanSeal /\ status' = "sealed" /\ granted' = granted
    BY <1>2 DEF HandleSeal
  <2>2. Contract!Take("seal")
    BY <2>1, Taken DEF CanSeal
  <2>3. status = "pending_consent" => granted = Parties
    BY <2>1 DEF CanSeal, Everyone
  <2>4. (status' = "sealed") \in BOOLEAN \ {FALSE}
    BY <2>1
  <2>5. QED  BY <2>1, <2>2, <2>3, <2>4 DEF Contract!Seal
<1>3. QED  BY <1>1, <1>2

LEMMA NextKeepsContract ==
    ConsentInv /\ [Next]_<<kind, vars>> => [Contract!Next]_(Contract!contract)
<1> SUFFICES ASSUME ConsentInv, [Next]_<<kind, vars>>, ~UNCHANGED <<status, granted>>
             PROVE  Contract!Next
  BY Unnoticed
<1>1. Next /\ TypeOK
  BY DEF vars, ConsentInv, ShownGrantsAreReal
<1>2. PICK s \in Screens : Handle(s)
  BY <1>1 DEF Next, CodesExpire, Upgrade, TakeLastSeal, DeliverSms, LockoutEnds, Open, OpenLink, Poll,
     Refresh, MobileRequest, MobileRenew, MobileConfirm, Seal, WebRequest, WebConfirm, LinkConfirm, Send,
     Answer, RequestAnswered, ConfirmAnswered, SealAnswered, NoAnswer, server
<1>3. Owner[s] \in Parties
  BY ConsentScreensAssumption DEF ConsentScreensAssumption
<1>4. CASE IssueCodes(s)
  BY <1>1, <1>4, IssuingAsks DEF Contract!Next
<1>5. ASSUME NEW typo \in BOOLEAN, Confirm(s, typo) PROVE Contract!Next
  BY <1>3, <1>5, ConfirmingConsents DEF Contract!Next
<1>6. CASE HandleSeal(s)
  BY <1>6, SealingSeals DEF Contract!Next
<1>7. CASE RequestFails(s) \/ \E valid \in BOOLEAN : Validate(s, valid)
  BY <1>7 DEF RequestFails, Validate
<1>8. QED  BY <1>2, <1>4, <1>5, <1>6, <1>7 DEF Handle

\* Whatever screens ask for, and whenever it arrives, the agreement takes a step of
\* the contract or none (consent/services.py:334-420, 498-580, agreements/services.py:254).
THEOREM ScreensKeepContract == Spec => KeepsContract
BY InitConsentInv, NextConsentInv, NextKeepsContract, PTL DEF Spec, KeepsContract
=============================================================================
