--------------------------- MODULE ConsentScreens ---------------------------
(***************************************************************************)
(* Confirming an agreement with one-time codes, on the parties' screens:   *)
(* the consent step of the mobile application (consent.tsx,                *)
(* useConsentFlow), the consent page of the web, and the public page       *)
(* behind the link of the SMS (consent/[token], ConsentConfirmForm), with  *)
(* the part of the server they talk to and the creator's sealing limit.    *)
(*                                                                         *)
(* A party may have several screens.  Every request for codes deletes the  *)
(* records of the request before it and starts a new round.                *)
(***************************************************************************)
EXTENDS Integers, FiniteSets

CONSTANTS
    Parties,
    Creator,      \* the party who created the agreement
    Screens,
    Owner,        \* the party in front of a screen
    Kinds,        \* the kinds of screens there may be: functions to "mobile", "web" or "link"
    MaxRounds,    \* bound: requests for codes that succeed
    MaxWrong,     \* attempts a record allows (_OTP_MAX_ATTEMPTS)
    MaxFaults     \* bound: lost answers, refusals, typing errors, remounts and lost seals

ASSUME ConsentScreensAssumption ==
    /\ Creator \in Parties
    /\ Owner \in [Screens -> Parties]
    /\ Kinds \subseteq [Screens -> {"mobile", "web", "link"}]
    /\ \A k \in Kinds, s \in Screens : k[s] = "link" => Owner[s] # Creator
    /\ MaxRounds \in Nat /\ MaxWrong \in Nat \ {0} /\ MaxFaults \in Nat

VARIABLES
    kind,      \* the kind of each screen, which no step changes
    status,    \* the agreement's status
    round,     \* the round of the consent records, 0 when there are none
    granted,   \* parties whose record is granted
    wrong,     \* failed attempts on each party's record
    dead,      \* rounds up to this one have expired
    sms,       \* the round of the last code each party received
    capped,    \* whether the creator's plan has no seal left
    faults,    \* number of them so far
    cache,     \* the consent status a screen holds, Unloaded before the first answer
    call,      \* the request a screen waits for
    form       \* what a screen remembers besides

server == <<status, round, granted, wrong, dead, sms, capped, faults>>
vars == <<status, round, granted, wrong, dead, sms, capped, faults, cache, call, form>>

Statuses == {"draft", "pending_consent", "active", "sealed"}
Unloaded == [loaded |-> FALSE, round |-> 0, granted |-> {}, all |-> FALSE, status |-> "none", capped |-> FALSE]
Fresh == [sent |-> FALSE, confirmed |-> FALSE, capError |-> FALSE]
NoCall == [op |-> "none", step |-> "idle", round |-> 0, heard |-> TRUE]

\* What a screen may hold while n rounds of codes have been issued.
Caches(n) == [loaded : BOOLEAN, round : 0 .. n, granted : SUBSET Parties, all : BOOLEAN,
              status : Statuses \cup {"none"}, capped : BOOLEAN]
Calls(n) == [op : {"none", "validate", "request", "confirm", "seal"},
             step : {"idle", "sent", "ok", "no", "cap"}, round : 0 .. n, heard : BOOLEAN]
Forms == [sent : BOOLEAN, confirmed : BOOLEAN, capError : BOOLEAN]

TypeOK ==
    /\ kind \in Kinds
    /\ status \in Statuses
    /\ round \in 0 .. MaxRounds /\ dead \in 0 .. MaxRounds
    /\ granted \subseteq Parties
    /\ wrong \in [Parties -> 0 .. MaxWrong]
    /\ sms \in [Parties -> 0 .. round]
    /\ capped \in BOOLEAN /\ faults \in 0 .. MaxFaults
    /\ cache \in [Screens -> Caches(round)]
    /\ call \in [Screens -> Calls(round)]
    /\ form \in [Screens -> Forms]

\* A reviewed draft; the consent screens are about to be opened.
Init ==
    /\ kind \in Kinds
    /\ status = "draft"
    /\ round = 0 /\ granted = {} /\ dead = 0
    /\ wrong = [p \in Parties |-> 0]
    /\ sms = [p \in Parties |-> 0]
    /\ capped \in BOOLEAN /\ faults = 0
    /\ cache = [s \in Screens |-> Unloaded]
    /\ call = [s \in Screens |-> NoCall]
    /\ form = [s \in Screens |-> Fresh]

\* One of the bounded things that go wrong; everything else of the server stands.
Fault == faults < MaxFaults /\ faults' = faults + 1

-----------------------------------------------------------------------------
(* Loading.                                                                  *)

Everyone == round > 0 /\ granted = Parties

\* What the status route answers; the pages also load the agreement and the plan.
Answered == [loaded |-> TRUE, round |-> round, granted |-> granted, all |-> Everyone,
             status |-> status, capped |-> capped]

\* The step is mounted anew.  Its query starts without an answer, or with an
\* earlier one that is shown until the first refetch.  A request under way goes
\* on, and its answer is still written to the cache.
Open(s) ==
    /\ kind[s] # "link"
    /\ status # "sealed"
    /\ form' = [form EXCEPT ![s] = Fresh]
    /\ cache' \in {cache, [cache EXCEPT ![s] = Unloaded]}
    /\ call' = [call EXCEPT ![s].heard = call[s] = NoCall]
    /\ IF form[s].capError THEN UNCHANGED faults ELSE Fault
    /\ UNCHANGED <<status, round, granted, wrong, dead, sms, capped>>

\* Mutant of Expired: codes the other party has not used do not count.
ExpiredOwn(s) ==
    /\ cache[s].round # 0 /\ Owner[s] \notin cache[s].granted
    /\ cache[s].round <= dead

\* Some pending record the screen knows has passed its time.
Expired(s) ==
    /\ cache[s].round # 0 /\ cache[s].granted # Parties
    /\ cache[s].round <= dead

\* Every five seconds on the mobile application until all have consented;
\* every eight seconds on the web.  What was expired on the server's clock is
\* so on the device's.
Poll(s) ==
    /\ kind[s] = "mobile" => ~cache[s].all
    /\ kind[s] # "link"
    /\ cache' = [cache EXCEPT ![s] = Answered]
    /\ UNCHANGED <<server, call, form>>

\* On every mount, pulled down, refreshed with the button, on focus.
Refresh(s) ==
    /\ kind[s] # "link"
    /\ cache' = [cache EXCEPT ![s] = Answered]
    /\ UNCHANGED <<server, call, form>>

\* The public page is rendered by the web's server, once.
OpenLink(s) ==
    /\ kind[s] = "link"
    /\ sms[Owner[s]] > 0
    /\ form' = [form EXCEPT ![s] = [Fresh EXCEPT !.confirmed = Owner[s] \in granted]]
    /\ call' = [call EXCEPT ![s].heard = call[s] = NoCall]
    /\ UNCHANGED <<server, cache>>

-----------------------------------------------------------------------------
(* What a screen asks.                                                       *)

Send(s, op) ==
    /\ call[s] = NoCall
    /\ call' = [call EXCEPT ![s] = [NoCall EXCEPT !.op = op, !.step = "sent"]]
    /\ UNCHANGED <<server, cache, form>>

OtpsSent(s) == cache[s].round # 0

\* "Request consent codes" stands while the screen knows of no codes, also
\* because it has not been told yet; the agreement is validated first.
MobileRequest(s) ==
    /\ kind[s] = "mobile"
    /\ ~OtpsSent(s)
    /\ Send(s, "validate")

\* "Request new consent codes" comes without validation.
MobileRenew(s) ==
    /\ kind[s] = "mobile"
    /\ Expired(s)
    /\ Send(s, "request")

\* Step 1, and "Resend OTPs" of step 2, which the limit does not disable.
WebRequest(s) ==
    /\ kind[s] = "web" /\ cache[s].loaded
    /\ \/ cache[s].status \in {"draft", "active"} /\ ~form[s].sent /\ ~cache[s].capped
       \/ (form[s].sent \/ OtpsSent(s)) /\ ~cache[s].all
    /\ Send(s, "validate")

MobileConfirm(s) ==
    /\ kind[s] = "mobile"
    /\ OtpsSent(s) /\ ~Expired(s)
    /\ Owner[s] \notin cache[s].granted
    /\ Send(s, "confirm")

WebConfirm(s) ==
    /\ kind[s] = "web"
    /\ OtpsSent(s) /\ ~cache[s].all
    /\ Owner[s] \notin cache[s].granted
    /\ Send(s, "confirm")

LinkConfirm(s) ==
    /\ kind[s] = "link" /\ sms[Owner[s]] > 0
    /\ ~form[s].confirmed
    /\ Send(s, "confirm")

BothConfirmed(s) == OtpsSent(s) /\ ~Expired(s) /\ cache[s].all

\* The limit the plan reports, or the one a refused seal has reported.
CapShown(s) == cache[s].capped \/ form[s].capError

Seal(s) ==
    /\ kind[s] = "mobile"
    /\ BothConfirmed(s)
    /\ ~CapShown(s)
    /\ Send(s, "seal")

-----------------------------------------------------------------------------
(* The server.                                                               *)

Ends(s, op, step) ==
    /\ call[s].op = op /\ call[s].step = "sent"
    /\ call' = [call EXCEPT ![s].step = step]

\* The request for codes is only sent when the validation finds no error.
Validate(s, valid) ==
    /\ call[s].op = "validate" /\ call[s].step = "sent"
    /\ call' = [call EXCEPT ![s].op = IF valid THEN "request" ELSE @,
                            ![s].step = IF valid THEN @ ELSE "no"]
    /\ IF valid THEN UNCHANGED faults ELSE Fault
    /\ UNCHANGED <<status, round, granted, wrong, dead, sms, capped, cache, form>>

\* Only a pending agreement is asked whether all have consented.
CanRequest(p) ==
    /\ p = Creator
    /\ status \in {"draft", "pending_consent", "active"}
    /\ status = "pending_consent" => ~Everyone

IssueCodes(s) ==
    /\ call[s].op = "request" /\ call[s].step = "sent"
    /\ CanRequest(Owner[s]) /\ round < MaxRounds
    /\ round' = round + 1
    /\ granted' = {}
    /\ wrong' = [p \in Parties |-> 0]
    /\ status' = "pending_consent"
    /\ call' = [call EXCEPT ![s].step = "ok", ![s].round = round + 1]
    /\ UNCHANGED <<dead, sms, capped, faults, cache, form>>

\* Refused, or lost on the way.
RequestFails(s) ==
    /\ Ends(s, "request", "no")
    /\ IF CanRequest(Owner[s]) /\ round < MaxRounds THEN Fault ELSE UNCHANGED faults
    /\ UNCHANGED <<status, round, granted, wrong, dead, sms, capped, cache, form>>

DeliverSms(p) ==
    /\ sms[p] < round
    /\ sms' = [sms EXCEPT ![p] = round]
    /\ UNCHANGED <<status, round, granted, wrong, dead, capped, faults, cache, call, form>>

\* Mutant of Pending: a granted record is found as well.
PendingGranted(p) == round > 0 /\ wrong[p] < MaxWrong

\* A record that may still be tried.
Pending(p) == p \notin granted /\ round > 0 /\ wrong[p] < MaxWrong

\* The last confirmation makes the agreement active.
Confirm(s, typo) ==
    LET p == Owner[s]
        good == Pending(p) /\ ~typo /\ sms[p] = round /\ round > dead
    IN /\ call[s].op = "confirm" /\ call[s].step = "sent"
       /\ call' = [call EXCEPT ![s].step = IF good THEN "ok" ELSE "no", ![s].round = IF good THEN round ELSE 0]
       /\ granted' = IF good THEN granted \cup {p} ELSE granted
       /\ wrong' = IF Pending(p) /\ ~good THEN [wrong EXCEPT ![p] = @ + 1] ELSE wrong
       /\ status' = IF good /\ granted' = Parties THEN "active" ELSE status
       /\ IF typo THEN Fault ELSE UNCHANGED faults
       /\ UNCHANGED <<round, dead, sms, capped, cache, form>>

\* Mutant of CanSeal: one confirmation is enough.
CanSealSome == status \in {"pending_consent", "active"} /\ granted # {}

CanSeal == status = "active" \/ (status = "pending_consent" /\ Everyone)

\* The limit is looked at first.
HandleSeal(s) ==
    /\ Ends(s, "seal", IF Owner[s] # Creator THEN "no" ELSE IF capped THEN "cap" ELSE IF CanSeal THEN "ok" ELSE "no")
    /\ status' = IF Owner[s] = Creator /\ ~capped /\ CanSeal THEN "sealed" ELSE status
    /\ UNCHANGED <<round, granted, wrong, dead, sms, capped, faults, cache, form>>

\* Ten minutes pass; the last round of the model does not expire.
CodesExpire ==
    /\ dead < round /\ round < MaxRounds
    /\ dead' = round
    /\ UNCHANGED <<status, round, granted, wrong, sms, capped, faults, cache, call, form>>

\* Fifteen minutes after a failed attempt the cache forgets the count.
LockoutEnds(p) ==
    /\ wrong[p] = MaxWrong
    /\ wrong' = [wrong EXCEPT ![p] = 0]
    /\ UNCHANGED <<status, round, granted, dead, sms, capped, faults, cache, call, form>>

\* The creator upgrades, or the month ends; another agreement takes the last seal.
Upgrade ==
    /\ capped
    /\ capped' = FALSE
    /\ UNCHANGED <<status, round, granted, wrong, dead, sms, faults, cache, call, form>>

TakeLastSeal ==
    /\ ~capped
    /\ capped' = TRUE
    /\ Fault
    /\ UNCHANGED <<status, round, granted, wrong, dead, sms, cache, call, form>>

Handle(s) ==
    \/ \E valid \in BOOLEAN : Validate(s, valid)
    \/ IssueCodes(s) \/ RequestFails(s) \/ HandleSeal(s)
    \/ \E typo \in BOOLEAN : Confirm(s, typo)

-----------------------------------------------------------------------------
(* Answers.                                                                  *)

Done(s) == call' = [call EXCEPT ![s] = NoCall]

\* The mobile hook writes the new records into the query's cache at once.
RequestAnswered(s) ==
    /\ call[s].op = "request" /\ call[s].step = "ok"
    /\ Done(s)
    /\ cache' = IF kind[s] = "mobile"
                THEN [cache EXCEPT ![s].loaded = TRUE, ![s].round = call[s].round, ![s].granted = {}, ![s].all = FALSE]
                ELSE [cache EXCEPT ![s] = Answered]
    /\ form' = IF kind[s] = "web" /\ call[s].heard THEN [form EXCEPT ![s].sent = TRUE] ELSE form
    /\ UNCHANGED server

\* Mutant of WithGrant: an answer counts for whatever records are shown.
WithGrantAny(c, p, r) == [c EXCEPT !.granted = @ \cup {p}]

\* The mobile hook replaces the record it knows, or adds it to the ones it has;
\* the latest record of a party counts.
WithGrant(c, p, r) == IF c.round > r THEN c ELSE [c EXCEPT !.granted = @ \cup {p}]

\* The verdict on all is left to the refetch.
ConfirmAnswered(s) ==
    /\ call[s].op = "confirm" /\ call[s].step = "ok"
    /\ Done(s)
    /\ cache' = CASE kind[s] = "mobile" -> [cache EXCEPT ![s] = WithGrant(@, Owner[s], call[s].round)]
                 [] kind[s] = "web" -> [cache EXCEPT ![s] = Answered]
                 [] kind[s] = "link" -> cache
    /\ form' = IF kind[s] = "link" /\ call[s].heard THEN [form EXCEPT ![s].confirmed = TRUE] ELSE form
    /\ UNCHANGED server

\* A sealed agreement is left for its page; a refused one for its reason.
SealAnswered(s) ==
    /\ call[s].op = "seal" /\ call[s].step # "sent"
    /\ Done(s)
    /\ form' = IF call[s].heard THEN [form EXCEPT ![s].capError = call[s].step = "cap"] ELSE form
    /\ cache' = IF call[s].step = "ok" THEN [cache EXCEPT ![s] = Answered] ELSE cache
    /\ UNCHANGED server

\* An error, or an answer that is lost.
NoAnswer(s) ==
    /\ call[s].op \in {"validate", "request", "confirm"} /\ call[s].step \in {"ok", "no"}
    /\ Done(s)
    /\ IF call[s].step = "ok" THEN Fault ELSE UNCHANGED faults
    /\ UNCHANGED <<status, round, granted, wrong, dead, sms, capped, cache, form>>

Answer(s) == RequestAnswered(s) \/ ConfirmAnswered(s) \/ SealAnswered(s) \/ NoAnswer(s)

Next ==
    /\ UNCHANGED kind
    /\ \/ CodesExpire \/ Upgrade \/ TakeLastSeal
       \/ \E p \in Parties : DeliverSms(p) \/ LockoutEnds(p)
       \/ \E s \in Screens :
           \/ Open(s) \/ OpenLink(s) \/ Poll(s) \/ Refresh(s)
           \/ MobileRequest(s) \/ MobileRenew(s) \/ MobileConfirm(s) \/ Seal(s)
           \/ WebRequest(s) \/ WebConfirm(s) \/ LinkConfirm(s)
           \/ Handle(s) \/ Answer(s)

Spec == Init /\ [][Next]_<<kind, vars>>

\* What the users do in the end, on the application and behind the link: press
\* what the screen offers them, and type the codes they have.
Users ==
    /\ WF_vars(Upgrade)
    /\ \A s \in Screens :
        /\ WF_vars(OpenLink(s))
        /\ WF_vars(MobileRequest(s) \/ MobileRenew(s))
        /\ WF_vars(MobileConfirm(s) \/ LinkConfirm(s))
        /\ WF_vars(Seal(s))

\* Messages arrive, locks end, the server and the screens go on.
LiveSpec ==
    /\ Spec /\ Users
    /\ \A p \in Parties : WF_vars(DeliverSms(p)) /\ WF_vars(LockoutEnds(p))
    /\ \A s \in Screens : WF_vars(Handle(s) \/ Answer(s)) /\ WF_vars(Refresh(s))

\* A user whose seal was refused leaves the screen and comes back.
ReturningSpec == LiveSpec /\ \A s \in Screens : WF_vars(Open(s) /\ form[s].capError)

-----------------------------------------------------------------------------
(* Properties.                                                              *)

\* What a screen knows of the records of the current round is so on the server:
\* answers, polls and other screens' requests in any order show no party a
\* confirmation that was not given (useConsentFlow.ts:37-44, 88-103);
\* and every variable keeps its type.
ShownGrantsAreReal ==
    /\ TypeOK
    /\ \A s \in Screens : cache[s].round = round => cache[s].granted \subseteq granted

\* An agreement is only sealed with the confirmation of every party on record
\* ("Both parties must confirm ... before the agreement can be sealed",
\* consent.tsx:161).
SealedByAll == [][status' = "sealed" /\ status # "sealed" => Everyone]_vars

\* What the module says of the server is what an agreement promises its parties
\* (AgreementContract), from the reviewed draft on.
Contract == INSTANCE AgreementContract
            WITH Party <- Parties, Contents <- BOOLEAN, NoSeal <- FALSE,
                 parties <- Parties, consented <- granted, reopeners <- {},
                 seal <- status = "sealed", history <- <<>>

\* A code that is typed late, a request for codes that was sent before a seal, a
\* second seal: whatever a screen asks for and when it arrives, the agreement takes
\* a step of the contract or none (consent/services.py:334-420, 498-580;
\* agreements/services.py:254).
KeepsContract == [][Contract!Next]_(Contract!contract)
=============================================================================
