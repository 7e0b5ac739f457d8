----------------------- MODULE EvidenceUploads_proofs -----------------------
(***************************************************************************)
(* Theorems about EvidenceUploads, for any slots, files, replies and       *)
(* bounds: what a client counts as uploaded is confirmed, and, with fewer  *)
(* faults than attempts, no confirmed upload is called failed.             *)
(***************************************************************************)
EXTENDS EvidenceUploads, FiniteSetTheorems, SequenceTheorems, WellFoundedInduction, TLAPS

Rows == {"none", "pending", "confirmed"}
Early == {"free", "reading", "url", "put"}

-----------------------------------------------------------------------------
(* The inductive invariant.                                                  *)

\* What the call c of an upload says of its row r, with l confirmations still
\* on their way and n faults so far.
Sound(c, r, l, n) ==
    /\ c.phase # "free" => c.type \in Types /\ c.file \in Files
    /\ r # "none" => c.phase # "free"
    /\ c.reply = "ok" => r = "confirmed"
    /\ l <= n
    /\ c.phase \in Early => c.tries = 0 /\ l = 0 /\ r # "confirmed"
    /\ c.phase = "confirm" => c.tries < Tries

\* Every attempt but the one under way has cost a fault, so only a file that the
\* backend refuses comes to the list.
Attempted(c, r, l, n) ==
    /\ c.file \in Altered => r # "confirmed"
    /\ c.phase = "confirm" => c.tries <= n
    /\ c.phase = "waiting" => c.tries <= n + (IF c.reply = "unavailable" THEN 0 ELSE 1)
    /\ c.phase = "waiting" /\ c.reply \in Mismatch => c.file \in Altered
    /\ c.phase = "list" => c.file \in Altered
    /\ c.phase = "failed" => c.file \in Altered \/ (l = 0 /\ r # "confirmed")

Good(c, r, l, n) == Sound(c, r, l, n) /\ (MaxFaults < Tries => Attempted(c, r, l, n))

Began == {u \in Uploads : call[u].phase # "free"}

CallsInv ==
    /\ row \in [Uploads -> Rows] /\ call \in [Uploads -> Calls] /\ late \in [Uploads -> Nat]
    /\ faults \in 0 .. MaxFaults
    /\ \A u \in Uploads : Good(call[u], row[u], late[u], faults)
    /\ \A u \in Began, v \in Uploads : v < u => v \in Began

\* The list holds the rows there are.
ListInv ==
    /\ made \in Seq(Uploads)
    /\ \A i \in DOMAIN made : row[made[i]] # "none"
    /\ \A u \in Uploads : row[u] # "none" => \E i \in DOMAIN made : made[i] = u

\* The items of the website's page whose upload is running.
Progress == {"hashing", "uploading", "confirming"}
Running == {u \in mine : call[u].phase \in Active /\ call[u].file \in WebFiles}

PagesInv ==
    /\ mine \subseteq Uploads /\ slot \in [Types -> SlotItems]
    /\ sheet \in Types \cup {NoType} /\ hydrated \in BOOLEAN
    /\ item \in [WebFiles -> PageItems] /\ mounts \in 0 .. MaxMounts
    /\ cache \subseteq {u \in Uploads : row[u] = "confirmed"}
    /\ \A t \in Types : slot[t].status = "uploaded" => Confirmed(t) # {}
    /\ \A f \in WebFiles :
        /\ item[f].status # "absent" => item[f].type \in Types
        /\ item[f].status = "uploaded" => \E t \in Types : Confirmed(t) # {}
    /\ \A u \in Running : item[call[u].file].status \in Progress
    /\ \A u, v \in Running : call[u].file = call[v].file => u = v

Inv == CallsInv /\ ListInv /\ PagesInv

LEMMA Bounds ==
    /\ MaxUploads \in Nat /\ MaxFaults \in Nat /\ MaxMounts \in Nat /\ Tries = 4
    /\ NoType \notin Types /\ NoFile \notin Photos /\ NoFile \notin WebFiles
    /\ Photos \cap WebFiles = {} /\ IsFiniteSet(Types) /\ Required \subseteq Types
    /\ 0 \notin Uploads /\ Uploads \subseteq Nat
BY TypesAssumption DEF TypesAssumption, Tries, Uploads

-----------------------------------------------------------------------------
(* Calls.                                                                    *)

With(c, phase, tries, reply) == [c EXCEPT !.phase = phase, !.tries = tries, !.reply = reply]

LEMMA Withs ==
    ASSUME NEW c \in Calls, NEW phase \in Phases, NEW tries \in 0 .. Tries, NEW reply \in Replies
    PROVE  /\ With(c, phase, tries, reply) \in Calls
           /\ With(c, phase, tries, reply).phase = phase
           /\ With(c, phase, tries, reply).tries = tries
           /\ With(c, phase, tries, reply).reply = reply
           /\ With(c, phase, tries, reply).type = c.type
           /\ With(c, phase, tries, reply).file = c.file
BY DEF With, Calls

LEMMA Fields ==
    ASSUME NEW c \in Calls
    PROVE  /\ c.phase \in Phases /\ c.tries \in 0 .. Tries /\ c.tries \in Nat /\ c.reply \in Replies
           /\ c.type \in Types \cup {NoType} /\ c.file \in Files \cup {NoFile}
BY Bounds DEF Calls

\* More faults leave a call as good as it is.
LEMMA GoodLater ==
    ASSUME NEW c \in Calls, NEW r, NEW l \in Nat, NEW n \in Nat, NEW m \in Nat, n <= m,
           Good(c, r, l, n)
    PROVE  Good(c, r, l, m)
<1>1. c.tries \in Nat
  BY Fields
<1>2. Sound(c, r, l, m)
  BY DEF Good, Sound
<1>3. ASSUME MaxFaults < Tries PROVE Attempted(c, r, l, m)
  <2>1. Attempted(c, r, l, n)
    BY <1>3 DEF Good
  <2>2. c.phase = "waiting" => c.tries <= m + (IF c.reply = "unavailable" THEN 0 ELSE 1)
    BY <1>1, <2>1 DEF Attempted
  <2>3. QED  BY <1>1, <2>1, <2>2 DEF Attempted
<1>4. QED  BY <1>2, <1>3 DEF Good

\* What is confirmed stays confirmed, and of its type.
Grows == \A u \in Uploads : row[u] = "confirmed" =>
             row'[u] = "confirmed" /\ call'[u].type = call[u].type

\* A step of one upload that has begun.
LEMMA OneUpload ==
    ASSUME CallsInv, ListInv, NEW u \in Uploads,
           NEW c \in Calls, NEW r \in Rows, NEW l \in Nat,
           call' = [call EXCEPT ![u] = c], row' = [row EXCEPT ![u] = r],
           late' = [late EXCEPT ![u] = l],
           faults' \in faults .. MaxFaults,
           Good(c, r, l, faults'),
           call[u].phase # "free", c.phase # "free", c.type = call[u].type,
           row[u] = "confirmed" => r = "confirmed",
           row[u] # "none" => r # "none",
           \/ made' = made /\ (r # "none" => row[u] # "none")
           \/ made' = Append(made, u) /\ r # "none"
    PROVE  CallsInv' /\ ListInv' /\ Grows
<1>1. /\ row \in [Uploads -> Rows] /\ call \in [Uploads -> Calls] /\ late \in [Uploads -> Nat]
      /\ faults \in Nat /\ faults' \in Nat /\ faults <= faults' /\ faults' \in 0 .. MaxFaults
  BY Bounds DEF CallsInv
<1>2. /\ row' \in [Uploads -> Rows] /\ call' \in [Uploads -> Calls] /\ late' \in [Uploads -> Nat]
  BY <1>1
<1>3. ASSUME NEW v \in Uploads PROVE Good(call'[v], row'[v], late'[v], faults')
  <2>1. CASE v = u
    BY <1>1, <2>1
  <2>2. CASE v # u
    <3>1. call'[v] = call[v] /\ row'[v] = row[v] /\ late'[v] = late[v]
      BY <1>1, <2>2
    <3>2. Good(call[v], row[v], late[v], faults) /\ call[v] \in Calls /\ late[v] \in Nat
      BY <1>1 DEF CallsInv
    <3>3. QED  BY <1>1, <3>1, <3>2, GoodLater
  <2>3. QED  BY <2>1, <2>2
<1>4. Began' = Began
  BY <1>1 DEF Began
<1>5. CallsInv'
  BY <1>1, <1>2, <1>3, <1>4 DEF CallsInv
<1>6. Grows
  BY <1>1 DEF Grows
<1>7. ListInv'
  <2>1. CASE made' = made /\ (r # "none" => row[u] # "none")
    BY <1>1, <2>1 DEF ListInv
  <2>2. CASE made' = Append(made, u) /\ r # "none"
    <3>1. /\ made' \in Seq(Uploads) /\ DOMAIN made' = 1 .. Len(made) + 1
          /\ Len(made) \in Nat /\ DOMAIN made = 1 .. Len(made)
          /\ \A i \in 1 .. Len(made) : made'[i] = made[i]
          /\ made'[Len(made) + 1] = u
      BY <2>2 DEF ListInv
    <3>2. ASSUME NEW i \in DOMAIN made' PROVE row'[made'[i]] # "none"
      <4>1. CASE i = Len(made) + 1
        BY <1>1, <2>2, <3>1, <4>1
      <4>2. CASE i \in 1 .. Len(made)
        <5>1. made[i] \in Uploads /\ row[made[i]] # "none" /\ made'[i] = made[i]
          BY <3>1, <4>2 DEF ListInv
        <5>2. QED  BY <1>1, <5>1
      <4>3. QED  BY <3>1, <4>1, <4>2
    <3>3. ASSUME NEW v \in Uploads, row'[v] # "none" PROVE \E i \in DOMAIN made' : made'[i] = v
      <4>1. CASE v = u
        BY <3>1, <4>1
      <4>2. CASE v # u
        <5>1. PICK i \in DOMAIN made : made[i] = v
          BY <1>1, <3>3, <4>2 DEF ListInv
        <5>2. QED  BY <3>1, <5>1
      <4>3. QED  BY <4>1, <4>2
    <3>4. QED  BY <3>1, <3>2, <3>3 DEF ListInv
  <2>3. QED  BY <2>1, <2>2
<1>8. QED  BY <1>5, <1>6, <1>7

\* Uploads are begun in the order of their numbers.
LEMMA NextFree ==
    ASSUME CallsInv, NEW u \in Uploads,
           u = Cardinality({v \in Uploads : call[v].phase # "free"}) + 1
    PROVE  u \notin Began /\ \A v \in Uploads : v < u => v \in Began
<1>1. /\ IsFiniteSet(Uploads) /\ IsFiniteSet(Began) /\ Cardinality(Began) \in Nat
      /\ u = Cardinality(Began) + 1 /\ Began \subseteq Uploads /\ u \in Nat
  <2>1. IsFiniteSet(Uploads)
    BY Bounds, FS_Interval DEF Uploads
  <2>2. Began \subseteq Uploads
    BY DEF Began
  <2>3. IsFiniteSet(Began)
    BY <2>1, <2>2, FS_Subset
  <2>4. QED  BY <2>1, <2>2, <2>3, FS_CardinalityType, Bounds DEF Began
<1>2. \A k \in Nat : IsFiniteSet(1 .. k) /\ Cardinality(1 .. k) = k
  <2> TAKE k \in Nat
  <2>1. IsFiniteSet(1 .. k) /\ Cardinality(1 .. k) = IF 1 > k THEN 0 ELSE k - 1 + 1
    BY FS_Interval
  <2>2. QED  BY <2>1
<1>3. \A w \in Began, v \in Uploads : v < w => v \in Began
  BY DEF CallsInv
<1>4. u \notin Began
  <2>1. SUFFICES ASSUME u \in Began PROVE FALSE
    OBVIOUS
  <2>2a. ASSUME NEW w \in 1 .. u PROVE w \in Began
    <3>1. w \in Uploads /\ (w < u \/ w = u)
      BY <1>1, Bounds DEF Uploads
    <3>2. QED  BY <1>3, <2>1, <3>1
  <2>2. 1 .. u \subseteq Began
    BY <2>2a
  <2>3. Cardinality(1 .. u) <= Cardinality(Began)
    BY <1>1, <2>2, FS_Subset
  <2>4. QED  BY <1>1, <1>2, <2>3
<1>5. ASSUME NEW v \in Uploads, v < u, v \notin Began PROVE FALSE
  <2>1. v \in Nat /\ v >= 1
    BY Bounds DEF Uploads
  <2>2a. ASSUME NEW w \in Began PROVE w \in 1 .. (v - 1)
    <3>1. w \in Uploads /\ ~(v < w) /\ w # v
      BY <1>1, <1>3, <1>5
    <3>2. QED  BY <2>1, <3>1, Bounds DEF Uploads
  <2>2. Began \subseteq 1 .. (v - 1)
    BY <2>2a
  <2>2b. v - 1 \in Nat /\ IsFiniteSet(1 .. (v - 1))
    BY <1>2, <2>1
  <2>3. Cardinality(Began) <= Cardinality(1 .. (v - 1))
    BY <2>2, <2>2b, FS_Subset
  <2>4. QED  BY <1>1, <1>2, <1>5, <2>1, <2>2b, <2>3
<1>6. QED  BY <1>4, <1>5

Kept == CallsInv' /\ ListInv' /\ Grows

\* A step that leaves the type and the file of an upload as they are.
Move(u, phase, tries, reply, r, l) ==
    /\ call[u].phase # "free" /\ phase \in Phases \ {"free"}
    /\ tries \in 0 .. Tries /\ reply \in Replies /\ r \in Rows /\ l \in Nat
    /\ call' = [call EXCEPT ![u] = With(call[u], phase, tries, reply)]
    /\ row' = [row EXCEPT ![u] = r] /\ late' = [late EXCEPT ![u] = l]
    /\ faults' \in faults .. MaxFaults
    /\ reply = "ok" => r = "confirmed"
    /\ l <= faults'
    /\ phase \in Early => tries = 0 /\ l = 0 /\ r # "confirmed"
    /\ phase = "confirm" => tries < Tries
    /\ MaxFaults < Tries =>
         /\ call[u].file \in Altered => r # "confirmed"
         /\ phase = "confirm" => tries <= faults'
         /\ phase = "waiting" => tries <= faults' + (IF reply = "unavailable" THEN 0 ELSE 1)
         /\ phase = "waiting" /\ reply \in Mismatch => call[u].file \in Altered
         /\ phase = "list" => call[u].file \in Altered
         /\ phase = "failed" => call[u].file \in Altered \/ (l = 0 /\ r # "confirmed")
    /\ row[u] = "confirmed" => r = "confirmed"
    /\ row[u] # "none" => r # "none"
    /\ \/ made' = made /\ (r # "none" => row[u] # "none")
       \/ made' = Append(made, u) /\ r # "none"

LEMMA Moves ==
    ASSUME CallsInv, ListInv, NEW u \in Uploads, NEW phase, NEW tries, NEW reply, NEW r, NEW l,
           Move(u, phase, tries, reply, r, l)
    PROVE  Kept
<1>0. /\ phase \in Phases /\ tries \in 0 .. Tries /\ reply \in Replies /\ r \in Rows /\ l \in Nat
      /\ call' = [call EXCEPT ![u] = With(call[u], phase, tries, reply)]
  BY DEF Move
<1>1. /\ call[u] \in Calls /\ Good(call[u], row[u], late[u], faults)
  BY DEF CallsInv
<1>2. call[u].type \in Types /\ call[u].file \in Files
  BY <1>1 DEF Move, Good, Sound
<1> DEFINE c == With(call[u], phase, tries, reply)
<1>3. /\ c \in Calls /\ c.phase = phase /\ c.tries = tries /\ c.reply = reply
      /\ c.type = call[u].type /\ c.file = call[u].file
  BY <1>0, <1>1, Withs
<1>4. call' = [call EXCEPT ![u] = c]
  BY <1>0
<1> HIDE DEF c
<1>5. Sound(c, r, l, faults')
  BY <1>2, <1>3 DEF Sound, Move
<1>6. MaxFaults < Tries => Attempted(c, r, l, faults')
  BY <1>3 DEF Attempted, Move
<1>7. Good(c, r, l, faults')
  BY <1>5, <1>6 DEF Good
<1>8. /\ row' = [row EXCEPT ![u] = r] /\ late' = [late EXCEPT ![u] = l]
      /\ faults' \in faults .. MaxFaults
      /\ call[u].phase # "free" /\ c.phase # "free"
      /\ row[u] = "confirmed" => r = "confirmed"
      /\ row[u] # "none" => r # "none"
      /\ \/ made' = made /\ (r # "none" => row[u] # "none")
         \/ made' = Append(made, u) /\ r # "none"
  BY <1>3 DEF Move
<1>9. QED  BY <1>0, <1>3, <1>4, <1>7, <1>8, OneUpload DEF Kept

LEMMA FaultBounds ==
    ASSUME CallsInv, faults' = faults \/ Fault PROVE faults' \in faults .. MaxFaults
<1>1. faults \in Nat /\ MaxFaults \in Nat /\ faults <= MaxFaults
  BY Bounds DEF CallsInv
<1>2. faults' = faults \/ (faults < MaxFaults /\ faults' = faults + 1)
  BY DEF Fault
<1>3. QED  BY <1>1, <1>2

\* What a call in flight knows.
LEMMA Known ==
    ASSUME CallsInv, NEW u \in Uploads
    PROVE  /\ call[u] \in Calls /\ call \in [Uploads -> Calls]
           /\ call[u].phase \in Phases /\ call[u].tries \in 0 .. Tries /\ call[u].tries \in Nat
           /\ call[u].reply \in Replies
           /\ row[u] \in Rows /\ row \in [Uploads -> Rows]
           /\ late[u] \in Nat /\ late \in [Uploads -> Nat] /\ late[u] <= faults
           /\ faults \in Nat /\ MaxFaults \in Nat /\ faults <= MaxFaults /\ Tries = 4
           /\ row' = row => row' = [row EXCEPT ![u] = row[u]]
           /\ late' = late => late' = [late EXCEPT ![u] = late[u]]
           /\ call[u].reply = "ok" => row[u] = "confirmed"
           /\ row[u] # "none" => call[u].phase # "free"
           /\ call[u].phase # "free" => call[u].type \in Types /\ call[u].file \in Files
           /\ call[u].phase \in Early =>
                call[u].tries = 0 /\ late[u] = 0 /\ row[u] # "confirmed"
           /\ call[u].phase = "confirm" => call[u].tries < Tries
           /\ MaxFaults < Tries => Attempted(call[u], row[u], late[u], faults)
<1>1. call[u] \in Calls /\ Good(call[u], row[u], late[u], faults)
  BY DEF CallsInv
<1>2. QED  BY <1>1, Fields, Bounds DEF CallsInv, Good, Sound

\* The shapes in which the actions write a call.
LEMMA CallShapes ==
    ASSUME CallsInv, NEW u \in Uploads, NEW phase
    PROVE  /\ call' = [call EXCEPT ![u].phase = phase]
                => call' = [call EXCEPT ![u] = With(call[u], phase, call[u].tries, call[u].reply)]
           /\ call' = [call EXCEPT ![u].phase = phase, ![u].reply = "none"]
                => call' = [call EXCEPT ![u] = With(call[u], phase, call[u].tries, "none")]
<1>1. call[u] \in Calls /\ call \in [Uploads -> Calls]
  BY DEF CallsInv
<1>2. /\ [call[u] EXCEPT !.phase = phase] = With(call[u], phase, call[u].tries, call[u].reply)
      /\ [call[u] EXCEPT !.phase = phase, !.reply = "none"] = With(call[u], phase, call[u].tries, "none")
  BY <1>1 DEF With, Calls
<1>3. /\ call' = [call EXCEPT ![u].phase = phase]
            => call' = [call EXCEPT ![u] = [call[u] EXCEPT !.phase = phase]]
      /\ call' = [call EXCEPT ![u].phase = phase, ![u].reply = "none"]
            => call' = [call EXCEPT ![u] = [call[u] EXCEPT !.phase = phase, !.reply = "none"]]
  BY <1>1 DEF Calls
<1>4. QED  BY <1>2, <1>3

\* After a failed attempt there is another one, or there have been all of them.
LEMMA AgainIs ==
    ASSUME CallsInv, NEW u \in Uploads
    PROVE  \/ Again(u) = "confirm" /\ call[u].tries < Tries
           \/ Again(u) = "list" /\ call[u].tries = Tries
<1>1. call[u].tries \in 0 .. Tries /\ Tries = 4
  BY Known
<1>2. call[u].tries < Tries \/ call[u].tries = Tries
  BY <1>1
<1>3. ~(Tries < Tries)
  BY <1>1
<1>4. QED  BY <1>2, <1>3 DEF Again

\* How the routine leaves a step.
LEMMA Leaves ==
    ASSUME CallsInv, NEW u \in Uploads
    PROVE  /\ \A kind : Fails(u, kind)
                => call' = [call EXCEPT ![u] = With(call[u], "failed", call[u].tries, call[u].reply)]
           /\ \A r : Succeeds(u, r)
                => call' = [call EXCEPT ![u] = With(call[u], "uploaded", call[u].tries, call[u].reply)]
           /\ \A phase, shown : Enters(u, phase, shown)
                => call' = [call EXCEPT ![u] = With(call[u], phase, call[u].tries, "none")]
<1>1. ASSUME NEW kind, Fails(u, kind)
      PROVE  call' = [call EXCEPT ![u] = With(call[u], "failed", call[u].tries, call[u].reply)]
  <2>1. call' = [call EXCEPT ![u].phase = "failed"]
    BY <1>1 DEF Fails
  <2>2. QED  BY <2>1, CallShapes
<1>2. ASSUME NEW r, Succeeds(u, r)
      PROVE  call' = [call EXCEPT ![u] = With(call[u], "uploaded", call[u].tries, call[u].reply)]
  <2>1. call' = [call EXCEPT ![u].phase = "uploaded"]
    BY <1>2 DEF Succeeds
  <2>2. QED  BY <2>1, CallShapes
<1>3. ASSUME NEW phase, NEW shown, Enters(u, phase, shown)
      PROVE  call' = [call EXCEPT ![u] = With(call[u], phase, call[u].tries, "none")]
  <2>1. call' = [call EXCEPT ![u].phase = phase, ![u].reply = "none"]
    BY <1>3 DEF Enters
  <2>2. QED  BY <2>1, CallShapes
<1>4. QED  BY <1>1, <1>2, <1>3

-----------------------------------------------------------------------------
(* The calls and the rows, step by step.                                     *)

LEMMA RequestUrlCalls ==
    ASSUME CallsInv, ListInv, NEW u \in Uploads, RequestUrl(u) PROVE Kept
<1>1. call[u].phase = "url" /\ late' = late
  BY DEF RequestUrl
<1>2. /\ call[u].phase # "free" /\ call[u].tries = 0 /\ late[u] = 0 /\ row[u] # "confirmed"
      /\ call[u].reply # "ok" /\ call[u].reply \in Replies /\ 0 \in 0 .. Tries
      /\ late' = [late EXCEPT ![u] = 0] /\ faults \in Nat /\ row[u] \in Rows
  BY <1>1, Known DEF Early
<1>3. faults' \in faults .. MaxFaults /\ 0 <= faults'
  <2>1. faults' = faults \/ Fault
    BY DEF RequestUrl
  <2>2. QED  BY <1>2, <2>1, FaultBounds, Known
<1>4. CASE row' = [row EXCEPT ![u] = "pending"] /\ made' = Append(made, u)
  <2>1. CASE Enters(u, "put", "uploading")
    <3>1. call' = [call EXCEPT ![u] = With(call[u], "put", 0, "none")]
      BY <1>2, <2>1, Leaves
    <3>2. Move(u, "put", 0, "none", "pending", 0)
      BY <1>2, <1>3, <1>4, <3>1 DEF Move, Phases, Replies, Rows, Early, Mismatch
    <3>3. QED  BY <3>2, Moves
  <2>2. CASE Fails(u, "network")
    <3>1. call' = [call EXCEPT ![u] = With(call[u], "failed", 0, call[u].reply)]
      BY <1>2, <2>2, Leaves
    <3>2. Move(u, "failed", 0, call[u].reply, "pending", 0)
      BY <1>2, <1>3, <1>4, <3>1 DEF Move, Phases, Rows, Early
    <3>3. QED  BY <3>2, Moves
  <2>3. QED  BY <1>4, <2>1, <2>2 DEF RequestUrl
<1>5. CASE row' = row /\ made' = made /\ \E kind : Fails(u, kind)
  <2>1. call' = [call EXCEPT ![u] = With(call[u], "failed", 0, call[u].reply)]
    BY <1>2, <1>5, Leaves
  <2>2. row' = [row EXCEPT ![u] = row[u]]
    BY <1>5, Known
  <2>3. Move(u, "failed", 0, call[u].reply, row[u], 0)
    BY <1>2, <1>3, <1>5, <2>1, <2>2 DEF Move, Phases, Early
  <2>4. QED  BY <2>3, Moves
<1>6. QED  BY <1>4, <1>5 DEF RequestUrl

LEMMA PutCalls ==
    ASSUME CallsInv, ListInv, NEW u \in Uploads, Put(u) PROVE Kept
<1>1. call[u].phase = "put" /\ UNCHANGED <<row, made, late>>
  BY DEF Put, server
<1>2. /\ call[u].phase # "free" /\ call[u].tries = 0 /\ late[u] = 0 /\ row[u] # "confirmed"
      /\ call[u].reply # "ok" /\ call[u].reply \in Replies /\ 0 \in 0 .. Tries
      /\ row' = [row EXCEPT ![u] = row[u]] /\ row[u] \in Rows
      /\ late' = [late EXCEPT ![u] = 0] /\ faults \in Nat /\ Tries = 4
  BY <1>1, Known DEF Early
<1>3. faults' \in faults .. MaxFaults /\ 0 <= faults'
  <2>1. faults' = faults \/ Fault
    BY DEF Put
  <2>2. QED  BY <1>2, <2>1, FaultBounds, Known
<1>4. CASE Enters(u, "confirm", "confirming")
  <2>1. call' = [call EXCEPT ![u] = With(call[u], "confirm", 0, "none")]
    BY <1>2, <1>4, Leaves
  <2>2. /\ 0 < Tries /\ 0 \in Nat /\ "none" \in Replies /\ "confirm" \notin Early
        /\ "confirm" \in Phases \ {"free"}
    BY <1>2 DEF Replies, Early, Phases
  <2>3. Move(u, "confirm", 0, "none", row[u], 0)
    BY <1>1, <1>2, <1>3, <2>1, <2>2 DEF Move
  <2>4. QED  BY <2>3, Moves
<1>5. CASE Fails(u, "storage")
  <2>1. call' = [call EXCEPT ![u] = With(call[u], "failed", 0, call[u].reply)]
    BY <1>2, <1>5, Leaves
  <2>2. Move(u, "failed", 0, call[u].reply, row[u], 0)
    BY <1>1, <1>2, <1>3, <2>1 DEF Move, Phases, Early
  <2>3. QED  BY <2>2, Moves
<1>6. QED  BY <1>4, <1>5 DEF Put

LEMMA SendConfirmCalls ==
    ASSUME CallsInv, ListInv, NEW u \in Uploads, SendConfirm(u) PROVE Kept
<1>1. call[u].phase = "confirm" /\ UNCHANGED <<row, made, late, faults>>
  BY DEF SendConfirm, server
<1>2. /\ call[u].tries \in Nat /\ call[u].tries < Tries /\ Tries = 4
      /\ row' = [row EXCEPT ![u] = row[u]] /\ row[u] \in Rows
      /\ late' = [late EXCEPT ![u] = late[u]] /\ late[u] \in Nat /\ late[u] <= faults
      /\ MaxFaults < Tries => Attempted(call[u], row[u], late[u], faults)
      /\ faults \in Nat
  BY <1>1, Known
<1>3. call[u].tries + 1 \in 0 .. Tries
  BY <1>2
<1>4. call' = [call EXCEPT ![u] = With(call[u], "waiting", call[u].tries + 1, "none")]
  <2>1. call' = [call EXCEPT ![u].phase = "waiting", ![u].tries = @ + 1, ![u].reply = "none"]
    BY DEF SendConfirm
  <2>2. call[u] \in Calls /\ call \in [Uploads -> Calls]
    BY DEF CallsInv
  <2>3. call' = [call EXCEPT ![u] = [call[u] EXCEPT !.phase = "waiting", !.tries = @ + 1, !.reply = "none"]]
    BY <2>1, <2>2 DEF Calls
  <2>4. [call[u] EXCEPT !.phase = "waiting", !.tries = @ + 1, !.reply = "none"]
            = With(call[u], "waiting", call[u].tries + 1, "none")
    BY <2>2 DEF With, Calls
  <2>5. QED  BY <2>3, <2>4
<1>5. faults' \in faults .. MaxFaults
  BY <1>1, FaultBounds
<1>6. MaxFaults < Tries =>
        /\ call[u].file \in Altered => row[u] # "confirmed"
        /\ call[u].tries + 1 <= faults' + 1
  BY <1>1, <1>2 DEF Attempted
<1>7. Move(u, "waiting", call[u].tries + 1, "none", row[u], late[u])
  BY <1>1, <1>2, <1>3, <1>4, <1>5, <1>6 DEF Move, Phases, Replies, Early, Mismatch
<1>8. QED  BY <1>7, Moves

\* What the backend answers, and what it makes of the row.
LEMMA Handled ==
    ASSUME CallsInv, NEW u \in Uploads, NEW reply \in Replies, Handles(u, reply)
    PROVE  \E r \in Rows :
             /\ row' = [row EXCEPT ![u] = r]
             /\ reply = "ok" => r = "confirmed"
             /\ row[u] = "confirmed" => r = "confirmed"
             /\ row[u] # "none" /\ r # "none"
             /\ r = "confirmed" => row[u] = "confirmed" \/ call[u].file \notin Altered
             /\ reply \in Mismatch => call[u].file \in Altered
             /\ reply = "unavailable" => Fault
             /\ faults' = faults \/ Fault
             /\ reply # "none"
<1>1. /\ row[u] \in Rows /\ (row' = row => row' = [row EXCEPT ![u] = row[u]])
      /\ row \in [Uploads -> Rows]
  BY Known
<1>2. "ok" \notin Mismatch /\ "unavailable" \notin Mismatch /\ "none" \notin Mismatch
  BY DEF Mismatch
<1>3. CASE row' = row
  <2>1. row' = [row EXCEPT ![u] = row[u]]
    BY <1>1, <1>3
  <2>2. /\ reply = "ok" => row[u] = "confirmed" 
        /\ row[u] # "none"
        /\ reply \in Mismatch => call[u].file \in Altered
        /\ reply = "unavailable" => Fault
        /\ faults' = faults \/ Fault
        /\ reply # "none"
    BY <1>1, <1>2, <1>3 DEF Handles
  <2>3. QED  BY <1>1, <2>1, <2>2
<1>4. CASE row' # row
  <2>1. /\ row' = [row EXCEPT ![u] = "confirmed"] /\ reply = "ok" /\ row[u] = "pending"
        /\ call[u].file \notin Altered /\ faults' = faults
    BY <1>4 DEF Handles
  <2>2. QED  BY <1>2, <2>1 DEF Rows
<1>5. QED  BY <1>3, <1>4

LEMMA ConfirmCalls ==
    ASSUME CallsInv, ListInv, NEW u \in Uploads, Confirm(u) PROVE Kept
<1>1. call[u].phase = "waiting" /\ call[u].reply = "none" /\ UNCHANGED <<made, late>>
  BY DEF Confirm
<1>2. PICK reply \in Replies : Handles(u, reply) /\ call' = [call EXCEPT ![u].reply = reply]
  BY DEF Confirm
<1>3. PICK r \in Rows :
             /\ row' = [row EXCEPT ![u] = r]
             /\ reply = "ok" => r = "confirmed"
             /\ row[u] = "confirmed" => r = "confirmed"
             /\ row[u] # "none" /\ r # "none"
             /\ r = "confirmed" => row[u] = "confirmed" \/ call[u].file \notin Altered
             /\ reply \in Mismatch => call[u].file \in Altered
             /\ reply = "unavailable" => Fault
             /\ faults' = faults \/ Fault
             /\ reply # "none"
  BY <1>2, Handled
<1>4. /\ call[u].tries \in 0 .. Tries /\ call[u].tries \in Nat /\ Tries = 4
      /\ late' = [late EXCEPT ![u] = late[u]] /\ late[u] \in Nat /\ late[u] <= faults
      /\ MaxFaults < Tries => Attempted(call[u], row[u], late[u], faults)
      /\ faults \in Nat /\ MaxFaults \in Nat
  BY <1>1, Known
<1>5. call' = [call EXCEPT ![u] = With(call[u], "waiting", call[u].tries, reply)]
  <2>1. call[u] \in Calls /\ call \in [Uploads -> Calls]
    BY DEF CallsInv
  <2>2. call' = [call EXCEPT ![u] = [call[u] EXCEPT !.reply = reply]]
    BY <1>2, <2>1 DEF Calls
  <2>3. [call[u] EXCEPT !.reply = reply] = With(call[u], "waiting", call[u].tries, reply)
    BY <1>1, <2>1 DEF With, Calls
  <2>4. QED  BY <2>2, <2>3
<1>6. faults' \in faults .. MaxFaults
  BY <1>3, FaultBounds
<1>7. faults' = faults \/ faults' = faults + 1
  BY <1>3 DEF Fault
<1>8. reply = "unavailable" => faults' = faults + 1
  BY <1>3 DEF Fault
<1>9. MaxFaults < Tries =>
        /\ call[u].file \in Altered => r # "confirmed"
        /\ call[u].tries <= faults + 1
  BY <1>1, <1>3, <1>4 DEF Attempted
<1>10. MaxFaults < Tries =>
        call[u].tries <= faults' + (IF reply = "unavailable" THEN 0 ELSE 1)
  BY <1>4, <1>7, <1>8, <1>9
<1>11. late[u] <= faults'
  BY <1>4, <1>7
<1>12. Move(u, "waiting", call[u].tries, reply, r, late[u])
  BY <1>1, <1>3, <1>4, <1>5, <1>6, <1>9, <1>10, <1>11 DEF Move, Phases, Early
<1>13. QED  BY <1>12, Moves

LEMMA ConfirmLateCalls ==
    ASSUME CallsInv, ListInv, NEW u \in Uploads, ConfirmLate(u) PROVE Kept
<1>1. late[u] > 0 /\ UNCHANGED <<made, call>> /\ late' = [late EXCEPT ![u] = @ - 1]
  BY DEF ConfirmLate
<1>2. PICK reply \in Replies : Handles(u, reply)
  BY DEF ConfirmLate
<1>3. PICK r \in Rows :
             /\ row' = [row EXCEPT ![u] = r]
             /\ row[u] = "confirmed" => r = "confirmed"
             /\ row[u] # "none" /\ r # "none"
             /\ r = "confirmed" => row[u] = "confirmed" \/ call[u].file \notin Altered
             /\ faults' = faults \/ Fault
  BY <1>2, Handled
<1>4. /\ call[u].tries \in 0 .. Tries /\ call[u].tries \in Nat /\ Tries = 4
      /\ late[u] \in Nat /\ late[u] <= faults /\ late \in [Uploads -> Nat]
      /\ MaxFaults < Tries => Attempted(call[u], row[u], late[u], faults)
      /\ faults \in Nat /\ MaxFaults \in Nat
      /\ call[u].phase \in Phases /\ call[u].reply \in Replies
      /\ call[u].phase # "free" /\ call[u].phase \notin Early
      /\ call[u].phase = "confirm" => call[u].tries < Tries
      /\ call[u].reply = "ok" => row[u] = "confirmed"
  <2>1. /\ late[u] \in Nat
        /\ row[u] # "none" => call[u].phase # "free"
        /\ call[u].phase \in Early => late[u] = 0
    BY Known
  <2>2. call[u].phase \notin Early /\ call[u].phase # "free"
    BY <1>1, <1>3, <2>1
  <2>3. QED  BY <2>2, Known
<1>5. call' = [call EXCEPT ![u] = With(call[u], call[u].phase, call[u].tries, call[u].reply)]
  <2>1. call[u] \in Calls /\ call \in [Uploads -> Calls]
    BY DEF CallsInv
  <2>2. call[u] = With(call[u], call[u].phase, call[u].tries, call[u].reply)
    BY <2>1 DEF With, Calls
  <2>3. QED  BY <1>1, <2>1, <2>2
<1>6. faults' \in faults .. MaxFaults
  BY <1>3, FaultBounds
<1>7. faults' \in Nat /\ faults <= faults' /\ late[u] - 1 \in Nat /\ late[u] - 1 <= faults'
  BY <1>1, <1>4, <1>6
<1>8. late' = [late EXCEPT ![u] = late[u] - 1]
  BY <1>1, <1>4
<1>9. MaxFaults < Tries =>
         /\ call[u].file \in Altered => r # "confirmed"
         /\ call[u].phase = "confirm" => call[u].tries <= faults'
         /\ call[u].phase = "waiting" =>
              call[u].tries <= faults' + (IF call[u].reply = "unavailable" THEN 0 ELSE 1)
         /\ call[u].phase = "waiting" /\ call[u].reply \in Mismatch => call[u].file \in Altered
         /\ call[u].phase = "list" => call[u].file \in Altered
         /\ call[u].phase = "failed" => call[u].file \in Altered
  BY <1>1, <1>3, <1>4, <1>7 DEF Attempted
<1>10. Move(u, call[u].phase, call[u].tries, call[u].reply, r, late[u] - 1)
  BY <1>1, <1>3, <1>4, <1>5, <1>6, <1>7, <1>8, <1>9 DEF Move
<1>11. QED  BY <1>10, Moves

\* The steps of the client that answer what it knows: nothing of the backend
\* changes.
LEMMA ClientMove ==
    ASSUME CallsInv, ListInv, NEW u \in Uploads, UNCHANGED <<row, made, late>>,
           call[u].phase \notin Early,
           faults' = faults \/ Fault,
           NEW phase \in Phases \ Early,
           \/ call' = [call EXCEPT ![u] = With(call[u], phase, call[u].tries, call[u].reply)]
           \/ call' = [call EXCEPT ![u] = With(call[u], phase, call[u].tries, "none")],
           phase # "waiting",
           phase = "confirm" => call[u].tries < Tries,
           MaxFaults < Tries =>
             /\ phase = "confirm" => call[u].tries <= faults'
             /\ phase \in {"list", "failed"} => call[u].file \in Altered
    PROVE  Kept
<1>1. /\ call[u].tries \in 0 .. Tries /\ call[u].reply \in Replies /\ "none" \in Replies
      /\ row' = [row EXCEPT ![u] = row[u]] /\ row[u] \in Rows
      /\ late' = [late EXCEPT ![u] = late[u]] /\ late[u] \in Nat /\ late[u] <= faults
      /\ MaxFaults < Tries => Attempted(call[u], row[u], late[u], faults)
      /\ faults \in Nat
      /\ call[u].reply = "ok" => row[u] = "confirmed"
  BY Known DEF Replies
<1>2. faults' \in faults .. MaxFaults /\ faults' \in Nat /\ late[u] <= faults'
  <2>1. faults' \in faults .. MaxFaults
    BY FaultBounds
  <2>2. QED  BY <1>1, <2>1, Bounds
<1>3. MaxFaults < Tries => (call[u].file \in Altered => row[u] # "confirmed")
  BY <1>1 DEF Attempted
<1>4. "free" \in Early
  BY DEF Early
<1>5. \/ Move(u, phase, call[u].tries, call[u].reply, row[u], late[u])
      \/ Move(u, phase, call[u].tries, "none", row[u], late[u])
  BY <1>1, <1>2, <1>3, <1>4 DEF Move
<1>6. QED  BY <1>5, Moves

LEMMA TakeReplyCalls ==
    ASSUME CallsInv, ListInv, NEW u \in Uploads, TakeReply(u) PROVE Kept
<1>1. /\ call[u].phase = "waiting" /\ call[u].reply # "none" /\ UNCHANGED <<row, made, late, faults>>
      /\ {"uploaded", "list", "confirm"} \subseteq Phases \ Early /\ "waiting" \notin Early
  BY DEF TakeReply, server, Phases, Early
<1>2. CASE call[u].reply = "ok" /\ Succeeds(u, u)
  <2>1. call' = [call EXCEPT ![u] = With(call[u], "uploaded", call[u].tries, call[u].reply)]
    BY <1>2, Leaves
  <2>2. QED  BY <1>1, <2>1, ClientMove
<1>3. CASE call[u].reply = "unavailable" /\ Enters(u, Again(u), "confirming")
  <2>1. call' = [call EXCEPT ![u] = With(call[u], Again(u), call[u].tries, "none")]
    BY <1>3, Leaves
  <2>2. /\ call[u].tries \in 0 .. Tries /\ Tries = 4 /\ faults \in Nat /\ faults <= MaxFaults
        /\ MaxFaults \in Nat
        /\ MaxFaults < Tries => call[u].tries <= faults
    BY <1>1, <1>3, Known DEF Attempted
  <2>3. \/ Again(u) = "confirm" /\ call[u].tries < Tries
        \/ Again(u) = "list" /\ call[u].tries = Tries
    BY AgainIs
  <2>4. /\ Again(u) \in Phases \ Early /\ Again(u) # "waiting"
        /\ Again(u) = "confirm" => call[u].tries < Tries
        /\ MaxFaults < Tries =>
             /\ Again(u) = "confirm" => call[u].tries <= faults'
             /\ Again(u) \in {"list", "failed"} => call[u].file \in Altered
    BY <1>1, <2>2, <2>3
  <2>5. QED  BY <1>1, <2>1, <2>4, ClientMove
<1>4. CASE call[u].reply \in Mismatch /\ call' = [call EXCEPT ![u].phase = "list"]
  <2>1. call' = [call EXCEPT ![u] = With(call[u], "list", call[u].tries, call[u].reply)]
    BY <1>4, CallShapes
  <2>2. MaxFaults < Tries => call[u].file \in Altered
    BY <1>1, <1>4, Known DEF Attempted
  <2>3. QED  BY <1>1, <2>1, <2>2, ClientMove
<1>5. QED  BY <1>2, <1>3, <1>4 DEF TakeReply

LEMMA LoseConfirmCalls ==
    ASSUME CallsInv, ListInv, NEW u \in Uploads, LoseConfirm(u) PROVE Kept
<1>1. /\ call[u].phase = "waiting" /\ UNCHANGED <<row, made>> /\ Fault
      /\ call' = [call EXCEPT ![u].phase = Again(u), ![u].reply = "none"]
      /\ late' = late \/ late' = [late EXCEPT ![u] = @ + 1]
  BY DEF LoseConfirm
<1>2. call' = [call EXCEPT ![u] = With(call[u], Again(u), call[u].tries, "none")]
  BY <1>1, CallShapes
<1>3. /\ call[u].tries \in 0 .. Tries /\ call[u].tries \in Nat /\ Tries = 4
      /\ row' = [row EXCEPT ![u] = row[u]] /\ row[u] \in Rows
      /\ late[u] \in Nat /\ late[u] <= faults /\ late \in [Uploads -> Nat]
      /\ MaxFaults < Tries => Attempted(call[u], row[u], late[u], faults)
      /\ faults \in Nat /\ MaxFaults \in Nat
      /\ faults' = faults + 1 /\ faults' <= MaxFaults
  BY <1>1, Known DEF Fault
<1>4. faults' \in faults .. MaxFaults
  BY <1>3
<1>5. MaxFaults < Tries =>
        call[u].tries <= faults' /\ (call[u].file \in Altered => row[u] # "confirmed")
  BY <1>1, <1>3 DEF Attempted
<1>6. \/ Again(u) = "confirm" /\ call[u].tries < Tries
      \/ Again(u) = "list" /\ call[u].tries = Tries
  BY AgainIs
<1>7. PICK l \in Nat : late' = [late EXCEPT ![u] = l] /\ l <= faults'
  <2>1. CASE late' = late
    <3>1. late' = [late EXCEPT ![u] = late[u]] /\ late[u] <= faults'
      BY <1>3, <2>1
    <3>2. QED  BY <1>3, <3>1
  <2>2. CASE late' = [late EXCEPT ![u] = @ + 1]
    <3>1. late' = [late EXCEPT ![u] = late[u] + 1] /\ late[u] + 1 <= faults' /\ late[u] + 1 \in Nat
      BY <1>3, <2>2
    <3>2. QED  BY <3>1
  <2>3. QED  BY <1>1, <2>1, <2>2
<1>8. /\ Again(u) \in Phases \ {"free"} /\ Again(u) \notin Early /\ Again(u) \notin {"waiting", "failed"}
      /\ Again(u) = "confirm" => call[u].tries < Tries
      /\ MaxFaults < Tries => (Again(u) # "list" /\ call[u].tries <= faults')
      /\ "none" \in Replies
  BY <1>3, <1>5, <1>6 DEF Phases, Early, Replies
<1>9. Move(u, Again(u), call[u].tries, "none", row[u], l)
  BY <1>1, <1>2, <1>3, <1>4, <1>5, <1>7, <1>8 DEF Move
<1>10. QED  BY <1>9, Moves

LEMMA RecoverCalls ==
    ASSUME CallsInv, ListInv, NEW u \in Uploads, Recover(u) PROVE Kept
<1>1. /\ call[u].phase = "list" /\ UNCHANGED <<row, made, late>>
      /\ {"uploaded", "failed"} \subseteq Phases \ Early /\ "list" \notin Early
      /\ faults' = faults \/ Fault
  BY DEF Recover, server, Phases, Early
<1>2. MaxFaults < Tries => call[u].file \in Altered
  BY <1>1, Known DEF Attempted
<1>3. \/ \E r : Succeeds(u, r)
      \/ \E kind : Fails(u, kind)
  BY DEF Recover
<1>4. \/ call' = [call EXCEPT ![u] = With(call[u], "uploaded", call[u].tries, call[u].reply)]
      \/ call' = [call EXCEPT ![u] = With(call[u], "failed", call[u].tries, call[u].reply)]
  BY <1>3, Leaves
<1>5. QED  BY <1>1, <1>2, <1>4, ClientMove

\* The file is described or hashed before anything is sent.
LEMMA ReadCalls ==
    ASSUME CallsInv, ListInv, NEW u \in Uploads, Describe(u) \/ Hash(u) PROVE Kept
<1>1. /\ call[u].phase = "reading" /\ UNCHANGED <<row, made, late, faults>>
      /\ {"url", "failed"} \subseteq Phases \ {"free"}
  BY DEF Describe, Hash, server, Phases
<1>2. /\ call[u].phase # "free" /\ call[u].tries = 0 /\ late[u] = 0 /\ row[u] # "confirmed"
      /\ call[u].reply # "ok" /\ call[u].reply \in Replies /\ 0 \in 0 .. Tries
      /\ row' = [row EXCEPT ![u] = row[u]] /\ row[u] \in Rows
      /\ late' = [late EXCEPT ![u] = 0] /\ faults \in Nat /\ 0 <= faults /\ 0 \in Nat
  BY <1>1, Known DEF Early
<1>3. \/ call' = [call EXCEPT ![u].phase = "url"]
      \/ \E kind : Fails(u, kind)
  BY DEF Describe, Hash
<1>4. \/ call' = [call EXCEPT ![u] = With(call[u], "url", 0, call[u].reply)]
      \/ call' = [call EXCEPT ![u] = With(call[u], "failed", 0, call[u].reply)]
  <2>1. CASE call' = [call EXCEPT ![u].phase = "url"]
    <3>1. call' = [call EXCEPT ![u] = With(call[u], "url", call[u].tries, call[u].reply)]
      BY <2>1, CallShapes
    <3>2. QED  BY <1>2, <3>1
  <2>2. ASSUME NEW kind, Fails(u, kind)
        PROVE  call' = [call EXCEPT ![u] = With(call[u], "failed", 0, call[u].reply)]
    BY <1>2, <2>2, Leaves
  <2>3. QED  BY <1>3, <2>1, <2>2
<1>5. faults' \in faults .. MaxFaults
  BY <1>1, FaultBounds
<1>6. \/ Move(u, "url", 0, call[u].reply, row[u], 0)
      \/ Move(u, "failed", 0, call[u].reply, row[u], 0)
  BY <1>1, <1>2, <1>4, <1>5 DEF Move
<1>7. QED  BY <1>6, Moves

-----------------------------------------------------------------------------
(* The list of confirmed evidence.                                           *)

\* A non-empty set of numbers up to n has a smallest one.
LEMMA Smallest ==
    ASSUME NEW S, S \subseteq Nat, S # {} PROVE \E m \in S : \A k \in S : m <= k
<1>1. PICK m \in S : \A k \in S : ~(<<k, m>> \in OpToRel(<, Nat))
  BY WFMin, NatLessThanWellFounded, Zenon
<1>2. \A k \in S : ~(k < m)
  BY <1>1 DEF OpToRel
<1>3. \A k \in S : m <= k
  BY <1>2
<1>4. QED  BY <1>3

LEMMA Largest ==
    ASSUME NEW n \in Nat, NEW S, S \subseteq 0 .. n, S # {} PROVE \E m \in S : \A k \in S : k <= m
<1> DEFINE T == {n - i : i \in S}
<1>1. T \subseteq Nat /\ T # {}
  <2>1. \A i \in S : n - i \in Nat
    OBVIOUS
  <2>2. QED  BY <2>1
<1>2. PICK t \in T : \A k \in T : t <= k
  <2> HIDE DEF T
  <2>1. QED  BY <1>1, Smallest
<1>3. PICK m \in S : t = n - m
  OBVIOUS
<1>4. \A k \in S : k <= m
  <2> TAKE k \in S
  <2>1. n - k \in T
    OBVIOUS
  <2>2. k \in Nat /\ m \in Nat
    OBVIOUS
  <2>3. t <= n - k
    <3> HIDE DEF T
    <3>1. QED  BY <1>2, <2>1
  <2> HIDE DEF T
  <2>4. QED  BY <1>3, <2>2, <2>3
<1>5. QED  BY <1>4

\* The list gives a confirmed row of the type if there is one.
LEMMA ListedOnes ==
    ASSUME ListInv, NEW t, Confirmed(t) # {}
    PROVE  FirstListed(t) \in Confirmed(t) /\ LastListed(t) \in Confirmed(t)
<1>1. \A u \in Confirmed(t) : Position(u) \in 0 .. Len(made)
  <2> TAKE u \in Confirmed(t)
  <2>1. \E i \in DOMAIN made : made[i] = u
    BY DEF Confirmed, ListInv
  <2>2. Position(u) \in DOMAIN made
    BY <2>1 DEF Position
  <2>3. QED  BY <2>2 DEF ListInv
<1> DEFINE S == {Position(u) : u \in Confirmed(t)}
<1>2. S \subseteq 0 .. Len(made) /\ S # {} /\ S \subseteq Nat /\ Len(made) \in Nat
  BY <1>1 DEF ListInv
<1>3. PICK a \in S : \A k \in S : a <= k
  <2> HIDE DEF S
  <2>1. QED  BY <1>2, Smallest
<1>4. PICK b \in S : \A k \in S : k <= b
  <2> HIDE DEF S
  <2>1. QED  BY <1>2, Largest
<1>5. PICK u \in Confirmed(t) : \A v \in Confirmed(t) : Position(u) <= Position(v)
  BY <1>3
<1>6. PICK w \in Confirmed(t) : \A v \in Confirmed(t) : Position(v) <= Position(w)
  BY <1>4
<1>7. QED  BY <1>5, <1>6 DEF FirstListed, LastListed

-----------------------------------------------------------------------------
(* The pages.                                                                *)

LEMMA ConfirmedGrows ==
    ASSUME Grows, NEW t PROVE Confirmed(t) # {} => Confirmed(t)' # {}
<1>1. \A u \in Confirmed(t) : row'[u] = "confirmed" /\ call'[u].type = t
  BY DEF Grows, Confirmed
<1>2. Confirmed(t)' = {u \in Uploads : row'[u] = "confirmed" /\ call'[u].type = t}
  BY DEF Confirmed
<1>3. Confirmed(t) \subseteq Uploads
  BY DEF Confirmed
<1>4. QED  BY <1>1, <1>2, <1>3

\* What a page shows is untouched.
LEMMA PagesKept ==
    ASSUME PagesInv, Grows, UNCHANGED screens,
           \A u \in mine : call'[u].phase \in Active /\ call'[u].file \in WebFiles =>
                             u \in Running /\ call'[u].file = call[u].file
    PROVE  PagesInv'
<1>1. UNCHANGED <<mine, slot, sheet, hydrated, item, cache, mounts>>
  BY DEF screens
<1>2. Running' \subseteq Running /\ \A u \in Running' : call'[u].file = call[u].file
  BY <1>1 DEF Running
<1>3. \A t : Confirmed(t) # {} => Confirmed(t)' # {}
  BY ConfirmedGrows
<1>4. cache' \subseteq {u \in Uploads : row'[u] = "confirmed"}
  BY <1>1 DEF PagesInv, Grows
<1>5. QED  BY <1>1, <1>2, <1>3, <1>4 DEF PagesInv

\* A running upload u shows s in its slot, or i for its file.
LEMMA PagesShown ==
    ASSUME PagesInv, Grows, CallsInv, NEW u \in Uploads, NEW c, NEW s, NEW i, NEW k \in Types,
           call' = [call EXCEPT ![u] = c], c.file = call[u].file,
           call[u].phase \in Active, call[u].type = k,
           Show(u, s, i), UNCHANGED <<mine, sheet, hydrated, mounts>>,
           cache' \subseteq {v \in Uploads : row'[v] = "confirmed"},
           call[u].file \in Photos =>
             /\ s \in SlotItems
             /\ s.status = "uploaded" => Confirmed(k)' # {},
           call[u].file \in WebFiles =>
             /\ i \in PageItems
             /\ i.type = item[call[u].file].type /\ i.status # "absent"
             /\ i.status = "uploaded" => Confirmed(k)' # {}
             /\ c.phase \in Active => i.status \in Progress
    PROVE  PagesInv'
<1>1. call \in [Uploads -> Calls] /\ call'[u] = c /\ \A v \in Uploads : v # u => call'[v] = call[v]
  BY DEF CallsInv
<1>2. \A t : Confirmed(t) # {} => Confirmed(t)' # {}
  BY ConfirmedGrows
<1>3. slot' \in [Types -> SlotItems] /\ \A t \in Types : slot'[t].status = "uploaded" => Confirmed(t)' # {}
  <2>1. CASE slot' = slot
    BY <1>2, <2>1 DEF PagesInv
  <2>2. CASE call[u].file \in Photos /\ slot' = [slot EXCEPT ![call[u].type] = s]
    <3>1. slot \in [Types -> SlotItems] /\ slot' = [slot EXCEPT ![k] = s]
      BY <2>2 DEF PagesInv
    <3>2. slot' \in [Types -> SlotItems] /\ slot'[k] = s /\ \A t \in Types : t # k => slot'[t] = slot[t]
      BY <2>2, <3>1
    <3>3. QED  BY <1>2, <2>2, <3>2 DEF PagesInv
  <2>3. QED  BY <2>1, <2>2 DEF Show
<1>4. \/ item' = item /\ u \notin Running
      \/ u \in Running /\ item' = [item EXCEPT ![call[u].file] = i]
  BY DEF Show, Running
<1>5. Running' \subseteq Running
  BY <1>1 DEF Running, PagesInv
<1>6. \A v \in Running' : call'[v].file = call[v].file
  BY <1>1, <1>5 DEF Running, PagesInv
<1>7. CASE item' = item /\ u \notin Running
  BY <1>2, <1>3, <1>5, <1>6, <1>7 DEF PagesInv
<1>8. CASE u \in Running /\ item' = [item EXCEPT ![call[u].file] = i]
  <2> DEFINE f == call[u].file
  <2>1. f \in WebFiles /\ item \in [WebFiles -> PageItems] /\ item[f].status \in Progress
    BY <1>8 DEF Running, PagesInv
  <2>2. item[f].type \in Types
    BY <2>1 DEF PagesInv, Progress
  <2>3. /\ item' \in [WebFiles -> PageItems]
        /\ item'[f] = i /\ \A g \in WebFiles : g # f => item'[g] = item[g]
    BY <1>8, <2>1
  <2> HIDE DEF f
  <2>4. \A g \in WebFiles :
           /\ item'[g].status # "absent" => item'[g].type \in Types
           /\ item'[g].status = "uploaded" => \E t \in Types : Confirmed(t)' # {}
    <3> TAKE g \in WebFiles
    <3>1. CASE g = f
      BY <2>1, <2>2, <2>3, <3>1 DEF f
    <3>2. CASE g # f
      BY <1>2, <2>3, <3>2 DEF PagesInv
    <3>3. QED  BY <3>1, <3>2
  <2>5. \A v \in Running' : item'[call'[v].file].status \in Progress
    <3> TAKE v \in Running'
    <3>1. v \in Running /\ call'[v].file = call[v].file
      BY <1>5, <1>6
    <3>2. CASE v = u
      BY <1>1, <2>1, <2>3, <3>1, <3>2 DEF f, Running
    <3>3. CASE v # u
      <4>1. call[v].file # f /\ call[v].file \in WebFiles /\ item[call[v].file].status \in Progress
        BY <1>8, <3>1, <3>3 DEF PagesInv, Running, f
      <4>2. QED  BY <2>3, <3>1, <4>1
    <3>4. QED  BY <3>2, <3>3
  <2>6. QED  BY <1>3, <1>5, <1>6, <2>3, <2>4, <2>5 DEF PagesInv
<1>9. QED  BY <1>4, <1>7, <1>8

\* What the routine writes into a slot's item, and into a file's.
LEMMA SlotFails ==
    ASSUME NEW s \in SlotItems, NEW b \in BOOLEAN
    PROVE  /\ [s EXCEPT !.status = "failed", !.retryable = b] \in SlotItems
           /\ [s EXCEPT !.status = "failed", !.retryable = b].status = "failed"
BY DEF SlotItems

LEMMA SlotUploaded ==
    ASSUME NEW s \in SlotItems, NEW r \in Uploads
    PROVE  [s EXCEPT !.status = "uploaded", !.remote = r] \in SlotItems
BY DEF SlotItems

LEMMA SlotShows ==
    ASSUME NEW s \in SlotItems, NEW to \in {"uploading", "confirming"}
    PROVE  [s EXCEPT !.status = to] \in SlotItems /\ [s EXCEPT !.status = to].status = to
BY DEF SlotItems

LEMMA PageUploaded ==
    ASSUME NEW i \in PageItems, NEW r \in Uploads
    PROVE  /\ [i EXCEPT !.status = "uploaded", !.remote = r] \in PageItems
           /\ [i EXCEPT !.status = "uploaded", !.remote = r].type = i.type
           /\ [i EXCEPT !.status = "uploaded", !.remote = r].status = "uploaded"
BY DEF PageItems

LEMMA PageShows ==
    ASSUME NEW i \in PageItems, NEW to \in {"failed", "hashing", "uploading", "confirming"}
    PROVE  /\ [i EXCEPT !.status = to] \in PageItems
           /\ [i EXCEPT !.status = to].type = i.type
           /\ [i EXCEPT !.status = to].status = to
BY DEF PageItems

\* What the routine finds of its upload.
LEMMA Finds ==
    ASSUME Inv, NEW u \in Uploads, call[u].phase \in Active
    PROVE  /\ call[u].type \in Types /\ call[u].phase # "free"
           /\ call[u].file \in Photos => Slot(u) \in SlotItems
           /\ call[u].file \in WebFiles => Item(u) \in PageItems
           /\ call \in [Uploads -> Calls] /\ call[u] \in Calls
<1>1. call[u].phase # "free"
  BY DEF Active
<1>2. call[u].type \in Types /\ call \in [Uploads -> Calls] /\ call[u] \in Calls
  BY <1>1, Known DEF Inv
<1>3. QED  BY <1>1, <1>2 DEF Inv, PagesInv, Slot, Item

LEMMA FailsPages ==
    ASSUME Inv, Grows, NEW u \in Uploads, call[u].phase \in Active, NEW kind, Fails(u, kind),
           UNCHANGED <<mine, sheet, hydrated, mounts>>
    PROVE  PagesInv'
<1>1. PICK k \in Types : k = call[u].type
  BY Finds
<1> DEFINE c == With(call[u], "failed", call[u].tries, call[u].reply)
           b == ~ReplaceOnly(Worded(kind))
           s == [Slot(u) EXCEPT !.status = "failed", !.retryable = b]
           i == [Item(u) EXCEPT !.status = "failed"]
<1>2. call' = [call EXCEPT ![u] = c]
  BY Leaves DEF Inv
<1>3. c.file = call[u].file /\ c.phase = "failed"
  <2>1. "failed" \in Phases /\ call[u].tries \in 0 .. Tries /\ call[u].reply \in Replies
    BY Known DEF Inv, Phases
  <2>2. QED  BY <2>1, Finds, Withs
<1>4. Show(u, s, i) /\ cache' = cache
  BY DEF Fails
<1>5. b \in BOOLEAN
  BY DEF ReplaceOnly
<1> HIDE DEF b
<1>6. call[u].file \in Photos => s \in SlotItems /\ s.status = "failed"
  BY <1>5, Finds, SlotFails
<1>7. call[u].file \in WebFiles =>
        i \in PageItems /\ i.type = Item(u).type /\ i.status = "failed"
  BY Finds, PageShows
<1> HIDE DEF c, s, i
<1>8. cache' \subseteq {v \in Uploads : row'[v] = "confirmed"}
  BY <1>4 DEF Inv, PagesInv, Grows
<1>9. "failed" \notin Active
  BY DEF Active
<1>10. PagesInv /\ CallsInv
  BY DEF Inv
<1>11. QED  BY <1>1, <1>2, <1>3, <1>4, <1>6, <1>7, <1>8, <1>9, <1>10, PagesShown DEF Item

LEMMA SucceedsPages ==
    ASSUME Inv, Grows, NEW u \in Uploads, call[u].phase \in Active, NEW r \in Uploads,
           Succeeds(u, r), row[r] = "confirmed", Confirmed(call[u].type) # {},
           UNCHANGED <<mine, sheet, hydrated, mounts>>
    PROVE  PagesInv'
<1>1. PICK k \in Types : k = call[u].type
  BY Finds
<1> DEFINE c == With(call[u], "uploaded", call[u].tries, call[u].reply)
           s == [Slot(u) EXCEPT !.status = "uploaded", !.remote = r]
           i == [Item(u) EXCEPT !.status = "uploaded", !.remote = r]
<1>2. call' = [call EXCEPT ![u] = c]
  BY Leaves DEF Inv
<1>3. c.file = call[u].file /\ c.phase = "uploaded"
  <2>1. "uploaded" \in Phases /\ call[u].tries \in 0 .. Tries /\ call[u].reply \in Replies
    BY Known DEF Inv, Phases
  <2>2. QED  BY <2>1, Finds, Withs
<1>4. Show(u, s, i) /\ cache' \subseteq cache \cup {r}
  BY DEF Succeeds
<1>5. call[u].file \in Photos => s \in SlotItems
  BY Finds, SlotUploaded
<1>6. call[u].file \in WebFiles =>
        i \in PageItems /\ i.type = Item(u).type /\ i.status = "uploaded"
  BY Finds, PageUploaded
<1> HIDE DEF c, s, i
<1>7. cache' \subseteq {v \in Uploads : row'[v] = "confirmed"}
  BY <1>4 DEF Inv, PagesInv, Grows
<1>8. Confirmed(k)' # {}
  BY <1>1, ConfirmedGrows
<1>9. "uploaded" \notin Active
  BY DEF Active
<1>10. PagesInv /\ CallsInv
  BY DEF Inv
<1>11. QED  BY <1>1, <1>2, <1>3, <1>4, <1>5, <1>6, <1>7, <1>8, <1>9, <1>10, PagesShown DEF Item

LEMMA EntersPages ==
    ASSUME Inv, Grows, NEW u \in Uploads, call[u].phase \in Active, NEW phase \in Phases,
           NEW shown \in {"uploading", "confirming"}, Enters(u, phase, shown),
           UNCHANGED <<mine, sheet, hydrated, mounts>>
    PROVE  PagesInv'
<1>1. PICK k \in Types : k = call[u].type
  BY Finds
<1> DEFINE c == With(call[u], phase, call[u].tries, "none")
           s == [Slot(u) EXCEPT !.status = shown]
           i == [Item(u) EXCEPT !.status = shown]
<1>2. call' = [call EXCEPT ![u] = c]
  BY Leaves DEF Inv
<1>3. c.file = call[u].file
  <2>1. call[u].tries \in 0 .. Tries /\ "none" \in Replies
    BY Known DEF Inv, Replies
  <2>2. QED  BY <2>1, Finds, Withs
<1>4. Show(u, s, i) /\ cache' = cache
  BY DEF Enters
<1>5. call[u].file \in Photos => s \in SlotItems /\ s.status = shown
  BY Finds, SlotShows
<1>6. call[u].file \in WebFiles =>
        i \in PageItems /\ i.type = Item(u).type /\ i.status = shown
  <2>1. shown \in {"failed", "hashing", "uploading", "confirming"}
    OBVIOUS
  <2>2. QED  BY <2>1, Finds, PageShows
<1> HIDE DEF c, s, i
<1>7. cache' \subseteq {v \in Uploads : row'[v] = "confirmed"}
  BY <1>4 DEF Inv, PagesInv, Grows
<1>8. shown \in Progress /\ shown # "uploaded" /\ shown # "absent"
  BY DEF Progress
<1>9. PagesInv /\ CallsInv
  BY DEF Inv
<1>10. QED  BY <1>1, <1>2, <1>3, <1>4, <1>5, <1>6, <1>7, <1>8, <1>9, PagesShown DEF Item

-----------------------------------------------------------------------------
(* The invariant, step by step.                                              *)

\* A step of one upload that shows nothing.
LEMMA UnseenPages ==
    ASSUME Inv, Grows, NEW u \in Uploads, NEW c, UNCHANGED screens,
           call' = call \/ call' = [call EXCEPT ![u] = c],
           call' = call \/ (c.file = call[u].file /\ call[u].phase \in Active)
    PROVE  PagesInv'
<1>1. call \in [Uploads -> Calls] /\ mine \subseteq Uploads /\ PagesInv
  BY DEF Inv, CallsInv, PagesInv
<1>2. ASSUME NEW v \in mine, call'[v].phase \in Active, call'[v].file \in WebFiles
      PROVE  v \in Running /\ call'[v].file = call[v].file
  <2>1. CASE call' = call
    BY <1>2, <2>1 DEF Running
  <2>2. CASE call' # call /\ v = u
    BY <1>1, <1>2, <2>2 DEF Running
  <2>3. CASE call' # call /\ v # u
    <3>1. call'[v] = call[v]
      BY <1>1, <2>3
    <3>2. QED  BY <1>2, <3>1 DEF Running
  <2>4. QED  BY <2>1, <2>2, <2>3
<1>3. QED  BY <1>1, <1>2, PagesKept

\* What the routine keeps of an upload.
LEMMA SameFile ==
    ASSUME CallsInv, NEW u \in Uploads, NEW phase \in Phases, NEW tries \in 0 .. Tries,
           NEW reply \in Replies
    PROVE  With(call[u], phase, tries, reply).file = call[u].file
BY Known, Withs

LEMMA UploadPages ==
    ASSUME Inv, Kept, NEW u \in Uploads, RequestUrl(u) \/ Put(u) \/ TakeReply(u) \/ Recover(u)
    PROVE  PagesInv'
<1>1. /\ {"url", "put", "waiting", "list"} \subseteq Active /\ {"put", "confirm", "list"} \subseteq Phases
      /\ Grows /\ CallsInv /\ ListInv
  BY DEF Active, Phases, Kept, Inv
<1>2. call[u].phase \in Active /\ UNCHANGED <<mine, sheet, hydrated, mounts>>
  BY <1>1 DEF RequestUrl, Put, TakeReply, Recover
<1>3. ASSUME NEW kind, Fails(u, kind) PROVE PagesInv'
  BY <1>1, <1>2, <1>3, FailsPages
<1>4. ASSUME NEW phase \in Phases, NEW shown \in {"uploading", "confirming"}, Enters(u, phase, shown)
      PROVE  PagesInv'
  BY <1>1, <1>2, <1>4, EntersPages
<1>5. CASE RequestUrl(u) \/ Put(u)
  BY <1>1, <1>3, <1>4, <1>5 DEF RequestUrl, Put
<1>6. CASE TakeReply(u)
  <2>1. CASE call[u].reply = "ok" /\ Succeeds(u, u)
    <3>1. row[u] = "confirmed" /\ u \in Confirmed(call[u].type)
      BY <1>1, <2>1, Known DEF Confirmed
    <3>2. QED  BY <1>1, <1>2, <2>1, <3>1, SucceedsPages
  <2>2. CASE Enters(u, Again(u), "confirming")
    <3>1. Again(u) \in Phases
      BY <1>1, AgainIs
    <3>2. QED  BY <1>4, <2>2, <3>1
  <2>3. CASE call' = [call EXCEPT ![u].phase = "list"] /\ UNCHANGED <<slot, item, cache>>
    <3>1. call' = [call EXCEPT ![u] = With(call[u], "list", call[u].tries, call[u].reply)]
      BY <1>1, <2>3, CallShapes
    <3>2. With(call[u], "list", call[u].tries, call[u].reply).file = call[u].file
      BY <1>1, Known, SameFile
    <3>3. UNCHANGED screens
      BY <1>2, <2>3 DEF screens
    <3>4. QED  BY <1>1, <1>2, <3>1, <3>2, <3>3, UnseenPages
  <2>4. QED  BY <1>6, <2>1, <2>2, <2>3 DEF TakeReply
<1>7. CASE Recover(u)
  <2>1. CASE Confirmed(call[u].type) # {} /\ Succeeds(u, FirstListed(call[u].type))
    <3>1. FirstListed(call[u].type) \in Confirmed(call[u].type)
      BY <1>1, <2>1, ListedOnes
    <3>2. PICK r : r = FirstListed(call[u].type)
      OBVIOUS
    <3>3. r \in Uploads /\ row[r] = "confirmed" /\ Succeeds(u, r)
      BY <2>1, <3>1, <3>2 DEF Confirmed
    <3>4. QED  BY <1>1, <1>2, <2>1, <3>3, SucceedsPages
  <2>2. QED  BY <1>3, <1>7, <2>1 DEF Recover
<1>8. QED  BY <1>5, <1>6, <1>7

LEMMA UnseenSteps ==
    ASSUME Inv, Kept, NEW u \in Uploads,
           SendConfirm(u) \/ Confirm(u) \/ ConfirmLate(u) \/ LoseConfirm(u) \/ Hash(u)
    PROVE  PagesInv'
<1>1. UNCHANGED screens /\ Grows /\ CallsInv
  BY DEF SendConfirm, Confirm, ConfirmLate, LoseConfirm, Hash, Kept, Inv
<1>2. call[u] \in Calls /\ call \in [Uploads -> Calls]
  BY <1>1, Known
<1>3. PICK c : /\ call' = call \/ call' = [call EXCEPT ![u] = c]
               /\ call' = call \/ (c.file = call[u].file /\ call[u].phase \in Active)
  <2>1. CASE ConfirmLate(u)
    BY <2>1 DEF ConfirmLate
  <2>2. ASSUME NEW c, call' = [call EXCEPT ![u] = c], c.file = call[u].file,
               call[u].phase \in {"reading", "confirm", "waiting"}
        PROVE  /\ call' = call \/ call' = [call EXCEPT ![u] = c]
               /\ call' = call \/ (c.file = call[u].file /\ call[u].phase \in Active)
    BY <2>2 DEF Active, Phases
  <2>3. CASE SendConfirm(u)
    <3> DEFINE c == [call[u] EXCEPT !.phase = "waiting", !.tries = @ + 1, !.reply = "none"]
    <3>1. call' = [call EXCEPT ![u] = c] /\ c.file = call[u].file /\ call[u].phase = "confirm"
      BY <1>2, <2>3 DEF SendConfirm, Calls
    <3> HIDE DEF c
    <3>2. QED  BY <2>2, <3>1
  <2>4. CASE Confirm(u)
    <3>1. PICK reply \in Replies : call' = [call EXCEPT ![u].reply = reply] /\ call[u].phase = "waiting"
      BY <2>4 DEF Confirm
    <3> DEFINE c == [call[u] EXCEPT !.reply = reply]
    <3>2. call' = [call EXCEPT ![u] = c] /\ c.file = call[u].file
      BY <1>2, <3>1 DEF Calls
    <3> HIDE DEF c
    <3>3. QED  BY <2>2, <3>1, <3>2
  <2>5. CASE LoseConfirm(u)
    <3> DEFINE c == [call[u] EXCEPT !.phase = Again(u), !.reply = "none"]
    <3>1. call' = [call EXCEPT ![u] = c] /\ c.file = call[u].file /\ call[u].phase = "waiting"
      BY <1>2, <2>5 DEF LoseConfirm, Calls
    <3> HIDE DEF c
    <3>2. QED  BY <2>2, <3>1
  <2>6. CASE Hash(u)
    <3> DEFINE c == [call[u] EXCEPT !.phase = "url"]
    <3>1. call' = [call EXCEPT ![u] = c] /\ c.file = call[u].file /\ call[u].phase = "reading"
      BY <1>2, <2>6 DEF Hash, Calls
    <3> HIDE DEF c
    <3>2. QED  BY <2>2, <3>1
  <2>7. QED  BY <2>1, <2>3, <2>4, <2>5, <2>6
<1>4. QED  BY <1>1, <1>3, UnseenPages

\* A slot of the application shows the file it has read.
LEMMA DescribePages ==
    ASSUME Inv, Kept, NEW u \in Uploads, Describe(u) PROVE PagesInv'
<1>1. /\ call[u].phase = "reading" /\ call[u].phase \in Active /\ call[u].file \in Photos
      /\ UNCHANGED <<mine, sheet, hydrated, mounts>> /\ Grows /\ CallsInv /\ PagesInv
  BY DEF Describe, Active, Phases, Kept, Inv
<1>2. CASE Fails(u, "unsupported")
  BY <1>1, <1>2, FailsPages
<1>3. CASE /\ call' = [call EXCEPT ![u].phase = "url"]
           /\ slot' = IF u \notin mine THEN slot ELSE
                            [slot EXCEPT ![call[u].type] =
                                [Empty EXCEPT !.status = "uploading", !.file = call[u].file]]
           /\ UNCHANGED <<item, cache>>
  <2> DEFINE e == [Empty EXCEPT !.status = "uploading", !.file = call[u].file]
  <2>1. e \in SlotItems /\ e.status = "uploading"
    BY <1>1 DEF SlotItems, Empty
  <2>2. slot' = slot \/ slot' = [slot EXCEPT ![call[u].type] = e]
    BY <1>3
  <2> HIDE DEF e
  <2>3. \A t : Confirmed(t) # {} => Confirmed(t)' # {}
    BY <1>1, ConfirmedGrows
  <2>4. slot' \in [Types -> SlotItems] /\ \A t \in Types : slot'[t].status = "uploaded" => Confirmed(t)' # {}
    BY <1>1, <2>1, <2>2, <2>3 DEF PagesInv
  <2>5. /\ call \in [Uploads -> Calls] /\ mine \subseteq Uploads
        /\ call'[u].file \in Photos /\ \A v \in Uploads : v # u => call'[v] = call[v]
    BY <1>1, <1>3 DEF CallsInv, Calls, PagesInv
  <2>6. Running' \subseteq Running /\ \A v \in Running' : call'[v].file = call[v].file
    BY <1>1, <2>5, Bounds DEF Running
  <2>7. cache' \subseteq {v \in Uploads : row'[v] = "confirmed"}
    BY <1>1, <1>3 DEF PagesInv, Grows
  <2>8. QED  BY <1>1, <1>3, <2>3, <2>4, <2>6, <2>7 DEF PagesInv
<1>4. QED  BY <1>2, <1>3 DEF Describe

-----------------------------------------------------------------------------
(* Uploads that begin.                                                       *)

New(t, f, phase) == [Idle EXCEPT !.phase = phase, !.type = t, !.file = f]

LEMMA News ==
    ASSUME NEW t \in Types, NEW f \in Files, NEW phase \in {"reading", "url"}
    PROVE  /\ New(t, f, phase) \in Calls /\ New(t, f, phase).phase = phase
           /\ New(t, f, phase).type = t /\ New(t, f, phase).file = f
           /\ New(t, f, phase).tries = 0 /\ New(t, f, phase).reply = "none"
<1>1. Idle \in Calls /\ Idle.tries = 0 /\ Idle.reply = "none"
  BY Bounds DEF Idle, Calls, Phases, Replies
<1>2. phase \in Phases
  BY DEF Phases
<1>3. QED  BY <1>1, <1>2 DEF New, Calls

LEMMA BeginsCalls ==
    ASSUME CallsInv, ListInv, NEW u \in Uploads, NEW t \in Types, NEW f \in Files,
           NEW phase \in {"reading", "url"}, Begins(u, t, f, phase), UNCHANGED <<server, faults>>
    PROVE  /\ Kept /\ u \notin Began /\ call' = [call EXCEPT ![u] = New(t, f, phase)]
<1>1. u \notin Began /\ \A v \in Uploads : v < u => v \in Began
  BY NextFree DEF Begins
<1>2. /\ row \in [Uploads -> Rows] /\ call \in [Uploads -> Calls] /\ late \in [Uploads -> Nat]
      /\ faults \in 0 .. MaxFaults /\ row' = row /\ late' = late /\ made' = made /\ faults' = faults
  BY DEF CallsInv, server
<1>3. call[u].phase = "free" /\ row[u] = "none" /\ late[u] = 0 /\ late[u] <= faults
  <2>1. call[u].phase = "free"
    BY <1>1 DEF Began
  <2>2. QED  BY <2>1, Known DEF Early
<1>4. call' = [call EXCEPT ![u] = New(t, f, phase)]
  BY DEF Begins, New
<1> DEFINE c == New(t, f, phase)
<1>5. /\ c \in Calls /\ c.phase = phase /\ c.type = t /\ c.file = f
      /\ c.tries = 0 /\ c.reply = "none"
  BY News
<1> HIDE DEF c
<1>6. call' = [call EXCEPT ![u] = c]
  BY <1>4 DEF c
<1>7. Good(c, row[u], late[u], faults)
  <2>1. phase \notin {"free", "confirm", "waiting", "list", "failed"}
    OBVIOUS
  <2>2. Sound(c, row[u], late[u], faults)
    BY <1>3, <1>5, <2>1 DEF Sound
  <2>3. Attempted(c, row[u], late[u], faults)
    BY <1>3, <1>5, <2>1 DEF Attempted
  <2>4. QED  BY <2>2, <2>3 DEF Good
<1>8. call' \in [Uploads -> Calls] /\ call'[u] = c /\ \A v \in Uploads : v # u => call'[v] = call[v]
  BY <1>2, <1>5, <1>6
<1>9. \A v \in Uploads : Good(call'[v], row'[v], late'[v], faults')
  BY <1>2, <1>7, <1>8 DEF CallsInv
<1>10. Began' = Began \cup {u}
  <2>1. phase # "free"
    OBVIOUS
  <2>2. QED  BY <1>5, <1>8, <2>1 DEF Began
<1>11. \A w \in Began', v \in Uploads : v < w => v \in Began'
  BY <1>1, <1>10 DEF CallsInv
<1>12. CallsInv'
  BY <1>2, <1>8, <1>9, <1>11 DEF CallsInv
<1>13. ListInv'
  BY <1>2 DEF ListInv
<1>14. Grows
  BY <1>2, <1>3, <1>8 DEF Grows
<1>15. QED  BY <1>1, <1>4, <1>12, <1>13, <1>14 DEF Kept

\* A new upload is the only one that may come to run.
LEMMA BeginsPages ==
    ASSUME Inv, NEW u \in Uploads, NEW t \in Types, NEW f \in Files,
           NEW phase \in {"reading", "url"}, Begins(u, t, f, phase), UNCHANGED <<server, faults>>
    PROVE  /\ mine' \subseteq Uploads /\ u \notin Running /\ call'[u].file = f
           /\ \A v \in Running' : \/ v \in Running /\ call'[v].file = call[v].file
                                  \/ v = u /\ f \in WebFiles
<1>1. u \notin Began /\ call' = [call EXCEPT ![u] = New(t, f, phase)]
  BY BeginsCalls DEF Inv
<1>2. New(t, f, phase).file = f
  BY News
<1>3. call \in [Uploads -> Calls] /\ mine \subseteq Uploads /\ mine' = mine \cup {u}
  BY DEF Inv, CallsInv, PagesInv, Begins
<1>4. call'[u].file = f /\ \A v \in Uploads : v # u => call'[v] = call[v]
  BY <1>1, <1>2, <1>3
<1>5. u \notin Running
  BY <1>1 DEF Running, Began, Active
<1>6. QED  BY <1>3, <1>4, <1>5 DEF Running

LEMMA PickOrRetry ==
    ASSUME Inv, NEW u \in Uploads,
           (\E f \in Photos : Pick(u, f)) \/ (\E t \in Types : Retry(u, t))
    PROVE  Inv'
<1>1. PICK t \in Types, f \in Photos, phase \in {"reading", "url"} :
        /\ Begins(u, t, f, phase) /\ sheet' \in {sheet, NoType}
        /\ UNCHANGED <<server, slot, hydrated, item, cache, faults, mounts>>
  <2>1. ASSUME NEW f \in Photos, Pick(u, f)
        PROVE  /\ sheet \in Types /\ Begins(u, sheet, f, "reading") /\ sheet' = NoType
               /\ UNCHANGED <<server, slot, hydrated, item, cache, faults, mounts>>
    BY <2>1 DEF Pick, Inv, PagesInv
  <2>2. ASSUME NEW t \in Types, Retry(u, t)
        PROVE  /\ slot[t].file \in Photos /\ Begins(u, t, slot[t].file, "url") /\ sheet' = sheet
               /\ UNCHANGED <<server, slot, hydrated, item, cache, faults, mounts>>
    <3>1. slot[t] \in SlotItems
      BY DEF Inv, PagesInv
    <3>2. QED  BY <2>2, <3>1 DEF Retry, SlotItems
  <2>3. QED  BY <2>1, <2>2
<1>2. f \in Files /\ f \notin WebFiles
  BY Bounds DEF Files
<1>3. Kept
  BY <1>1, <1>2, BeginsCalls DEF Inv
<1>4. /\ mine' \subseteq Uploads
      /\ \A v \in Running' : v \in Running /\ call'[v].file = call[v].file
  BY <1>1, <1>2, BeginsPages
<1>5. \A k : Confirmed(k) # {} => Confirmed(k)' # {}
  BY <1>3, ConfirmedGrows DEF Kept
<1>6. cache' \subseteq {v \in Uploads : row'[v] = "confirmed"}
  BY <1>1, <1>3 DEF Inv, PagesInv, Kept, Grows
<1>7. PagesInv'
  BY <1>1, <1>4, <1>5, <1>6 DEF Inv, PagesInv
<1>8. QED  BY <1>3, <1>7 DEF Inv, Kept

LEMMA UploadsFile ==
    ASSUME Inv, NEW u \in Uploads, NEW f \in WebFiles, UploadFile(u, f) PROVE Inv'
<1>1. /\ item[f].status \in {"idle", "failed"} /\ item' = [item EXCEPT ![f].status = "hashing"]
      /\ Begins(u, item[f].type, f, "reading")
      /\ UNCHANGED <<server, slot, sheet, hydrated, cache, faults, mounts>>
  BY DEF UploadFile
<1>2. /\ item \in [WebFiles -> PageItems] /\ item[f] \in PageItems /\ item[f].type \in Types
      /\ f \in Files
  BY <1>1 DEF Inv, PagesInv, Files
<1>3. PICK t \in Types : t = item[f].type
  BY <1>2
<1>4. Begins(u, t, f, "reading")
  BY <1>1, <1>3
<1>5. Kept
  BY <1>1, <1>2, <1>4, BeginsCalls DEF Inv
<1>6. /\ mine' \subseteq Uploads /\ call'[u].file = f
      /\ \A v \in Running' : (v \in Running /\ call'[v].file = call[v].file) \/ v = u
  BY <1>1, <1>2, <1>4, BeginsPages
<1> DEFINE i == [item[f] EXCEPT !.status = "hashing"]
<1>7. i \in PageItems /\ i.type \in Types /\ i.status = "hashing"
  BY <1>2, PageShows
<1>8. item' = [item EXCEPT ![f] = i]
  BY <1>1
<1> HIDE DEF i
<1>9. /\ item' \in [WebFiles -> PageItems] /\ item'[f] = i
      /\ \A g \in WebFiles : g # f => item'[g] = item[g]
  BY <1>2, <1>7, <1>8
<1>10. \A k : Confirmed(k) # {} => Confirmed(k)' # {}
  BY <1>5, ConfirmedGrows DEF Kept
<1>11. cache' \subseteq {v \in Uploads : row'[v] = "confirmed"}
  BY <1>1, <1>5 DEF Inv, PagesInv, Kept, Grows
<1>12. \A v \in Running : call[v].file # f /\ call[v].file \in WebFiles
                          /\ item[call[v].file].status \in Progress
  BY <1>1 DEF Inv, PagesInv, Running, Progress
<1>13. \A v \in Running' : item'[call'[v].file].status \in Progress
  BY <1>6, <1>7, <1>9, <1>12 DEF Progress
<1>14. \A v, w \in Running' : call'[v].file = call'[w].file => v = w
  BY <1>6, <1>12 DEF Inv, PagesInv
<1>15. \A g \in WebFiles :
          /\ item'[g].status # "absent" => item'[g].type \in Types
          /\ item'[g].status = "uploaded" => \E k \in Types : Confirmed(k)' # {}
  BY <1>7, <1>9, <1>10 DEF Inv, PagesInv
<1>16. /\ slot' \in [Types -> SlotItems]
       /\ \A k \in Types : slot'[k].status = "uploaded" => Confirmed(k)' # {}
  BY <1>1, <1>10 DEF Inv, PagesInv
<1>17. PagesInv'
  BY <1>1, <1>6, <1>9, <1>11, <1>13, <1>14, <1>15, <1>16 DEF Inv, PagesInv
<1>18. QED  BY <1>5, <1>17 DEF Inv, Kept

-----------------------------------------------------------------------------
(* Steps of the pages alone.                                                 *)

LEMMA CallsKept ==
    ASSUME CallsInv, ListInv, UNCHANGED <<row, made, late, call>>, faults' = faults \/ Fault
    PROVE  Kept /\ \A t : Confirmed(t)' = Confirmed(t)
<1>1. /\ faults' \in faults .. MaxFaults /\ faults \in Nat /\ faults' \in Nat /\ faults <= faults'
      /\ faults' \in 0 .. MaxFaults
  <2>1. faults' \in faults .. MaxFaults /\ faults \in 0 .. MaxFaults
    BY FaultBounds DEF CallsInv
  <2>2. QED  BY <2>1, Bounds
<1>2. ASSUME NEW u \in Uploads PROVE Good(call[u], row[u], late[u], faults')
  <2>1. call[u] \in Calls /\ late[u] \in Nat /\ Good(call[u], row[u], late[u], faults)
    BY DEF CallsInv
  <2>2. QED  BY <1>1, <2>1, GoodLater
<1>3. CallsInv'
  BY <1>1, <1>2 DEF CallsInv, Began
<1>4. ListInv' /\ Grows
  BY DEF ListInv, Grows
<1>5. QED  BY <1>3, <1>4 DEF Kept, Confirmed

\* What the pages keep while the rows stay as they are.
LEMMA PageSteps ==
    ASSUME Inv, UNCHANGED <<row, made, late, call>>, faults' = faults \/ Fault,
           mine' \subseteq mine, sheet' \in Types \cup {NoType}, hydrated' \in BOOLEAN,
           mounts' \in 0 .. MaxMounts,
           slot' \in [Types -> SlotItems],
           \A t \in Types : slot'[t].status = "uploaded" => Confirmed(t) # {},
           cache' \subseteq {u \in Uploads : row[u] = "confirmed"},
           item' \in [WebFiles -> PageItems],
           \A f \in WebFiles : \/ item'[f] = item[f]
                               \/ /\ item'[f].status # "uploaded"
                                  /\ item'[f].status = "absent" \/ item'[f].type \in Types
                                  /\ \A u \in Running' : call[u].file # f
    PROVE  Inv'
<1>1. Kept /\ \A t : Confirmed(t)' = Confirmed(t)
  BY CallsKept DEF Inv
<1>2. Running' \subseteq Running
  BY DEF Running
<1>3. \A u \in Running' : item'[call'[u].file].status \in Progress
  BY <1>2 DEF Inv, PagesInv, Running
<1>4. \A f \in WebFiles :
        /\ item'[f].status # "absent" => item'[f].type \in Types
        /\ item'[f].status = "uploaded" => \E t \in Types : Confirmed(t)' # {}
  BY <1>1 DEF Inv, PagesInv
<1>5. PagesInv'
  BY <1>1, <1>2, <1>3, <1>4 DEF Inv, PagesInv
<1>6. QED  BY <1>1, <1>5 DEF Inv, Kept

LEMMA StepSteps ==
    ASSUME Inv, (\E t \in Types : OpenSheet(t)) \/ CloseSheet \/ Hydrate \/ LeaveStep PROVE Inv'
<1>1. UNCHANGED <<row, made, late, call, item, cache>>
  BY DEF OpenSheet, CloseSheet, Hydrate, LeaveStep, server
<1>2. /\ slot \in [Types -> SlotItems] /\ item \in [WebFiles -> PageItems]
      /\ \A t \in Types : slot[t].status = "uploaded" => Confirmed(t) # {}
      /\ cache \subseteq {u \in Uploads : row[u] = "confirmed"}
      /\ sheet \in Types \cup {NoType} /\ hydrated \in BOOLEAN /\ mounts \in 0 .. MaxMounts
  BY DEF Inv, PagesInv
<1>3. CASE (\E t \in Types : OpenSheet(t)) \/ CloseSheet
  <2>1. /\ UNCHANGED <<mine, slot, hydrated, faults, mounts>> /\ sheet' \in Types \cup {NoType}
    BY <1>3 DEF OpenSheet, CloseSheet
  <2>2. QED  BY <1>1, <1>2, <2>1, PageSteps
<1>4. CASE Hydrate
  <2>1. UNCHANGED <<mine, sheet, mounts>> /\ hydrated' = TRUE /\ (faults' = faults \/ Fault)
    BY <1>4 DEF Hydrate
  <2>2. CASE slot' = slot
    BY <1>1, <1>2, <2>1, <2>2, PageSteps
  <2>3. CASE slot' = [t \in Types |->
                        IF slot[t].status # "pending" \/ Confirmed(t) = {} THEN slot[t]
                        ELSE [Empty EXCEPT !.status = "uploaded", !.remote = LastListed(t)]]
    <3>1. ASSUME NEW t \in Types
          PROVE  slot'[t] \in SlotItems /\ (slot'[t].status = "uploaded" => Confirmed(t) # {})
      <4>1. CASE slot[t].status # "pending" \/ Confirmed(t) = {}
        BY <1>2, <2>3, <4>1
      <4>2. CASE ~(slot[t].status # "pending" \/ Confirmed(t) = {})
        <5>1. LastListed(t) \in Confirmed(t) /\ LastListed(t) \in Uploads
          BY <4>2, ListedOnes DEF Inv, Confirmed
        <5>2. [Empty EXCEPT !.status = "uploaded", !.remote = LastListed(t)] \in SlotItems
          BY <5>1 DEF Empty, SlotItems
        <5>3. QED  BY <2>3, <4>2, <5>2
      <4>3. QED  BY <4>1, <4>2
    <3>2. slot' \in [Types -> SlotItems]
      <4>1. slot' = [t \in Types |-> slot'[t]]
        BY <2>3
      <4>2. QED  BY <3>1, <4>1
    <3>3. QED  BY <1>1, <1>2, <2>1, <3>1, <3>2, PageSteps
  <2>4. QED  BY <1>4, <2>2, <2>3 DEF Hydrate
<1>5. CASE LeaveStep
  <2>1. /\ mine' \subseteq mine /\ sheet' = NoType /\ hydrated' = FALSE /\ faults' = faults
        /\ mounts' \in 0 .. MaxMounts
    BY <1>2, <1>5, Bounds DEF LeaveStep
  <2>2. Empty \in SlotItems /\ Empty.status = "pending"
    BY DEF Empty, SlotItems
  <2>3. slot' \in [Types -> SlotItems] /\ \A t \in Types : slot'[t].status = "pending"
    BY <1>5, <2>2 DEF LeaveStep
  <2>4. QED  BY <1>1, <1>2, <2>1, <2>3, PageSteps
<1>6. QED  BY <1>3, <1>4, <1>5

LEMMA FileSteps ==
    ASSUME Inv, \/ \E f \in WebFiles, t \in Types : Drop(f, t)
                \/ \E f \in WebFiles : Remove(f)
                \/ Refetch
                \/ LeavePage
    PROVE  Inv'
<1>1. UNCHANGED <<row, made, late, call, slot, sheet, hydrated, faults>>
  BY DEF Drop, Remove, Refetch, LeavePage, server
<1>2. /\ slot \in [Types -> SlotItems] /\ item \in [WebFiles -> PageItems]
      /\ \A t \in Types : slot[t].status = "uploaded" => Confirmed(t) # {}
      /\ cache \subseteq {u \in Uploads : row[u] = "confirmed"}
      /\ sheet \in Types \cup {NoType} /\ hydrated \in BOOLEAN /\ mounts \in 0 .. MaxMounts
      /\ \A u \in Running : call[u].file \in WebFiles /\ item[call[u].file].status \in Progress
  BY DEF Inv, PagesInv, Running
<1>3. Absent \in PageItems /\ Absent.status = "absent"
  BY DEF Absent, PageItems
<1>4. ASSUME NEW f \in WebFiles, NEW i \in PageItems, i.status # "uploaded",
             i.status = "absent" \/ i.type \in Types,
             item[f].status \notin Progress,
             item' = [item EXCEPT ![f] = i], UNCHANGED <<mine, cache, mounts>>
      PROVE  Inv'
  <2>1. item' \in [WebFiles -> PageItems] /\ item'[f] = i /\ \A g \in WebFiles : g # f => item'[g] = item[g]
    BY <1>2, <1>4
  <2>2. \A u \in Running' : call[u].file # f
    BY <1>1, <1>2, <1>4 DEF Running
  <2>3. \A g \in WebFiles : \/ item'[g] = item[g]
                            \/ /\ item'[g].status # "uploaded"
                               /\ item'[g].status = "absent" \/ item'[g].type \in Types
                               /\ \A u \in Running' : call[u].file # g
    BY <1>4, <2>1, <2>2
  <2>4. QED  BY <1>1, <1>2, <1>4, <2>1, <2>3, PageSteps
<1>5. ASSUME NEW f \in WebFiles, NEW t \in Types, Drop(f, t) PROVE Inv'
  <2> DEFINE i == [Absent EXCEPT !.status = "idle", !.type = t]
  <2>1. i \in PageItems /\ i.status = "idle" /\ i.type = t
    BY DEF Absent, PageItems
  <2>2. /\ item' = [item EXCEPT ![f] = i] /\ item[f].status = "absent"
        /\ UNCHANGED <<mine, cache, mounts>>
    BY <1>5 DEF Drop
  <2> HIDE DEF i
  <2>3. QED  BY <1>4, <2>1, <2>2 DEF Progress
<1>6. ASSUME NEW f \in WebFiles, Remove(f) PROVE Inv'
  <2>1. /\ item' = [item EXCEPT ![f] = Absent] /\ item[f].status \in {"idle", "failed"}
        /\ UNCHANGED <<mine, cache, mounts>>
    BY <1>6 DEF Remove
  <2>2. QED  BY <1>3, <1>4, <2>1 DEF Progress
<1>7. CASE Refetch
  <2>1. UNCHANGED <<mine, item, mounts>> /\ cache' = UNION {Confirmed(t) : t \in Types}
    BY <1>7 DEF Refetch
  <2>2. cache' \subseteq {u \in Uploads : row[u] = "confirmed"}
    BY <2>1 DEF Confirmed
  <2>3. QED  BY <1>1, <1>2, <2>1, <2>2, PageSteps
<1>8. CASE LeavePage
  <2>1. /\ mine' = {u \in mine : call[u].file \in Photos} /\ cache' = cache
        /\ mounts' \in 0 .. MaxMounts /\ item' = [f \in WebFiles |-> Absent]
    BY <1>2, <1>8, Bounds DEF LeavePage
  <2>2. Running' = {}
    BY <1>1, <2>1, Bounds DEF Running
  <2>3. item' \in [WebFiles -> PageItems] /\ \A f \in WebFiles : item'[f].status = "absent"
    BY <1>3, <2>1
  <2>4. \A f \in WebFiles : \A u \in Running' : call[u].file # f
    BY <2>2
  <2>5. QED  BY <1>1, <1>2, <2>1, <2>3, <2>4, PageSteps
<1>9. QED  BY <1>5, <1>6, <1>7, <1>8

-----------------------------------------------------------------------------
LEMMA InvInit ==
    ASSUME Init PROVE Inv
<1>1. /\ Idle \in Calls /\ Idle.phase = "free" /\ Idle.tries = 0 /\ Idle.reply = "none"
      /\ Idle.type = NoType /\ Idle.file = NoFile
  BY Bounds DEF Idle, Calls, Phases, Replies
<1>2. /\ row = [u \in Uploads |-> "none"] /\ made = <<>> /\ late = [u \in Uploads |-> 0]
      /\ call = [u \in Uploads |-> Idle] /\ mine = {} /\ slot = [t \in Types |-> Empty]
      /\ sheet = NoType /\ hydrated = FALSE /\ item = [f \in WebFiles |-> Absent] /\ cache = {}
      /\ faults = 0 /\ mounts = 0
  BY DEF Init
<1>3. Good(Idle, "none", 0, 0)
  BY <1>1 DEF Good, Sound, Attempted
<1>4. CallsInv
  <2>1. Began = {}
    BY <1>1, <1>2 DEF Began
  <2>2. row \in [Uploads -> Rows] /\ call \in [Uploads -> Calls] /\ late \in [Uploads -> Nat]
    BY <1>1, <1>2 DEF Rows
  <2>3. \A u \in Uploads : Good(call[u], row[u], late[u], faults)
    BY <1>2, <1>3
  <2>4. QED  BY <1>2, <2>1, <2>2, <2>3, Bounds DEF CallsInv
<1>5. ListInv
  BY <1>2 DEF ListInv
<1>6. PagesInv
  <2>1. Running = {}
    BY <1>2 DEF Running
  <2>2. /\ Empty \in SlotItems /\ Empty.status = "pending"
        /\ Absent \in PageItems /\ Absent.status = "absent"
    BY DEF Empty, SlotItems, Absent, PageItems
  <2>3. slot \in [Types -> SlotItems] /\ \A t \in Types : slot[t].status = "pending"
    BY <1>2, <2>2
  <2>4. item \in [WebFiles -> PageItems] /\ \A f \in WebFiles : item[f].status = "absent"
    BY <1>2, <2>2
  <2>5. mounts \in 0 .. MaxMounts
    BY <1>2, Bounds
  <2>6. hydrated \in BOOLEAN
    BY <1>2, Zenon
  <2>7. QED  BY <1>2, <2>1, <2>3, <2>4, <2>5, <2>6 DEF PagesInv
<1>7. QED  BY <1>4, <1>5, <1>6 DEF Inv

LEMMA InvNext ==
    ASSUME Inv, [Next]_vars PROVE Inv'
<1>1. CASE UNCHANGED vars
  <2>1. UNCHANGED <<row, made, call, late, mine, slot, sheet, hydrated, item, cache, faults, mounts>>
    BY <1>1 DEF vars
  <2>2. QED  BY <2>1 DEF Inv, CallsInv, ListInv, PagesInv, Began, Running, Confirmed
<1>2. CASE StepScreen
  BY <1>2, StepSteps, PickOrRetry DEF StepScreen
<1>3. CASE WebPage
  BY <1>3, FileSteps, UploadsFile DEF WebPage
<1>4. ASSUME NEW u \in Uploads, Upload(u) \/ Describe(u) \/ Hash(u) \/ LoseConfirm(u) \/ ConfirmLate(u)
      PROVE  Inv'
  <2>1. CallsInv /\ ListInv
    BY DEF Inv
  <2>2. Kept
    BY <1>4, <2>1, RequestUrlCalls, PutCalls, SendConfirmCalls, ConfirmCalls, ConfirmLateCalls,
       TakeReplyCalls, LoseConfirmCalls, RecoverCalls, ReadCalls DEF Upload
  <2>3. PagesInv'
    BY <1>4, <2>2, UploadPages, UnseenSteps, DescribePages DEF Upload
  <2>4. QED  BY <2>2, <2>3 DEF Inv, Kept
<1>5. QED  BY <1>1, <1>2, <1>3, <1>4 DEF Next, Network, Routine

LEMMA SpecInv == Spec => []Inv
BY InvInit, InvNext, PTL DEF Spec

LEMMA InvTypes ==
    ASSUME Inv PROVE TypeOK
<1>1. late \in [Uploads -> 0 .. MaxFaults]
  <2>1. \A u \in Uploads : late[u] \in 0 .. MaxFaults
    <3> TAKE u \in Uploads
    <3>1. late[u] \in Nat /\ late[u] <= faults /\ faults \in Nat /\ faults <= MaxFaults /\ MaxFaults \in Nat
      BY Known DEF Inv
    <3>2. QED  BY <3>1
  <2>2. QED  BY <2>1 DEF Inv, CallsInv
<1>2. QED  BY <1>1 DEF Inv, CallsInv, ListInv, PagesInv, TypeOK, Rows

\* A client that lets its user go on counts only slots and files with a
\* confirmed row behind them, however the answers of the uploads, the list of
\* the mount and the departures of the pages interleave.
THEOREM ProceedConfirmed == Spec => []ProceedHasConfirmed
<1>1. ASSUME Inv PROVE ProceedHasConfirmed
  <2>1. TypeOK
    BY <1>1, InvTypes
  <2>2. ASSUME CanProceed
        PROVE  /\ \A t \in Required : Confirmed(t) # {}
               /\ Cardinality({t \in Types : Confirmed(t) # {}}) >= MinPhotos
    <3> DEFINE S == {t \in Types : Confirmed(t) # {}}
    <3>1. Shown \subseteq S
      BY <1>1 DEF Shown, Inv, PagesInv
    <3>2. Required \subseteq S
      BY <2>2, <3>1 DEF CanProceed
    <3>3. IsFiniteSet(S) /\ IsFiniteSet(Shown)
      BY Bounds, FS_Subset DEF Shown
    <3>4. Cardinality(Shown) <= Cardinality(S)
      BY <3>1, <3>3, FS_Subset
    <3>5. Cardinality(S) \in Nat /\ Cardinality(Shown) \in Nat /\ MinPhotos \in Nat
      <4>1. Cardinality(Types) \in Nat
        BY Bounds, FS_CardinalityType
      <4>2. MinPhotos \in Nat
        BY <4>1, TypesAssumption DEF TypesAssumption
      <4>3. QED  BY <3>3, <4>2, FS_CardinalityType
    <3>6. Cardinality(Shown) >= MinPhotos
      BY <2>2 DEF CanProceed
    <3>7. Cardinality(S) >= MinPhotos
      BY <3>4, <3>5, <3>6
    <3>8. QED  BY <3>2, <3>7
  <2>3. ASSUME WebCanProceed PROVE \E t \in Types : Confirmed(t) # {}
    <3>1. CASE \E f \in WebFiles : item[f].status = "uploaded"
      BY <1>1, <3>1 DEF Inv, PagesInv
    <3>2. CASE cache # {}
      <4>1. PICK u \in Uploads : row[u] = "confirmed"
        BY <1>1, <3>2 DEF Inv, PagesInv
      <4>2. call[u].type \in Types
        BY <1>1, <4>1, Known DEF Inv
      <4>3. u \in Confirmed(call[u].type)
        BY <4>1 DEF Confirmed
      <4>4. QED  BY <4>2, <4>3
    <3>3. QED  BY <2>3, <3>1, <3>2 DEF WebCanProceed
  <2>4. QED  BY <2>1, <2>2, <2>3 DEF ProceedHasConfirmed
<1>2. QED  BY <1>1, SpecInv, PTL

\* With fewer faults than attempts a confirmation is never given up on: an
\* upload that is called failed has no confirmed row.
THEOREM LossRecovered ==
    ASSUME MaxFaults < Tries PROVE Spec => []LossIsRecovered
<1>1. ASSUME Inv PROVE LossIsRecovered
  <2>1. ASSUME NEW u \in Uploads, call[u].phase = "failed" PROVE row[u] # "confirmed"
    <3>1. Attempted(call[u], row[u], late[u], faults)
      BY <1>1, Known DEF Inv
    <3>2. QED  BY <2>1, <3>1 DEF Attempted
  <2>2. QED  BY <2>1 DEF LossIsRecovered
<1>2. QED  BY <1>1, SpecInv, PTL
=============================================================================
