--------------------------- MODULE Session_proofs ---------------------------
(***************************************************************************)
(* Theorems about the sessions of both clients: MobileSession, for any     *)
(* number of requests and of device sessions, and WebSession, for any      *)
(* tabs.  The two share the names of the server's variables.               *)
(***************************************************************************)
EXTENDS MobileSession, TLAPS

-----------------------------------------------------------------------------
(* The application: every variable keeps its type.                           *)

\* The values the actions give to the records.
LEMMA Records ==
    /\ 0 \in Token
    /\ NoDisk \in Disks /\ NoStore \in Stores /\ NoCall \in Boots /\ Booted \in Boots
    /\ NoRefresh \in Refreshes /\ [NoRefresh EXCEPT !.step = "stuck"] \in Refreshes /\ Idle \in Calls
    /\ \A n \in Token, b \in BOOLEAN :
         /\ [NoCall EXCEPT !.step = "sent", !.tok = n, !.beside = b] \in Boots
         /\ [step |-> "sent", tok |-> n, new |-> 0, beside |-> b] \in Refreshes
         /\ [token |-> n, pin |-> b] \in Disks
         /\ [token |-> n, known |-> TRUE, auth |-> TRUE, invite |-> b] \in Stores
    /\ \A n \in Token, k \in {"query", "plan"} :
         [step |-> "sent", tok |-> n, retried |-> FALSE, kind |-> k] \in Calls
<1>1. 0 \in Token
  BY MobileSessionAssumption DEF MobileSessionAssumption, Token
<1>2. QED  BY <1>1 DEF NoDisk, NoStore, NoCall, Booted, NoRefresh, Idle, Disks, Stores, Boots, Refreshes, Calls

LEMMA DeviceSteps ==
    ASSUME NEW d \in Disks, NEW s \in Stores, NEW n \in Token
    PROVE  /\ [d EXCEPT !.token = n] \in Disks
           /\ [d EXCEPT !.pin = TRUE] \in Disks
           /\ [s EXCEPT !.token = n, !.known = TRUE, !.auth = TRUE] \in Stores
           /\ [s EXCEPT !.token = n, !.auth = TRUE] \in Stores
           /\ [s EXCEPT !.invite = TRUE] \in Stores
           /\ [s EXCEPT !.invite = FALSE] \in Stores
BY DEF Disks, Stores

LEMMA RequestSteps ==
    ASSUME NEW b \in Boots, NEW r \in Refreshes, NEW c \in Calls, NEW n \in Token
    PROVE  /\ [b EXCEPT !.step = "rotated", !.new = n] \in Boots
           /\ [b EXCEPT !.step = "refused"] \in Boots
           /\ [b EXCEPT !.step = "lost"] \in Boots
           /\ [b EXCEPT !.beside = TRUE] \in Boots
           /\ [r EXCEPT !.step = "rotated", !.new = n] \in Refreshes
           /\ [r EXCEPT !.step = "refused"] \in Refreshes
           /\ [r EXCEPT !.step = "lost"] \in Refreshes
           /\ [c EXCEPT !.step = "waiting"] \in Calls
           /\ [c EXCEPT !.step = "sent", !.tok = n, !.retried = TRUE] \in Calls
BY DEF Boots, Refreshes, Calls

\* The tokens the device knows have been issued.
Issued ==
    /\ disk.token <= issued
    /\ \A s \in 1 .. MaxSessions : s > issued => ended[s] # "rotated"
    /\ \A c \in {boot, refresh} :
        /\ c.tok <= issued
        /\ c.step \in {"sent", "rotated"} => c.tok # 0

LEMMA InitTypeOK == Init => TypeOK
<1>1. MaxSessions \in Nat
  BY MobileSessionAssumption DEF MobileSessionAssumption
<1>2. QED  BY <1>1, Records DEF Init, TypeOK, Routes, AuthGroup, PinScreens

LEMMA NextTypeOK == TypeOK /\ Issued /\ [Next]_vars => TypeOK'
<1> SUFFICES ASSUME TypeOK, Issued, Next PROVE TypeOK'
  BY DEF vars, server, TypeOK
<1> USE DEF TypeOK
<1>0. /\ issued \in Nat /\ MaxSessions \in Nat /\ 0 \in Token
      /\ issued < MaxSessions => issued + 1 \in Token
      /\ boot.tok \in Token /\ boot.new \in Token /\ refresh.tok \in Token /\ refresh.new \in Token
      /\ disk.token \in Token /\ disk.pin \in BOOLEAN /\ store.invite \in BOOLEAN
  BY MobileSessionAssumption DEF MobileSessionAssumption, Token, Boots, Refreshes, Disks, Stores
<1>1. /\ boot.step \in {"sent", "rotated"} => boot.tok \in 1 .. MaxSessions
      /\ refresh.step \in {"sent", "rotated"} => refresh.tok \in 1 .. MaxSessions
  BY <1>0 DEF Issued, Token
<1>2. [s \in 1 .. MaxSessions |-> IF Live(s) THEN "revoked" ELSE ended[s]]
        \in [1 .. MaxSessions -> {"live", "rotated", "revoked"}]
  OBVIOUS
<1>3. CASE User
  <2>1. CASE Logout
    BY <2>1, Records DEF Logout, Forget, server
  <2>2. CASE ContinueInvite \/ SendOtp
    BY <1>0, <2>2, DeviceSteps DEF ContinueInvite, SendOtp, server, Routes, AuthGroup, PinScreens
  <2>3. CASE VerifyOtp
    <3>1. issued + 1 \in Token /\ (store.invite /\ ~hasPin) \in BOOLEAN
      BY <1>0, <2>3 DEF VerifyOtp
    <3>2. disk' \in Disks
      BY <2>3, <3>1, Records DEF VerifyOtp, SignIn
    <3>3. store' \in Stores
      BY <2>3, <3>1, Records DEF VerifyOtp
    <3>4. route' \in Routes
      BY <2>3 DEF VerifyOtp, Routes, AuthGroup, PinScreens
    <3>5. QED  BY <1>2, <2>3, <3>1, <3>2, <3>3, <3>4 DEF VerifyOtp, SignIn
  <2>4. CASE PinSetup
    <3>1. disk' \in Disks /\ store' \in Stores
      BY <1>0, <2>4, DeviceSteps DEF PinSetup
    <3>2. QED  BY <2>4, <3>1 DEF PinSetup, Routes, AuthGroup, PinScreens
  <2>5. CASE PinVerify
    <3>1. issued + 1 \in Token
      BY <1>0, <2>5 DEF PinVerify
    <3>2. disk' \in Disks
      BY <2>5, <3>1, Records DEF PinVerify, SignIn
    <3>3. store' \in Stores
      BY <2>5, <3>1, DeviceSteps DEF PinVerify
    <3>4. QED  BY <2>5, <3>1, <3>2, <3>3 DEF PinVerify, SignIn, Routes
  <2>6. CASE Kill
    <3>1. lost' \subseteq 1 .. MaxSessions
      BY <1>1, <2>6 DEF Kill
    <3>2. QED  BY <2>6, <3>1, Records DEF Kill, server, Routes
  <2>7. QED  BY <1>3, <2>1, <2>2, <2>3, <2>4, <2>5, <2>6 DEF User
<1>4. CASE Startup
  <2>1. CASE BootStart
    BY <1>0, <2>1, Records DEF BootStart, server
  <2>2. CASE BootServer
    <3>1. CASE Live(boot.tok)
      <4>1. issued + 1 \in Token
        BY <1>0, <2>2, <3>1 DEF BootServer, Rotate
      <4>2. [boot EXCEPT !.step = "rotated", !.new = issued + 1] \in Boots
        BY <1>0, <4>1, RequestSteps, Records
      <4>3. QED  BY <2>2, <3>1, <4>1, <4>2 DEF BootServer, Rotate
    <3>2. CASE ~Live(boot.tok)
      BY <1>0, <2>2, <3>2, RequestSteps, Records DEF BootServer
    <3>3. QED  BY <3>1, <3>2
  <2>3. CASE BootLost
    <3>1. boot' \in Boots
      BY <1>0, <2>3, RequestSteps, Records DEF BootLost
    <3>2. QED  BY <1>1, <2>3, <3>1 DEF BootLost, server
  <2>4. CASE BootKeeps
    <3>1. disk' \in Disks /\ store' \in Stores
      BY <1>0, <2>4, DeviceSteps DEF BootKeeps
    <3>2. QED  BY <2>4, <3>1, Records DEF BootKeeps, server
  <2>5. CASE BootDrops
    BY <2>5, Records DEF BootDrops, server, Routes, AuthGroup, PinScreens
  <2>6. CASE GuardRedirect
    BY <2>6 DEF GuardRedirect, server, Routes, AuthGroup, PinScreens
  <2>7. QED  BY <1>4, <2>1, <2>2, <2>3, <2>4, <2>5, <2>6 DEF Startup
<1>5. CASE SharedRefresh
  <2>1. CASE RefreshServer
    <3>1. CASE Live(refresh.tok)
      <4>1. issued + 1 \in Token
        BY <1>0, <2>1, <3>1 DEF RefreshServer, Rotate
      <4>2. [refresh EXCEPT !.step = "rotated", !.new = issued + 1] \in Refreshes
        BY <1>0, <4>1, RequestSteps, Records
      <4>3. QED  BY <2>1, <3>1, <4>1, <4>2 DEF RefreshServer, Rotate
    <3>2. CASE ~Live(refresh.tok)
      <4>1. refresh' = [refresh EXCEPT !.step = "refused"]
        BY <2>1, <3>2 DEF RefreshServer
      <4>2. refresh' \in Refreshes
        BY <1>0, <4>1, RequestSteps, Records
      <4>3. QED  BY <2>1, <3>2, <4>2 DEF RefreshServer
    <3>3. QED  BY <3>1, <3>2
  <2>2. CASE RefreshLost
    <3>1. refresh' \in Refreshes
      BY <1>0, <2>2, RequestSteps, Records DEF RefreshLost
    <3>2. QED  BY <1>1, <2>2, <3>1 DEF RefreshLost, server
  <2>3. CASE RefreshKeeps
    <3>1. disk' \in Disks /\ store' \in Stores
      BY <1>0, <2>3, DeviceSteps DEF RefreshKeeps
    <3>2. \A r \in Requests : [req[r] EXCEPT !.step = "sent", !.tok = refresh.new, !.retried = TRUE] \in Calls
      BY <1>0, RequestSteps
    <3>3. req' \in [Requests -> Calls]
      BY <2>3, <3>2 DEF RefreshKeeps
    <3>4. QED  BY <2>3, <3>1, <3>3, Records DEF RefreshKeeps, server
  <2>4. CASE RefreshDrops
    BY <2>4, Records DEF RefreshDrops, Forget, server
  <2>5. QED  BY <1>5, <2>1, <2>2, <2>3, <2>4 DEF SharedRefresh
<1>6. CASE ServerRevokes \/ \E s \in 1 .. MaxSessions : AccessExpires(s)
  BY <1>2, <1>6 DEF ServerRevokes, AccessExpires
<1>7. ASSUME NEW r \in Requests, NEW kind \in {"query", "plan"}, Send(r, kind) PROVE TypeOK'
  BY <1>0, <1>7, Records DEF Send, server
<1>8. ASSUME NEW r \in Requests, Answer(r) PROVE TypeOK'
  <2>1. CASE Settled(r)
    BY <2>1, Records DEF Settled, server
  <2>2. CASE Unauthorized(r)
    <3>1. [req[r] EXCEPT !.step = "waiting"] \in Calls /\ (boot.step # "done") \in BOOLEAN
          /\ [boot EXCEPT !.beside = TRUE] \in Boots
      BY <1>0, RequestSteps
    <3>2. req' \in [Requests -> Calls] /\ disk' \in Disks /\ store' \in Stores
      BY <2>2, <3>1, Records DEF Unauthorized, Forget
    <3>3. refresh' \in Refreshes
      BY <1>0, <2>2, <3>1, Records DEF Unauthorized
    <3>4. boot' \in Boots
      BY <2>2, <3>1 DEF Unauthorized
    <3>5. QED  BY <2>2, <3>2, <3>3, <3>4 DEF Unauthorized, server
  <2>3. QED  BY <1>8, <2>1, <2>2 DEF Answer
<1>9. QED  BY <1>3, <1>4, <1>5, <1>6, <1>7, <1>8 DEF Next

-----------------------------------------------------------------------------
(* The application: no refusal of its own making.                            *)

Rotated(c, n) == c.step = "rotated" /\ c.tok = n

\* The successor of a rotation under way is nobody's token yet.
Successors ==
    /\ \A c \in {boot, refresh} : c.step = "rotated" =>
        /\ c.new \in 1 .. issued /\ ended[c.new] # "rotated"
        /\ c.new \notin {disk.token, boot.tok, refresh.tok}
    /\ boot.step = "rotated" /\ refresh.step = "rotated" => boot.new # refresh.new

\* A stored token that was rotated waits for its successor, or has lost it.
DiskRotated ==
    disk.token # 0 /\ ended[disk.token] = "rotated" =>
        disk.token \in lost \/ Rotated(boot, disk.token) \/ Rotated(refresh, disk.token)

\* A refresh that has no other beside it is alone.
Alone ==
    /\ refresh.step = "sent" /\ ~refresh.beside => boot.step = "done"
    /\ boot.step = "sent" /\ ~boot.beside => refresh.step \notin {"sent", "rotated"}

SessionInv == NoSelfRefusal /\ Issued /\ Successors /\ DiskRotated /\ Alone

LEMMA InitSessionInv == Init => SessionInv
<1> SUFFICES ASSUME Init PROVE SessionInv
  OBVIOUS
<1>1. TypeOK
  BY InitTypeOK
<1>2. QED
  BY <1>1 DEF Init, NoDisk, NoCall, NoRefresh, SessionInv, NoSelfRefusal, Issued, Successors, DiskRotated, Alone

\* SessionInv is inductive.
LEMMA NextSessionInv == SessionInv /\ [Next]_vars => SessionInv'
<1> SUFFICES ASSUME SessionInv, [Next]_vars PROVE SessionInv'
  OBVIOUS
<1>0. /\ TypeOK /\ TypeOK'
  BY NextTypeOK DEF SessionInv, NoSelfRefusal
<1>1. /\ issued \in Nat /\ MaxSessions \in Nat /\ issued <= MaxSessions /\ issued' \in Nat
      /\ boot.tok \in Nat /\ boot.new \in Nat /\ refresh.tok \in Nat /\ refresh.new \in Nat
      /\ disk.token \in Nat /\ disk'.token \in Nat
      /\ ended \in [1 .. MaxSessions -> {"live", "rotated", "revoked"}]
  BY <1>0, MobileSessionAssumption
  DEF MobileSessionAssumption, TypeOK, Token, Boots, Refreshes, Disks
<1> USE <1>0 DEF SessionInv, NoSelfRefusal, Issued, Successors, DiskRotated, Alone, Rotated
<1>2. ASSUME UNCHANGED <<issued, ended, boot, refresh, lost>>, disk'.token = disk.token PROVE SessionInv'
  BY <1>2
<1>3. ASSUME UNCHANGED <<issued, ended, boot, refresh, lost>>, disk' = NoDisk PROVE SessionInv'
  BY <1>1, <1>3 DEF NoDisk
<1>4. CASE UNCHANGED vars
  BY <1>2, <1>4 DEF vars, server
\* Nobody holds the token of a sign-in yet.
<1>5. ASSUME issued < MaxSessions, NEW pin, SignIn(issued + 1, pin), UNCHANGED <<boot, refresh, lost>>,
             \A s \in 1 .. MaxSessions : (ended'[s] = "rotated") = (ended[s] = "rotated")
      PROVE  SessionInv'
  BY <1>1, <1>5 DEF SignIn
<1>6. CASE User
  <2>1. CASE Logout
    BY <1>3, <2>1 DEF Logout, Forget, server
  <2>2. CASE ContinueInvite \/ SendOtp
    BY <1>2, <2>2 DEF ContinueInvite, SendOtp, server
  <2>3. CASE VerifyOtp
    <3>1. \A s \in 1 .. MaxSessions : (ended'[s] = "rotated") = (ended[s] = "rotated")
      BY <2>3 DEF VerifyOtp, Live
    <3>2. QED  BY <1>5, <2>3, <3>1 DEF VerifyOtp
  <2>4. CASE PinSetup
    <3>1. disk'.token = disk.token
      BY <2>4 DEF PinSetup, TypeOK, Disks
    <3>2. QED  BY <1>2, <2>4, <3>1 DEF PinSetup
  <2>5. CASE PinVerify
    BY <1>5, <2>5 DEF PinVerify
  <2>6. CASE Kill
    <3>1. \A n : Rotated(boot, n) \/ Rotated(refresh, n) => n \in lost'
      BY <2>6 DEF Kill
    <3>2. QED  BY <1>1, <2>6, <3>1 DEF Kill, NoCall, NoRefresh, server
  <2>7. QED  BY <1>6, <2>1, <2>2, <2>3, <2>4, <2>5, <2>6 DEF User
<1>7. CASE Startup
  <2>1. CASE BootStart
    <3>1. /\ UNCHANGED <<issued, ended, disk, refresh, lost>> /\ boot.step = "none"
          /\ boot'.step \in {"sent", "done"} /\ boot'.tok \in {0, disk.token} /\ boot'.new = 0
          /\ boot'.step = "sent" => boot'.tok = disk.token /\ boot'.beside = (refresh.step # "none")
      BY <2>1 DEF BootStart, Booted, NoCall, server
    <3>2. NoSelfRefusal'
      <4>1. boot'.step = "sent" => boot'.tok = disk.token /\ disk.token # 0
        BY <2>1, <3>1 DEF BootStart, Booted, NoCall
      <4>2. boot'.step = "sent" /\ ended[boot'.tok] = "rotated" => boot'.beside \/ boot'.tok \in lost'
        BY <3>1, <4>1
      <4>3. QED  BY <3>1, <4>2
    <3>a. boot'.tok <= issued /\ (boot'.step = "sent" => boot'.tok # 0)
      BY <1>1, <2>1, <3>1 DEF BootStart, Booted, NoCall
    <3>b. Issued'
      BY <3>1, <3>a
    <3>3. Successors'
      BY <3>1
    <3>4. DiskRotated' /\ Alone'
      BY <3>1
    <3>5. QED  BY <3>2, <3>3, <3>4, <3>b
  <2>2. CASE BootServer
    <3>1. CASE Live(boot.tok)
      <4>0. boot' = [boot EXCEPT !.step = "rotated", !.new = issued + 1]
        BY <2>2, <3>1 DEF BootServer
      <4>a. boot'.step = "rotated" /\ boot'.tok = boot.tok /\ boot'.new = issued + 1
        BY <4>0 DEF TypeOK, Boots
      <4>1. /\ boot'.step = "rotated" /\ boot'.tok = boot.tok /\ boot'.new = issued + 1
            /\ boot.tok \in 1 .. issued /\ boot.step = "sent"
            /\ issued' = issued + 1 /\ issued + 1 <= MaxSessions
            /\ UNCHANGED <<disk, refresh, lost>>
        BY <1>1, <2>2, <3>1, <4>a DEF BootServer, Rotate, Live
      <4>2. \A s \in 1 .. MaxSessions : ended'[s] = IF s = boot.tok THEN "rotated" ELSE ended[s]
        BY <1>1, <2>2, <3>1 DEF BootServer, Rotate
      <4>3. Issued' /\ Successors'
        BY <1>1, <4>1, <4>2
      <4>4. DiskRotated' /\ Alone' /\ NoSelfRefusal'
        BY <1>1, <4>1, <4>2
      <4>5. QED  BY <4>3, <4>4
    <3>2. CASE ~Live(boot.tok)
      BY <1>1, <2>2, <3>2 DEF BootServer, TypeOK, Boots
    <3>3. QED  BY <3>1, <3>2
  <2>3. CASE BootLost
    BY <1>1, <2>3 DEF BootLost, server, TypeOK, Boots
  <2>4. CASE BootKeeps
    BY <1>1, <2>4 DEF BootKeeps, Booted, NoCall, server, TypeOK, Disks
  <2>5. CASE BootDrops
    BY <1>1, <2>5 DEF BootDrops, Booted, NoCall, NoDisk, server
  <2>6. CASE GuardRedirect
    BY <1>2, <2>6 DEF GuardRedirect, server
  <2>7. QED  BY <1>7, <2>1, <2>2, <2>3, <2>4, <2>5, <2>6 DEF Startup
<1>8. CASE SharedRefresh
  <2>1. CASE RefreshServer
    <3>1. CASE Live(refresh.tok)
      <4>0. refresh' = [refresh EXCEPT !.step = "rotated", !.new = issued + 1]
        BY <2>1, <3>1 DEF RefreshServer
      <4>a. refresh'.step = "rotated" /\ refresh'.tok = refresh.tok /\ refresh'.new = issued + 1
        BY <4>0 DEF TypeOK, Refreshes
      <4>1. /\ refresh'.step = "rotated" /\ refresh'.tok = refresh.tok /\ refresh'.new = issued + 1
            /\ refresh.tok \in 1 .. issued /\ refresh.step = "sent"
            /\ issued' = issued + 1 /\ issued + 1 <= MaxSessions
            /\ UNCHANGED <<disk, boot, lost>>
        BY <1>1, <2>1, <3>1, <4>a DEF RefreshServer, Rotate, Live
      <4>2. \A s \in 1 .. MaxSessions : ended'[s] = IF s = refresh.tok THEN "rotated" ELSE ended[s]
        BY <1>1, <2>1, <3>1 DEF RefreshServer, Rotate
      <4>3. Issued' /\ Successors'
        BY <1>1, <4>1, <4>2
      <4>4. DiskRotated' /\ Alone' /\ NoSelfRefusal'
        BY <1>1, <4>1, <4>2
      <4>5. QED  BY <4>3, <4>4
    <3>2. CASE ~Live(refresh.tok)
      BY <1>1, <2>1, <3>2 DEF RefreshServer, TypeOK, Refreshes
    <3>3. QED  BY <3>1, <3>2
  <2>2. CASE RefreshLost
    BY <1>1, <2>2 DEF RefreshLost, server, TypeOK, Refreshes
  <2>3. CASE RefreshKeeps
    <3>1. /\ refresh.step = "rotated" /\ refresh'.step = "none" /\ refresh'.tok = 0
          /\ disk'.token = refresh.new
          /\ UNCHANGED <<issued, ended, boot, lost>>
      BY <2>3 DEF RefreshKeeps, NoRefresh, NoCall, server, TypeOK, Disks
    <3>2. refresh.new \in 1 .. issued /\ ended[refresh.new] # "rotated"
      BY <3>1
    <3>3. Successors'
      BY <1>1, <3>1, <3>2
    <3>4. QED  BY <1>1, <3>1, <3>2, <3>3
  <2>4. CASE RefreshDrops
    BY <1>1, <2>4 DEF RefreshDrops, Forget, NoDisk, NoRefresh, NoCall, server
  <2>5. QED  BY <1>8, <2>1, <2>2, <2>3, <2>4 DEF SharedRefresh
<1>9. CASE ServerRevokes \/ \E s \in 1 .. MaxSessions : AccessExpires(s)
  <2>1. CASE ServerRevokes
    <3>1. \A s \in 1 .. MaxSessions : (ended'[s] = "rotated") = (ended[s] = "rotated")
      BY <2>1 DEF ServerRevokes, Live
    <3>2. QED  BY <1>1, <2>1, <3>1 DEF ServerRevokes
  <2>2. CASE \E s \in 1 .. MaxSessions : AccessExpires(s)
    BY <1>2, <2>2 DEF AccessExpires
  <2>3. QED  BY <1>9, <2>1, <2>2
<1>10. ASSUME NEW r \in Requests, NEW kind \in {"query", "plan"}, Send(r, kind) PROVE SessionInv'
  BY <1>2, <1>10 DEF Send, server
<1>11. ASSUME NEW r \in Requests, Answer(r) PROVE SessionInv'
  <2>1. CASE Settled(r)
    BY <1>2, <2>1 DEF Settled, server
  <2>2. CASE Unauthorized(r)
    <3>1. CASE UNCHANGED <<disk, store, boot, refresh>>
      BY <1>2, <2>2, <3>1 DEF Unauthorized, server
    <3>2. CASE /\ refresh.step = "none" /\ disk.token # 0 /\ UNCHANGED <<disk, store>>
               /\ refresh' = [step |-> "sent", tok |-> disk.token, new |-> 0, beside |-> boot.step # "done"]
               /\ boot' = IF boot.step = "sent" THEN [boot EXCEPT !.beside = TRUE] ELSE boot
      <4>1. /\ refresh'.step = "sent" /\ refresh'.tok = disk.token
            /\ refresh'.beside = (boot.step # "done") /\ refresh'.new = 0
            /\ UNCHANGED <<issued, ended, disk, lost>>
            /\ boot'.step = boot.step /\ boot'.tok = boot.tok /\ boot'.new = boot.new
            /\ boot'.beside = (boot.step = "sent" \/ boot.beside)
        BY <2>2, <3>2 DEF Unauthorized, server, TypeOK, Boots
      <4>2. Issued' /\ Successors'
        BY <1>1, <3>2, <4>1
      <4>3. DiskRotated' /\ Alone' /\ NoSelfRefusal'
        BY <1>1, <3>2, <4>1
      <4>4. QED  BY <4>2, <4>3
    <3>3. CASE refresh.step \in {"stuck", "none"} /\ refresh' = [NoRefresh EXCEPT !.step = "stuck"] /\ Forget /\ UNCHANGED boot
      BY <1>1, <2>2, <3>3 DEF Unauthorized, Forget, NoDisk, NoRefresh, NoCall, server
    <3>4. QED  BY <2>2, <3>1, <3>2, <3>3 DEF Unauthorized
  <2>3. QED  BY <1>11, <2>1, <2>2 DEF Answer
<1>12. QED  BY <1>4, <1>6, <1>7, <1>8, <1>9, <1>10, <1>11 DEF Next

\* Of the interceptor's shared refresh and the guard's request at start-up, neither
\* presents a token that a rotation of this same installation has used up, unless the
\* answer of that rotation was lost or the two were under way together
\* (client.ts:93-134, _layout.tsx:83-99).
THEOREM MobileNoSelfRefusal == Spec => []NoSelfRefusal
<1>1. SessionInv => NoSelfRefusal
  BY DEF SessionInv
<1>2. QED  BY <1>1, InitSessionInv, NextSessionInv, PTL DEF Spec

-----------------------------------------------------------------------------
(* The web: the same server, its own variables.                              *)

CONSTANT Tabs
VARIABLES cookie, stored, tab, event, call

Web == INSTANCE WebSession

\* The values the actions give to the records.
LEMMA WebRecords ==
    /\ Web!Closed \in Web!Sessions /\ Web!NoRefresh \in Web!Refreshes /\ Web!NoCall \in Web!Calls
    /\ \A a \in BOOLEAN, n \in Web!Token : [open |-> TRUE, auth |-> a, token |-> n] \in Web!Sessions
    /\ \A n \in Web!Token : [step |-> "sent", tok |-> n, new |-> 0] \in Web!Refreshes
    /\ \A n \in Web!Token, k \in {"query", "signout"} :
         [step |-> "sent", tok |-> n, retried |-> FALSE, kind |-> k] \in Web!Calls
<1>1. 0 \in Web!Token
  BY MobileSessionAssumption DEF MobileSessionAssumption, Web!Token
<1>2. QED  BY <1>1 DEF Web!Closed, Web!NoRefresh, Web!NoCall, Web!Sessions, Web!Refreshes, Web!Calls

LEMMA WebSessionSteps ==
    ASSUME NEW s \in Web!Sessions, NEW n \in Web!Token
    PROVE  /\ [s EXCEPT !.auth = FALSE, !.token = 0] \in Web!Sessions
           /\ [s EXCEPT !.token = n] \in Web!Sessions
           /\ \A a \in BOOLEAN : [s EXCEPT !.auth = a] \in Web!Sessions
<1>1. 0 \in Web!Token
  BY MobileSessionAssumption DEF MobileSessionAssumption, Web!Token
<1>2. QED  BY <1>1 DEF Web!Sessions

LEMMA WebRequestSteps ==
    ASSUME NEW r \in Web!Refreshes, NEW c \in Web!Calls, NEW n \in Web!Token
    PROVE  /\ [r EXCEPT !.step = "refused"] \in Web!Refreshes
           /\ [r EXCEPT !.step = "failed"] \in Web!Refreshes
           /\ [r EXCEPT !.step = "rotated", !.new = n] \in Web!Refreshes
           /\ [c EXCEPT !.step = "waiting"] \in Web!Calls
           /\ [c EXCEPT !.step = "sent", !.tok = n, !.retried = TRUE] \in Web!Calls
BY DEF Web!Refreshes, Web!Calls

LEMMA WebInit == Web!Init => Web!TabsAgree
<1>1. 0 \in Web!Token
  BY MobileSessionAssumption DEF MobileSessionAssumption, Web!Token
<1>2. Web!Init => Web!TypeOK
  BY <1>1, WebRecords DEF Web!Init, Web!TypeOK
<1>3. QED  BY <1>2 DEF Web!Init, Web!TabsAgree, Web!Closed

\* What is left to check of a step when the types of the server's rows, the
\* requests and the calls are known.
WebKeeps ==
    /\ tab' \in [Tabs -> Web!Sessions] /\ stored' \in BOOLEAN /\ event' \subseteq Tabs
    /\ \A u \in Tabs : tab'[u].open /\ u \notin event' => tab'[u].auth = stored'

\* Setting the session of a tab keeps the agreement of the tabs.
LEMMA WebSetStore ==
    ASSUME Web!TabsAgree, NEW t \in Tabs, NEW session \in Web!Sessions, Web!SetStore(t, session)
    PROVE  WebKeeps
<1> USE DEF Web!TabsAgree, Web!TypeOK
<1>1. /\ tab' = [tab EXCEPT ![t] = session]
      /\ stored' = session.auth
      /\ event' = IF session.auth # stored THEN event \cup Web!Others(t) ELSE event
  BY DEF Web!SetStore
<1>2. tab' \in [Tabs -> Web!Sessions]
  BY <1>1
<1>3. stored' \in BOOLEAN /\ event' \subseteq Tabs
  BY <1>1 DEF Web!Others, Web!Sessions
<1>4. ASSUME NEW u \in Tabs, tab'[u].open, u \notin event' PROVE tab'[u].auth = stored'
  <2>1. CASE u = t
    BY <1>1, <2>1
  <2>2. CASE u # t
    <3>1. tab'[u] = tab[u] /\ tab[u].open
      BY <1>1, <1>4, <2>2
    <3>2. session.auth = stored /\ u \notin event
      BY <1>1, <1>4, <2>2, <3>1 DEF Web!Others
    <3>3. QED  BY <1>1, <3>1, <3>2
  <2>3. QED  BY <2>1, <2>2
<1>5. QED  BY <1>2, <1>3, <1>4 DEF WebKeeps

\* TabsAgree is inductive.
LEMMA WebNext == Web!TabsAgree /\ [Web!Next]_(Web!vars) => Web!TabsAgree'
<1> SUFFICES ASSUME Web!TabsAgree, [Web!Next]_(Web!vars) PROVE Web!TabsAgree'
  OBVIOUS
<1> USE DEF Web!TabsAgree, Web!TypeOK
<1>0. /\ 0 \in Web!Token /\ issued \in Nat
      /\ issued < MaxSessions => issued + 1 \in Web!Token
      /\ issued \in 1 .. MaxSessions \/ issued = 0
  BY MobileSessionAssumption DEF MobileSessionAssumption, Web!Token
<1>1. CASE UNCHANGED Web!vars
  BY <1>1 DEF Web!vars
\* Steps that touch no tab, and leave the types as they are.
<1>a. ASSUME UNCHANGED <<tab, stored, event>>, Web!TypeOK' PROVE Web!TabsAgree'
  BY <1>a
<1>b. ASSUME WebKeeps, issued' \in Web!Token, cookie' \in Web!Token, expired' = expired,
             ended' \in [1 .. MaxSessions -> {"live", "rotated", "revoked"}],
             refresh' \in [Tabs -> Web!Refreshes], call' \in [Tabs -> Web!Calls]
      PROVE  Web!TabsAgree'
  BY <1>b DEF WebKeeps
<1>2. CASE Web!ServerRevokes \/ \E s \in 1 .. MaxSessions : Web!AccessExpires(s)
  BY <1>a, <1>2 DEF Web!ServerRevokes, Web!AccessExpires, Web!Revoked
<1>3. ASSUME NEW t \in Tabs, Web!Open(t) \/ Web!Close(t) \/ Web!StorageEvent(t) \/ Web!Bootstrap(t)
      PROVE  Web!TabsAgree'
  <2>1. CASE Web!Open(t)
    <3>1. [open |-> TRUE, auth |-> stored, token |-> 0] \in Web!Sessions
      BY <1>0, WebRecords
    <3>2. WebKeeps
      BY <2>1, <3>1 DEF Web!Open, WebKeeps
    <3>3. QED  BY <1>b, <2>1, <3>2 DEF Web!Open, Web!server
  <2>2. CASE Web!Close(t)
    <3>1. WebKeeps
      BY <2>2, WebRecords DEF Web!Close, Web!Closed, WebKeeps
    <3>2. QED  BY <1>b, <2>2, <3>1, WebRecords DEF Web!Close, Web!server
  <2>3. CASE Web!StorageEvent(t)
    <3>1. [tab[t] EXCEPT !.auth = stored] \in Web!Sessions
      BY <1>0, WebSessionSteps
    <3>2. WebKeeps
      BY <2>3, <3>1 DEF Web!StorageEvent, WebKeeps, Web!Sessions
    <3>3. QED  BY <1>b, <2>3, <3>2 DEF Web!StorageEvent, Web!server
  <2>4. CASE Web!Bootstrap(t)
    BY <1>a, <2>4, WebRecords DEF Web!Bootstrap, Web!StartRefresh, Web!server
  <2>5. QED  BY <1>3, <2>1, <2>2, <2>3, <2>4
<1>4. \A t \in Tabs : tab[t] \in Web!Sessions /\ Web!SignedOut(t) \in Web!Sessions
  BY <1>0, WebSessionSteps DEF Web!SignedOut
<1>5. ASSUME NEW t \in Tabs, Web!Refresh(t) PROVE Web!TabsAgree'
  <2>0. refresh[t] \in Web!Refreshes /\ refresh[t].new \in Web!Token /\ refresh[t].tok \in Web!Token
    BY DEF Web!Refreshes
  <2>1. CASE Web!RefreshServer(t)
    <3>1. CASE Web!Live(refresh[t].tok)
      <4>1. [refresh[t] EXCEPT !.step = "rotated", !.new = issued + 1] \in Web!Refreshes
        BY <1>0, <2>0, <2>1, <3>1, WebRequestSteps DEF Web!RefreshServer
      <4>2. QED  BY <1>0, <1>a, <2>1, <3>1, <4>1 DEF Web!RefreshServer
    <3>2. CASE ~Web!Live(refresh[t].tok)
      <4>1. [refresh[t] EXCEPT !.step = "refused"] \in Web!Refreshes
        BY <1>0, <2>0, WebRequestSteps
      <4>2. QED  BY <1>a, <2>1, <3>2, <4>1 DEF Web!RefreshServer
    <3>3. QED  BY <3>1, <3>2
  <2>2. CASE Web!RefreshFails(t)
    <3>1. [refresh[t] EXCEPT !.step = "failed"] \in Web!Refreshes
      BY <1>0, <2>0, WebRequestSteps
    <3>2. QED  BY <1>a, <2>2, <3>1 DEF Web!RefreshFails, Web!server
  <2>3. CASE Web!RefreshKeeps(t)
    <3>1. [tab[t] EXCEPT !.token = refresh[t].new] \in Web!Sessions
      BY <1>4, <2>0, WebSessionSteps
    <3>2. WebKeeps
      BY <2>3, <3>1, WebSetStore DEF Web!RefreshKeeps
    <3>3. [call[t] EXCEPT !.step = "sent", !.tok = refresh[t].new, !.retried = TRUE] \in Web!Calls
      BY <2>0, WebRequestSteps
    <3>4. call' \in [Tabs -> Web!Calls]
      BY <2>3, <3>3 DEF Web!RefreshKeeps
    <3>5. QED  BY <1>b, <2>0, <2>3, <3>2, <3>4, WebRecords DEF Web!RefreshKeeps, Web!server
  <2>4. CASE Web!RefreshDrops(t)
    <3>1. WebKeeps
      BY <1>4, <2>4, WebSetStore DEF Web!RefreshDrops
    <3>2. QED  BY <1>0, <1>b, <2>4, <3>1, WebRecords DEF Web!RefreshDrops, Web!server
  <2>5. QED  BY <1>5, <2>1, <2>2, <2>3, <2>4 DEF Web!Refresh
<1>6. ASSUME NEW t \in Tabs, Web!Settle(t), Web!Accepted(t) \/ Web!Rejected(t) PROVE Web!TabsAgree'
  <2>1. WebKeeps
    <3>1. CASE call[t].kind = "signout"
      BY <1>4, <1>6, <3>1, WebSetStore DEF Web!Settle
    <3>2. CASE call[t].kind # "signout"
      BY <1>6, <3>2 DEF Web!Settle, WebKeeps
    <3>3. QED  BY <3>1, <3>2
  <2>2. call' \in [Tabs -> Web!Calls]
    BY <1>6, WebRecords DEF Web!Settle
  <2>3. ended' \in [1 .. MaxSessions -> {"live", "rotated", "revoked"}] /\ cookie' \in Web!Token
    BY <1>0, <1>6 DEF Web!Accepted, Web!Rejected, Web!Revoked, Web!server
  <2>4. QED  BY <1>6, <1>b, <2>1, <2>2, <2>3 DEF Web!Accepted, Web!Rejected, Web!server
<1>7. ASSUME NEW t \in Tabs, Web!Answer(t) PROVE Web!TabsAgree'
  <2>1. CASE Web!Unauthorized(t)
    <3>1. [call[t] EXCEPT !.step = "waiting"] \in Web!Calls
      BY <1>0, WebRequestSteps, WebRecords
    <3>2. QED  BY <1>a, <2>1, <3>1, WebRecords DEF Web!Unauthorized, Web!StartRefresh, Web!server
  <2>2. CASE Web!Accepted(t) \/ Web!Rejected(t)
    BY <1>6, <2>2 DEF Web!Accepted, Web!Rejected
  <2>3. QED  BY <1>7, <2>1, <2>2 DEF Web!Answer
<1>8. ASSUME NEW t \in Tabs, Web!Login(t) PROVE Web!TabsAgree'
  <2>1. issued + 1 \in Web!Token
    BY <1>0, <1>8 DEF Web!Login
  <2>2. [open |-> TRUE, auth |-> TRUE, token |-> issued + 1] \in Web!Sessions
    BY <2>1, WebRecords
  <2>3. WebKeeps
    BY <1>8, <2>2, WebSetStore DEF Web!Login
  <2>4. QED  BY <1>8, <1>b, <2>1, <2>3 DEF Web!Login, Web!Revoked
<1>9. ASSUME NEW t \in Tabs, NEW kind \in {"query", "signout"}, Web!Send(t, kind) PROVE Web!TabsAgree'
  <2>1. [step |-> "sent", tok |-> tab[t].token, retried |-> FALSE, kind |-> kind] \in Web!Calls
    BY <1>4, WebRecords DEF Web!Sessions
  <2>2. QED  BY <1>a, <1>9, <2>1 DEF Web!Send, Web!server
<1>10. QED  BY <1>1, <1>2, <1>3, <1>5, <1>7, <1>8, <1>9 DEF Web!Next

\* Tabs without an undelivered storage event agree with the stored session on
\* whether somebody is signed in (sessionStore.ts:21-71, AuthBootstrap.tsx:13-21).
THEOREM WebTabsAgree == Web!Spec => []Web!TabsAgree
BY WebInit, WebNext, PTL DEF Web!Spec
=============================================================================
