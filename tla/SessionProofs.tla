---------------------------- MODULE SessionProofs ----------------------------
(***************************************************************************)
(* Proofs about Session, for any sets of calls and requests and any bounds *)
(* on the clock and on the rows.                                           *)
(***************************************************************************)
EXTENDS Session, TLAPS

-----------------------------------------------------------------------------
(* Type correctness *)

At == {"free", "transit", "insert", "revoke", "answered", "lost"}

\* A number is a second, and a row, as far as the bounds reach.
LEMMA Bounds ==
    /\ 0 \in Stamp /\ 0 \in Row
    /\ \A t \in 1 .. MaxClock : t \in Stamp
BY SessionConstants DEF Stamp, Row

LEMMA IdleCallType == IdleCall \in Call
BY Bounds DEF IdleCall, Call

LEMMA FreeRequestType == FreeRequest \in Request
BY Bounds DEF FreeRequest, Request, Kind

LEMMA CallFields ==
    ASSUME NEW c \in Call
    PROVE  /\ [c EXCEPT !.at = "waiting"] \in Call
           /\ [c EXCEPT !.at = "refused", !.token = 0] \in Call
BY Bounds DEF Call

LEMMA RequestFields ==
    ASSUME NEW q \in Request, NEW a \in At
    PROVE  /\ q.issued \in Stamp /\ q.token \in Stamp /\ q.row \in Row
           /\ [q EXCEPT !.at = a] \in Request
           /\ [q EXCEPT !.awaited = FALSE] \in Request
           /\ \A t \in Stamp : [q EXCEPT !.at = a, !.issued = t] \in Request
           /\ \A r \in Row : [q EXCEPT !.at = a, !.row = r] \in Request
           /\ \A r \in Row, t \in Stamp :
                  [q EXCEPT !.at = a, !.row = r, !.issued = t] \in Request
BY DEF Request, At

LEMMA SendType ==
    ASSUME TypeOK, NEW q \in Requests, NEW kind \in Kind, SendAuth(q, kind)
    PROVE  req' \in [Requests -> Request] /\ overlap' \in BOOLEAN
<1>1. [FreeRequest EXCEPT !.kind = kind, !.at = "transit",
          !.token = IF kind = "login" THEN 0 ELSE refresh, !.awaited = TRUE] \in Request
  BY FreeRequestType, Bounds DEF Request, TypeOK
<1> QED
  BY <1>1 DEF SendAuth, TypeOK, Awaits

LEMMA AnsweredType ==
    ASSUME NEW q \in Request, NEW t \in Stamp PROVE Answered(q, t) \in Request
BY RequestFields, FreeRequestType DEF Answered, At

LEMMA AbandonType == ASSUME NEW q \in Request PROVE Abandon(q) \in Request
BY RequestFields, FreeRequestType DEF Abandon, At

\* The steps of a call, of the phone with a request, and of the server.
LEMMA CallTypes ==
    ASSUME TypeOK, NEW c \in Calls, CallStep(c) PROVE TypeOK'
<1> USE DEF stored, time, table, past
<1>1. CASE SendCall(c)
  <2>1. [IdleCall EXCEPT !.at = "sent", !.token = access] \in Call
    BY IdleCallType DEF TypeOK, Call
  <2> QED
    BY <1>1, <2>1 DEF SendCall, TypeOK
<1>2. CASE CallEnds(c) \/ GiveUpCall(c)
  BY <1>2, IdleCallType DEF CallEnds, GiveUpCall, TypeOK
<1>3. CASE Unauthorized(c)
  BY <1>3, CallFields DEF Unauthorized, TypeOK
<1>4. CASE JoinRefresh(c)
  BY <1>4, CallFields DEF JoinRefresh, TypeOK
<1>5. ASSUME NEW q \in Requests, StartRefresh(c, q) PROVE TypeOK'
  <2>1. req' \in [Requests -> Request] /\ overlap' \in BOOLEAN
    BY <1>5, SendType DEF StartRefresh, Kind
  <2> QED
    BY <1>5, <2>1, CallFields DEF StartRefresh, TypeOK
<1> QED
  BY <1>1, <1>2, <1>3, <1>4, <1>5 DEF CallStep

LEMMA RepeatType ==
    ASSUME TypeOK, NEW t \in Stamp, Repeat(t) \/ FailWaiting
    PROVE  call' \in [Calls -> Call]
<1>1. [at |-> "sent", token |-> t, noRefresh |-> TRUE] \in Call
  BY DEF Call
<1>2. \A c \in Calls : call[c] \in Call
  BY DEF TypeOK
<1> QED
  BY <1>1, <1>2, IdleCallType DEF Repeat, FailWaiting

LEMMA PhoneTypes ==
    ASSUME TypeOK, NEW q \in Requests, PhoneStep(q) PROVE TypeOK'
<1> USE DEF stored, time, table, past
<1>0. req[q] \in Request /\ req[q].issued \in Stamp
  BY RequestFields DEF TypeOK, At
<1>1. CASE RefreshDone(q)
  <2>1. call' \in [Calls -> Call]
    BY <1>0, <1>1, RepeatType DEF RefreshDone
  <2> QED
    BY <1>0, <1>1, <2>1, FreeRequestType DEF RefreshDone, TakeAnswer, StoreTokens, TypeOK
<1>2. CASE RefreshRefused(q)
  <2>1. call' \in [Calls -> Call]
    BY <1>0, <1>2, RepeatType DEF RefreshRefused
  <2> QED
    BY <1>2, <2>1, FreeRequestType, Bounds DEF RefreshRefused, TakeAnswer, ClearTokens, TypeOK
<1>3. CASE StartLogin(q)
  <2>1. req' \in [Requests -> Request] /\ overlap' \in BOOLEAN
    BY <1>3, SendType DEF StartLogin, Kind
  <2> QED
    BY <1>3, <2>1 DEF StartLogin, TypeOK
<1>4. CASE LoginDone(q)
  BY <1>0, <1>4, FreeRequestType DEF LoginDone, TakeAnswer, StoreTokens, TypeOK
<1>5. CASE StartLogout(q)
  <2>1. req' \in [Requests -> Request] /\ overlap' \in BOOLEAN
    BY <1>5, SendType DEF StartLogout, Kind
  <2> QED
    BY <1>5, <2>1 DEF StartLogout, TypeOK
<1>6. CASE LogoutDone(q)
  BY <1>6, FreeRequestType, Bounds
  DEF LogoutDone, TakeAnswer, SignOut, ClearTokens, Awaits, TypeOK
<1>7. CASE RefreshFails(q)
  <2>1. call' \in [Calls -> Call]
    BY <1>0, <1>7, RepeatType DEF RefreshFails
  <2> QED
    BY <1>0, <1>7, <2>1, AbandonType, Bounds DEF RefreshFails, Reject, ClearTokens, TypeOK
<1>8. CASE LoginFails(q)
  BY <1>0, <1>8, AbandonType DEF LoginFails, Reject, TypeOK
<1>9. CASE LogoutFails(q)
  BY <1>0, <1>9, AbandonType, Bounds
  DEF LogoutFails, Reject, SignOut, ClearTokens, Awaits, TypeOK
<1> QED
  BY <1>1, <1>2, <1>3, <1>4, <1>5, <1>6, <1>7, <1>8, <1>9 DEF PhoneStep

LEMMA AuthTypes ==
    ASSUME TypeOK, NEW q \in Requests, AuthStep(q) \/ LoseAuth(q) PROVE TypeOK'
<1> USE DEF stored, time, table, past
<1>0. req[q] \in Request /\ req[q].issued \in Stamp /\ clock \in Stamp
  BY RequestFields, Bounds DEF TypeOK, At
<1>1. CASE RefreshFind(q)
  <2> PICK r \in FindOne(req[q].token) :
          req' = [req EXCEPT ![q] = IF r \in live
                                    THEN [@ EXCEPT !.at = "insert", !.row = r, !.issued = clock]
                                    ELSE Answered(@, 0)]
    BY <1>1 DEF RefreshFind
  <2>1. r \in Row
    BY SessionConstants DEF FindOne, Row, TypeOK
  <2>2. /\ [req[q] EXCEPT !.at = "insert", !.row = r, !.issued = clock] \in Request
        /\ Answered(req[q], 0) \in Request
    BY <1>0, <2>1, RequestFields, AnsweredType, Bounds DEF At
  <2> QED
    BY <1>1, <2>2 DEF RefreshFind, TypeOK
<1>2. CASE LoginSign(q)
  <2>1. [req[q] EXCEPT !.at = "insert", !.issued = clock] \in Request
    BY <1>0, RequestFields DEF At
  <2> QED
    BY <1>2, <2>1 DEF LoginSign, TypeOK
<1>3. CASE InsertToken(q)
  <2>1. /\ [req[q] EXCEPT !.at = "revoke"] \in Request
        /\ Answered(req[q], req[q].issued) \in Request
    BY <1>0, RequestFields, AnsweredType DEF At
  <2>2. count + 1 \in 1 .. MaxRows /\ count + 1 \in Row /\ count \in Nat
    BY <1>3, SessionConstants DEF InsertToken, TypeOK, Row
  <2> QED
    BY <1>0, <1>3, <2>1, <2>2 DEF InsertToken, TypeOK
<1>4. CASE LogoutFind(q)
  <2> PICK r \in FindOne(req[q].token) :
          req' = [req EXCEPT ![q] = IF r \in live THEN [@ EXCEPT !.at = "revoke", !.row = r]
                                    ELSE Answered(@, 0)]
    BY <1>4 DEF LogoutFind
  <2>1. r \in Row
    BY SessionConstants DEF FindOne, Row, TypeOK
  <2>2. /\ [req[q] EXCEPT !.at = "revoke", !.row = r] \in Request
        /\ Answered(req[q], 0) \in Request
    BY <1>0, <2>1, RequestFields, AnsweredType, Bounds DEF At
  <2> QED
    BY <1>4, <2>2 DEF LogoutFind, TypeOK
<1>5. CASE RevokeToken(q)
  BY <1>0, <1>5, AnsweredType DEF RevokeToken, TypeOK
<1>6. CASE AuthError(q)
  BY <1>0, <1>6, AnsweredType, Bounds DEF AuthError, TypeOK
<1>7. CASE LoseAuth(q)
  BY <1>0, <1>7, RequestFields, FreeRequestType DEF LoseAuth, TypeOK, At
<1> QED
  BY <1>1, <1>2, <1>3, <1>4, <1>5, <1>6, <1>7 DEF AuthStep

LEMMA TypeStep == TypeOK /\ [Next]_vars => TypeOK'
<1> SUFFICES ASSUME TypeOK, [Next]_vars PROVE TypeOK'
  OBVIOUS
<1> USE DEF stored, time, table, past
<1>1. CASE LogoutLocal
  BY <1>1, Bounds DEF LogoutLocal, SignOut, ClearTokens, Awaits, TypeOK
<1>2. CASE AppDies
  <2>1. access' \in Stamp /\ refresh' \in Stamp
    BY <1>2, Bounds, RequestFields DEF AppDies, TypeOK, At
  <2>2. \A q \in Requests : Abandon(req[q]) \in Request
    BY AbandonType DEF TypeOK
  <2> QED
    BY <1>2, <2>1, <2>2, IdleCallType DEF AppDies, TypeOK
<1>3. CASE Tick
  BY <1>3, SessionConstants DEF Tick, TypeOK
<1>4. CASE Expire
  BY <1>4, SessionConstants DEF Expire, TypeOK, Stamp
<1>5. CASE UNCHANGED vars
  BY <1>5 DEF vars, TypeOK
<1> QED
  BY <1>1, <1>2, <1>3, <1>4, <1>5, CallTypes, PhoneTypes, AuthTypes DEF Next

\* The phone's session, the requests and the server's table keep their types.
THEOREM SessionTypeCorrect == Spec => []TypeOK
<1>1. Init => TypeOK
  <2> SUFFICES ASSUME Init PROVE TypeOK
    OBVIOUS
  <2>1. call \in [Calls -> Call] /\ req \in [Requests -> Request]
    BY IdleCallType, FreeRequestType DEF Init
  <2>2. clock \in 1 .. MaxClock /\ live \subseteq 1 .. count
    BY SessionConstants DEF Init
  <2>3. stamp \in [1 .. MaxRows -> Stamp]
    BY Bounds DEF Init
  <2> QED
    BY <2>1, <2>2, <2>3, Bounds DEF Init, TypeOK
<1> QED
  BY <1>1, TypeStep, PTL DEF Spec

-----------------------------------------------------------------------------
(* What the phone waits for *)

\* The phone waits for an answer of this kind from request p.
Open(kind, p) == req[p].kind = kind /\ req[p].awaited

LEMMA SendOpens ==
    ASSUME TypeOK, Slots, NEW q \in Requests, NEW kind \in Kind, SendAuth(q, kind)
    PROVE  /\ \A k \in Kind : ~Open(k, q)
           /\ \A p \in Requests, k \in Kind :
                  Open(k, p)' <=> Open(k, p) \/ (p = q /\ k = kind)
           /\ Slots'
BY DEF SendAuth, Open, Slots, Slot, FreeRequest, TypeOK

\* An answer that is taken was awaited, so that taking it and giving it up are alike.
LEMMA EndCloses ==
    ASSUME TypeOK, Slots, NEW q \in Requests, NEW kind \in Kind,
           TakeAnswer(q, kind) \/ Reject(q, kind)
    PROVE  /\ Open(kind, q)
           /\ \A p \in Requests, k \in Kind : Open(k, p)' <=> Open(k, p) /\ p # q
           /\ Slots'
<1>1. CASE TakeAnswer(q, kind)
  BY <1>1 DEF TakeAnswer, Open, Slots, Slot, FreeRequest, TypeOK
<1>2. CASE Reject(q, kind)
  BY <1>2 DEF Reject, Abandon, Open, Slots, Slot, FreeRequest, TypeOK, Request
<1> QED
  BY <1>1, <1>2

LEMMA ServerKeepsOpen ==
    ASSUME TypeOK, Slots, NEW q \in Requests, AuthStep(q) \/ LoseAuth(q)
    PROVE  /\ \A p \in Requests, k \in Kind : Open(k, p)' <=> Open(k, p)
           /\ Slots'
           /\ UNCHANGED <<stored, call, signedOut, overlap>>
<1> USE DEF Open, Slots, Slot, FreeRequest, Answered, TypeOK, stored, time, table, past
<1>0. req[q] \in Request
  OBVIOUS
<1>1. CASE RefreshFind(q)
  BY <1>0, <1>1 DEF RefreshFind, Request
<1>2. CASE LoginSign(q)
  BY <1>0, <1>2 DEF LoginSign, Request
<1>3. CASE InsertToken(q)
  BY <1>0, <1>3 DEF InsertToken, Request
<1>4. CASE LogoutFind(q)
  BY <1>0, <1>4 DEF LogoutFind, Request
<1>5. CASE RevokeToken(q)
  BY <1>0, <1>5 DEF RevokeToken, Request
<1>6. CASE AuthError(q)
  BY <1>0, <1>6 DEF AuthError, Request
<1>7. CASE LoseAuth(q)
  BY <1>0, <1>7 DEF LoseAuth, Request
<1> QED
  BY <1>1, <1>2, <1>3, <1>4, <1>5, <1>6, <1>7 DEF AuthStep

\* PhoneInv in terms of Open.
LEMMA AwaitsOpen == \A k : Awaits(k) <=> \E p \in Requests : Open(k, p)
BY DEF Awaits, Open

LEMMA SingleOpen ==
    SingleRefresh <=> \A p, q \in Requests : Open("refresh", p) /\ Open("refresh", q) => p = q
BY DEF SingleRefresh, Open

LEMMA KindsAre == "refresh" \in Kind /\ "login" \in Kind /\ "logout" \in Kind
BY DEF Kind

\* After the promise of the refresh has settled no call waits.
LEMMA NoneWaits ==
    ASSUME TypeOK, NEW t \in Stamp, Repeat(t) \/ FailWaiting
    PROVE  \A c \in Calls : call'[c].at # "waiting"
BY DEF Repeat, FailWaiting, IdleCall, TypeOK

\* A step that leaves the requests and the phone's tokens alone, and makes no call wait
\* but for a refresh, keeps all of it.
LEMMA QuietKeeps ==
    ASSUME PhoneInv,
           \A p \in Requests, k \in Kind : Open(k, p)' <=> Open(k, p), Slots',
           UNCHANGED <<stored, signedOut, overlap>>,
           \A c \in Calls : call'[c].at = "waiting" =>
               call[c].at = "waiting" \/ Awaits("refresh")
    PROVE  PhoneInv'
<1>1. WaitersHaveRefresh'
  BY AwaitsOpen, KindsAre DEF PhoneInv, WaitersHaveRefresh, Awaits, Open
<1>2. SingleRefresh'
  BY KindsAre DEF PhoneInv, SingleRefresh, Open
<1>3. NoComeback'
  BY KindsAre DEF PhoneInv, NoComeback, stored, Awaits, Open
<1> QED
  BY <1>1, <1>2, <1>3 DEF PhoneInv

LEMMA CallPhoneInv ==
    ASSUME TypeOK, PhoneInv, NEW c \in Calls, CallStep(c) PROVE PhoneInv'
<1> USE DEF stored, time, table, past
<1>1. CASE SendCall(c) \/ CallEnds(c) \/ Unauthorized(c) \/ GiveUpCall(c) \/ JoinRefresh(c)
  <2>1. UNCHANGED <<stored, req, signedOut, overlap>>
    BY <1>1 DEF SendCall, CallEnds, Unauthorized, GiveUpCall, JoinRefresh
  <2>2. \A d \in Calls : call'[d].at = "waiting" => call[d].at = "waiting" \/ Awaits("refresh")
    <3> USE DEF TypeOK, IdleCall
    <3>1. CASE SendCall(c)
      BY <3>1 DEF SendCall
    <3>2. CASE CallEnds(c)
      BY <3>2 DEF CallEnds
    <3>3. CASE Unauthorized(c)
      BY <3>3 DEF Unauthorized
    <3>4. CASE GiveUpCall(c)
      BY <3>4 DEF GiveUpCall
    <3>5. CASE JoinRefresh(c)
      BY <3>5 DEF JoinRefresh
    <3> QED
      BY <1>1, <3>1, <3>2, <3>3, <3>4, <3>5
  <2>3. Slots' /\ \A p \in Requests, k \in Kind : Open(k, p)' <=> Open(k, p)
    BY <2>1 DEF PhoneInv, Slots, Slot, Open
  <2> QED
    BY <2>1, <2>2, <2>3, QuietKeeps
<1>2. ASSUME NEW q \in Requests, StartRefresh(c, q) PROVE PhoneInv'
  <2>1. SendAuth(q, "refresh") /\ ~Awaits("refresh") /\ refresh # 0
    BY <1>2 DEF StartRefresh
  <2>2. /\ Slots' /\ Open("refresh", q)'
        /\ \A p \in Requests : /\ Open("refresh", p)' => p = q
                               /\ Open("logout", p)' <=> Open("logout", p)
                               /\ Open("login", p)' <=> Open("login", p)
    <3>1. /\ Slots'
          /\ \A p \in Requests, k \in Kind :
                 Open(k, p)' <=> Open(k, p) \/ (p = q /\ k = "refresh")
      BY <2>1, SendOpens, KindsAre DEF PhoneInv
    <3>2. \A p \in Requests : ~Open("refresh", p)
      BY <2>1, AwaitsOpen
    <3> QED
      BY <3>1, <3>2, KindsAre DEF Open
  <2>3. UNCHANGED <<stored, signedOut>> /\ overlap' = (overlap \/ Awaits("logout"))
    BY <1>2, <2>1 DEF StartRefresh, SendAuth
  <2>4. /\ Awaits("refresh")'
        /\ Awaits("logout")' <=> Awaits("logout")
    BY <2>2 DEF Awaits, Open
  <2>5. WaitersHaveRefresh' /\ SingleRefresh'
    BY <2>2, <2>4 DEF WaitersHaveRefresh, SingleRefresh, Open
  <2>6. NoComeback'
    BY <2>1, <2>4, <2>3 DEF PhoneInv, NoComeback
  <2> QED
    BY <2>2, <2>5, <2>6 DEF PhoneInv
<1> QED
  BY <1>1, <1>2 DEF CallStep

LEMMA PhonePhoneInv ==
    ASSUME TypeOK, PhoneInv, NEW q \in Requests, PhoneStep(q) PROVE PhoneInv'
<1> USE KindsAre DEF stored, time, table, past
<1>0. req[q].issued \in Stamp
  BY RequestFields DEF TypeOK, At
<1>1. ASSUME NEW kind \in Kind, TakeAnswer(q, kind) \/ Reject(q, kind)
      PROVE  /\ Open(kind, q) /\ Slots' /\ SingleRefresh'
             /\ \A p \in Requests, k \in Kind : Open(k, p)' <=> Open(k, p) /\ p # q
  <2>1. /\ Open(kind, q) /\ Slots'
        /\ \A p \in Requests, k \in Kind : Open(k, p)' <=> Open(k, p) /\ p # q
    BY <1>1, EndCloses DEF PhoneInv
  <2> QED
    BY <2>1 DEF PhoneInv, SingleRefresh, Open
<1>2. ASSUME TakeAnswer(q, "refresh") \/ Reject(q, "refresh")
      PROVE  \A p \in Requests : ~Open("refresh", p)'
  BY <1>1, <1>2 DEF PhoneInv, SingleRefresh, Open
\* A refresh that ends leaves no waiting call; nobody had signed out.
<1>3. ASSUME TakeAnswer(q, "refresh") \/ Reject(q, "refresh"),
             \A c \in Calls : call'[c].at # "waiting",
             UNCHANGED <<signedOut, overlap>>
      PROVE  PhoneInv'
  <2>1. WaitersHaveRefresh'
    BY <1>3 DEF WaitersHaveRefresh
  <2>2. NoComeback'
    BY <1>1, <1>2, <1>3 DEF PhoneInv, NoComeback, Awaits, Open
  <2> QED
    BY <1>1, <1>3, <2>1, <2>2 DEF PhoneInv
<1>4. CASE RefreshDone(q) \/ RefreshRefused(q)
  BY <1>0, <1>3, <1>4, NoneWaits DEF RefreshDone, RefreshRefused
<1>5. CASE RefreshFails(q)
  BY <1>0, <1>3, <1>5, NoneWaits DEF RefreshFails, Reject
<1>6. ASSUME NEW kind \in {"login", "logout"}, TakeAnswer(q, kind) \/ Reject(q, kind),
             UNCHANGED call
      PROVE  /\ WaitersHaveRefresh'
             /\ \A p \in Requests : Open("refresh", p)' <=> Open("refresh", p)
  <2>1. \A p \in Requests : Open("refresh", p)' <=> Open("refresh", p)
    BY <1>1, <1>6 DEF Open
  <2> QED
    BY <1>6, <2>1 DEF PhoneInv, WaitersHaveRefresh, Awaits, Open
<1>7. CASE LoginDone(q) \/ LoginFails(q)
  <2>1. /\ TakeAnswer(q, "login") \/ Reject(q, "login")
        /\ UNCHANGED <<call, signedOut, overlap>>
        /\ refresh' = refresh \/ refresh' # 0
    BY <1>7 DEF LoginDone, LoginFails, StoreTokens, Reject
  <2>2. NoComeback'
    BY <1>1, <1>6, <2>1 DEF PhoneInv, NoComeback, Awaits, Open
  <2> QED
    BY <1>1, <1>6, <2>1, <2>2 DEF PhoneInv
<1>8. CASE LogoutDone(q) \/ LogoutFails(q)
  <2>1. /\ TakeAnswer(q, "logout") \/ Reject(q, "logout")
        /\ UNCHANGED <<call, overlap>> /\ SignOut
    BY <1>8 DEF LogoutDone, LogoutFails, Reject
  <2>2. ~overlap => ~Awaits("refresh")'
    BY <1>1, <1>6, <2>1 DEF PhoneInv, NoComeback, Awaits, Open
  <2>3. Awaits("login")' <=> Awaits("login")
    BY <1>1, <2>1 DEF Awaits, Open
  <2>4. NoComeback'
    BY <2>1, <2>2, <2>3 DEF NoComeback, SignOut, ClearTokens
  <2> QED
    BY <1>1, <1>6, <2>1, <2>4 DEF PhoneInv
<1>9. ASSUME NEW kind \in {"login", "logout"}, SendAuth(q, kind), UNCHANGED call
      PROVE  /\ Slots' /\ SingleRefresh' /\ WaitersHaveRefresh'
             /\ Awaits("refresh")' <=> Awaits("refresh")
             /\ kind = "login" => (Awaits("logout")' <=> Awaits("logout"))
  <2>1. /\ Slots'
        /\ \A p \in Requests, k \in Kind :
               Open(k, p)' <=> Open(k, p) \/ (p = q /\ k = kind)
    BY <1>9, SendOpens DEF PhoneInv
  <2>2. SingleRefresh' /\ (Awaits("refresh")' <=> Awaits("refresh"))
    BY <2>1 DEF PhoneInv, SingleRefresh, Awaits, Open
  <2>3. WaitersHaveRefresh'
    BY <1>9, <2>2 DEF PhoneInv, WaitersHaveRefresh
  <2> QED
    BY <2>1, <2>2, <2>3 DEF Awaits, Open
<1>10. CASE StartLogin(q)
  <2>1. SendAuth(q, "login") /\ UNCHANGED <<stored, call, overlap>> /\ ~signedOut'
    BY <1>10 DEF StartLogin, SendAuth, TypeOK
  <2>2. NoComeback'
    BY <1>9, <2>1 DEF PhoneInv, NoComeback
  <2> QED
    BY <1>9, <2>1, <2>2 DEF PhoneInv
<1>11. CASE StartLogout(q)
  <2>1. /\ SendAuth(q, "logout") /\ UNCHANGED <<stored, call, signedOut>> /\ refresh # 0
        /\ overlap' = (overlap \/ Awaits("refresh"))
    BY <1>11 DEF StartLogout, SendAuth
  <2>2. NoComeback'
    BY <1>9, <2>1 DEF PhoneInv, NoComeback
  <2> QED
    BY <1>9, <2>1, <2>2 DEF PhoneInv
<1> QED
  BY <1>4, <1>5, <1>7, <1>8, <1>10, <1>11 DEF PhoneStep

LEMMA PhoneInvStep == TypeOK /\ PhoneInv /\ [Next]_vars => PhoneInv'
<1> SUFFICES ASSUME TypeOK, PhoneInv, [Next]_vars PROVE PhoneInv'
  OBVIOUS
<1> USE DEF stored, time, table, past
<1>1. ASSUME NEW q \in Requests, AuthStep(q) \/ LoseAuth(q) PROVE PhoneInv'
  BY <1>1, ServerKeepsOpen, QuietKeeps DEF PhoneInv
<1>2. CASE LogoutLocal
  <2>1. Slots' /\ SingleRefresh' /\ WaitersHaveRefresh'
    BY <1>2 DEF LogoutLocal, PhoneInv, Slots, Slot, SingleRefresh, WaitersHaveRefresh, Awaits
  <2>2. NoComeback'
    BY <1>2 DEF LogoutLocal, PhoneInv, NoComeback, SignOut, ClearTokens, Awaits
  <2> QED
    BY <2>1, <2>2 DEF PhoneInv
<1>3. CASE AppDies
  <2>1. \A p \in Requests : ~req'[p].awaited /\ Slot(req'[p])
    BY <1>3 DEF AppDies, Abandon, FreeRequest, PhoneInv, Slots, Slot, TypeOK, Request
  <2>2. Slots' /\ SingleRefresh'
    BY <2>1 DEF Slots, Slot, SingleRefresh
  <2>3. WaitersHaveRefresh'
    BY <1>3 DEF AppDies, WaitersHaveRefresh, IdleCall
  <2>4. signedOut /\ ~overlap => access' = 0 /\ refresh' = 0 /\ ~uid'
    <3>1. \A p \in Requests : req[p].at = "answered" /\ req[p].issued # 0
                                => Awaits("refresh") \/ Awaits("login")
      BY DEF PhoneInv, Slots, Slot, Awaits, TypeOK, Request, Kind
    <3> QED
      BY <1>3, <3>1 DEF AppDies, PhoneInv, NoComeback
  <2>5. NoComeback'
    BY <1>3, <2>1, <2>4 DEF AppDies, NoComeback, Awaits
  <2> QED
    BY <2>2, <2>3, <2>5 DEF PhoneInv
<1>4. CASE Tick \/ Expire \/ UNCHANGED vars
  <2>1. UNCHANGED <<stored, call, req, signedOut, overlap>>
    BY <1>4 DEF Tick, Expire, vars
  <2> QED
    BY <2>1 DEF PhoneInv, Slots, Slot, SingleRefresh, NoComeback, WaitersHaveRefresh, Awaits
<1> QED
  BY <1>1, <1>2, <1>3, <1>4, CallPhoneInv, PhonePhoneInv DEF Next

LEMMA PhoneInvHolds == Spec => []PhoneInv
<1>1. Init => PhoneInv
  BY DEF Init, PhoneInv, Slots, Slot, SingleRefresh, NoComeback, WaitersHaveRefresh, Awaits,
         FreeRequest, IdleCall
<1> QED
  BY <1>1, PhoneInvStep, SessionTypeCorrect, PTL DEF Spec

\* Signing out holds: nothing brings a session back but a new login.
THEOREM SignedOutStaysHolds == Spec => []SignedOutStays
<1>1. PhoneInv => SignedOutStays
  BY DEF PhoneInv, NoComeback, SignedOutStays
<1> QED
  BY <1>1, PhoneInvHolds, PTL

\* No call waits for a refresh that is not under way.
THEOREM WaitersHaveRefreshHolds == Spec => []WaitersHaveRefresh
<1>1. PhoneInv => WaitersHaveRefresh
  BY DEF PhoneInv
<1> QED
  BY <1>1, PhoneInvHolds, PTL

-----------------------------------------------------------------------------
(* The rows *)

\* A row, once made, keeps its place and its token.
LEMMA RowsStay ==
    ASSUME TypeOK, [Next]_vars
    PROVE  /\ count \in Nat /\ count' \in Nat /\ count <= count'
           /\ \A r \in 1 .. count : stamp'[r] = stamp[r]
<1>0. count \in Nat
  BY SessionConstants DEF TypeOK, Row
<1> USE DEF stored, time, table, past
<1>1. ASSUME NEW q \in Requests, InsertToken(q)
      PROVE  count' = count + 1 /\ \A r \in 1 .. count : stamp'[r] = stamp[r]
  BY <1>0, <1>1 DEF InsertToken, TypeOK
<1>2. ASSUME NEW c \in Calls, CallStep(c) PROVE UNCHANGED table
  BY <1>2 DEF CallStep, SendCall, CallEnds, Unauthorized, GiveUpCall, JoinRefresh, StartRefresh
<1>3. ASSUME NEW q \in Requests, PhoneStep(q) PROVE UNCHANGED table
  BY <1>3 DEF PhoneStep, RefreshDone, RefreshRefused, StartLogin, LoginDone, StartLogout,
              LogoutDone, RefreshFails, LoginFails, LogoutFails, Reject
<1>4. ASSUME NEW q \in Requests, AuthStep(q) \/ LoseAuth(q)
      PROVE  InsertToken(q) \/ UNCHANGED <<count, stamp>>
  BY <1>4 DEF AuthStep, LoseAuth, RefreshFind, LoginSign, LogoutFind, RevokeToken, AuthError
<1>5. CASE LogoutLocal \/ AppDies \/ Tick \/ Expire \/ UNCHANGED vars
  BY <1>0, <1>5 DEF LogoutLocal, AppDies, Tick, Expire, vars
<1> QED
  BY <1>0, <1>1, <1>2, <1>3, <1>4, <1>5 DEF Next

LEMMA OldRows ==
    ASSUME TypeOK, [Next]_vars, NEW r \in 1 .. count
    PROVE  r \in 1 .. count' /\ stamp'[r] = stamp[r]
BY RowsStay

LEMMA RowsOfStep == TypeOK /\ RowsOf /\ [Next]_vars => RowsOf'
<1> SUFFICES ASSUME TypeOK, RowsOf, [Next]_vars, NEW p \in Requests,
                    \/ req'[p].at = "revoke"
                    \/ req'[p].at = "insert" /\ req'[p].kind = "refresh"
             PROVE  req'[p].row \in 1 .. count' /\ stamp'[req'[p].row] = req'[p].token
  BY DEF RowsOf, RowOf
<1> DEFINE Same == /\ RowOf(req[p])
                   /\ req'[p].row = req[p].row /\ req'[p].token = req[p].token
                   /\ \/ req[p].at = "revoke"
                      \/ req[p].at = "insert" /\ req[p].kind = "refresh"
<1>a. Same => req'[p].row \in 1 .. count' /\ stamp'[req'[p].row] = req'[p].token
  BY OldRows DEF RowOf
<1>b. RowOf(req[p])
  BY DEF RowsOf
<1>c. UNCHANGED req => Same
  BY <1>b
<1> USE DEF stored, time, table, past
<1>d. live \subseteq 1 .. count /\ 0 \notin 1 .. count
  BY SessionConstants DEF TypeOK, Row
<1>1. ASSUME NEW c \in Calls, CallStep(c) PROVE Same
  <2>1. ASSUME NEW q \in Requests, StartRefresh(c, q) PROVE Same
    BY <2>1, <1>b DEF StartRefresh, SendAuth, FreeRequest, TypeOK
  <2> QED
    BY <2>1, <1>1, <1>c DEF CallStep, SendCall, CallEnds, Unauthorized, GiveUpCall, JoinRefresh
<1>2. ASSUME NEW q \in Requests, PhoneStep(q) PROVE Same
  <2>1. ASSUME NEW kind, SendAuth(q, kind) \/ TakeAnswer(q, kind) \/ Reject(q, kind) PROVE Same
    <3>1. CASE SendAuth(q, kind)
      BY <3>1, <1>b DEF SendAuth, FreeRequest, TypeOK
    <3>2. CASE TakeAnswer(q, kind)
      BY <3>2, <1>b DEF TakeAnswer, FreeRequest, TypeOK
    <3>3. CASE Reject(q, kind)
      BY <3>3, <1>b DEF Reject, Abandon, FreeRequest, TypeOK, Request
    <3> QED
      BY <2>1, <3>1, <3>2, <3>3
  <2> QED
    BY <2>1, <1>2 DEF PhoneStep, RefreshDone, RefreshRefused, StartLogin, LoginDone, StartLogout,
              LogoutDone, RefreshFails, LoginFails, LogoutFails
<1>3. ASSUME NEW q \in Requests, AuthStep(q) \/ LoseAuth(q)
      PROVE  req'[p].row \in 1 .. count' /\ stamp'[req'[p].row] = req'[p].token
  <2> USE DEF TypeOK, Answered, FreeRequest
  <2>0. req[q] \in Request
    OBVIOUS
  <2>1. CASE RefreshFind(q)
    <3>1. PICK r \in FindOne(req[q].token) :
              req' = [req EXCEPT ![q] = IF r \in live
                                        THEN [@ EXCEPT !.at = "insert", !.row = r, !.issued = clock]
                                        ELSE Answered(@, 0)]
      BY <2>1 DEF RefreshFind
    <3>2. r \in live => r \in 1 .. count /\ stamp[r] = req[q].token
      BY <1>d DEF FindOne
    <3>3. UNCHANGED table
      BY <2>1 DEF RefreshFind
    <3>4. CASE p = q
      BY <2>0, <3>1, <3>2, <3>3, <3>4 DEF Request
    <3> QED
      BY <3>1, <3>4, <1>a, <1>b
  <2>2. CASE LoginSign(q)
    BY <2>0, <2>2, <1>a, <1>b DEF LoginSign, Request
  <2>3. CASE InsertToken(q)
    BY <2>0, <2>3, <1>a, <1>b DEF InsertToken, Request
  <2>4. CASE LogoutFind(q)
    <3>1. PICK r \in FindOne(req[q].token) :
              req' = [req EXCEPT ![q] = IF r \in live THEN [@ EXCEPT !.at = "revoke", !.row = r]
                                        ELSE Answered(@, 0)]
      BY <2>4 DEF LogoutFind
    <3>2. r \in live => r \in 1 .. count /\ stamp[r] = req[q].token
      BY <1>d DEF FindOne
    <3>3. UNCHANGED table
      BY <2>4 DEF LogoutFind
    <3>4. CASE p = q
      BY <2>0, <3>1, <3>2, <3>3, <3>4 DEF Request
    <3> QED
      BY <3>1, <3>4, <1>a, <1>b
  <2>5. CASE RevokeToken(q)
    BY <2>0, <2>5, <1>a, <1>b DEF RevokeToken, Request
  <2>6. CASE AuthError(q)
    BY <2>0, <2>6, <1>a, <1>b DEF AuthError, Request
  <2>7. CASE LoseAuth(q)
    BY <2>0, <2>7, <1>a, <1>b DEF LoseAuth, Request
  <2> QED
    BY <1>3, <2>1, <2>2, <2>3, <2>4, <2>5, <2>6, <2>7 DEF AuthStep
<1>4. CASE LogoutLocal \/ Tick \/ Expire \/ UNCHANGED vars
  BY <1>4, <1>a, <1>c DEF LogoutLocal, Tick, Expire, vars
<1>5. CASE AppDies
  <2>1. Same
    BY <1>5, <1>b DEF AppDies, Abandon, FreeRequest, TypeOK, Request
  <2> QED
    BY <2>1, <1>a
<1> QED
  BY <1>a, <1>1, <1>2, <1>3, <1>4, <1>5 DEF Next

\* Once two rows have one token, or something has failed, it stays so.
LEMMA CleanBack == ASSUME TypeOK, [Next]_vars, Clean' PROVE Clean
<1> USE DEF stored, time, table, past
<1>1. Collision => Collision'
  BY OldRows DEF Collision
<1>2. trouble => trouble'
  <2>1. ASSUME NEW c \in Calls, CallStep(c) PROVE UNCHANGED trouble
    BY <2>1 DEF CallStep, SendCall, CallEnds, Unauthorized, GiveUpCall, JoinRefresh, StartRefresh
  <2>2. ASSUME NEW q \in Requests, PhoneStep(q) PROVE trouble => trouble'
    BY <2>2 DEF PhoneStep, RefreshDone, RefreshRefused, StartLogin, LoginDone, StartLogout,
                LogoutDone, RefreshFails, LoginFails, LogoutFails, Reject
  <2>3. ASSUME NEW q \in Requests, AuthStep(q) \/ LoseAuth(q) PROVE trouble => trouble'
    BY <2>3 DEF AuthStep, LoseAuth, RefreshFind, LoginSign, InsertToken, LogoutFind,
                RevokeToken, AuthError
  <2> QED
    BY <2>1, <2>2, <2>3 DEF Next, LogoutLocal, AppDies, Tick, Expire, vars
<1> QED
  BY <1>1, <1>2 DEF Clean

-----------------------------------------------------------------------------
(* The tokens *)

\* What holds before a step that leaves things clean.
Before == TypeOK /\ PhoneInv /\ RowsOf /\ Clean /\ AllKept

LEMMA SendKept ==
    ASSUME Before, NEW q \in Requests, NEW kind \in Kind, SendAuth(q, kind),
           UNCHANGED <<refresh, count, stamp, live, trouble>>,
           kind = "refresh" => refresh # 0 /\ ~Awaits("refresh")
    PROVE  AllKept'
<1>1. /\ req'[q].kind = kind /\ req'[q].at = "transit" /\ req'[q].issued = 0
      /\ req'[q].token = (IF kind = "login" THEN 0 ELSE refresh) /\ req'[q].awaited
      /\ req[q].at = "free" /\ ~req[q].awaited
      /\ \A p \in Requests : p # q => req'[p] = req[p]
  BY DEF SendAuth, FreeRequest, TypeOK, Before, PhoneInv, Slots, Slot
<1>2. /\ ~overlap' => ~overlap
      /\ kind = "refresh" /\ ~overlap' => ~Awaits("logout")
  BY DEF SendAuth
<1>3. /\ \A t : Known(t)' <=> Known(t)
      /\ \A t : IsLive(t)' <=> IsLive(t)
  BY DEF Known, IsLive
<1>4. Known(refresh)' /\ Known(0)
  BY <1>3 DEF Before, AllKept, Known
<1>5. kind = "refresh" /\ ~overlap' => IsLive(refresh)
  BY <1>2 DEF Before, AllKept, StoredIsLive, Clean, IsLive, Awaits
<1>6. /\ ~Inserted(q)'
      /\ \A p \in Requests : p # q => (Inserted(p)' <=> Inserted(p))
  BY <1>1 DEF Inserted
<1>7. Kept(q)'
  BY <1>1, <1>3, <1>4, <1>5, <1>6 DEF Kept
<1>8. ASSUME NEW p \in Requests, p # q PROVE Kept(p)'
  <2>1. Kept(p)
    BY DEF Before, AllKept
  <2>2. Inserted(p) => req[p].issued # 0 /\ req[p].issued # refresh
    BY <2>1 DEF Kept, Inserted
  <2> QED
    BY <1>1, <1>2, <1>3, <1>6, <1>8, <2>1, <2>2 DEF Kept
<1>9. StoredIsLive'
  <2> SUFFICES ASSUME refresh # 0, ~Awaits("logout")'
               PROVE  \/ IsLive(refresh)
                      \/ \E p \in Requests : /\ req'[p].kind = "refresh" /\ req'[p].awaited
                                             /\ req'[p].token = refresh
    BY DEF StoredIsLive, Clean, IsLive
  <2>1. ~Awaits("logout")
    BY <1>1 DEF Awaits
  <2>2. \/ IsLive(refresh)
        \/ \E p \in Requests : /\ req[p].kind = "refresh" /\ req[p].awaited
                               /\ req[p].token = refresh
    BY <2>1 DEF Before, AllKept, StoredIsLive, Clean, IsLive
  <2> QED
    BY <1>1, <2>2
<1> QED
  BY <1>4, <1>7, <1>8, <1>9 DEF AllKept

LEMMA TakeKept ==
    ASSUME Before, NEW q \in Requests, NEW kind \in Kind, TakeAnswer(q, kind),
           UNCHANGED <<count, stamp, live, overlap, trouble>>,
           \/ refresh' = 0
           \/ req[q].issued # 0 /\ refresh' = req[q].issued
           \/ kind = "login" /\ refresh' = refresh
    PROVE  AllKept'
<1>1. /\ req'[q] = FreeRequest /\ req[q].kind = kind /\ req[q].at = "answered"
      /\ \A p \in Requests : p # q => req'[p] = req[p]
  BY DEF TakeAnswer, TypeOK, Before
<1>2. /\ \A t : Known(t)' <=> Known(t)
      /\ \A t : IsLive(t)' <=> IsLive(t)
      /\ \A t : IsLive(t) => Known(t)
  BY DEF Known, IsLive, Before, TypeOK
<1>3. /\ ~Inserted(q)'
      /\ \A p \in Requests : p # q => (Inserted(p)' <=> Inserted(p))
  BY <1>1 DEF Inserted, FreeRequest
<1>4. \A p \in Requests : Kept(p)
  BY DEF Before, AllKept
<1>5. req[q].issued # 0 => Inserted(q) /\ IsLive(req[q].issued)
  BY <1>1, <1>4 DEF Inserted, Kept
<1>6. Known(refresh)' /\ Known(0)
  BY <1>2, <1>5 DEF Before, AllKept, Known
<1>7. Kept(q)'
  BY <1>1, <1>2, <1>3, <1>6 DEF Kept, FreeRequest
<1>8. ASSUME NEW p \in Requests, p # q PROVE Kept(p)'
  <2>1. Inserted(p) => /\ req[p].issued # 0 /\ refresh' # req[p].issued
                       /\ \A r \in Requests : req'[r].token # req[p].issued
    BY <1>1, <1>4, <1>5, <1>8 DEF Kept, Inserted, FreeRequest
  <2> QED
    BY <1>1, <1>2, <1>3, <1>4, <1>8, <2>1 DEF Kept
<1>9. StoredIsLive'
  <2>1. CASE refresh' = 0
    BY <2>1 DEF StoredIsLive
  <2>2. CASE req[q].issued # 0 /\ refresh' = req[q].issued
    BY <1>2, <1>5, <2>2 DEF StoredIsLive, IsLive
  <2>3. CASE kind = "login" /\ refresh' = refresh
    BY <1>1, <2>3 DEF Before, AllKept, StoredIsLive, Clean, Collision, Awaits
  <2> QED
    BY <2>1, <2>2, <2>3
<1> QED
  BY <1>6, <1>7, <1>8, <1>9 DEF AllKept

\* A step of the server that makes no row and revokes none.
LEMMA LookKept ==
    ASSUME Before, NEW q \in Requests,
           UNCHANGED <<refresh, count, stamp, live, overlap, trouble>>,
           \A p \in Requests : p # q => req'[p] = req[p],
           /\ req[q].at # "free" /\ req'[q].kind = req[q].kind /\ req'[q].token = req[q].token
           /\ req'[q].awaited = req[q].awaited
           /\ \/ req'[q].at = "insert"
              \/ req'[q].at \in {"revoke", "answered"} /\ req'[q].issued = 0
           /\ req'[q].at = "answered" => req[q].kind # "refresh" \/ overlap
    PROVE  AllKept'
<1>1. /\ \A t : Known(t)' <=> Known(t)
      /\ \A t : IsLive(t)' <=> IsLive(t)
  BY DEF Known, IsLive
<1>2. /\ ~Inserted(q)'
      /\ \A p \in Requests : p # q => (Inserted(p)' <=> Inserted(p))
  BY DEF Inserted
<1>3. \A p \in Requests : Kept(p) /\ req'[p].token = req[p].token
  BY DEF Before, AllKept
<1>4. Kept(q)'
  BY <1>1, <1>2, <1>3 DEF Kept
<1>5. ASSUME NEW p \in Requests, p # q PROVE Kept(p)'
  BY <1>1, <1>2, <1>3, <1>5 DEF Kept
<1>6. StoredIsLive'
  <2>1. \A p \in Requests : req'[p].kind = req[p].kind /\ req'[p].awaited = req[p].awaited
    OBVIOUS
  <2> QED
    BY <1>3, <2>1 DEF Before, AllKept, StoredIsLive, Clean, Collision, Awaits
<1> QED
  BY <1>1, <1>4, <1>5, <1>6 DEF Before, AllKept, Known

\* While things stay clean, a new row has a token of its own.
LEMMA InsertKept ==
    ASSUME Before, [Next]_vars, Clean', NEW q \in Requests, InsertToken(q)
    PROVE  AllKept'
<1>1. /\ req[q] \in Request /\ req[q].at = "insert" /\ req[q].awaited
      /\ count \in Nat /\ count' = count + 1 /\ live' = live \cup {count + 1}
      /\ stamp'[count + 1] = req[q].issued
      /\ \A r \in 1 .. count : stamp'[r] = stamp[r]
      /\ live \subseteq 1 .. count
      /\ UNCHANGED <<refresh, overlap>>
  <2>1. req[q] \in Request /\ req[q].at = "insert" /\ live \subseteq 1 .. count
    BY DEF InsertToken, Before, TypeOK
  <2>2. req[q].awaited
    BY <2>1 DEF Before, AllKept, Kept
  <2>3. count \in Nat /\ count + 1 \in 1 .. MaxRows
    BY SessionConstants DEF InsertToken, Before, TypeOK, Row
  <2>4. stamp'[count + 1] = req[q].issued
    BY <2>3 DEF InsertToken, Before, TypeOK
  <2>5. \A r \in 1 .. count : stamp'[r] = stamp[r]
    BY OldRows DEF Before
  <2> QED
    BY <2>1, <2>2, <2>3, <2>4, <2>5 DEF InsertToken, stored, past
<1>2. /\ req'[q].kind = req[q].kind /\ req'[q].token = req[q].token
      /\ req'[q].issued = req[q].issued /\ req'[q].awaited
      /\ req'[q].at \in {"revoke", "answered"}
      /\ req'[q].at = "answered" => req[q].kind # "refresh"
      /\ \A p \in Requests : p # q => req'[p] = req[p]
  BY <1>1 DEF InsertToken, Answered, Before, TypeOK, Request
<1>3. /\ \A t : Known(t) => Known(t)'
      /\ \A t : IsLive(t) => IsLive(t)' /\ Known(t)
  BY <1>1 DEF Known, IsLive
<1>4. IsLive(req[q].issued)'
  BY <1>1, <1>2 DEF IsLive
<1>5. \A t : t # 0 /\ Known(t) => t # req[q].issued
  <2>1. \A i, j \in 1 .. count' : i # j => stamp'[i] # stamp'[j]
    BY DEF Clean, Collision
  <2>2. \A i \in 1 .. count : i \in 1 .. count' /\ count + 1 \in 1 .. count' /\ i # count + 1
    BY <1>1
  <2> QED
    BY <1>1, <2>1, <2>2 DEF Known
<1>6. /\ \A p \in Requests : p # q => (Inserted(p)' <=> Inserted(p))
      /\ Inserted(q)' => req[q].issued # 0
      /\ ~Inserted(q)
  BY <1>1, <1>2 DEF Inserted
<1>7. /\ Known(refresh)
      /\ \A p \in Requests : Kept(p) /\ Known(req[p].token) /\ req'[p].token = req[p].token
  BY <1>2 DEF Before, AllKept, Kept
<1>8. \A p \in Requests : p # q /\ Inserted(p) => req[p].issued # req[q].issued
  BY <1>3, <1>5, <1>7 DEF Kept, Inserted
<1>9. Kept(q)'
  BY <1>1, <1>2, <1>3, <1>4, <1>5, <1>6, <1>7, <1>8 DEF Kept
<1>10. ASSUME NEW p \in Requests, p # q PROVE Kept(p)'
  BY <1>1, <1>2, <1>3, <1>6, <1>7, <1>8, <1>10 DEF Kept
<1>11. StoredIsLive'
  <2>1. \A p \in Requests : req'[p].kind = req[p].kind /\ req'[p].awaited = req[p].awaited
    BY <1>1, <1>2 DEF Request
  <2>2. refresh # 0 /\ ~Awaits("logout")' =>
          \/ IsLive(refresh)
          \/ \E p \in Requests : /\ req[p].kind = "refresh" /\ req[p].awaited
                                 /\ req[p].token = refresh
    BY <2>1 DEF Before, AllKept, StoredIsLive, Clean, IsLive, Awaits
  <2>3. refresh # 0 /\ ~Awaits("logout")' =>
          \/ IsLive(refresh)'
          \/ \E p \in Requests : /\ req'[p].kind = "refresh" /\ req'[p].awaited
                                 /\ req'[p].token = refresh
    BY <1>1, <1>3, <1>7, <2>1, <2>2
  <2> QED
    BY <1>1, <2>3 DEF StoredIsLive, IsLive
<1> QED
  BY <1>1, <1>3, <1>7, <1>9, <1>10, <1>11 DEF AllKept, Known

\* The row that is revoked was made for a token nobody needs any more.
LEMMA RevokeKept ==
    ASSUME Before, NEW q \in Requests, RevokeToken(q)
    PROVE  AllKept'
<1>1. /\ req[q] \in Request /\ req[q].at = "revoke" /\ req[q].kind # "login"
      /\ stamp[req[q].row] = req[q].token
      /\ req[q].kind = "refresh" => req[q].issued # 0
      /\ UNCHANGED <<refresh, overlap, count, stamp>> /\ live' = live \ {req[q].row}
  BY DEF RevokeToken, Before, TypeOK, PhoneInv, Slots, Slot, RowsOf, RowOf, stored, past
<1>2. \A p \in Requests : Kept(p)
  BY DEF Before, AllKept
<1>3. /\ req'[q].kind = req[q].kind /\ req'[q].token = req[q].token /\ req[q].awaited
      /\ req'[q].issued = req[q].issued /\ req'[q].awaited /\ req'[q].at = "answered"
      /\ \A p \in Requests : p # q => req'[p] = req[p]
  BY <1>1, <1>2 DEF RevokeToken, Answered, Before, TypeOK, Request, Kept
<1>4. /\ \A t : Known(t) <=> Known(t)'
      /\ \A t : IsLive(t) /\ t # req[q].token => IsLive(t)'
  BY <1>1 DEF Known, IsLive
<1>5. \A p \in Requests : Inserted(p)' <=> Inserted(p)
  BY <1>1, <1>3 DEF Inserted
<1>6. \A p \in Requests : /\ req'[p].kind = req[p].kind /\ req'[p].awaited = req[p].awaited
                          /\ req'[p].token = req[p].token /\ req'[p].issued = req[p].issued
  BY <1>1, <1>3 DEF Request
<1>7. Kept(q)'
  BY <1>1, <1>2, <1>3, <1>4, <1>5, <1>6 DEF Kept
<1>8. ASSUME NEW p \in Requests, p # q PROVE Kept(p)'
  <2>1. req[p].kind = "refresh" /\ ~overlap /\ req[p].at = "transit" => FALSE
    <3> SUFFICES ASSUME req[p].kind = "refresh", ~overlap, req[p].at = "transit" PROVE FALSE
      OBVIOUS
    <3>1. req[p].awaited
      BY <1>2 DEF Kept
    <3>2. req[q].kind # "refresh"
      BY <1>3, <1>8, <3>1 DEF Before, PhoneInv, SingleRefresh
    <3>3. req[q].kind = "logout"
      BY <1>1, <3>2 DEF Request, Kind
    <3> QED
      BY <1>3, <3>1, <3>3 DEF Before, PhoneInv, NoComeback, Awaits
  <2> QED
    BY <1>1, <1>2, <1>3, <1>4, <1>5, <1>6, <1>8, <2>1 DEF Kept
<1>9. StoredIsLive'
  <2> SUFFICES ASSUME refresh # 0, ~Awaits("logout")'
               PROVE  \/ IsLive(refresh)'
                      \/ \E p \in Requests : /\ req'[p].kind = "refresh" /\ req'[p].awaited
                                             /\ req'[p].token = refresh
    BY <1>1 DEF StoredIsLive, IsLive
  <2>1. req[q].kind = "refresh"
    BY <1>1, <1>3 DEF Awaits, Request, Kind
  <2>2. \/ IsLive(refresh)
        \/ \E p \in Requests : /\ req[p].kind = "refresh" /\ req[p].awaited
                               /\ req[p].token = refresh
    BY <1>6 DEF Before, AllKept, StoredIsLive, Clean, IsLive, Awaits
  <2> QED
    BY <1>1, <1>3, <1>4, <1>6, <2>1, <2>2 DEF IsLive
<1> QED
  BY <1>1, <1>4, <1>7, <1>8, <1>9 DEF Before, AllKept, Known

\* A step that touches none of it.
LEMMA StillKept ==
    ASSUME Before, UNCHANGED <<req, count, stamp, live, overlap, trouble>>,
           refresh' = refresh \/ refresh' = 0
    PROVE  AllKept'
<1>1. /\ \A t : Known(t)' <=> Known(t)
      /\ \A t : IsLive(t)' <=> IsLive(t)
      /\ \A p \in Requests : Inserted(p)' <=> Inserted(p)
  BY DEF Known, IsLive, Inserted
<1>2. Known(refresh)'
  BY DEF Before, AllKept, Known
<1>3. ASSUME NEW p \in Requests PROVE Kept(p)'
  <2>1. Kept(p)
    BY DEF Before, AllKept
  <2>2. Inserted(p) => refresh' # req[p].issued
    BY <2>1 DEF Kept, Inserted
  <2> QED
    BY <1>1, <2>1, <2>2 DEF Kept
<1>4. StoredIsLive'
  BY DEF Before, AllKept, StoredIsLive, Clean, Collision, Awaits
<1> QED
  BY <1>2, <1>3, <1>4 DEF AllKept

LEMMA CallKept ==
    ASSUME Before, NEW c \in Calls, CallStep(c) PROVE AllKept'
<1> USE DEF stored, time, table, past
<1>1. ASSUME NEW q \in Requests, StartRefresh(c, q) PROVE AllKept'
  BY <1>1, SendKept, KindsAre DEF StartRefresh
<1>2. CASE SendCall(c) \/ CallEnds(c) \/ Unauthorized(c) \/ GiveUpCall(c) \/ JoinRefresh(c)
  BY <1>2, StillKept DEF SendCall, CallEnds, Unauthorized, GiveUpCall, JoinRefresh
<1> QED
  BY <1>1, <1>2 DEF CallStep

LEMMA PhoneKept ==
    ASSUME Before, NEW q \in Requests, PhoneStep(q), ~trouble' PROVE AllKept'
<1> USE KindsAre DEF stored, time, table, past
<1>1. CASE RefreshDone(q)
  BY <1>1, TakeKept DEF RefreshDone, StoreTokens
<1>2. CASE RefreshRefused(q)
  BY <1>2, TakeKept DEF RefreshRefused, ClearTokens
<1>3. CASE StartLogin(q)
  BY <1>3, SendKept DEF StartLogin
<1>4. CASE LoginDone(q)
  BY <1>4, TakeKept DEF LoginDone, StoreTokens
<1>5. CASE StartLogout(q)
  BY <1>5, SendKept DEF StartLogout
<1>6. CASE LogoutDone(q)
  BY <1>6, TakeKept DEF LogoutDone, SignOut, ClearTokens
<1>7. ~(RefreshFails(q) \/ LoginFails(q) \/ LogoutFails(q))
  BY DEF RefreshFails, LoginFails, LogoutFails, Reject
<1> QED
  BY <1>1, <1>2, <1>3, <1>4, <1>5, <1>6, <1>7 DEF PhoneStep

\* A row that is found for a token is the only one there is, while things are clean.
LEMMA FoundIsLive ==
    ASSUME Before, NEW t, IsLive(t), NEW r \in FindOne(t) PROVE r \in live
BY DEF Before, TypeOK, Clean, Collision, IsLive, FindOne

LEMMA ServerKept ==
    ASSUME Before, [Next]_vars, Clean', NEW q \in Requests, AuthStep(q) \/ LoseAuth(q)
    PROVE  AllKept'
<1> USE DEF stored, time, table, past
<1>0. req[q] \in Request /\ (req[q].at # "free" => req[q].awaited)
  BY DEF Before, TypeOK, AllKept, Kept
<1>1. CASE RefreshFind(q)
  <2>1. PICK r \in FindOne(req[q].token) :
            req' = [req EXCEPT ![q] = IF r \in live
                                      THEN [@ EXCEPT !.at = "insert", !.row = r, !.issued = clock]
                                      ELSE Answered(@, 0)]
    BY <1>1 DEF RefreshFind
  <2>2. /\ req[q].kind = "refresh" /\ req[q].at = "transit"
        /\ UNCHANGED <<refresh, count, stamp, live, overlap, trouble>>
    BY <1>1 DEF RefreshFind
  <2>3. ~overlap => r \in live
    <3>1. ~overlap => IsLive(req[q].token)
      BY <2>2 DEF Before, AllKept, Kept
    <3> QED
      BY <3>1, FoundIsLive
  <2>4. /\ \A p \in Requests : p # q => req'[p] = req[p]
        /\ req'[q].kind = req[q].kind /\ req'[q].token = req[q].token
        /\ req'[q].awaited = req[q].awaited
        /\ \/ req'[q].at = "insert"
           \/ req'[q].at = "answered" /\ req'[q].issued = 0 /\ overlap
    BY <1>0, <2>1, <2>2, <2>3 DEF Answered, Before, TypeOK, Request
  <2> QED
    BY <2>2, <2>4, LookKept
<1>2. CASE LoginSign(q)
  <2>1. /\ \A p \in Requests : p # q => req'[p] = req[p]
        /\ req'[q].kind = req[q].kind /\ req'[q].token = req[q].token
        /\ req'[q].awaited = req[q].awaited /\ req'[q].at = "insert"
        /\ req[q].at # "free"
        /\ UNCHANGED <<refresh, count, stamp, live, overlap, trouble>>
    BY <1>0, <1>2 DEF LoginSign, Before, TypeOK, Request
  <2> QED
    BY <2>1, LookKept
<1>3. CASE InsertToken(q)
  BY <1>3, InsertKept
<1>4. CASE LogoutFind(q)
  <2>1. PICK r \in FindOne(req[q].token) :
            req' = [req EXCEPT ![q] = IF r \in live THEN [@ EXCEPT !.at = "revoke", !.row = r]
                                      ELSE Answered(@, 0)]
    BY <1>4 DEF LogoutFind
  <2>2. /\ req[q].kind = "logout" /\ req[q].at = "transit" /\ req[q].issued = 0
        /\ UNCHANGED <<refresh, count, stamp, live, overlap, trouble>>
    BY <1>4 DEF LogoutFind, Before, PhoneInv, Slots, Slot
  <2>3. /\ \A p \in Requests : p # q => req'[p] = req[p]
        /\ req'[q].kind = req[q].kind /\ req'[q].token = req[q].token
        /\ req'[q].awaited = req[q].awaited
        /\ req'[q].at \in {"revoke", "answered"} /\ req'[q].issued = 0
    BY <1>0, <2>1, <2>2 DEF Answered, Before, TypeOK, Request
  <2> QED
    BY <2>2, <2>3, LookKept
<1>5. CASE RevokeToken(q)
  BY <1>5, RevokeKept
<1>6. ~(AuthError(q) \/ LoseAuth(q))
  BY DEF AuthError, LoseAuth, Clean
<1> QED
  BY <1>1, <1>2, <1>3, <1>4, <1>5, <1>6 DEF AuthStep

LEMMA KeptInvStep ==
    TypeOK /\ PhoneInv /\ RowsOf /\ KeptInv /\ [Next]_vars => KeptInv'
<1> SUFFICES ASSUME TypeOK, PhoneInv, RowsOf, KeptInv, [Next]_vars, Clean' PROVE AllKept'
  BY DEF KeptInv
<1>1. Before
  BY CleanBack DEF Before, KeptInv
<1>2. CASE LogoutLocal \/ Tick \/ Expire \/ UNCHANGED vars
  BY <1>1, <1>2, StillKept
  DEF LogoutLocal, SignOut, ClearTokens, Tick, Expire, vars, stored, time, table, past
<1>3. ~AppDies
  BY DEF AppDies, Clean
<1> QED
  BY <1>1, <1>2, <1>3, CallKept, PhoneKept, ServerKept DEF Next, Clean

LEMMA KeptInvHolds == Spec => [](TypeOK /\ PhoneInv /\ RowsOf /\ KeptInv)
<1>1. Init => RowsOf
  BY DEF Init, RowsOf, RowOf, FreeRequest
<1>2. Init => KeptInv
  BY DEF Init, KeptInv, AllKept, Known, StoredIsLive, Kept, Inserted, FreeRequest
<1> QED
  BY <1>1, <1>2, RowsOfStep, KeptInvStep, SessionTypeCorrect, PhoneInvHolds, PTL DEF Spec

\* The phone's refresh token is one the server takes, or is being replaced.
THEOREM StoredIsLiveHolds == Spec => []StoredIsLive
<1>1. KeptInv => StoredIsLive
  BY DEF KeptInv, Clean, AllKept, StoredIsLive
<1> QED
  BY <1>1, KeptInvHolds, PTL

\* A refusal never ends a session that nothing has disturbed.
THEOREM SessionKeptHolds == Spec => SessionKept
<1> DEFINE Lost == refresh # 0 /\ refresh' = 0
           Excused == (\E q \in Requests : LogoutDone(q)) \/ trouble' \/ overlap \/ Collision
<1>1. TypeOK /\ PhoneInv /\ RowsOf /\ KeptInv /\ [Next]_vars => [Lost => Excused]_vars
  <2> SUFFICES ASSUME TypeOK, PhoneInv, RowsOf, KeptInv, Next, Lost PROVE Excused
    BY DEF vars, stored
  <2> USE DEF stored, time, table, past
  <2>1. ASSUME NEW c \in Calls, CallStep(c) PROVE FALSE
    BY <2>1 DEF CallStep, SendCall, CallEnds, Unauthorized, GiveUpCall, JoinRefresh, StartRefresh
  <2>2. ASSUME NEW q \in Requests, AuthStep(q) \/ LoseAuth(q) PROVE FALSE
    BY <2>2 DEF AuthStep, LoseAuth, RefreshFind, LoginSign, InsertToken, LogoutFind,
                RevokeToken, AuthError
  <2>3. ASSUME NEW q \in Requests, PhoneStep(q) PROVE Excused
    <3>1. CASE RefreshRefused(q)
      <4> SUFFICES ASSUME ~trouble, ~overlap, ~Collision PROVE FALSE
        BY <3>1 DEF RefreshRefused
      <4>1. Kept(q)
        BY DEF KeptInv, Clean, AllKept
      <4> QED
        BY <3>1, <4>1 DEF RefreshRefused, TakeAnswer, Kept
    <3>2. CASE RefreshFails(q) \/ LoginFails(q) \/ LogoutFails(q)
      BY <3>2 DEF RefreshFails, LoginFails, LogoutFails, Reject
    <3>3. CASE LogoutDone(q)
      BY <3>3
    <3>4. ~(RefreshDone(q) \/ StartLogin(q) \/ LoginDone(q) \/ StartLogout(q))
      BY DEF RefreshDone, StartLogin, LoginDone, StartLogout, StoreTokens
    <3> QED
      BY <2>3, <3>1, <3>2, <3>3, <3>4 DEF PhoneStep
  <2> QED
    BY <2>1, <2>2, <2>3 DEF Next, LogoutLocal, AppDies, Tick, Expire
<1> QED
  BY <1>1, KeptInvHolds, PTL DEF Spec, SessionKept
=============================================================================
