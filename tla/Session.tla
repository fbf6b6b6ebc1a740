------------------------------- MODULE Session -------------------------------
(***************************************************************************)
(* The session of the phone: its stored tokens, the calls that meet a 401, *)
(* the one refresh they share (services/api.ts), signing in and out        *)
(* (services/auth.ts, hooks/use_auth.tsx), and the server's table of       *)
(* refresh tokens (webserver/src/auth).                                    *)
(*                                                                         *)
(* The phone runs one piece of JavaScript at a time, from one await to the *)
(* next; the server handles its requests concurrently, one database        *)
(* operation at a time.  A token is the second it was signed in: the       *)
(* payload of a JWT has only the user and the time, so that two pairs      *)
(* signed in the same second are the same pair of strings.                 *)
(*                                                                         *)
(* Abstracted: one user with one phone; passwords; what the calls are for; *)
(* a second may last as long as it takes for any token to expire.          *)
(***************************************************************************)
EXTENDS Naturals

CONSTANTS
    Calls,      \* the calls of api() that can overlap
    Requests,   \* the requests to /auth that can be open at once
    MaxClock,   \* bound: the seconds that are told apart
    MaxRows     \* bound: the rows of refresh_tokens

ASSUME SessionConstants == MaxClock \in Nat \ {0} /\ MaxRows \in Nat

VARIABLES
    access,     \* auth.access_token of the phone, 0 when there is none
    refresh,    \* auth.refresh_token of the phone, 0 when there is none
    uid,        \* auth.user_id is stored
    shown,      \* isAuthenticated, as use_auth has last computed it
    call,       \* the calls of api()
    req,        \* the requests to /auth, open or waited for
    clock,      \* the current second
    horizon,    \* the access tokens signed up to this second have expired
    count,      \* the number of rows of refresh_tokens
    stamp,      \* the token each row was made for
    live,       \* the rows that are not revoked
    signedOut,  \* history: the user signed out and has not begun to sign in again
    overlap,    \* history: the phone once waited for a refresh and a logout together
    trouble     \* history: the app died, or a request failed other than by its token

stored == <<access, refresh, uid>>
time == <<clock, horizon>>
table == <<count, stamp, live>>
past == <<signedOut, overlap, trouble>>
vars == <<stored, shown, call, req, time, table, past>>

-----------------------------------------------------------------------------
Kind == {"refresh", "login", "logout"}
Stamp == 0 .. MaxClock
Row == 0 .. MaxRows

Call == [at : {"idle", "sent", "refused", "waiting"}, token : Stamp, noRefresh : BOOLEAN]
IdleCall == [at |-> "idle", token |-> 0, noRefresh |-> FALSE]

\* issued is the pair a request is answered with, 0 for a refusal; awaited tells whether
\* the phone still waits, which it does for a lost request until the time-out.
Request == [kind : Kind, at : {"free", "transit", "insert", "revoke", "answered", "lost"},
            token : Stamp, issued : Stamp, row : Row, awaited : BOOLEAN]
FreeRequest == [kind |-> "login", at |-> "free", token |-> 0, issued |-> 0,
                row |-> 0, awaited |-> FALSE]

TypeOK ==
    /\ access \in Stamp /\ refresh \in Stamp
    /\ uid \in BOOLEAN /\ shown \in BOOLEAN
    /\ call \in [Calls -> Call]
    /\ req \in [Requests -> Request]
    /\ clock \in 1 .. MaxClock /\ horizon \in Stamp
    /\ count \in Row
    /\ stamp \in [1 .. MaxRows -> Stamp]
    /\ live \subseteq 1 .. count
    /\ signedOut \in BOOLEAN /\ overlap \in BOOLEAN /\ trouble \in BOOLEAN

Init ==
    /\ access = 0 /\ refresh = 0
    /\ uid = FALSE /\ shown = FALSE
    /\ call = [c \in Calls |-> IdleCall]
    /\ req = [q \in Requests |-> FreeRequest]
    /\ clock = 1 /\ horizon = 0
    /\ count = 0
    /\ stamp = [r \in 1 .. MaxRows |-> 0]
    /\ live = {}
    /\ signedOut = TRUE /\ overlap = FALSE /\ trouble = FALSE

-----------------------------------------------------------------------------
(* The phone *)

Awaits(kind) == \E q \in Requests : req[q].kind = kind /\ req[q].awaited

StoreTokens(t) == access' = t /\ refresh' = t
ClearTokens == access' = 0 /\ refresh' = 0 /\ uid' = FALSE

\* A request to /auth leaves; a refresh and a logout carry the refresh token.
SendAuth(q, kind) ==
    /\ req[q].at = "free"
    /\ req' = [req EXCEPT ![q] = [FreeRequest EXCEPT !.kind = kind, !.at = "transit",
                                     !.token = IF kind = "login" THEN 0 ELSE refresh,
                                     !.awaited = TRUE]]
    /\ overlap' = \/ overlap
                  \/ kind = "refresh" /\ Awaits("logout")
                  \/ kind = "logout" /\ Awaits("refresh")

SendCall(c) ==
    /\ call[c].at = "idle"
    /\ call' = [call EXCEPT ![c] = [IdleCall EXCEPT !.at = "sent", !.token = access]]
    /\ UNCHANGED <<stored, shown, req, time, table, past>>

\* Any answer but a 401, or none at all.
CallEnds(c) ==
    /\ call[c].at \in {"sent", "refused"}
    /\ call' = [call EXCEPT ![c] = IdleCall]
    /\ UNCHANGED <<stored, shown, req, time, table, past>>

\* A 401 arrives.  A call that has been repeated gives up, one without a refresh token
\* too; another waits for the refresh that is under way, or starts one and waits.
GiveUpCall(c) ==
    /\ call[c].at = "refused"
    /\ call[c].noRefresh \/ (~Awaits("refresh") /\ refresh = 0)
    /\ call' = [call EXCEPT ![c] = IdleCall]
    /\ UNCHANGED <<stored, shown, req, time, table, past>>

JoinRefresh(c) ==
    /\ call[c].at = "refused"
    /\ ~call[c].noRefresh
    /\ Awaits("refresh")
    /\ call' = [call EXCEPT ![c].at = "waiting"]
    /\ UNCHANGED <<stored, shown, req, time, table, past>>

\* Fault: a refresh of its own for every call.
StartRefreshAlways(c, q) ==
    /\ call[c].at = "refused"
    /\ ~call[c].noRefresh
    /\ refresh # 0
    /\ SendAuth(q, "refresh")
    /\ call' = [call EXCEPT ![c].at = "waiting"]
    /\ UNCHANGED <<stored, shown, time, table, signedOut, trouble>>

StartRefresh(c, q) ==
    /\ call[c].at = "refused"
    /\ ~call[c].noRefresh
    /\ ~Awaits("refresh")
    /\ refresh # 0
    /\ SendAuth(q, "refresh")
    /\ call' = [call EXCEPT ![c].at = "waiting"]
    /\ UNCHANGED <<stored, shown, time, table, signedOut, trouble>>

\* The promise of the refresh settles: the waiting calls are sent again with the access
\* token there is then, or fail.
Repeat(t) ==
    call' = [c \in Calls |-> IF call[c].at # "waiting" THEN call[c]
                             ELSE [at |-> "sent", token |-> t, noRefresh |-> TRUE]]
FailWaiting ==
    call' = [c \in Calls |-> IF call[c].at # "waiting" THEN call[c] ELSE IdleCall]

\* The answer of a request is handed to the phone.
TakeAnswer(q, kind) ==
    /\ req[q].at = "answered" /\ req[q].kind = kind
    /\ req' = [req EXCEPT ![q] = FreeRequest]

\* Fault: the new refresh token is not stored.
RefreshDoneHalf(q) ==
    /\ TakeAnswer(q, "refresh")
    /\ req[q].issued # 0
    /\ access' = req[q].issued
    /\ Repeat(req[q].issued)
    /\ UNCHANGED <<refresh, uid, shown, time, table, past>>

RefreshDone(q) ==
    /\ TakeAnswer(q, "refresh")
    /\ req[q].issued # 0
    /\ StoreTokens(req[q].issued)
    /\ Repeat(req[q].issued)
    /\ UNCHANGED <<uid, shown, time, table, past>>

RefreshRefused(q) ==
    /\ TakeAnswer(q, "refresh")
    /\ req[q].issued = 0
    /\ ClearTokens
    /\ FailWaiting
    /\ UNCHANGED <<shown, time, table, past>>

\* The login screen is shown to those who are not authenticated.
StartLogin(q) ==
    /\ ~shown
    /\ ~Awaits("login")
    /\ SendAuth(q, "login")
    /\ signedOut' = FALSE
    /\ UNCHANGED <<stored, shown, call, time, table, trouble>>

LoginDone(q) ==
    /\ TakeAnswer(q, "login")
    /\ IF req[q].issued = 0
       THEN UNCHANGED <<stored, shown>>
       ELSE StoreTokens(req[q].issued) /\ uid' = TRUE /\ shown' = TRUE
    /\ UNCHANGED <<call, time, table, past>>

StartLogout(q) ==
    /\ shown
    /\ refresh # 0
    /\ SendAuth(q, "logout")
    /\ UNCHANGED <<stored, shown, call, time, table, signedOut, trouble>>

SignOut ==
    /\ ClearTokens
    /\ shown' = FALSE
    /\ signedOut' = ~Awaits("login")

LogoutDone(q) ==
    /\ TakeAnswer(q, "logout")
    /\ SignOut
    /\ UNCHANGED <<call, time, table, overlap, trouble>>

\* Without a refresh token nothing is sent.
LogoutLocal ==
    /\ shown
    /\ refresh = 0
    /\ SignOut
    /\ UNCHANGED <<call, req, time, table, overlap, trouble>>

\* Nobody waits for this request any more; the server goes on with it.
Abandon(q) == IF q.at \in {"answered", "lost"} THEN FreeRequest
              ELSE [q EXCEPT !.awaited = FALSE]

\* fetch rejects: time-out or network failure.
Reject(q, kind) ==
    /\ req[q].kind = kind /\ req[q].awaited
    /\ req' = [req EXCEPT ![q] = Abandon(@)]
    /\ trouble' = TRUE
    /\ UNCHANGED <<time, table, overlap>>

\* Fault: the promise of the refresh never settles.
RefreshFailsHanging(q) ==
    Reject(q, "refresh") /\ ClearTokens /\ UNCHANGED <<call, shown, signedOut>>

RefreshFails(q) ==
    Reject(q, "refresh") /\ ClearTokens /\ FailWaiting /\ UNCHANGED <<shown, signedOut>>

LoginFails(q) == Reject(q, "login") /\ UNCHANGED <<stored, shown, call, signedOut>>

\* Fault: the tokens are cleared only when the server has answered.
LogoutFailsKeeping(q) ==
    /\ Reject(q, "logout")
    /\ shown' = FALSE
    /\ signedOut' = ~Awaits("login")
    /\ UNCHANGED <<stored, call>>

LogoutFails(q) == Reject(q, "logout") /\ SignOut /\ UNCHANGED call

\* The app dies and is started again.  It may die between two writes of storeTokens and
\* storeUser, or of clearTokens.
AppDies ==
    /\ \/ UNCHANGED <<access, refresh>>
       \/ \E q \in Requests : /\ req[q].at = "answered" /\ req[q].issued # 0
                              /\ access' = req[q].issued
                              /\ refresh' \in {refresh, req[q].issued}
       \/ /\ Awaits("refresh") \/ Awaits("logout")
          /\ access' = 0 /\ refresh' \in {refresh, 0}
    /\ shown' = (uid \/ access' # 0)
    /\ call' = [c \in Calls |-> IdleCall]
    /\ req' = [q \in Requests |-> Abandon(req[q])]
    /\ trouble' = TRUE
    /\ UNCHANGED <<uid, time, table, signedOut, overlap>>

-----------------------------------------------------------------------------
(* The server *)

Answered(q, issued) == IF q.awaited THEN [q EXCEPT !.at = "answered", !.issued = issued]
                       ELSE FreeRequest

\* JwtAuthGuard: no access token, or one that has expired; it no longer matters which.
Unauthorized(c) ==
    /\ call[c].at = "sent"
    /\ call[c].token <= horizon
    /\ call' = [call EXCEPT ![c] = [@ EXCEPT !.at = "refused", !.token = 0]]
    /\ UNCHANGED <<stored, shown, req, time, table, past>>

\* findOne by token_hash: any of the rows made for that token, or none, which is 0.
FindOne(token) == LET rows == {r \in 1 .. count : stamp[r] = token}
                  IN  IF rows = {} THEN {0} ELSE rows

\* refresh: the row is looked up, and the new pair is signed in the same breath.
RefreshFind(q) ==
    /\ req[q].kind = "refresh" /\ req[q].at = "transit"
    /\ \E r \in FindOne(req[q].token) :
          req' = [req EXCEPT ![q] = IF r \in live
                                    THEN [@ EXCEPT !.at = "insert", !.row = r, !.issued = clock]
                                    ELSE Answered(@, 0)]
    /\ UNCHANGED <<stored, shown, call, time, table, past>>

\* login: the password is right.
LoginSign(q) ==
    /\ req[q].kind = "login" /\ req[q].at = "transit"
    /\ req' = [req EXCEPT ![q] = [@ EXCEPT !.at = "insert", !.issued = clock]]
    /\ UNCHANGED <<stored, shown, call, time, table, past>>

\* Fault: the row is not counted.
InsertTokenUncounted(q) ==
    /\ req[q].at = "insert"
    /\ count < MaxRows
    /\ stamp' = [stamp EXCEPT ![count + 1] = req[q].issued]
    /\ live' = live \cup {count + 1}
    /\ req' = [req EXCEPT ![q] = IF @.kind = "refresh" THEN [@ EXCEPT !.at = "revoke"]
                                 ELSE Answered(@, @.issued)]
    /\ UNCHANGED <<stored, shown, call, time, count, past>>

\* generateJwtTokens: the row of the new refresh token is saved.
InsertToken(q) ==
    /\ req[q].at = "insert"
    /\ count < MaxRows
    /\ count' = count + 1
    /\ stamp' = [stamp EXCEPT ![count + 1] = req[q].issued]
    /\ live' = live \cup {count + 1}
    /\ req' = [req EXCEPT ![q] = IF @.kind = "refresh" THEN [@ EXCEPT !.at = "revoke"]
                                 ELSE Answered(@, @.issued)]
    /\ UNCHANGED <<stored, shown, call, time, past>>

\* logout: a row that is not there or not live makes no difference to the answer.
LogoutFind(q) ==
    /\ req[q].kind = "logout" /\ req[q].at = "transit"
    /\ \E r \in FindOne(req[q].token) :
          req' = [req EXCEPT ![q] = IF r \in live THEN [@ EXCEPT !.at = "revoke", !.row = r]
                                    ELSE Answered(@, 0)]
    /\ UNCHANGED <<stored, shown, call, time, table, past>>

\* The row read before is saved as revoked.
RevokeToken(q) ==
    /\ req[q].at = "revoke"
    /\ live' = live \ {req[q].row}
    /\ req' = [req EXCEPT ![q] = Answered(@, @.issued)]
    /\ UNCHANGED <<stored, shown, call, time, count, stamp, past>>

\* The throttler, the expiry of the refresh token, a wrong password, or a query that throws.
AuthError(q) ==
    /\ req[q].at \in {"transit", "insert", "revoke"}
    /\ req' = [req EXCEPT ![q] = Answered(@, 0)]
    /\ trouble' = TRUE
    /\ UNCHANGED <<stored, shown, call, time, table, signedOut, overlap>>

-----------------------------------------------------------------------------
(* The network, and time *)

\* A request or its answer is lost, or the server dies while it handles it.
LoseAuth(q) ==
    /\ req[q].at \notin {"free", "lost"}
    /\ req' = [req EXCEPT ![q] = IF @.awaited THEN [@ EXCEPT !.at = "lost"] ELSE FreeRequest]
    /\ trouble' = TRUE
    /\ UNCHANGED <<stored, shown, call, time, table, signedOut, overlap>>

Tick ==
    /\ clock < MaxClock
    /\ clock' = clock + 1
    /\ UNCHANGED <<stored, shown, call, req, horizon, table, past>>

Expire ==
    /\ horizon' \in horizon + 1 .. clock - 1
    /\ UNCHANGED <<stored, shown, call, req, clock, table, past>>

-----------------------------------------------------------------------------
CallStep(c) ==
    \/ SendCall(c) \/ CallEnds(c) \/ Unauthorized(c) \/ GiveUpCall(c) \/ JoinRefresh(c)
    \/ \E q \in Requests : StartRefresh(c, q)

PhoneStep(q) ==
    \/ RefreshDone(q) \/ RefreshRefused(q) \/ StartLogin(q) \/ LoginDone(q)
    \/ StartLogout(q) \/ LogoutDone(q)
    \/ RefreshFails(q) \/ LoginFails(q) \/ LogoutFails(q)

AuthStep(q) ==
    \/ RefreshFind(q) \/ LoginSign(q) \/ InsertToken(q) \/ LogoutFind(q)
    \/ RevokeToken(q) \/ AuthError(q)

Next ==
    \/ \E c \in Calls : CallStep(c)
    \/ \E q \in Requests : PhoneStep(q) \/ AuthStep(q) \/ LoseAuth(q)
    \/ LogoutLocal \/ AppDies \/ Tick \/ Expire

Spec == Init /\ [][Next]_vars

-----------------------------------------------------------------------------
(* Properties *)

\* Two rows with one token_hash: pairs signed in the same second.
Collision == \E i, j \in 1 .. count : i # j /\ stamp[i] = stamp[j]

\* While nothing was lost and the user does not sign out, the refresh token of the phone is
\* one the server takes, or the request that replaces it is on its way: several calls that
\* meet a 401, early or late, never leave it with a token that was used (api.ts:117-138).
\* (Where two pairs are one, a logout meant for the first may revoke the second.)
StoredIsLive ==
    refresh # 0 /\ ~trouble /\ ~Collision /\ ~Awaits("logout") =>
        \/ \E r \in live : stamp[r] = refresh
        \/ \E q \in Requests : /\ req[q].kind = "refresh" /\ req[q].awaited
                               /\ req[q].token = refresh

\* The phone does not lose its session by itself: only by signing out, or after a failure
\* that was not the token's, a logout that overlapped a refresh, or two pairs signed in
\* one second.  No token is presented again after its use (auth.service.ts:75-91).
SessionKept ==
    [][refresh # 0 /\ refresh' = 0
         => (\E q \in Requests : LogoutDone(q)) \/ trouble' \/ overlap \/ Collision]_vars

\* After signing out, whatever the server answered, nothing of the session is on the phone
\* until the user begins to sign in, unless a refresh was under way (auth.ts:51-64).
SignedOutStays == signedOut /\ ~overlap => access = 0 /\ refresh = 0 /\ ~uid

\* A call waits for a refresh only while one is under way, so that its time-out brings the
\* call back, whatever became of the session meanwhile (api.ts:112, 118-137, 173-178).
WaitersHaveRefresh == \A c \in Calls : call[c].at = "waiting" => Awaits("refresh")

\* API.md:146: "the old refresh token is invalidated after use (token rotation)", so when
\* a refresh is answered with a new pair, the old token is no longer one the server takes.
UsedIsRevoked ==
    \A q \in Requests : req[q].kind = "refresh" /\ req[q].at = "answered" /\ req[q].issued # 0
                          => \A r \in live : stamp[r] # req[q].token

-----------------------------------------------------------------------------
(* What the properties rest on: they are inductive together with these. *)

\* A slot that is free is not awaited, an answer is; a logout is never answered with
\* tokens, a refresh past its lookup has signed some, and a login revokes nothing.
Slot(q) ==
    /\ q.at = "free" => ~q.awaited
    /\ q.at \in {"answered", "lost"} => q.awaited
    /\ q.kind = "logout" => q.issued = 0
    /\ q.kind = "refresh" /\ q.at \in {"insert", "revoke"} => q.issued # 0
    /\ q.kind = "login" => q.at # "revoke"

Slots == \A q \in Requests : Slot(req[q])

\* The phone waits for one refresh at a time.
SingleRefresh ==
    \A p, q \in Requests : /\ req[p].kind = "refresh" /\ req[p].awaited
                           /\ req[q].kind = "refresh" /\ req[q].awaited
                           => p = q

\* Without an overlap, a refresh has a session to refresh, and a signed out phone waits
\* for nothing that could bring a session back.
NoComeback ==
    ~overlap => /\ Awaits("refresh") => ~Awaits("logout") /\ refresh # 0
                /\ signedOut => /\ access = 0 /\ refresh = 0 /\ ~uid
                                /\ ~Awaits("refresh") /\ ~Awaits("login")

PhoneInv == Slots /\ SingleRefresh /\ NoComeback /\ WaitersHaveRefresh

\* The row a request is to revoke was made for its token.
RowOf(q) ==
    q.at = "revoke" \/ (q.at = "insert" /\ q.kind = "refresh")
        => q.row \in 1 .. count /\ stamp[q.row] = q.token
RowsOf == \A q \in Requests : RowOf(req[q])

\* The new token of q is in the table and has not reached the phone.
Inserted(q) == req[q].at \in {"revoke", "answered"} /\ req[q].issued # 0

Known(t) == t # 0 => \E r \in 1 .. count : stamp[r] = t
IsLive(t) == \E r \in live : stamp[r] = t

\* The tokens of the phone and of its requests are in the table, a new one is live and
\* not one of them, and a refresh that is about to be looked up has a live token.
Clean == ~trouble /\ ~Collision

Kept(q) ==
    /\ req[q].at # "free" => req[q].awaited /\ req[q].at # "lost"
    /\ Known(req[q].token)
    /\ Inserted(q) => /\ IsLive(req[q].issued)
                      /\ refresh # req[q].issued
                      /\ \A p \in Requests : /\ req[p].token # req[q].issued
                                             /\ p # q /\ Inserted(p)
                                                => req[p].issued # req[q].issued
    /\ req[q].kind = "refresh" /\ ~overlap
         => /\ req[q].at = "transit" => IsLive(req[q].token)
            /\ req[q].at = "answered" => req[q].issued # 0

AllKept == Known(refresh) /\ StoredIsLive /\ \A q \in Requests : Kept(q)

KeptInv == Clean => AllKept
=============================================================================
