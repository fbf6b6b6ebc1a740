------------------------- MODULE OrchestratorProofs -------------------------
(***************************************************************************)
(* Proofs about Orchestrator: beside the orchestrator the Wi-Fi service is *)
(* still the Wi-Fi service, so that its theorems hold there; and what the  *)
(* orchestrator may rely on when it starts its scanners.                   *)
(***************************************************************************)
EXTENDS Orchestrator, WifiServiceProofs

-----------------------------------------------------------------------------
(* The inductive invariant *)

Joining == {"check", "discover", "scan", "find", "leave", "join"}

ClientTypeOK ==
    /\ step \in Steps
    /\ calling \in Requests \cup {"none"}
    /\ managed \in Interfaces \cup {"none"}
    /\ inFinally \in BOOLEAN
    /\ joining \in Requests \cup {"none"}
    /\ gaveUp \in BOOLEAN /\ leaving \in {"unasked", "refused", "left"}
    /\ interrupts \in 0 .. MaxInterrupts /\ others \in 0 .. MaxOthers

\* The request that is waited for is that of the step.
CallUnderWay ==
    calling # "none" =>
        /\ Calls
        /\ request[calling].at # "free" /\ request[calling].kind = CallOf
        /\ step = "join" => joining = calling

\* A list of interfaces is one of interfaces.
ListsInterfaces ==
    \A r \in Requests : request[r].kind = "interfaces" => request[r].todo \subseteq Interfaces

\* Until it has joined, the orchestrator has given up no attempt and asked for no leave.
FirstTime == step \in Joining => ~gaveUp /\ leaving = "unasked"

ClientInv == ClientTypeOK /\ CallUnderWay /\ ListsInterfaces /\ FirstTime
OrchInv == WifiInv /\ ClientInv

-----------------------------------------------------------------------------
(* The service beside the orchestrator *)

LEMMA CallIsAsk ==
    ASSUME ClientTypeOK, NEW r \in Requests, Call(r)
    PROVE  Ask(r) /\ CallOf \in Kinds \ {"bss"}
<1>1. CallOf \in Kinds \ {"bss"}
  BY DEF ClientTypeOK, Steps, Call, Calls, CallOf, Kinds
<1>2. (IF managed = "none" THEN FreeRequest.on ELSE managed) \in Interfaces
  BY FreeRequestType DEF Request, ClientTypeOK
<1> QED
  BY <1>1, <1>2 DEF Call, Ask

LEMMA AnsweredIsTaken == ASSUME ClientTypeOK, Answered PROVE TakeAnswer(calling)
BY DEF Answered, TakeAnswer

LEMMA OrchStepIsWifiStep == ASSUME ClientTypeOK, [OrchNext]_orchVars PROVE [WifiNext]_wifiVars
<1>1. ASSUME NEW r \in Requests, Call(r) PROVE WifiNext
  BY <1>1, CallIsAsk DEF WifiNext
<1>2. CASE Answered
  BY <1>2, AnsweredIsTaken DEF WifiNext, ClientTypeOK, Answered
<1>3. CASE GivesUp \/ NoConnection \/ ScannersEnd \/ NothingToCleanUp \/ Interrupt
  BY <1>3 DEF GivesUp, NoConnection, ScannersEnd, NothingToCleanUp, Interrupt
<1>4. CASE Other \/ Forgotten
  BY <1>4 DEF Other, Forgotten, WifiNext
<1>5. CASE SupplicantStep \/ ServiceStep
  BY <1>5 DEF WifiNext
<1>6. CASE UNCHANGED orchVars
  BY <1>6 DEF orchVars
<1> QED
  BY <1>1, <1>2, <1>3, <1>4, <1>5, <1>6 DEF OrchNext, OrchStep

-----------------------------------------------------------------------------
(* What the service does to a request that is waited for *)

\* It stays what it is, and is not forgotten.
Kept ==
    \A r \in Requests : /\ request'[r].kind = request[r].kind
                        /\ request[r].at # "free" => request'[r].at # "free"

LEMMA MoveKeepsLists ==
    ASSUME WifiTypeOK, ListsInterfaces, NEW r \in Requests, NEW p, NEW s,
           Goto(r, p) \/ Leave(r, p, s)
    PROVE  ListsInterfaces'
<1>1. \A q \in Requests : request'[q].kind = request[q].kind /\ request'[q].todo = request[q].todo
  <2>1. CASE Goto(r, p)
    BY <2>1 DEF WifiTypeOK, Goto, Request
  <2>2. CASE Leave(r, p, s)
    BY <2>2 DEF WifiTypeOK, Leave, Request
  <2> QED
    BY <2>1, <2>2
<1> QED
  BY <1>1 DEF ListsInterfaces

LEMMA HandlerKeepsLists ==
    ASSUME WifiTypeOK, ListsInterfaces, NEW r \in Requests, HandlerStep(r)
    PROVE  ListsInterfaces'
<1>1. CASE UNCHANGED request
  BY <1>1 DEF ListsInterfaces
<1>2. CASE \E p, s : Goto(r, p) \/ Leave(r, p, s) \/ Answer(r, s)
  BY <1>2, MoveKeepsLists DEF Answer
<1>3. CASE ReadList(r)
  <2>1. CASE Answer(r, 404)
    BY <1>2, <2>1
  <2>2. CASE request' = [request EXCEPT
                ![r].at = "list",
                ![r].todo = IF request[r].kind = "bsss" THEN seen[request[r].on] ELSE present]
    BY <2>2 DEF WifiTypeOK, ListsInterfaces, Request
  <2> QED
    BY <1>3, <2>1, <2>2 DEF ReadList
<1>4. CASE StateArrives(r)
  <2>1. CASE request' = [request EXCEPT ![r].associating = TRUE]
    BY <2>1 DEF WifiTypeOK, ListsInterfaces, Request
  <2>2. CASE Leave(r, "unmatch", 204) \/ Leave(r, "drop", 400) \/ Leave(r, "unmatch", 400)
    BY <1>2, <2>2
  <2> QED
    BY <1>1, <1>4, <2>1, <2>2 DEF StateArrives
<1>5. CASE ReadCurrent(r)
  <2>1. CASE request' = [request EXCEPT ![r].net = selected[request[r].on], ![r].at = "call"]
    BY <2>1 DEF WifiTypeOK, ListsInterfaces, Request
  <2> QED
    BY <1>2, <1>5, <2>1 DEF ReadCurrent
<1>6. CASE ReadOne(r) \/ ReadMembers(r) \/ ReadState(r) \/ ReadNetwork(r)
  BY <1>2, <1>6 DEF ReadOne, ReadMembers, ReadState, ReadNetwork
<1>7. CASE SubscriptionStep(r)
  BY <1>2, <1>7
  DEF SubscriptionStep, AddChannel, AlreadySubscribed, AddMatch, MatchFails, RemoveMatch,
      CloseChannel
<1>8. CASE ScanStep(r)
  BY <1>2, <1>8 DEF ScanStep, StartScan, CallScan, ScanRefused
<1>9. CASE ConnectStep(r)
  <2>1. CASE StartConnect(r) \/ StopScanning(r) \/ RemoveAllNetworks(r) \/ AddNetwork(r)
    BY <1>2, <2>1 DEF StartConnect, StopScanning, RemoveAllNetworks, AddNetwork
  <2>2. CASE InvalidConfig(r) \/ SelectNetwork(r) \/ Undo(r) \/ Drop(r)
    BY <1>2, <2>2 DEF InvalidConfig, SelectNetwork, Undo, Drop
  <2> QED
    BY <1>9, <2>1, <2>2 DEF ConnectStep
<1>10. CASE ScanIsDone(r) \/ TimeOut(r)
  BY <1>2, <1>10 DEF ScanIsDone, TimeOut
<1>11. CASE CallDisconnect(r)
  <2>1. (\E s : Answer(r, s)) \/ Goto(r, "remove")
    BY <1>11 DEF CallDisconnect
  <2> QED
    BY <1>2, <2>1
<1>12. CASE RemoveCurrent(r)
  <2>1. \E s : Answer(r, s)
    BY <1>12 DEF RemoveCurrent
  <2> QED
    BY <1>2, <2>1
<1> QED
  BY <1>3, <1>4, <1>5, <1>6, <1>7, <1>8, <1>9, <1>10, <1>11, <1>12
  DEF HandlerStep, QueryStep, WaitStep, DisconnectStep

LEMMA HandlerStays ==
    ASSUME WifiInv, NEW r \in Requests, HandlerStep(r) PROVE Kept
<1>0. WifiTypeOK /\ Beside(r)
  BY HandlerBeside DEF WifiInv
<1>1. request'[r].at # "free"
  <2>2. CASE QueryStep(r)
    <3>1. CASE ReadList(r)
      <4>1. Answer(r, 404) \/ request'[r].at = "list"
        BY <1>0, <3>1 DEF ReadList, WifiTypeOK, Request
      <4> QED
        BY <1>0, <4>1, AnswerMoves
    <3>2. CASE ReadOne(r) \/ ReadMembers(r) \/ ReadState(r) \/ ReadNetwork(r)
      BY <1>0, <3>2, AnswerMoves, GotoMoves DEF ReadOne, ReadMembers, ReadState, ReadNetwork
    <3> QED
      BY <2>2, <3>1, <3>2 DEF QueryStep
  <2>3. CASE SubscriptionStep(r)
    BY <1>0, <2>3, GotoMoves, LeaveMoves
    DEF SubscriptionStep, AddChannel, AlreadySubscribed, AddMatch, MatchFails, RemoveMatch,
        CloseChannel
  <2>4. CASE ScanStep(r)
    BY <1>0, <2>4, AnswerMoves, GotoMoves DEF ScanStep, StartScan, CallScan, ScanRefused
  <2>5. CASE ConnectStep(r)
    <3>1. CASE StartConnect(r) \/ StopScanning(r) \/ RemoveAllNetworks(r) \/ AddNetwork(r)
      BY <1>0, <3>1, AnswerMoves, GotoMoves
      DEF StartConnect, StopScanning, RemoveAllNetworks, AddNetwork
    <3>2. CASE InvalidConfig(r) \/ SelectNetwork(r) \/ Undo(r) \/ Drop(r)
      BY <1>0, <3>2, AnswerMoves, GotoMoves DEF InvalidConfig, SelectNetwork, Undo, Drop
    <3> QED
      BY <2>5, <3>1, <3>2 DEF ConnectStep
  <2>6. CASE WaitStep(r)
    BY <1>0, <2>6, WaitPlain DEF Plain
  <2>7. CASE DisconnectStep(r)
    <3>1. CASE ReadCurrent(r)
      <4>1. Answer(r, 404) \/ request'[r].at = "call"
        BY <1>0, <3>1 DEF ReadCurrent, WifiTypeOK, Request
      <4> QED
        BY <1>0, <4>1, AnswerMoves
    <3>2. CASE CallDisconnect(r) \/ RemoveCurrent(r)
      BY <1>0, <3>2, AnswerMoves, GotoMoves DEF CallDisconnect, RemoveCurrent
    <3> QED
      BY <2>7, <3>1, <3>2 DEF DisconnectStep
  <2> QED
    BY <2>2, <2>3, <2>4, <2>5, <2>6, <2>7 DEF HandlerStep
<1> QED
  BY <1>0, <1>1 DEF Kept, Beside, Moves

LEMMA ServiceKeeps ==
    ASSUME WifiInv, ListsInterfaces, SupplicantStep \/ ServiceStep PROVE Kept /\ ListsInterfaces'
<1>1. CASE SupplicantStep \/ DispatcherStep
  <2>1. UNCHANGED request
    <3>1. CASE SupplicantStep
      BY <3>1 DEF SupplicantStep, Evolve, FinishScan, OtherChange, Unplug
    <3>2. CASE DispatcherStep
      BY <3>2 DEF DispatcherStep, DispatcherTakes, DispatcherSends, DispatcherPanics
    <3> QED
      BY <1>1, <3>1, <3>2
  <2> QED
    BY <2>1 DEF Kept, ListsInterfaces
<1>2. ASSUME NEW r \in Requests, HandlerStep(r) PROVE Kept /\ ListsInterfaces'
  BY <1>2, HandlerStays, HandlerKeepsLists DEF WifiInv
<1> QED
  BY <1>1, <1>2 DEF ServiceStep

\* Another's request comes, or its answer is taken.
LEMMA OtherKeeps ==
    ASSUME WifiInv, ListsInterfaces, NEW r \in Requests, Ask(r) \/ TakeAnswer(r)
    PROVE  /\ \A q \in Requests \ {r} : request'[q] = request[q]
           /\ request[r].at \in {"free", "answered"}
           /\ ListsInterfaces'
<1>0. WifiTypeOK
  BY DEF WifiInv
<1>1. CASE TakeAnswer(r)
  BY <1>0, <1>1, GotoMoves, MoveKeepsLists DEF TakeAnswer, Moves
<1>2. ASSUME NEW kind \in Kinds, NEW i \in Interfaces,
             NEW todo \in (IF kind = "bss" THEN {{b} : b \in Bss} ELSE {{}}),
             Accept(r, kind, i, todo)
      PROVE  /\ \A q \in Requests \ {r} : request'[q] = request[q]
             /\ request[r].at = "free"
             /\ ListsInterfaces'
  <2>1. /\ \A q \in Requests \ {r} : request'[q] = request[q]
        /\ request[r].at = "free"
    BY <1>0, <1>2 DEF Accept, WifiTypeOK
  <2>2. request'[r].kind = kind /\ request'[r].todo = todo
    BY <1>0, <1>2 DEF Accept, FreeRequest, WifiTypeOK
  <2>3. request'[r].kind = "interfaces" => request'[r].todo \subseteq Interfaces
    BY <1>2, <2>2
  <2> QED
    BY <2>1, <2>3 DEF ListsInterfaces
<1> QED
  BY <1>1, <1>2 DEF Ask

-----------------------------------------------------------------------------
(* The steps of the orchestrator *)

\* Every step but a call ends what was waited for.
LEMMA OnwardTypes ==
    ASSUME ClientTypeOK, NEW next \in Steps, Onward(next)
    PROVE  step' \in Steps /\ calling' = "none" /\ inFinally' \in BOOLEAN
BY DEF ClientTypeOK, Onward, AfterCleanup, Steps

LEMMA LeftTypes ==
    ASSUME ClientTypeOK, NEW s, Left(s) PROVE leaving' \in {"unasked", "refused", "left"}
BY DEF ClientTypeOK, Left

LEMMA CallKeeps ==
    ASSUME OrchInv, NEW r \in Requests, Call(r) PROVE ClientInv'
<1>0. WifiInv /\ ClientTypeOK /\ CallUnderWay /\ ListsInterfaces /\ FirstTime
  BY DEF OrchInv, ClientInv
<1>1. ListsInterfaces'
  BY <1>0, CallIsAsk, OtherKeeps
<1>2. /\ UNCHANGED <<step, managed, inFinally, gaveUp, leaving, interrupts, others>>
      /\ Calls /\ calling' = r
      /\ joining' = IF step = "join" THEN r ELSE Renamed(r)
      /\ Accept(r, CallOf, IF managed = "none" THEN FreeRequest.on ELSE managed, {})
  BY DEF Call
<1>3. request'[r].at = "start" /\ request'[r].kind = CallOf
  BY <1>0, <1>2 DEF Accept, FreeRequest, WifiInv, WifiTypeOK
<1>4. Calls' /\ CallOf' = CallOf
  BY <1>2 DEF Calls, CallOf
<1>5. CallUnderWay'
  BY <1>2, <1>3, <1>4 DEF CallUnderWay
<1>6. ClientTypeOK'
  BY <1>0, <1>2 DEF ClientTypeOK, Renamed
<1> QED
  BY <1>0, <1>1, <1>2, <1>5, <1>6 DEF ClientInv, FirstTime

LEMMA AnsweredKeeps == ASSUME OrchInv, Answered PROVE ClientInv'
<1>0. WifiInv /\ ClientTypeOK /\ CallUnderWay /\ ListsInterfaces /\ FirstTime
  BY DEF OrchInv, ClientInv
<1>1. /\ calling \in Requests /\ TakeAnswer(calling) /\ Calls /\ request[calling].kind = CallOf
      /\ UNCHANGED <<joining, gaveUp, interrupts, others>>
      /\ Left(request[calling].status)
  BY <1>0, AnsweredIsTaken DEF Answered, ClientTypeOK, CallUnderWay
<1>2. ListsInterfaces'
  BY <1>0, <1>1, OtherKeeps
<1> PICK next \in Successor(request[calling].status, request[calling].todo) :
        /\ Onward(next)
        /\ IF step = "discover" /\ next = "scan"
           THEN \E i \in request[calling].todo : managed' = i
           ELSE UNCHANGED managed
  BY DEF Answered
<1>3. next \in Steps
  BY DEF Successor, Steps
<1>4. managed' \in Interfaces \cup {"none"}
  <2>1. step = "discover" => request[calling].todo \subseteq Interfaces
    BY <1>0, <1>1 DEF CallOf, ListsInterfaces
  <2> QED
    BY <1>0, <2>1 DEF ClientTypeOK
<1>5. ClientTypeOK'
  BY <1>0, <1>1, <1>3, <1>4, OnwardTypes, LeftTypes DEF ClientTypeOK
<1>6. CallUnderWay'
  BY <1>0, <1>3, OnwardTypes DEF CallUnderWay
<1>7. step' \in Joining => step \in Joining
  BY <1>0 DEF Onward, AfterCleanup, Successor, Joining, ClientTypeOK, Steps
<1>8. FirstTime'
  BY <1>0, <1>1, <1>7 DEF FirstTime, Left, Joining
<1> QED
  BY <1>2, <1>5, <1>6, <1>8 DEF ClientInv

\* What ends a step otherwise leads to the end of the run.
LEMMA EndKeeps ==
    ASSUME OrchInv,
           GivesUp \/ NoConnection \/ ScannersEnd \/ NothingToCleanUp \/ Interrupt
    PROVE  ClientInv'
<1>0. ClientTypeOK /\ ListsInterfaces
  BY DEF OrchInv, ClientInv
<1>1. /\ UNCHANGED request
      /\ step' \in {"handler", "cleanup", "done"} /\ calling' = "none"
      /\ inFinally' \in BOOLEAN
  BY <1>0
  DEF GivesUp, NoConnection, ScannersEnd, NothingToCleanUp, Interrupt, Onward, AfterCleanup,
      ClientTypeOK, wifiVars
<1>2. /\ UNCHANGED <<managed, joining, others>>
      /\ gaveUp' \in BOOLEAN /\ leaving' \in {"unasked", "refused", "left"}
  BY <1>0, LeftTypes
  DEF GivesUp, NoConnection, ScannersEnd, NothingToCleanUp, Interrupt, ClientTypeOK
<1>3. interrupts' \in 0 .. MaxInterrupts
  BY <1>0, OrchestratorConstants
  DEF GivesUp, NoConnection, ScannersEnd, NothingToCleanUp, Interrupt, ClientTypeOK
<1>4. ClientTypeOK'
  BY <1>0, <1>1, <1>2, <1>3 DEF ClientTypeOK, Steps
<1>5. CallUnderWay' /\ FirstTime' /\ ListsInterfaces'
  BY <1>0, <1>1 DEF CallUnderWay, FirstTime, Joining, ListsInterfaces
<1> QED
  BY <1>4, <1>5 DEF ClientInv

\* The orchestrator does nothing.
Idle == UNCHANGED <<step, calling, managed, inFinally, gaveUp, leaving, interrupts>>

LEMMA BesideKeeps ==
    ASSUME OrchInv, Idle, others' \in 0 .. MaxOthers, ListsInterfaces',
           joining' = joining \/ (joining' = "none" /\ calling # joining),
           calling # "none" => /\ request'[calling].at # "free"
                               /\ request'[calling].kind = request[calling].kind
    PROVE  ClientInv'
<1>1. ClientTypeOK /\ CallUnderWay /\ FirstTime /\ Idle
  BY DEF OrchInv, ClientInv
<1>2. ClientTypeOK' /\ FirstTime'
  BY <1>1 DEF Idle, ClientTypeOK, FirstTime
<1>3. Calls' = Calls /\ CallOf' = CallOf
  BY <1>1 DEF Idle, Calls, CallOf
<1>4. CallUnderWay'
  BY <1>1, <1>3 DEF Idle, CallUnderWay
<1> QED
  BY <1>2, <1>4 DEF ClientInv

LEMMA OrchKeeps == ASSUME OrchInv, [OrchNext]_orchVars PROVE OrchInv'
<1>0. /\ WifiInv /\ ClientTypeOK /\ CallUnderWay /\ ListsInterfaces
      /\ others \in 0 .. MaxOthers /\ calling \in Requests \cup {"none"}
      /\ calling # "none" => request[calling].at # "free"
  BY DEF OrchInv, ClientInv, ClientTypeOK, CallUnderWay
<1>1. WifiInv'
  BY <1>0, OrchStepIsWifiStep, WifiStep
<1> SUFFICES ClientInv'
  BY <1>1 DEF OrchInv
<1>2. CASE OrchStep \/ Interrupt
  <2>1. CASE \E r \in Requests : Call(r)
    BY <2>1, CallKeeps
  <2>2. CASE Answered
    BY <2>2, AnsweredKeeps
  <2>3. CASE GivesUp \/ NoConnection \/ ScannersEnd \/ NothingToCleanUp \/ Interrupt
    BY <2>3, EndKeeps
  <2> QED
    BY <1>2, <2>1, <2>2, <2>3 DEF OrchStep
<1>3. CASE (SupplicantStep \/ ServiceStep) /\ UNCHANGED <<client, others>>
  <2>1. /\ Kept /\ ListsInterfaces' /\ others' \in 0 .. MaxOthers
        /\ Idle /\ joining' = joining
    BY <1>0, <1>3, ServiceKeeps DEF client, Idle
  <2>2. calling # "none" => /\ request'[calling].at # "free"
                            /\ request'[calling].kind = request[calling].kind
    BY <1>0, <2>1 DEF Kept
  <2> QED
    BY <2>1, <2>2, BesideKeeps
<1>4. CASE Other
  <2>1. PICK r \in Requests : Ask(r) /\ joining' = Renamed(r)
    BY <1>4 DEF Other
  <2>2. request[r].at = "free" /\ r # "none"
    BY <2>1, WifiConstants DEF Ask, Accept
  <2>3. (\A q \in Requests \ {r} : request'[q] = request[q]) /\ ListsInterfaces'
    BY <1>0, <2>1, OtherKeeps
  <2>4. calling # "none" => request'[calling] = request[calling]
    BY <1>0, <2>2, <2>3
  <2>5. /\ others' \in 0 .. MaxOthers
        /\ Idle
    BY <1>0, <1>4, OrchestratorConstants DEF Other, Idle
  <2>6. joining' = joining \/ (joining' = "none" /\ calling # joining)
    BY <1>0, <2>1, <2>2 DEF Renamed
  <2> QED
    BY <1>0, <2>3, <2>4, <2>5, <2>6, BesideKeeps
<1>5. CASE Forgotten
  <2>1. PICK r \in Requests \ {calling} : TakeAnswer(r)
    BY <1>5 DEF Forgotten
  <2>2. (\A q \in Requests \ {r} : request'[q] = request[q]) /\ ListsInterfaces'
    BY <1>0, <2>1, OtherKeeps
  <2>3. calling # "none" => request'[calling] = request[calling]
    BY <1>0, <2>1, <2>2
  <2>4. /\ others' \in 0 .. MaxOthers
        /\ Idle /\ joining' = joining
    BY <1>0, <1>5 DEF Forgotten, client, Idle
  <2> QED
    BY <1>0, <2>2, <2>3, <2>4, BesideKeeps
<1>6. CASE UNCHANGED orchVars
  <2>1. /\ UNCHANGED <<others, request>>
        /\ Idle /\ joining' = joining
    BY <1>6 DEF orchVars, wifiVars, client, Idle
  <2>2. ListsInterfaces'
    BY <1>0, <2>1 DEF ListsInterfaces
  <2>3. others' \in 0 .. MaxOthers
    BY <1>0, <2>1
  <2>4. calling # "none" => request'[calling] = request[calling]
    BY <2>1
  <2> QED
    BY <1>0, <2>1, <2>2, <2>3, <2>4, BesideKeeps
<1>7. \/ OrchStep \/ Interrupt \/ Other \/ Forgotten
      \/ (SupplicantStep \/ ServiceStep) /\ UNCHANGED <<client, others>>
      \/ UNCHANGED orchVars
  BY DEF OrchNext
<1> QED
  BY <1>2, <1>3, <1>4, <1>5, <1>6, <1>7

LEMMA OrchStart == ASSUME OrchInit PROVE OrchInv
<1>1. WifiInv /\ \A r \in Requests : request[r].todo = {}
  BY WifiStart DEF OrchInit, WifiInit, FreeRequest
<1>2. ClientTypeOK
  <2>1. interrupts \in 0 .. MaxInterrupts /\ others \in 0 .. MaxOthers
    BY OrchestratorConstants DEF OrchInit
  <2>2. inFinally \in BOOLEAN /\ gaveUp \in BOOLEAN
    BY Zenon DEF OrchInit
  <2>3. step \in Steps /\ leaving = "unasked" /\ {calling, managed, joining} = {"none"}
    BY DEF OrchInit, Steps
  <2> QED
    BY <2>1, <2>2, <2>3 DEF ClientTypeOK
<1> QED
  BY <1>1, <1>2
  DEF OrchInit, OrchInv, ClientInv, CallUnderWay, ListsInterfaces, FirstTime

-----------------------------------------------------------------------------
(* The network that is joined is left *)

\* An interface is on a network of a request only if the request is for that interface.
NetworksOfRequests ==
    \A r \in Requests, i \in Interfaces : selected[i] = r => request[r].on = i

\* Every call but the first two is about the managed interface.
OnManaged ==
    /\ step \in {"scan", "find", "leave", "join", "scanners"} => managed # "none"
    /\ calling # "none" /\ managed # "none" => request[calling].on = managed

\* The request that joined is over, unless it is waited for or was given up; and the run does
\* not end without a request to leave.
TargetRequest ==
    joining # "none" =>
        /\ managed # "none" /\ request[joining].on = managed
        /\ step \notin Joining \ {"join"} /\ (step = "join" => calling = joining)
        /\ ~gaveUp => step = "join" \/ request[joining].at = "free"
        /\ step = "done" => leaving # "unasked"

\* The requests that, as requests to disconnect, are past the call of Disconnect, and had
\* something to leave.
PastLeaving ==
    {r \in Requests : \/ request[r].at = "remove"
                      \/ request[r].at = "answered" /\ request[r].status = 204}

HasLeft ==
    \/ leaving = "left"
    \/ step \in {"handler", "cleanup"} /\ calling # "none" /\ calling \in PastLeaving

\* From then on the network is not joined again.
TargetLeft == (joining # "none" /\ ~gaveUp /\ HasLeft) => selected[managed] # joining

TargetInv == OnManaged /\ TargetRequest /\ TargetLeft
LeaveInv == NetworksOfRequests /\ TargetInv

\* Only a request that is about to select its network brings an interface to it.
LEMMA ServiceSelects ==
    ASSUME WifiInv, SupplicantStep \/ ServiceStep
    PROVE  /\ \A q \in Requests : /\ request'[q].on = request[q].on
                                  /\ request[q].at = "free" => request'[q] = request[q]
           /\ \A q \in Requests, i \in Interfaces :
                 selected'[i] = q
                     => selected[i] = q \/ (request[q].on = i /\ request[q].at = "select")
<1> USE DEF supplicant, bus, conn, wifiPast
<1>0. /\ WifiTypeOK /\ \A q \in Requests : request[q].on \in Interfaces
      /\ "none" \notin Requests
  BY WifiConstants DEF WifiInv, WifiTypeOK, Request
<1>1. CASE SupplicantStep
  <2>1. UNCHANGED request
    BY <1>1 DEF SupplicantStep, Evolve, FinishScan, OtherChange, Unplug
  <2>2. \A i \in Interfaces : selected'[i] \in {selected[i], "none"}
    BY <1>0, <1>1
    DEF SupplicantStep, Evolve, FinishScan, OtherChange, Unplug, WifiTypeOK
  <2> QED
    BY <1>0, <2>1, <2>2
<1>2. CASE DispatcherStep
  BY <1>2 DEF DispatcherStep, DispatcherTakes, DispatcherSends, DispatcherPanics
<1>3. ASSUME NEW r \in Requests, HandlerStep(r)
      PROVE  /\ \A q \in Requests : /\ request'[q].on = request[q].on
                                    /\ request[q].at = "free" => request'[q] = request[q]
             /\ \A q \in Requests, i \in Interfaces :
                   selected'[i] = q
                       => selected[i] = q \/ (request[q].on = i /\ request[q].at = "select")
  <2>1. Moves(r)
    BY <1>3, HandlerBeside DEF Beside
  <2>2. request[r].at # "free"
    BY <1>3
    DEF HandlerStep, QueryStep, SubscriptionStep, ScanStep, ConnectStep, WaitStep,
        DisconnectStep, ReadOne, ReadList, ReadMembers, ReadState, ReadNetwork, AddChannel,
        AlreadySubscribed, AddMatch, MatchFails, RemoveMatch, CloseChannel, StartScan, CallScan,
        ScanRefused, StartConnect, StopScanning, RemoveAllNetworks, AddNetwork, InvalidConfig,
        SelectNetwork, Undo, Drop, ScanIsDone, StateArrives, TimeOut, ReadCurrent,
        CallDisconnect, RemoveCurrent, At
  <2>3. OnlyLeaves \/ SelectNetwork(r)
    <3>1. CASE QueryStep(r) \/ DisconnectStep(r) \/ ScanStep(r) \/ WaitStep(r)
      BY <1>0, <3>1, QueryPlain, DisconnectPlain, ScanPlain, WaitPlain DEF Plain
    <3>2. CASE ConnectStep(r) /\ ~SelectNetwork(r)
      BY <1>0, <3>2, ConnectPlain DEF Plain
    <3>3. CASE SubscriptionStep(r)
      BY <3>3
      DEF SubscriptionStep, AddChannel, AlreadySubscribed, AddMatch, MatchFails, RemoveMatch,
          CloseChannel, OnlyLeaves
    <3> QED
      BY <1>3, <3>1, <3>2, <3>3 DEF HandlerStep, ConnectStep
  <2>4. CASE OnlyLeaves
    BY <1>0, <2>1, <2>2, <2>4 DEF OnlyLeaves, Moves
  <2>5. CASE SelectNetwork(r)
    <3>1. /\ request[r].at = "select"
          /\ \A i \in Interfaces :
                selected'[i] = selected[i] \/ (i = request[r].on /\ selected'[i] = r)
      BY <1>0, <2>5 DEF SelectNetwork, At, WifiTypeOK
    <3> QED
      BY <2>1, <2>2, <3>1 DEF Moves
  <2> QED
    BY <2>3, <2>4, <2>5
<1> QED
  BY <1>1, <1>2, <1>3 DEF ServiceStep

LEMMA NextNetworks ==
    ASSUME WifiInv, NetworksOfRequests, [WifiNext]_wifiVars PROVE NetworksOfRequests'
<1>0. WifiTypeOK
  BY DEF WifiInv
<1>1. CASE SupplicantStep \/ ServiceStep
  BY <1>1, ServiceSelects DEF NetworksOfRequests
<1>2. ASSUME NEW r \in Requests, TakeAnswer(r) PROVE NetworksOfRequests'
  BY <1>0, <1>2, GotoMoves DEF TakeAnswer, Moves, supplicant, NetworksOfRequests
<1>3. ASSUME NEW r \in Requests, Ask(r) PROVE NetworksOfRequests'
  <2>1. /\ \A q \in Requests \ {r} : request'[q] = request[q]
        /\ \A i \in Interfaces : selected[i] # r /\ selected'[i] = selected[i]
    BY <1>0, <1>3 DEF Ask, Accept, supplicant, WifiTypeOK
  <2> QED
    BY <2>1 DEF NetworksOfRequests
<1>4. CASE UNCHANGED wifiVars
  BY <1>4 DEF wifiVars, supplicant, NetworksOfRequests
<1> QED
  BY <1>1, <1>2, <1>3, <1>4 DEF WifiNext

\* A request to disconnect that gets past the call of Disconnect leaves the interface free.
LEMMA DisconnectLeaves ==
    ASSUME WifiInv, NEW r \in Requests, HandlerStep(r), request[r].kind = "disconnect"
    PROVE  r \in PastLeaving' => r \in PastLeaving \/ selected'[request[r].on] = "none"
<1>0. WifiTypeOK /\ request[r].on \in Interfaces
  BY DEF WifiInv, WifiTypeOK, Request
<1>1. ReadState(r) \/ DisconnectStep(r)
  BY DEF HandlerStep, QueryStep, SubscriptionStep, ScanStep, ConnectStep, WaitStep, ReadOne,
    ReadList, ReadMembers, ReadNetwork, AddChannel, AlreadySubscribed, AddMatch, MatchFails,
    RemoveMatch, CloseChannel, StartScan, CallScan, ScanRefused, StartConnect, StopScanning,
    RemoveAllNetworks, AddNetwork, InvalidConfig, SelectNetwork, Undo, Drop, ScanIsDone,
    StateArrives, TimeOut, At
<1>2. CASE ReadState(r)
  <2>1. \/ request'[r].at = "answered" /\ request'[r].status = 404
        \/ request'[r].at = "list"
    BY <1>0, <1>2, AnswerMoves, GotoMoves DEF ReadState
  <2> QED
    BY <2>1 DEF PastLeaving
<1>3. CASE ReadCurrent(r)
  <2>1. \/ request'[r].at = "answered" /\ request'[r].status = 404
        \/ request'[r].at = "call"
    <3>1. CASE Answer(r, 404)
      BY <1>0, <3>1, AnswerMoves
    <3>2. CASE ~Gone(r)
      BY <1>0, <1>3, <3>2 DEF ReadCurrent, WifiTypeOK, Request
    <3> QED
      BY <1>3, <3>1, <3>2 DEF ReadCurrent
  <2> QED
    BY <2>1 DEF PastLeaving
<1>4. CASE CallDisconnect(r)
  BY <1>0, <1>4, DisconnectQuiet DEF CallDisconnect
<1>5. CASE RemoveCurrent(r)
  BY <1>5 DEF RemoveCurrent, At, PastLeaving
<1> QED
  BY <1>1, <1>2, <1>3, <1>4, <1>5 DEF DisconnectStep

\* What others do to the request that joined, and to the one that is waited for.
JoinedStays ==
    joining' # "none" =>
        /\ joining' = joining
        /\ request'[joining].on = request[joining].on
        /\ request[joining].at = "free" =>
             /\ request'[joining].at = "free"
             /\ \A i \in Interfaces : selected'[i] = joining => selected[i] = joining
CallStays ==
    calling # "none" =>
        /\ request'[calling].on = request[calling].on
        /\ step \in {"handler", "cleanup"} /\ calling \in PastLeaving' =>
             calling \in PastLeaving \/ selected'[request[calling].on] = "none"

\* What happens beside the orchestrator does not join the network again.
LEMMA BesideLeaves ==
    ASSUME OrchInv, TargetInv, Idle, JoinedStays, CallStays
    PROVE  TargetInv'
<1> USE DEF JoinedStays, CallStays
<1>0. ClientTypeOK /\ CallUnderWay /\ FirstTime /\ OnManaged /\ TargetRequest /\ TargetLeft
  BY DEF OrchInv, ClientInv, TargetInv
<1>1. UNCHANGED <<step, calling, managed, gaveUp, leaving>>
  BY DEF Idle
<1>2. OnManaged'
  BY <1>0, <1>1 DEF OnManaged
<1>3. TargetRequest'
  BY <1>0, <1>1 DEF TargetRequest
<1>4. TargetLeft'
  <2> SUFFICES ASSUME joining' # "none", ~gaveUp, HasLeft' PROVE selected'[managed] # joining
    BY <1>1 DEF TargetLeft
  <2>1. step # "join"
    <3>1. CASE leaving = "left"
      BY <1>0, <3>1 DEF FirstTime, Joining
    <3>2. CASE step \in {"handler", "cleanup"}
      BY <3>2
    <3> QED
      BY <1>1, <3>1, <3>2 DEF HasLeft
  <2>2. /\ joining # "none" /\ joining \in Requests
        /\ managed # "none" /\ managed \in Interfaces /\ request[joining].at = "free"
    BY <1>0, <2>1 DEF TargetRequest, ClientTypeOK
  <2>3. CASE HasLeft
    BY <1>0, <2>2, <2>3 DEF TargetLeft
  <2>4. CASE ~HasLeft
    <3>1. step \in {"handler", "cleanup"} /\ calling # "none" /\ calling \in PastLeaving'
      BY <1>1, <2>4 DEF HasLeft
    <3>2. Calls /\ request[calling].on = managed /\ calling \notin PastLeaving
      BY <1>0, <2>2, <2>4, <3>1 DEF HasLeft, CallUnderWay, OnManaged
    <3>3. selected'[managed] = "none"
      BY <3>1, <3>2
    <3> QED
      BY <2>2, <3>3
  <2> QED
    BY <2>3, <2>4
<1> QED
  BY <1>2, <1>3, <1>4 DEF TargetInv

LEMMA CallLeaves == ASSUME OrchInv, TargetInv, NEW r \in Requests, Call(r) PROVE TargetInv'
<1>0. /\ WifiTypeOK /\ ClientTypeOK /\ FirstTime /\ OnManaged /\ TargetRequest /\ TargetLeft
      /\ r # "none"
  BY WifiConstants DEF OrchInv, ClientInv, TargetInv, WifiInv
<1>1. /\ UNCHANGED <<step, managed, gaveUp, leaving>>
      /\ Calls /\ calling' = r
      /\ joining' = IF step = "join" THEN r ELSE Renamed(r)
      /\ Accept(r, CallOf, IF managed = "none" THEN FreeRequest.on ELSE managed, {})
  BY DEF Call
<1>2. /\ \A q \in Requests \ {r} : request'[q] = request[q]
      /\ request'[r].at = "start"
      /\ managed # "none" => request'[r].on = managed
      /\ selected' = selected
  BY <1>0, <1>1 DEF Accept, FreeRequest, WifiTypeOK, supplicant
<1>3. OnManaged'
  BY <1>0, <1>1, <1>2 DEF OnManaged
<1>4. r \notin PastLeaving'
  BY <1>2 DEF PastLeaving
<1>5. CASE step = "join"
  <2>1. joining' = r /\ ~gaveUp /\ leaving = "unasked" /\ managed # "none"
    BY <1>0, <1>1, <1>5 DEF FirstTime, Joining, OnManaged
  <2>2. TargetRequest'
    BY <1>1, <1>2, <1>5, <2>1 DEF TargetRequest, Joining
  <2>3. TargetLeft'
    BY <1>1, <1>5, <2>1 DEF TargetLeft, HasLeft
  <2> QED
    BY <1>3, <2>2, <2>3 DEF TargetInv
<1>6. CASE step # "join" /\ joining' = "none"
  BY <1>3, <1>6 DEF TargetInv, TargetRequest, TargetLeft
<1>7. CASE step # "join" /\ joining' # "none"
  <2>1. joining' = joining /\ joining # r /\ joining \in Requests
    BY <1>0, <1>1, <1>7 DEF Renamed, ClientTypeOK
  <2>2. TargetRequest'
    BY <1>0, <1>1, <1>2, <1>7, <2>1 DEF TargetRequest
  <2>3. TargetLeft'
    BY <1>0, <1>1, <1>2, <1>4, <2>1 DEF TargetLeft, HasLeft
  <2> QED
    BY <1>3, <2>2, <2>3 DEF TargetInv
<1> QED
  BY <1>5, <1>6, <1>7

LEMMA AnsweredLeaves == ASSUME OrchInv, TargetInv, Answered PROVE TargetInv'
<1>0. /\ WifiTypeOK /\ ClientTypeOK /\ CallUnderWay /\ ListsInterfaces
      /\ OnManaged /\ TargetRequest /\ TargetLeft
  BY DEF OrchInv, ClientInv, TargetInv, WifiInv
<1>1. /\ calling \in Requests /\ request[calling].at = "answered"
      /\ Calls /\ request[calling].kind = CallOf
      /\ step = "join" => joining = calling
      /\ UNCHANGED <<selected, joining, gaveUp>>
      /\ Goto(calling, "free") /\ Left(request[calling].status)
  BY <1>0 DEF Answered, ClientTypeOK, CallUnderWay, supplicant
<1>2. /\ \A q \in Requests \ {calling} : request'[q] = request[q]
      /\ request'[calling].at = "free" /\ request'[calling].on = request[calling].on
  BY <1>0, <1>1, GotoMoves DEF Moves
<1> PICK next \in Successor(request[calling].status, request[calling].todo) :
        /\ Onward(next)
        /\ IF step = "discover" /\ next = "scan"
           THEN \E i \in request[calling].todo : managed' = i
           ELSE UNCHANGED managed
  BY DEF Answered
<1>3. calling' = "none"
  BY DEF Onward
<1>4. step' \in {"scan", "find", "leave", "join", "scanners"} => managed' # "none"
  <2>1. CASE step = "discover"
    <3>1. next = "scan" \/ next = "cleanup"
      BY <2>1 DEF Successor
    <3>2. request[calling].todo \subseteq Interfaces
      BY <1>0, <1>1, <2>1 DEF CallOf, ListsInterfaces
    <3> QED
      BY <2>1, <3>1, <3>2, OrchestratorConstants DEF Onward
  <2>2. CASE step \in {"scan", "find", "leave", "join"}
    BY <1>0, <2>2 DEF OnManaged
  <2>3. CASE step \in {"check", "handler", "cleanup"}
    BY <2>3 DEF Onward, AfterCleanup, Successor
  <2> QED
    BY <1>0, <1>1, <2>1, <2>2, <2>3 DEF ClientTypeOK, Steps, Calls
<1>5. OnManaged'
  BY <1>3, <1>4 DEF OnManaged
<1> SUFFICES ASSUME joining # "none" PROVE TargetInv'
  BY <1>1, <1>5 DEF TargetInv, TargetRequest, TargetLeft
<1>6. step \in {"join", "handler", "cleanup"} /\ managed' = managed /\ joining \in Requests
  BY <1>0, <1>1 DEF TargetRequest, ClientTypeOK, Joining, Steps, Calls
<1>7. request'[joining].on = managed /\ (~gaveUp => request'[joining].at = "free")
  BY <1>0, <1>1, <1>2, <1>6 DEF TargetRequest
<1>8. TargetRequest'
  <2>1. step' \in {"scanners", "cleanup", "done"}
    BY <1>6 DEF Onward, AfterCleanup, Successor
  <2>2. step' = "done" => leaving' # "unasked"
    BY <1>1, <1>6 DEF Onward, Successor, Left
  <2> QED
    BY <1>0, <1>1, <1>6, <1>7, <2>1, <2>2 DEF TargetRequest, Joining
<1>9. TargetLeft'
  <2>1. HasLeft' => HasLeft
    BY <1>1, <1>3, WifiConstants DEF HasLeft, Left, PastLeaving
  <2> QED
    BY <1>0, <1>1, <1>6, <2>1 DEF TargetLeft
<1> QED
  BY <1>5, <1>8, <1>9 DEF TargetInv

LEMMA EndLeaves ==
    ASSUME OrchInv, TargetInv,
           GivesUp \/ NoConnection \/ ScannersEnd \/ NothingToCleanUp \/ Interrupt
    PROVE  TargetInv'
<1>0. ClientTypeOK /\ CallUnderWay /\ OnManaged /\ TargetRequest /\ TargetLeft
  BY DEF OrchInv, ClientInv, TargetInv
<1>1. /\ UNCHANGED <<request, selected, managed, joining>>
      /\ step' \in {"handler", "cleanup", "done"} /\ calling' = "none"
      /\ gaveUp => gaveUp'
      /\ leaving' = "left" => leaving = "left"
  BY <1>0
  DEF GivesUp, NoConnection, ScannersEnd, NothingToCleanUp, Interrupt, Onward, AfterCleanup,
      Left, ClientTypeOK, wifiVars, supplicant
<1>2. OnManaged'
  BY <1>1 DEF OnManaged
<1> SUFFICES ASSUME joining # "none" PROVE TargetInv'
  BY <1>1, <1>2 DEF TargetInv, TargetRequest, TargetLeft
<1>3. managed # "none" /\ (step = "join" => calling # "none")
  BY <1>0 DEF TargetRequest
<1>4. step = "join" => gaveUp'
  BY <1>3 DEF GivesUp, NoConnection, ScannersEnd, NothingToCleanUp, Interrupt
<1>5. step' = "done" => leaving' # "unasked"
  BY <1>3
  DEF GivesUp, NoConnection, ScannersEnd, NothingToCleanUp, Interrupt, Onward, AfterCleanup, Left
<1>6. TargetRequest'
  BY <1>0, <1>1, <1>4, <1>5 DEF TargetRequest, Joining
<1>7. TargetLeft'
  <2>1. HasLeft' => HasLeft
    BY <1>1 DEF HasLeft
  <2> QED
    BY <1>0, <1>1, <2>1 DEF TargetLeft
<1> QED
  BY <1>2, <1>6, <1>7 DEF TargetInv

LEMMA LeaveKeeps ==
    ASSUME OrchInv, LeaveInv, [OrchNext]_orchVars PROVE LeaveInv'
<1>0. /\ WifiInv /\ ClientTypeOK /\ CallUnderWay /\ NetworksOfRequests /\ TargetInv
      /\ calling \in Requests \cup {"none"} /\ joining \in Requests \cup {"none"}
      /\ calling # "none" => request[calling].at # "free"
      /\ "none" \notin Requests
  BY WifiConstants DEF OrchInv, ClientInv, ClientTypeOK, CallUnderWay, LeaveInv
<1>1. NetworksOfRequests'
  BY <1>0, OrchStepIsWifiStep, NextNetworks
<1> SUFFICES TargetInv'
  BY <1>1 DEF LeaveInv
<1>2. CASE OrchStep \/ Interrupt
  BY <1>0, <1>2, CallLeaves, AnsweredLeaves, EndLeaves DEF OrchStep
<1>3. CASE (SupplicantStep \/ ServiceStep) /\ UNCHANGED <<client, others>>
  <2>1. Idle /\ joining' = joining
    BY <1>3 DEF client, Idle
  <2>2. joining # "none" =>
          /\ request'[joining].on = request[joining].on
          /\ request[joining].at = "free" =>
               /\ request'[joining].at = "free"
               /\ \A i \in Interfaces : selected'[i] = joining => selected[i] = joining
    BY <1>0, <1>3, ServiceSelects
  <2>3. ASSUME calling # "none", Calls, calling \in PastLeaving', step \in {"handler", "cleanup"}
        PROVE  calling \in PastLeaving \/ selected'[request[calling].on] = "none"
    <3>1. calling \in Requests /\ request[calling].kind = "disconnect"
      BY <1>0, <2>3 DEF CallUnderWay, CallOf
    <3>2. CASE HandlerStep(calling)
      BY <1>0, <2>3, <3>1, <3>2, DisconnectLeaves
    <3>3. CASE request'[calling] = request[calling]
      BY <2>3, <3>3 DEF PastLeaving
    <3>4. CASE SupplicantStep \/ DispatcherStep
      <4>1. UNCHANGED request
        BY <3>4
        DEF SupplicantStep, Evolve, FinishScan, OtherChange, Unplug, DispatcherStep,
            DispatcherTakes, DispatcherSends, DispatcherPanics
      <4> QED
        BY <3>3, <4>1
    <3>5. ASSUME NEW r \in Requests \ {calling}, HandlerStep(r)
          PROVE  request'[calling] = request[calling]
      BY <1>0, <3>1, <3>5, HandlerBeside DEF Beside, Moves
    <3> QED
      BY <1>3, <3>2, <3>3, <3>4, <3>5 DEF ServiceStep
  <2>4. calling # "none" => request'[calling].on = request[calling].on
    BY <1>0, <1>3, ServiceSelects
  <2>5. JoinedStays
    BY <2>1, <2>2 DEF JoinedStays
  <2>6. CallStays
    BY <1>0, <2>3, <2>4 DEF CallStays, CallUnderWay
  <2> QED
    BY <1>0, <2>1, <2>5, <2>6, BesideLeaves
<1>4. CASE Other
  <2>1. PICK r \in Requests : Ask(r) /\ joining' = Renamed(r)
    BY <1>4 DEF Other
  <2>2. request[r].at = "free" /\ selected' = selected
    BY <2>1 DEF Ask, Accept, supplicant
  <2>3. \A q \in Requests \ {r} : request'[q] = request[q]
    BY <1>0, <2>1, OtherKeeps DEF OrchInv, ClientInv
  <2>4. calling # "none" => request'[calling] = request[calling]
    BY <1>0, <2>2, <2>3
  <2>5. Idle
    BY <1>4 DEF Other, Idle
  <2>6. joining' # "none" => joining' = joining /\ request'[joining] = request[joining]
    BY <1>0, <2>1, <2>3 DEF Renamed
  <2>7. calling # "none" => (calling \in PastLeaving' => calling \in PastLeaving)
    BY <2>4 DEF PastLeaving, Idle
  <2>8. JoinedStays
    BY <2>2, <2>6 DEF JoinedStays
  <2>9. CallStays
    BY <2>4, <2>7 DEF CallStays
  <2> QED
    BY <1>0, <2>5, <2>8, <2>9, BesideLeaves
<1>5. CASE Forgotten
  <2>1. PICK r \in Requests \ {calling} : TakeAnswer(r)
    BY <1>5 DEF Forgotten
  <2>2. /\ \A q \in Requests \ {r} : request'[q] = request[q]
        /\ request'[r].on = request[r].on /\ request'[r].at = "free"
        /\ selected' = selected
    BY <1>0, <2>1, GotoMoves DEF TakeAnswer, Moves, WifiInv, supplicant
  <2>3. calling # "none" => request'[calling] = request[calling]
    BY <1>0, <2>1, <2>2
  <2>4. Idle /\ joining' = joining
    BY <1>5 DEF Forgotten, client, Idle
  <2>5. joining # "none" => /\ request'[joining].on = request[joining].on
                            /\ request[joining].at = "free" => request'[joining].at = "free"
    BY <1>0, <2>2
  <2>6. calling # "none" => (calling \in PastLeaving' => calling \in PastLeaving)
    BY <2>3 DEF PastLeaving
  <2>7. JoinedStays
    BY <2>2, <2>4, <2>5 DEF JoinedStays
  <2>8. CallStays
    BY <2>3, <2>6 DEF CallStays
  <2> QED
    BY <1>0, <2>4, <2>7, <2>8, BesideLeaves
<1>6. CASE UNCHANGED orchVars
  <2>1. /\ UNCHANGED <<request, selected, joining>>
        /\ Idle
    BY <1>6 DEF orchVars, wifiVars, supplicant, client, Idle
  <2>2. calling \in PastLeaving' => calling \in PastLeaving
    BY <1>6 DEF PastLeaving, orchVars, wifiVars, client
  <2>3. JoinedStays
    BY <2>1 DEF JoinedStays
  <2>4. CallStays
    BY <2>1, <2>2 DEF CallStays, Idle
  <2> QED
    BY <1>0, <2>1, <2>3, <2>4, BesideLeaves
<1>7. \/ OrchStep \/ Interrupt \/ Other \/ Forgotten
      \/ (SupplicantStep \/ ServiceStep) /\ UNCHANGED <<client, others>>
      \/ UNCHANGED orchVars
  BY DEF OrchNext
<1> QED
  BY <1>2, <1>3, <1>4, <1>5, <1>6, <1>7

LEMMA LeaveStart == ASSUME OrchInit PROVE LeaveInv
<1>1. \A r \in Requests, i \in Interfaces : selected[i] # r
  BY WifiConstants DEF OrchInit, WifiInit
<1>2. step \in {"check", "done"} /\ calling = "none" /\ joining = "none"
  BY DEF OrchInit
<1> QED
  BY <1>1, <1>2
  DEF LeaveInv, NetworksOfRequests, TargetInv, OnManaged, TargetRequest, TargetLeft

-----------------------------------------------------------------------------
(* The theorems *)

\* What the orchestrator and the service beside it keep in every state.
THEOREM OrchInvariant == OrchSpec => []OrchInv
<1>1. OrchInit => OrchInv
  BY OrchStart
<1>2. OrchInv /\ [OrchNext]_orchVars => OrchInv'
  BY OrchKeeps
<1> QED
  BY <1>1, <1>2, PTL DEF OrchSpec

\* Every variable of the orchestrator has its type.
THEOREM OrchTypeCorrect == OrchSpec => []OrchTypeOK
<1>1. OrchInv => OrchTypeOK
  BY DEF OrchInv, ClientInv, ClientTypeOK, WifiInv, OrchTypeOK
<1> QED
  BY <1>1, OrchInvariant, PTL

\* The service that the orchestrator calls, and gives up, and is killed beside, is the Wi-Fi
\* service: whatever is proved of WifiSpec holds of it too.
THEOREM OrchImplementsWifi == OrchSpec => WifiSpec
<1>1. OrchInit => WifiInit
  BY DEF OrchInit
<1>2. OrchInv /\ [OrchNext]_orchVars => [WifiNext]_wifiVars
  BY OrchStepIsWifiStep DEF OrchInv, ClientInv
<1> QED
  BY <1>1, <1>2, OrchInvariant, PTL DEF OrchSpec, WifiSpec

\* orchestrator.py starts its scanners only after connect() has returned, which it waited
\* for, with the target network completed by wpa_supplicant (or one of the two mistakes of
\* ConnectedWhenSaid), and with no request to leave it made before.
THEOREM ScansAfterJoiningHolds == OrchSpec => ScansAfterJoining
<1>1. OrchInv /\ [OrchNext]_orchVars
        => [(step # "scanners" /\ step' = "scanners")
             => (~gaveUp /\ leaving = "unasked" /\ joining \in reached \cup disturbed)]_orchVars
  <2> SUFFICES ASSUME OrchInv, OrchNext, step # "scanners", step' = "scanners"
               PROVE  ~gaveUp /\ leaving = "unasked" /\ joining \in reached \cup disturbed
    OBVIOUS
  <2>0. /\ WifiInv /\ ClientTypeOK /\ CallUnderWay /\ FirstTime
    BY DEF OrchInv, ClientInv
  <2>1. Answered
    <3>1. \A r \in Requests : ~Call(r)
      BY DEF Call
    <3>2. ~GivesUp /\ ~NoConnection /\ ~ScannersEnd /\ ~NothingToCleanUp /\ ~Interrupt
      BY DEF GivesUp, NoConnection, ScannersEnd, NothingToCleanUp, Interrupt, Onward, AfterCleanup
    <3>3. ~Other /\ ~Forgotten /\ ~UNCHANGED client
      BY DEF Other, Forgotten, client
    <3> QED
      BY <3>1, <3>2, <3>3 DEF OrchNext, OrchStep
  <2>2. PICK next \in Successor(request[calling].status, request[calling].todo) : Onward(next)
    BY <2>1 DEF Answered
  <2>3. next = "scanners"
    BY <2>2 DEF Onward, AfterCleanup
  <2>4. step = "join" /\ request[calling].status = 204
    BY <2>2, <2>3 DEF Successor
  <2>5. /\ calling \in Requests /\ joining = calling /\ request[calling].kind = "connect"
    BY <2>0, <2>1, <2>4 DEF Answered, ClientTypeOK, CallUnderWay, CallOf
  <2>6. joining \in reached \cup disturbed
    BY <2>0, <2>4, <2>5 DEF WifiInv, Attempt
  <2> QED
    BY <2>0, <2>4, <2>6 DEF FirstTime, Joining
<1> QED
  BY <1>1, OrchInvariant, PTL DEF OrchSpec, ScansAfterJoining

\* Whatever ends the run of orchestrator.py, an error, its scanners or a signal or two, and
\* whatever other clients ask of the service in the meantime, the network it joined is left,
\* and is not joined again behind it; provided that it waited for the answer to its connect
\* and that no request to disconnect was refused.
THEOREM LeavesTheNetworkHolds == OrchSpec => []LeavesTheNetwork
<1>1. OrchInit => LeaveInv
  BY LeaveStart
<1>2. OrchInv /\ LeaveInv /\ [OrchNext]_orchVars => LeaveInv'
  BY LeaveKeeps
<1>3. OrchInv /\ LeaveInv => LeavesTheNetwork
  <2> SUFFICES ASSUME OrchInv, LeaveInv, NEW i \in Interfaces,
                      step = "done", joining # "none", ~gaveUp, leaving # "refused"
               PROVE  selected[i] # joining
    BY DEF LeavesTheNetwork
  <2>1. /\ NetworksOfRequests /\ TargetRequest /\ TargetLeft
        /\ joining \in Requests /\ leaving \in {"unasked", "refused", "left"}
    BY DEF LeaveInv, TargetInv, OrchInv, ClientInv, ClientTypeOK
  <2>2. leaving = "left" /\ request[joining].on = managed
    BY <2>1 DEF TargetRequest
  <2>3. selected[managed] # joining
    BY <2>1, <2>2 DEF TargetLeft, HasLeft
  <2> QED
    BY <2>1, <2>2, <2>3 DEF NetworksOfRequests
<1> QED
  BY <1>1, <1>2, <1>3, OrchInvariant, PTL DEF OrchSpec
=============================================================================
