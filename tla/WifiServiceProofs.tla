--------------------------- MODULE WifiServiceProofs ---------------------------
(***************************************************************************)
(* Proofs about WifiService, for any sets of interfaces, base stations and *)
(* requests, any buffer of a channel and any bounds on what wpa_supplicant *)
(* does of its own.                                                        *)
(***************************************************************************)
EXTENDS WifiService, SequenceTheorems, TLAPS

-----------------------------------------------------------------------------
(* The inductive invariant *)

Held == {"match", "wait", "drop", "unmatch", "close"}
Early == {"start", "list", "call", "remove", "add", "select", "subscribe"}
Refusals == {404, 409, 500, 504}

\* What the map says of a name is an open channel of a request for signals of that name.
SignalsNamed ==
    \A n \in Names : signals[n] # "none" => NameOf(signals[n]) = n /\ chan[signals[n]].is = "open"

\* A request that has not subscribed has no channel; one whose answer is settled, or whose
\* channel is closed, has a status.
Settled(r) ==
    /\ request[r].at \in Early => chan[r] = NoChannel
    /\ request[r].at \in {"drop", "undo", "unmatch", "close"} => request[r].status # 0
    /\ chan[r].is = "closed" => request[r].status # 0

\* Where an attempt to connect is refused it has not selected its network, or left it.
Attempt(r) ==
    request[r].kind = "connect" =>
        /\ request[r].at \in {"start", "call", "remove", "add", "select"}
              => selected[request[r].on] # r
        /\ request[r].at \in {"unmatch", "close", "answered"} /\ request[r].status \in Refusals
              => selected[request[r].on] # r
        /\ request[r].status = 204 => r \in reached \cup disturbed

\* The match rules for State are those of the one request that is subscribed.
RulesWatched ==
    \A i \in Interfaces : <<i, "PropertiesChanged">> \in rules =>
        /\ signals["PropertiesChanged"] # "none"
        /\ request[signals["PropertiesChanged"]].on = i
        /\ request[signals["PropertiesChanged"]].at \in {"wait", "drop", "unmatch"}

\* "completed" is a value of PropertiesChanged.
CompletedNamed ==
    /\ \A k \in 1 .. Len(queue) :
          queue[k].value = "completed" => queue[k].name = "PropertiesChanged"
    /\ \A k \in 1 .. Len(dispatcher.signal) :
          dispatcher.signal[k].value = "completed"
              => dispatcher.signal[k].name = "PropertiesChanged"

\* An attempt that nothing disturbs has the interface for itself, and every "completed"
\* that is on its way is about its own network.
Undisturbed(r) ==
    (request[r].kind = "connect" /\ request[r].at \in Held \cup {"subscribe"} /\ r \notin disturbed)
    => /\ selected[request[r].on] \in {r, "none"}
       /\ request[r].at \in Held =>
            /\ \A k \in 1 .. Len(queue) : queue[k].value = "completed" => r \in reached
            /\ \A k \in 1 .. Len(dispatcher.signal) :
                  dispatcher.signal[k].value = "completed" => r \in reached
            /\ \A k \in 1 .. Len(chan[r].buffer) :
                  chan[r].buffer[k].value = "completed" => r \in reached

DeadOfClosed == ~up => dispatcher.to \in Requests /\ request[dispatcher.to].status # 0

WifiInv ==
    /\ WifiTypeOK
    /\ SubscriptionIsExclusive
    /\ SignalsNamed
    /\ \A r \in Requests : Settled(r) /\ Attempt(r) /\ Undisturbed(r)
    /\ RulesWatched
    /\ CompletedNamed
    /\ DeadOfClosed

-----------------------------------------------------------------------------
(* Type correctness: what the operators the actions are made of do to the types *)

LEMMA FreeRequestType == FreeRequest \in Request
<1>1. (CHOOSE i \in Interfaces : TRUE) \in Interfaces
  BY WifiConstants
<1> QED
  BY <1>1 DEF FreeRequest, Request, Kinds, Places, Status

LEMMA GotoType ==
    ASSUME request \in [Requests -> Request], NEW r \in Requests, NEW p \in Places, Goto(r, p)
    PROVE  request' \in [Requests -> Request]
BY DEF Goto, Request

LEMMA LeaveType ==
    ASSUME request \in [Requests -> Request], NEW r \in Requests, NEW p \in Places,
           NEW s \in Status, Leave(r, p, s)
    PROVE  request' \in [Requests -> Request]
BY ZenonT(40) DEF Leave, Request

LEMMA AnswerType ==
    ASSUME request \in [Requests -> Request], NEW r \in Requests, NEW s \in Status, Answer(r, s)
    PROVE  request' \in [Requests -> Request]
BY LeaveType DEF Answer, Places

LEMMA RequestFields ==
    ASSUME NEW q \in Request, NEW p \in Places
    PROVE  /\ [q EXCEPT !.associating = TRUE] \in Request
           /\ \A t \in SUBSET (Interfaces \cup Bss) : [q EXCEPT !.at = p, !.todo = t] \in Request
           /\ \A n \in Networks \cup {"none"} : [q EXCEPT !.net = n, !.at = p] \in Request
<1>1. [q EXCEPT !.associating = TRUE] \in Request
  BY DEF Request
<1>2. ASSUME NEW t \in SUBSET (Interfaces \cup Bss)
      PROVE  [q EXCEPT !.at = p, !.todo = t] \in Request
  BY DEF Request
<1>3. ASSUME NEW n \in Networks \cup {"none"} PROVE [q EXCEPT !.net = n, !.at = p] \in Request
  BY DEF Request
<1> QED
  BY <1>1, <1>2, <1>3

LEMMA EnterStateType ==
    ASSUME WifiTypeOK, NEW i \in Interfaces, NEW s \in States, EnterState(i, s)
    PROVE  state' \in [Interfaces -> States] /\ queue' \in Seq(Signal)
<1>1. [name |-> "PropertiesChanged", of |-> i, value |-> s] \in Signal
  BY DEF Signal, Names
<1>2. queue' \in Seq(Signal)
  BY <1>1, AppendProperties DEF EnterState, WifiTypeOK
<1> QED
  BY <1>2 DEF EnterState, WifiTypeOK

LEMMA DisconnectType ==
    ASSUME WifiTypeOK, NEW i \in Interfaces, Disconnect(i)
    PROVE  /\ state' \in [Interfaces -> States] /\ queue' \in Seq(Signal)
           /\ selected' \in [Interfaces -> Networks \cup {"none"}]
<1>1. (IF selected[i] = "none" THEN state[i] ELSE "disconnected") \in States
  BY DEF WifiTypeOK, States
<1>2. selected' \in [Interfaces -> Networks \cup {"none"}]
  BY DEF Disconnect, WifiTypeOK
<1> QED
  BY <1>1, <1>2, EnterStateType DEF Disconnect

LEMMA RemoveNetworksType ==
    ASSUME WifiTypeOK, NEW i \in Interfaces, NEW ns, RemoveNetworks(i, ns)
    PROVE  /\ state' \in [Interfaces -> States] /\ queue' \in Seq(Signal)
           /\ selected' \in [Interfaces -> Networks \cup {"none"}]
           /\ configured' \in [Interfaces -> SUBSET Networks]
<1>1. configured' \in [Interfaces -> SUBSET Networks]
  BY DEF RemoveNetworks, WifiTypeOK
<1>2. CASE selected[i] \in ns
  BY <1>1, <1>2, DisconnectType DEF RemoveNetworks
<1>3. CASE selected[i] \notin ns
  BY <1>1, <1>3 DEF RemoveNetworks, WifiTypeOK
<1> QED
  BY <1>2, <1>3

LEMMA RemoveChannelType ==
    ASSUME WifiTypeOK, NEW n \in Names, RemoveChannel(n)
    PROVE  chan' \in [Requests -> Channel] /\ signals' \in [Names -> Requests \cup {"none"}]
<1>1. ASSUME NEW r \in Requests PROVE [chan[r] EXCEPT !.is = "closed"] \in Channel
  <2>1. chan[r] \in Channel
    BY DEF WifiTypeOK
  <2> QED
    BY <2>1 DEF Channel
<1> QED
  BY <1>1 DEF RemoveChannel, WifiTypeOK

LEMMA TakeSignalType ==
    ASSUME WifiTypeOK, NEW r \in Requests, TakeSignal(r)
    PROVE  chan' \in [Requests -> Channel]
<1>1. Tail(chan[r].buffer) \in Seq(Signal)
  BY HeadTailProperties DEF TakeSignal, WifiTypeOK, Channel
<1> QED
  BY <1>1, ZenonT(40) DEF TakeSignal, WifiTypeOK, Channel

LEMMA NameOfType == ASSUME NEW r PROVE NameOf(r) \in Names
BY DEF NameOf, Names

-----------------------------------------------------------------------------
(* Type correctness: the steps *)

LEMMA SupplicantTypes == ASSUME WifiTypeOK, SupplicantStep PROVE WifiTypeOK'
<1> USE DEF supplicant, bus, conn, wifiPast
<1> PICK i \in Interfaces : Evolve(i) \/ FinishScan(i) \/ OtherChange(i) \/ Unplug(i)
  BY DEF SupplicantStep
<1>0. ActsOfItself(i) => events' \in 0 .. MaxEvents
  BY WifiConstants DEF ActsOfItself, WifiTypeOK
<1>1. CASE Evolve(i)
  <2> PICK s \in States :
        /\ EnterState(i, s)
        /\ reached' = IF s = "completed" THEN reached \cup ({selected[i]} \cap Requests)
                      ELSE reached
    BY <1>1 DEF Evolve
  <2> QED
    BY <1>0, <1>1, EnterStateType DEF Evolve, WifiTypeOK
<1>2. CASE FinishScan(i)
  <2>1. [name |-> "ScanDone", of |-> i, value |-> "other"] \in Signal
    BY DEF Signal, Names
  <2>2. queue' \in Seq(Signal)
    BY <1>2, <2>1, AppendProperties DEF FinishScan, WifiTypeOK
  <2>3. seen' \in [Interfaces -> SUBSET Bss]
    BY <1>2 DEF FinishScan, WifiTypeOK
  <2> QED
    BY <1>0, <1>2, <2>2, <2>3 DEF FinishScan, WifiTypeOK
<1>3. CASE OtherChange(i)
  <2>1. [name |-> "PropertiesChanged", of |-> i, value |-> "other"] \in Signal
    BY DEF Signal, Names
  <2>2. queue' \in Seq(Signal)
    BY <1>3, <2>1, AppendProperties DEF OtherChange, WifiTypeOK
  <2> QED
    BY <1>0, <1>3, <2>2 DEF OtherChange, WifiTypeOK
<1>4. CASE Unplug(i)
  <2>1. state' \in [Interfaces -> States] /\ queue' \in Seq(Signal)
    BY <1>4, EnterStateType DEF Unplug, States
  <2> QED
    BY <1>0, <1>4, <2>1 DEF Unplug, WifiTypeOK
<1> QED
  BY <1>1, <1>2, <1>3, <1>4

LEMMA DispatcherTypes == ASSUME WifiTypeOK, DispatcherStep PROVE WifiTypeOK'
<1> USE DEF supplicant, bus, conn, wifiPast
<1>1. CASE DispatcherTakes
  <2>1. Head(queue) \in Signal /\ Tail(queue) \in Seq(Signal)
    BY <1>1, HeadTailProperties DEF DispatcherTakes, WifiTypeOK
  <2>2. <<Head(queue)>> \in Seq(Signal)
    BY <2>1
  <2>3. signals[Head(queue).name] \in Requests \cup {"none"}
    BY <2>1 DEF Signal, WifiTypeOK
  <2> QED
    BY <1>1, <2>1, <2>2, <2>3 DEF DispatcherTakes, WifiTypeOK
<1>2. CASE DispatcherSends
  <2>1. dispatcher.to \in Requests /\ dispatcher.signal \in Seq(Signal)
    BY <1>2 DEF DispatcherSends, WifiTypeOK
  <2>2. chan[dispatcher.to].buffer \o dispatcher.signal \in Seq(Signal)
    BY <2>1, ConcatProperties DEF WifiTypeOK, Channel
  <2>3. chan' \in [Requests -> Channel]
    BY <1>2, <2>1, <2>2, ZenonT(40) DEF DispatcherSends, WifiTypeOK, Channel
  <2> QED
    BY <1>2, <2>3, EmptySeq DEF DispatcherSends, WifiTypeOK
<1>3. CASE DispatcherPanics
  BY <1>3 DEF DispatcherPanics, WifiTypeOK
<1> QED
  BY <1>1, <1>2, <1>3 DEF DispatcherStep

LEMMA AskTypes ==
    ASSUME WifiTypeOK, NEW r \in Requests, Ask(r) \/ TakeAnswer(r) PROVE WifiTypeOK'
<1> USE DEF supplicant, bus, conn, wifiPast
<1>1. CASE Ask(r)
  <2> PICK kind \in Kinds, i \in Interfaces :
        \E todo \in IF kind = "bss" THEN {{b} : b \in Bss} ELSE {{}} : Accept(r, kind, i, todo)
    BY <1>1 DEF Ask
  <2> PICK todo \in SUBSET (Interfaces \cup Bss) : Accept(r, kind, i, todo)
    <3>1. (IF kind = "bss" THEN {{b} : b \in Bss} ELSE {{}}) \subseteq SUBSET (Interfaces \cup Bss)
      OBVIOUS
    <3> QED
      BY <3>1
  <2>1. [FreeRequest EXCEPT !.kind = kind, !.on = i, !.at = "start", !.todo = todo] \in Request
    <3>1. "start" \in Places
      BY DEF Places
    <3> QED
      BY <3>1, FreeRequestType DEF Request
  <2>2. NoChannel \in Channel
    BY EmptySeq DEF NoChannel, Channel
  <2> QED
    BY <2>1, <2>2 DEF Accept, WifiTypeOK
<1>2. CASE TakeAnswer(r)
  <2>1. request' \in [Requests -> Request]
    BY <1>2, GotoType DEF TakeAnswer, WifiTypeOK, Places
  <2> QED
    BY <1>2, <2>1 DEF TakeAnswer, WifiTypeOK
<1> QED
  BY <1>1, <1>2

LEMMA QueryTypes == ASSUME WifiTypeOK, NEW r \in Requests, QueryStep(r) PROVE WifiTypeOK'
<1> USE DEF supplicant, bus, conn, wifiPast
<1>0. request \in [Requests -> Request] /\ {200, 404, 500} \subseteq Status
      /\ {"list", "answered"} \subseteq Places
  BY DEF WifiTypeOK, Status, Places
<1>1. request' \in [Requests -> Request]
  <2>1. CASE ReadOne(r)
    BY <1>0, <2>1, AnswerType DEF ReadOne
  <2>2. CASE ReadList(r)
    <3>1. present \in SUBSET (Interfaces \cup Bss)
      BY DEF WifiTypeOK
    <3>2. seen[request[r].on] \in SUBSET (Interfaces \cup Bss)
      BY <1>0 DEF WifiTypeOK, Request
    <3>3. CASE Answer(r, 404)
      BY <1>0, <3>3, AnswerType
    <3>4. CASE request' = [request EXCEPT
                  ![r].at = "list",
                  ![r].todo = IF request[r].kind = "bsss" THEN seen[request[r].on] ELSE present]
      <4> DEFINE t == IF request[r].kind = "bsss" THEN seen[request[r].on] ELSE present
      <4>1. [request[r] EXCEPT !.at = "list", !.todo = t] \in Request
        BY <1>0, <3>1, <3>2, RequestFields, ZenonT(40)
      <4> QED
        BY <1>0, <3>4, <4>1
    <3> QED
      BY <2>2, <3>3, <3>4 DEF ReadList
  <2>3. CASE ReadMembers(r)
    BY <1>0, <2>3, AnswerType DEF ReadMembers
  <2>4. CASE ReadState(r)
    BY <1>0, <2>4, AnswerType, GotoType DEF ReadState
  <2>5. CASE ReadNetwork(r)
    BY <1>0, <2>5, AnswerType DEF ReadNetwork
  <2> QED
    BY <2>1, <2>2, <2>3, <2>4, <2>5 DEF QueryStep
<1>2. UNCHANGED <<supplicant, bus, conn, wifiPast>>
  BY DEF QueryStep, ReadOne, ReadList, ReadMembers, ReadState, ReadNetwork
<1> QED
  BY <1>1, <1>2 DEF WifiTypeOK

LEMMA SubscriptionTypes ==
    ASSUME WifiTypeOK, NEW r \in Requests, SubscriptionStep(r) PROVE WifiTypeOK'
<1> USE DEF supplicant, bus, conn, wifiPast
<1>0. /\ request \in [Requests -> Request] /\ {409, 500} \subseteq Status
      /\ {"match", "wait", "undo", "close", "answered"} \subseteq Places
      /\ NameOf(r) \in Names /\ request[r].on \in Interfaces
  BY NameOfType DEF WifiTypeOK, Status, Places, Request
<1>1. CASE AddChannel(r)
  <2>1. chan' \in [Requests -> Channel]
    <3>1. [chan[r] EXCEPT !.is = "open"] \in Channel
      <4>1. chan[r] \in Channel
        BY DEF WifiTypeOK
      <4> QED
        BY <4>1 DEF Channel
    <3> QED
      BY <1>1, <3>1 DEF AddChannel, WifiTypeOK
  <2>2. request' \in [Requests -> Request]
    BY <1>0, <1>1, GotoType DEF AddChannel
  <2> QED
    BY <1>0, <1>1, <2>1, <2>2 DEF AddChannel, WifiTypeOK
<1>2. CASE AlreadySubscribed(r)
  <2>1. request' \in [Requests -> Request]
    BY <1>0, <1>2, LeaveType DEF AlreadySubscribed
  <2> QED
    BY <1>2, <2>1 DEF AlreadySubscribed, WifiTypeOK
<1>3. CASE AddMatch(r)
  <2>1. request' \in [Requests -> Request]
    BY <1>0, <1>3, GotoType DEF AddMatch
  <2>2. rules' \subseteq Interfaces \X Names
    BY <1>0, <1>3 DEF AddMatch, WifiTypeOK
  <2> QED
    BY <1>3, <2>1, <2>2 DEF AddMatch, WifiTypeOK
<1>4. CASE MatchFails(r)
  <2>1. request' \in [Requests -> Request]
    BY <1>0, <1>4, LeaveType DEF MatchFails
  <2> QED
    BY <1>0, <1>4, <2>1, RemoveChannelType DEF MatchFails, WifiTypeOK
<1>5. CASE RemoveMatch(r)
  <2>1. request' \in [Requests -> Request]
    BY <1>0, <1>5, GotoType DEF RemoveMatch
  <2>2. rules' \subseteq Interfaces \X Names
    BY <1>5 DEF RemoveMatch, WifiTypeOK
  <2> QED
    BY <1>5, <2>1, <2>2 DEF RemoveMatch, WifiTypeOK
<1>6. CASE CloseChannel(r)
  <2>1. request' \in [Requests -> Request]
    BY <1>0, <1>6, GotoType DEF CloseChannel
  <2> QED
    BY <1>0, <1>6, <2>1, RemoveChannelType DEF CloseChannel, WifiTypeOK
<1> QED
  BY <1>1, <1>2, <1>3, <1>4, <1>5, <1>6 DEF SubscriptionStep

LEMMA ScanTypes == ASSUME WifiTypeOK, NEW r \in Requests, ScanStep(r) PROVE WifiTypeOK'
<1> USE DEF supplicant, bus, conn, wifiPast
<1>0. /\ request \in [Requests -> Request] /\ {404, 500} \subseteq Status
      /\ {"call", "subscribe", "answered"} \subseteq Places
      /\ request[r].on \in Interfaces
  BY DEF WifiTypeOK, Status, Places, Request
<1>1. CASE StartScan(r)
  <2>1. request' \in [Requests -> Request]
    BY <1>0, <1>1, AnswerType, GotoType DEF StartScan
  <2> QED
    BY <1>1, <2>1 DEF StartScan, WifiTypeOK
<1>2. CASE CallScan(r)
  <2>1. request' \in [Requests -> Request]
    BY <1>0, <1>2, GotoType DEF CallScan
  <2>2. (IF state[request[r].on] = "disconnected" THEN "scanning" ELSE state[request[r].on])
            \in States
    BY <1>0 DEF WifiTypeOK, States
  <2>3. state' \in [Interfaces -> States] /\ queue' \in Seq(Signal)
    BY <1>0, <1>2, <2>2, EnterStateType DEF CallScan
  <2> QED
    BY <1>0, <1>2, <2>1, <2>3 DEF CallScan, WifiTypeOK
<1>3. CASE ScanRefused(r)
  <2>1. request' \in [Requests -> Request]
    BY <1>0, <1>3, AnswerType DEF ScanRefused
  <2> QED
    BY <1>3, <2>1 DEF ScanRefused, WifiTypeOK
<1> QED
  BY <1>1, <1>2, <1>3 DEF ScanStep

LEMMA ConnectTypes == ASSUME WifiTypeOK, NEW r \in Requests, ConnectStep(r) PROVE WifiTypeOK'
<1> USE DEF supplicant, bus, conn, wifiPast
<1>0. /\ request \in [Requests -> Request] /\ {400, 404, 409, 500} \subseteq Status
      /\ {"call", "remove", "add", "select", "subscribe", "unmatch", "answered"} \subseteq Places
      /\ request[r].on \in Interfaces /\ r \in Networks
  BY DEF WifiTypeOK, Status, Places, Request, Networks
<1>1. CASE StartConnect(r)
  <2>1. request' \in [Requests -> Request]
    BY <1>0, <1>1, AnswerType, GotoType DEF StartConnect
  <2> QED
    BY <1>1, <2>1 DEF StartConnect, WifiTypeOK
<1>2. CASE StopScanning(r)
  <2>1. request' \in [Requests -> Request]
    BY <1>0, <1>2, GotoType DEF StopScanning
  <2> QED
    BY <1>0, <1>2, <2>1, DisconnectType DEF StopScanning, WifiTypeOK
<1>3. CASE RemoveAllNetworks(r)
  <2>1. request' \in [Requests -> Request]
    BY <1>0, <1>3, AnswerType, GotoType DEF RemoveAllNetworks
  <2> QED
    BY <1>0, <1>3, <2>1, RemoveNetworksType DEF RemoveAllNetworks, WifiTypeOK
<1>4. CASE AddNetwork(r)
  <2>1. request' \in [Requests -> Request]
    BY <1>0, <1>4, GotoType DEF AddNetwork
  <2>2. configured' \in [Interfaces -> SUBSET Networks]
    BY <1>0, <1>4 DEF AddNetwork, WifiTypeOK
  <2> QED
    BY <1>4, <2>1, <2>2 DEF AddNetwork, WifiTypeOK
<1>5. CASE InvalidConfig(r)
  <2>1. request' \in [Requests -> Request]
    BY <1>0, <1>5, AnswerType DEF InvalidConfig
  <2> QED
    BY <1>5, <2>1 DEF InvalidConfig, WifiTypeOK
<1>6. CASE SelectNetwork(r)
  <2>1. request' \in [Requests -> Request]
    BY <1>0, <1>6, AnswerType, GotoType DEF SelectNetwork
  <2>2. state' \in [Interfaces -> States] /\ queue' \in Seq(Signal)
    BY <1>0, <1>6, EnterStateType DEF SelectNetwork, States, WifiTypeOK
  <2>3. selected' \in [Interfaces -> Networks \cup {"none"}] /\ disturbed' \subseteq Requests
    BY <1>0, <1>6 DEF SelectNetwork, WifiTypeOK
  <2> QED
    BY <1>6, <2>1, <2>2, <2>3 DEF SelectNetwork, WifiTypeOK
<1>7. CASE Undo(r)
  <2>1. request' \in [Requests -> Request]
    BY <1>0, <1>7, GotoType DEF Undo
  <2>2. configured' \in [Interfaces -> SUBSET Networks]
    BY <1>0, <1>7 DEF Undo, WifiTypeOK
  <2> QED
    BY <1>0, <1>7, <2>1, <2>2, DisconnectType DEF Undo, WifiTypeOK
<1>8. CASE Drop(r)
  <2>1. request' \in [Requests -> Request]
    BY <1>0, <1>8, GotoType DEF Drop
  <2> QED
    BY <1>0, <1>8, <2>1, DisconnectType DEF Drop, WifiTypeOK
<1> QED
  BY <1>1, <1>2, <1>3, <1>4, <1>5, <1>6, <1>7, <1>8 DEF ConnectStep

LEMMA WaitTypes == ASSUME WifiTypeOK, NEW r \in Requests, WaitStep(r) PROVE WifiTypeOK'
<1> USE DEF supplicant, bus, conn, wifiPast
<1>0. /\ request \in [Requests -> Request] /\ {200, 204, 400, 504} \subseteq Status
      /\ {"unmatch", "drop"} \subseteq Places
  BY DEF WifiTypeOK, Status, Places
<1>1. CASE ScanIsDone(r)
  <2>1. request' \in [Requests -> Request]
    BY <1>0, <1>1, LeaveType DEF ScanIsDone
  <2> QED
    BY <1>1, <2>1, TakeSignalType DEF ScanIsDone, TakeSignal, WifiTypeOK
<1>2. CASE StateArrives(r)
  <2>1. request' \in [Requests -> Request]
    <3>1. CASE request' = [request EXCEPT ![r].associating = TRUE]
      <4>1. [request[r] EXCEPT !.associating = TRUE] \in Request
        BY <1>0, RequestFields
      <4> QED
        BY <1>0, <3>1, <4>1
    <3>2. CASE Leave(r, "unmatch", 204) \/ Leave(r, "drop", 400) \/ Leave(r, "unmatch", 400)
      BY <1>0, <3>2, LeaveType
    <3>3. CASE UNCHANGED request
      BY <1>0, <3>3
    <3> QED
      BY <1>2, <3>1, <3>2, <3>3 DEF StateArrives
  <2> QED
    BY <1>2, <2>1, TakeSignalType DEF StateArrives, TakeSignal, WifiTypeOK
<1>3. CASE TimeOut(r)
  <2>1. request' \in [Requests -> Request]
    BY <1>0, <1>3, LeaveType DEF TimeOut
  <2> QED
    BY <1>3, <2>1 DEF TimeOut, WifiTypeOK
<1> QED
  BY <1>1, <1>2, <1>3 DEF WaitStep

LEMMA DisconnectTypes ==
    ASSUME WifiTypeOK, NEW r \in Requests, DisconnectStep(r) PROVE WifiTypeOK'
<1> USE DEF supplicant, bus, conn, wifiPast
<1>0. /\ request \in [Requests -> Request] /\ {204, 404, 500} \subseteq Status
      /\ {"call", "remove", "answered"} \subseteq Places
      /\ request[r].on \in Interfaces
  BY DEF WifiTypeOK, Status, Places, Request
<1>1. CASE ReadCurrent(r)
  <2>1. selected[request[r].on] \in Networks \cup {"none"}
    BY <1>0 DEF WifiTypeOK
  <2>2. request' \in [Requests -> Request]
    <3>1. CASE Answer(r, 404)
      BY <1>0, <3>1, AnswerType
    <3>2. CASE request' = [request EXCEPT ![r].net = selected[request[r].on], ![r].at = "call"]
      <4>1. [request[r] EXCEPT !.net = selected[request[r].on], !.at = "call"] \in Request
        BY <1>0, <2>1, RequestFields, ZenonT(40)
      <4> QED
        BY <1>0, <3>2, <4>1
    <3> QED
      BY <1>1, <3>1, <3>2 DEF ReadCurrent
  <2> QED
    BY <1>1, <2>2 DEF ReadCurrent, WifiTypeOK
<1>2. CASE CallDisconnect(r)
  <2>1. request' \in [Requests -> Request]
    BY <1>0, <1>2, AnswerType, GotoType DEF CallDisconnect
  <2> QED
    BY <1>0, <1>2, <2>1, DisconnectType DEF CallDisconnect, WifiTypeOK
<1>3. CASE RemoveCurrent(r)
  <2>1. request' \in [Requests -> Request]
    BY <1>0, <1>3, AnswerType DEF RemoveCurrent
  <2> QED
    BY <1>0, <1>3, <2>1, RemoveNetworksType DEF RemoveCurrent, WifiTypeOK
<1> QED
  BY <1>1, <1>2, <1>3 DEF DisconnectStep

LEMMA NextTypes == ASSUME WifiTypeOK, WifiNext PROVE WifiTypeOK'
BY SupplicantTypes, DispatcherTypes, AskTypes, QueryTypes, SubscriptionTypes, ScanTypes,
   ConnectTypes, WaitTypes, DisconnectTypes
DEF WifiNext, ServiceStep, HandlerStep

LEMMA InitTypes == ASSUME WifiInit PROVE WifiTypeOK
<1>1. FreeRequest \in Request /\ NoChannel \in Channel
  BY FreeRequestType, EmptySeq DEF NoChannel, Channel
<1>2. /\ state \in [Interfaces -> States] /\ scanning \in [Interfaces -> BOOLEAN]
      /\ seen \in [Interfaces -> SUBSET Bss]
  BY DEF WifiInit, States
<1>3. selected \in [Interfaces -> Networks \cup {"none"}]
  BY DEF WifiInit, Networks
<1>4. configured \in [Interfaces -> SUBSET Networks]
  BY DEF WifiInit
<1>5. /\ queue \in Seq(Signal) /\ dispatcher \in [to : Requests \cup {"none"}, signal : Seq(Signal)]
      /\ signals \in [Names -> Requests \cup {"none"}]
  BY EmptySeq DEF WifiInit
<1> QED
  BY <1>1, <1>2, <1>3, <1>4, <1>5, WifiConstants DEF WifiInit, WifiTypeOK

-----------------------------------------------------------------------------
(* What a handler's step leaves alone *)

\* A step of r is about r; its answer, once it has one, stays.
Moves(r) ==
    /\ \A q \in Requests \ {r} : request'[q] = request[q]
    /\ request'[r].kind = request[r].kind /\ request'[r].on = request[r].on
    /\ request'[r].status = request[r].status \/ request'[r].status # 0

\* No "completed" is sent.
QuietQueue ==
    queue' = queue \/ \E s \in Signal : s.value # "completed" /\ queue' = Append(queue, s)

\* No interface is moved to another network.
OnlyLeaves == \A i \in Interfaces : selected'[i] \in {selected[i], "none"}

LEMMA GotoMoves ==
    ASSUME WifiTypeOK, NEW r \in Requests, NEW p, Goto(r, p)
    PROVE  Moves(r) /\ request'[r].at = p /\ request'[r].status = request[r].status
BY DEF WifiTypeOK, Goto, Moves, Request

LEMMA LeaveMoves ==
    ASSUME WifiTypeOK, NEW r \in Requests, NEW p, NEW s, s # 0, Leave(r, p, s)
    PROVE  Moves(r) /\ request'[r].at = p /\ request'[r].status = s
BY DEF WifiTypeOK, Leave, Moves, Request

LEMMA AnswerMoves ==
    ASSUME WifiTypeOK, NEW r \in Requests, NEW s, s # 0, Answer(r, s)
    PROVE  Moves(r) /\ request'[r].at = "answered" /\ request'[r].status = s
BY LeaveMoves DEF Answer

LEMMA EnterStateQuiet ==
    ASSUME WifiTypeOK, NEW i \in Interfaces, NEW s \in States, EnterState(i, s),
           s # "completed" \/ s = state[i]
    PROVE  QuietQueue
<1>1. [name |-> "PropertiesChanged", of |-> i, value |-> s] \in Signal
  BY DEF Signal, Names
<1> QED
  BY <1>1 DEF EnterState, QuietQueue

LEMMA DisconnectQuiet ==
    ASSUME WifiTypeOK, NEW i \in Interfaces, Disconnect(i)
    PROVE  QuietQueue /\ OnlyLeaves /\ selected'[i] = "none"
<1>1. (IF selected[i] = "none" THEN state[i] ELSE "disconnected") \in States
  BY DEF WifiTypeOK, States
<1>2. QuietQueue
  BY <1>1, EnterStateQuiet DEF Disconnect
<1> QED
  BY <1>2 DEF Disconnect, OnlyLeaves, WifiTypeOK

LEMMA RemoveNetworksQuiet ==
    ASSUME WifiTypeOK, NEW i \in Interfaces, NEW ns, RemoveNetworks(i, ns)
    PROVE  QuietQueue /\ OnlyLeaves
<1>1. CASE selected[i] \in ns
  BY <1>1, DisconnectQuiet DEF RemoveNetworks
<1>2. CASE selected[i] \notin ns
  BY <1>2 DEF RemoveNetworks, QuietQueue, OnlyLeaves
<1> QED
  BY <1>1, <1>2

\* The steps that neither open nor close a channel, nor select a network, and how they move.
Plain(r) ==
    /\ Moves(r) /\ QuietQueue /\ OnlyLeaves
    /\ UNCHANGED <<signals, dispatcher, up, reached, disturbed>>
    /\ up
    /\ request[r].at \in Held <=> request'[r].at \in Held
    /\ request[r].at \in {"wait", "drop", "unmatch"}
          => request'[r].at \in {"wait", "drop", "unmatch"}
    /\ request'[r].at \in Early => request[r].at \in Early

LEMMA QueryPlain ==
    ASSUME WifiTypeOK, NEW r \in Requests, QueryStep(r)
    PROVE  /\ Plain(r) /\ UNCHANGED <<chan, rules>>
           /\ request[r].kind \notin {"scan", "connect"}
           /\ request'[r].at \notin {"drop", "undo", "unmatch", "close"}
<1>0. /\ UNCHANGED <<supplicant, bus, conn, wifiPast>> /\ up
      /\ request[r].kind \in {"interface", "bss", "interfaces", "bsss", "network", "disconnect"}
      /\ request[r].at \in {"start", "list"}
  BY DEF QueryStep, ReadOne, ReadList, ReadMembers, ReadState, ReadNetwork, At
<1>1. Moves(r) /\ request'[r].at \in {"list", "answered"}
  <2>1. CASE \E s \in {200, 404, 500} : Answer(r, s)
    BY <2>1, AnswerMoves
  <2>2. CASE Goto(r, "list")
    BY <2>2, GotoMoves
  <2>3. CASE \E t : request' = [request EXCEPT ![r].at = "list", ![r].todo = t]
    BY <2>3 DEF WifiTypeOK, Request, Moves
  <2>4. CASE ReadOne(r)
    BY <2>1, <2>4 DEF ReadOne
  <2>5. CASE ReadList(r)
    BY <2>1, <2>3, <2>5 DEF ReadList
  <2>6. CASE ReadMembers(r)
    BY <2>1, <2>6 DEF ReadMembers
  <2>7. CASE ReadState(r)
    BY <2>1, <2>2, <2>7 DEF ReadState
  <2>8. CASE ReadNetwork(r)
    BY <2>1, <2>8 DEF ReadNetwork
  <2> QED
    BY <2>4, <2>5, <2>6, <2>7, <2>8 DEF QueryStep
<1> QED
  BY <1>0, <1>1
  DEF Plain, QuietQueue, OnlyLeaves, Held, Early, supplicant, bus, conn, wifiPast

LEMMA DisconnectPlain ==
    ASSUME WifiTypeOK, NEW r \in Requests, DisconnectStep(r)
    PROVE  /\ Plain(r) /\ UNCHANGED <<chan, rules>>
           /\ request[r].kind \notin {"scan", "connect"}
           /\ request'[r].at \notin {"drop", "undo", "unmatch", "close"}
<1> USE DEF supplicant, bus, conn, wifiPast
<1>0. request[r].on \in Interfaces
  BY DEF WifiTypeOK, Request
<1>1. CASE ReadCurrent(r)
  <2>1. CASE Answer(r, 404)
    BY <1>1, <2>1, AnswerMoves DEF ReadCurrent, At, Plain, QuietQueue, OnlyLeaves, Held, Early
  <2>2. CASE request' = [request EXCEPT ![r].net = selected[request[r].on], ![r].at = "call"]
    <3>1. Moves(r) /\ request'[r].at = "call"
      BY <2>2 DEF WifiTypeOK, Request, Moves
    <3> QED
      BY <1>1, <3>1 DEF ReadCurrent, At, Plain, QuietQueue, OnlyLeaves, Held, Early
  <2> QED
    BY <1>1, <2>1, <2>2 DEF ReadCurrent
<1>2. CASE CallDisconnect(r)
  <2>1. Moves(r) /\ request'[r].at \in {"remove", "answered"}
    BY <1>2, AnswerMoves, GotoMoves DEF CallDisconnect
  <2> QED
    BY <1>0, <1>2, <2>1, DisconnectQuiet DEF CallDisconnect, At, Plain, Held, Early
<1>3. CASE RemoveCurrent(r)
  <2>1. Moves(r) /\ request'[r].at = "answered"
    BY <1>3, AnswerMoves DEF RemoveCurrent
  <2> QED
    BY <1>0, <1>3, <2>1, RemoveNetworksQuiet DEF RemoveCurrent, At, Plain, Held, Early
<1> QED
  BY <1>1, <1>2, <1>3 DEF DisconnectStep

LEMMA ScanPlain ==
    ASSUME WifiTypeOK, NEW r \in Requests, ScanStep(r)
    PROVE  /\ Plain(r) /\ UNCHANGED <<chan, rules>> /\ request[r].kind = "scan"
           /\ request'[r].at \notin {"drop", "undo", "unmatch", "close"}
<1> USE DEF supplicant, bus, conn, wifiPast
<1>0. request[r].on \in Interfaces
  BY DEF WifiTypeOK, Request
<1>1. CASE StartScan(r)
  <2>1. Moves(r) /\ request'[r].at \in {"call", "subscribe", "answered"}
    BY <1>1, AnswerMoves, GotoMoves DEF StartScan
  <2> QED
    BY <1>1, <2>1 DEF StartScan, At, Plain, QuietQueue, OnlyLeaves, Held, Early
<1>2. CASE CallScan(r)
  <2>1. Moves(r) /\ request'[r].at = "subscribe"
    BY <1>2, GotoMoves DEF CallScan
  <2>2. (IF state[request[r].on] = "disconnected" THEN "scanning" ELSE state[request[r].on])
            \in States
    BY <1>0 DEF WifiTypeOK, States
  <2>3. QuietQueue
    BY <1>0, <1>2, <2>2, EnterStateQuiet DEF CallScan
  <2> QED
    BY <1>2, <2>1, <2>3 DEF CallScan, At, Plain, OnlyLeaves, Held, Early
<1>3. CASE ScanRefused(r)
  <2>1. Moves(r) /\ request'[r].at = "answered"
    BY <1>3, AnswerMoves DEF ScanRefused
  <2> QED
    BY <1>3, <2>1 DEF ScanRefused, At, Plain, QuietQueue, OnlyLeaves, Held, Early
<1> QED
  BY <1>1, <1>2, <1>3 DEF ScanStep

\* The steps of an attempt to connect but SelectNetwork.
LEMMA ConnectPlain ==
    ASSUME WifiTypeOK, NEW r \in Requests, ConnectStep(r), ~SelectNetwork(r)
    PROVE  Plain(r) /\ UNCHANGED <<chan, rules>> /\ request[r].kind = "connect"
<1> USE DEF supplicant, bus, conn, wifiPast
<1>0. request[r].on \in Interfaces
  BY DEF WifiTypeOK, Request
<1>1. CASE StartConnect(r)
  <2>1. Moves(r) /\ request'[r].at \in {"call", "remove", "answered"}
    BY <1>1, AnswerMoves, GotoMoves DEF StartConnect
  <2> QED
    BY <1>1, <2>1 DEF StartConnect, At, Plain, QuietQueue, OnlyLeaves, Held, Early
<1>2. CASE StopScanning(r)
  <2>1. Moves(r) /\ request'[r].at = "remove"
    BY <1>2, GotoMoves DEF StopScanning
  <2> QED
    BY <1>0, <1>2, <2>1, DisconnectQuiet DEF StopScanning, At, Plain, Held, Early
<1>3. CASE RemoveAllNetworks(r)
  <2>1. Moves(r) /\ request'[r].at \in {"add", "answered"}
    BY <1>3, AnswerMoves, GotoMoves DEF RemoveAllNetworks
  <2> QED
    BY <1>0, <1>3, <2>1, RemoveNetworksQuiet DEF RemoveAllNetworks, At, Plain, Held, Early
<1>4. CASE AddNetwork(r)
  <2>1. Moves(r) /\ request'[r].at = "select"
    BY <1>4, GotoMoves DEF AddNetwork
  <2> QED
    BY <1>4, <2>1 DEF AddNetwork, At, Plain, QuietQueue, OnlyLeaves, Held, Early
<1>5. CASE InvalidConfig(r)
  <2>1. Moves(r) /\ request'[r].at = "answered"
    BY <1>5, AnswerMoves DEF InvalidConfig
  <2> QED
    BY <1>5, <2>1 DEF InvalidConfig, At, Plain, QuietQueue, OnlyLeaves, Held, Early
<1>6. CASE Undo(r)
  <2>1. Moves(r) /\ request'[r].at = "answered"
    BY <1>6, GotoMoves DEF Undo
  <2> QED
    BY <1>0, <1>6, <2>1, DisconnectQuiet DEF Undo, At, Plain, Held, Early
<1>7. CASE Drop(r)
  <2>1. Moves(r) /\ request'[r].at = "unmatch"
    BY <1>7, GotoMoves DEF Drop
  <2> QED
    BY <1>0, <1>7, <2>1, DisconnectQuiet DEF Drop, At, Plain, Held, Early
<1> QED
  BY <1>1, <1>2, <1>3, <1>4, <1>5, <1>6, <1>7 DEF ConnectStep

LEMMA WaitPlain ==
    ASSUME WifiTypeOK, NEW r \in Requests, WaitStep(r)
    PROVE  /\ Plain(r) /\ UNCHANGED <<rules, selected, queue>> /\ request[r].at = "wait"
           /\ \A q \in Requests \ {r} : chan'[q] = chan[q]
           /\ chan'[r].is = chan[r].is
           /\ \/ chan'[r].buffer = chan[r].buffer
              \/ chan[r].buffer # <<>> /\ chan'[r].buffer = Tail(chan[r].buffer)
           /\ request'[r].at = "wait" \/ request'[r].status # 0
<1> USE DEF supplicant, bus, conn, wifiPast
<1>0. chan \in [Requests -> Channel]
  BY DEF WifiTypeOK
<1>1. CASE ScanIsDone(r)
  <2>1. Moves(r) /\ request'[r].at = "unmatch" /\ request'[r].status = 200
    BY <1>1, LeaveMoves DEF ScanIsDone
  <2> QED
    BY <1>0, <1>1, <2>1
    DEF ScanIsDone, TakeSignal, At, Plain, QuietQueue, OnlyLeaves, Held, Early, Channel
<1>2. CASE StateArrives(r)
  <2>1. /\ Moves(r)
        /\ \/ request'[r].at = "wait"
           \/ request'[r].at \in {"unmatch", "drop"} /\ request'[r].status \in {204, 400}
    <3>1. CASE request' = [request EXCEPT ![r].associating = TRUE]
      BY <1>2, <3>1 DEF WifiTypeOK, Request, Moves, StateArrives, At
    <3>2. CASE Leave(r, "unmatch", 204) \/ Leave(r, "drop", 400) \/ Leave(r, "unmatch", 400)
      BY <3>2, LeaveMoves
    <3>3. CASE UNCHANGED request
      BY <1>2, <3>3 DEF Moves, StateArrives, At
    <3> QED
      BY <1>2, <3>1, <3>2, <3>3 DEF StateArrives
  <2> QED
    BY <1>0, <1>2, <2>1
    DEF StateArrives, TakeSignal, At, Plain, QuietQueue, OnlyLeaves, Held, Early, Channel
<1>3. CASE TimeOut(r)
  <2>1. Moves(r) /\ request'[r].at \in {"unmatch", "drop"} /\ request'[r].status = 504
    BY <1>3, LeaveMoves DEF TimeOut
  <2> QED
    BY <1>3, <2>1 DEF TimeOut, At, Plain, QuietQueue, OnlyLeaves, Held, Early
<1> QED
  BY <1>1, <1>2, <1>3 DEF WaitStep

LEMMA AlreadySubscribedPlain ==
    ASSUME WifiTypeOK, NEW r \in Requests, AlreadySubscribed(r)
    PROVE  /\ Plain(r) /\ UNCHANGED <<chan, rules>> /\ request'[r].status = 409
           /\ request[r].at = "subscribe"
           /\ request'[r].at = IF request[r].kind = "scan" THEN "answered" ELSE "undo"
<1>1. /\ Moves(r) /\ request'[r].status = 409
      /\ request'[r].at = IF request[r].kind = "scan" THEN "answered" ELSE "undo"
  BY LeaveMoves DEF AlreadySubscribed
<1> QED
  BY <1>1 DEF AlreadySubscribed, At, Plain, QuietQueue, OnlyLeaves, Held, Early,
     supplicant, bus, conn, wifiPast

-----------------------------------------------------------------------------
(* A handler's step and the other requests *)

\* Every step of a handler is so: what it does to another request is at most to disturb it.
Beside(r) ==
    /\ Moves(r) /\ QuietQueue
    /\ UNCHANGED <<dispatcher, up, reached>> /\ up
    /\ disturbed \subseteq disturbed'
    /\ \A q \in Requests \ {r} :
          /\ chan'[q] = chan[q]
          /\ \/ selected'[request[q].on] \in {selected[request[q].on], "none"}
             \/ q \in disturbed' /\ selected'[request[q].on] # q

LEMMA RemoveChannelOwn ==
    ASSUME WifiTypeOK, NEW r \in Requests, signals[NameOf(r)] = r, RemoveChannel(NameOf(r))
    PROVE  /\ \A q \in Requests \ {r} : chan'[q] = chan[q]
           /\ chan'[r].is = "closed" /\ chan'[r].buffer = chan[r].buffer
           /\ signals'[NameOf(r)] = "none"
           /\ \A n \in Names \ {NameOf(r)} : signals'[n] = signals[n]
<1>1. chan[r] \in Channel /\ NameOf(r) \in Names
  BY NameOfType DEF WifiTypeOK
<1>2. chan'[r] = [chan[r] EXCEPT !.is = "closed"]
  BY DEF RemoveChannel
<1>3. \A q \in Requests \ {r} : chan'[q] = chan[q]
  BY DEF RemoveChannel
<1> QED
  BY <1>1, <1>2, <1>3 DEF RemoveChannel, Channel, WifiTypeOK

LEMMA HandlerBeside ==
    ASSUME WifiInv, NEW r \in Requests, HandlerStep(r) PROVE Beside(r)
<1> USE DEF supplicant, bus, conn, wifiPast
<1>0. WifiTypeOK /\ \A q \in Requests : request[q].on \in Interfaces
  BY DEF WifiInv, WifiTypeOK, Request
<1>1. ASSUME Plain(r), \A q \in Requests \ {r} : chan'[q] = chan[q] PROVE Beside(r)
  BY <1>0, <1>1 DEF Plain, Beside, OnlyLeaves
<1>2. CASE QueryStep(r) \/ DisconnectStep(r) \/ ScanStep(r) \/ WaitStep(r)
  BY <1>0, <1>1, <1>2, QueryPlain, DisconnectPlain, ScanPlain, WaitPlain
<1>3. CASE ConnectStep(r) /\ ~SelectNetwork(r)
  BY <1>0, <1>1, <1>3, ConnectPlain
<1>4. CASE SelectNetwork(r)
  <2>1. CASE r \in configured[request[r].on]
    <3>1. Moves(r) /\ EnterState(request[r].on, "scanning")
      BY <1>0, <1>4, <2>1, GotoMoves DEF SelectNetwork
    <3>2. QuietQueue
      BY <1>0, <3>1, EnterStateQuiet DEF States
    <3>3. \A q \in Requests \ {r} :
            \/ selected'[request[q].on] = selected[request[q].on]
            \/ q \in disturbed' /\ selected'[request[q].on] = r
      BY <1>0, <1>4, <2>1 DEF SelectNetwork, WifiTypeOK
    <3> QED
      BY <1>4, <2>1, <3>1, <3>2, <3>3 DEF SelectNetwork, Beside, At
  <2>2. CASE r \notin configured[request[r].on]
    <3>1. Moves(r)
      BY <1>0, <1>4, <2>2, AnswerMoves DEF SelectNetwork
    <3> QED
      BY <1>4, <2>2, <3>1 DEF SelectNetwork, Beside, At, QuietQueue
  <2> QED
    BY <2>1, <2>2
<1>5. CASE SubscriptionStep(r)
  <2>1. CASE AddChannel(r)
    <3>1. Moves(r)
      BY <1>0, <2>1, GotoMoves DEF AddChannel
    <3> QED
      BY <2>1, <3>1 DEF AddChannel, Beside, At, QuietQueue
  <2>2. CASE AlreadySubscribed(r)
    BY <1>0, <1>1, <2>2, AlreadySubscribedPlain
  <2>3. CASE AddMatch(r) \/ RemoveMatch(r)
    <3>1. Moves(r)
      BY <1>0, <2>3, GotoMoves DEF AddMatch, RemoveMatch
    <3> QED
      BY <2>3, <3>1 DEF AddMatch, RemoveMatch, Beside, At, QuietQueue
  <2>4. CASE MatchFails(r) \/ CloseChannel(r)
    <3>1. Moves(r)
      BY <1>0, <2>4, GotoMoves, LeaveMoves DEF MatchFails, CloseChannel
    <3>2. signals[NameOf(r)] = r
      BY <2>4 DEF MatchFails, CloseChannel, At, WifiInv, SubscriptionIsExclusive
    <3>3. \A q \in Requests \ {r} : chan'[q] = chan[q]
      BY <1>0, <2>4, <3>2, RemoveChannelOwn DEF MatchFails, CloseChannel
    <3> QED
      BY <2>4, <3>1, <3>3 DEF MatchFails, CloseChannel, Beside, At, QuietQueue
  <2> QED
    BY <1>5, <2>1, <2>2, <2>3, <2>4 DEF SubscriptionStep
<1> QED
  BY <1>2, <1>3, <1>4, <1>5 DEF HandlerStep

LEMMA QuietCompleted ==
    ASSUME WifiTypeOK, QuietQueue
    PROVE  \A k \in 1 .. Len(queue') :
               queue'[k].value = "completed" => k \in 1 .. Len(queue) /\ queue'[k] = queue[k]
<1>0. queue \in Seq(Signal)
  BY DEF WifiTypeOK
<1>1. CASE queue' = queue
  BY <1>1
<1>2. ASSUME NEW s \in Signal, s.value # "completed", queue' = Append(queue, s),
             NEW k \in 1 .. Len(queue'), queue'[k].value = "completed"
      PROVE  k \in 1 .. Len(queue) /\ queue'[k] = queue[k]
  <2>1. /\ Len(queue') = Len(queue) + 1 /\ queue'[Len(queue) + 1] = s
        /\ \A j \in 1 .. Len(queue) : queue'[j] = queue[j]
    BY <1>0, <1>2, AppendProperties
  <2> QED
    BY <1>0, <1>2, <2>1, LenProperties
<1> QED
  BY <1>1, <1>2 DEF QuietQueue

LEMMA OthersKeep ==
    ASSUME WifiInv, NEW r \in Requests, Beside(r), NEW q \in Requests \ {r}
    PROVE  Settled(q)' /\ Attempt(q)' /\ Undisturbed(q)'
<1>0. /\ request'[q] = request[q] /\ chan'[q] = chan[q] /\ dispatcher' = dispatcher
      /\ reached' = reached /\ (q \in disturbed => q \in disturbed')
      /\ Settled(q) /\ Attempt(q) /\ Undisturbed(q)
  BY DEF Beside, Moves, WifiInv
<1>1. Settled(q)'
  BY <1>0 DEF Settled
<1>2. selected'[request[q].on] = q => selected[request[q].on] = q
  BY WifiConstants DEF Beside
<1>3. Attempt(q)'
  BY <1>0, <1>2 DEF Attempt
<1>4. q \notin disturbed' => selected'[request[q].on] \in {selected[request[q].on], "none"}
  BY DEF Beside
<1>5. \A k \in 1 .. Len(queue') :
          queue'[k].value = "completed" => k \in 1 .. Len(queue) /\ queue'[k] = queue[k]
  BY QuietCompleted DEF Beside, WifiInv
<1>6. Undisturbed(q)'
  BY <1>0, <1>4, <1>5 DEF Undisturbed
<1> QED
  BY <1>1, <1>3, <1>6

-----------------------------------------------------------------------------
(* A handler's step and what the requests share *)

LEMMA HolderNamed ==
    ASSUME WifiInv, NEW r \in Requests, NEW n \in Names, signals[n] = r PROVE NameOf(r) = n
BY WifiConstants DEF WifiInv, SignalsNamed

Shared == SubscriptionIsExclusive /\ SignalsNamed /\ RulesWatched

LEMMA PlainShared ==
    ASSUME WifiInv, NEW r \in Requests, Plain(r), rules' = rules,
           \A q \in Requests \ {r} : chan'[q] = chan[q], chan'[r].is = chan[r].is
    PROVE  Shared'
<1>1. /\ \A q \in Requests : /\ request'[q].kind = request[q].kind
                             /\ request'[q].on = request[q].on
                             /\ chan'[q].is = chan[q].is
                             /\ request[q].at \in Held <=> request'[q].at \in Held
                             /\ request[q].at \in {"wait", "drop", "unmatch"}
                                   => request'[q].at \in {"wait", "drop", "unmatch"}
      /\ signals' = signals
  BY DEF Plain, Moves
<1>2. \A q \in Requests : NameOf(q)' = NameOf(q)
  BY <1>1 DEF NameOf
<1>3. SubscriptionIsExclusive'
  BY <1>1, <1>2 DEF WifiInv, SubscriptionIsExclusive, Held
<1>4. \A n \in Names : signals[n] \in Requests \cup {"none"}
  BY DEF WifiInv, WifiTypeOK
<1>5. SignalsNamed'
  BY <1>1, <1>2, <1>4 DEF WifiInv, SignalsNamed, NameOf
<1>6. RulesWatched'
  BY <1>1, <1>4 DEF WifiInv, RulesWatched, Names
<1> QED
  BY <1>3, <1>5, <1>6 DEF Shared

LEMMA BesideShared ==
    ASSUME WifiInv, NEW r \in Requests, Beside(r) PROVE CompletedNamed' /\ DeadOfClosed'
<1>1. \A k \in 1 .. Len(queue') :
          queue'[k].value = "completed" => k \in 1 .. Len(queue) /\ queue'[k] = queue[k]
  BY QuietCompleted DEF Beside, WifiInv
<1> QED
  BY <1>1 DEF Beside, WifiInv, CompletedNamed, DeadOfClosed

\* A subscription: its channel is put under its name.
LEMMA AddChannelShared == ASSUME WifiInv, NEW r \in Requests, AddChannel(r) PROVE Shared'
<1>0. /\ Moves(r) /\ request'[r].at = "match"
      /\ request[r].kind \in {"scan", "connect"} /\ request[r].at = "subscribe"
      /\ signals[NameOf(r)] = "none"
      /\ signals' = [signals EXCEPT ![NameOf(r)] = r] /\ rules' = rules
      /\ chan' = [chan EXCEPT ![r].is = "open"]
  BY GotoMoves DEF AddChannel, At, WifiInv, bus
<1>1. /\ signals'[NameOf(r)] = r
      /\ \A n \in Names \ {NameOf(r)} : signals'[n] = signals[n]
      /\ chan'[r].is = "open" /\ \A q \in Requests \ {r} : chan'[q] = chan[q]
  BY <1>0, NameOfType DEF WifiInv, WifiTypeOK, Channel
<1>2. \A q \in Requests : /\ NameOf(q)' = NameOf(q) /\ NameOf(q) \in Names
                          /\ request'[q].kind = request[q].kind /\ request'[q].on = request[q].on
  BY <1>0, NameOfType DEF Moves, NameOf
<1>3. SubscriptionIsExclusive'
  <2> SUFFICES ASSUME NEW q \in Requests
               PROVE (request'[q].kind \in {"scan", "connect"} /\ request'[q].at \in Held)
                     <=> (signals'[NameOf(q)] = q /\ chan'[q].is = "open")
    BY <1>2 DEF SubscriptionIsExclusive, Held
  <2>1. CASE q = r
    BY <1>0, <1>1, <1>2, <2>1 DEF Held
  <2>2. CASE q # r
    <3>1. /\ request'[q] = request[q] /\ chan'[q] = chan[q]
          /\ signals'[NameOf(q)] = q <=> signals[NameOf(q)] = q
      BY <1>0, <1>1, <1>2, <2>2, WifiConstants DEF Moves
    <3> QED
      BY <3>1 DEF WifiInv, SubscriptionIsExclusive, Held
  <2> QED
    BY <2>1, <2>2
<1>4. \A n \in Names : signals[n] \in Requests \cup {"none"}
  BY DEF WifiInv, WifiTypeOK
<1>5. SignalsNamed'
  <2> SUFFICES ASSUME NEW n \in Names, signals'[n] # "none"
               PROVE NameOf(signals[n])' = n /\ chan'[signals'[n]].is = "open"
    BY DEF SignalsNamed
  <2> QED
    BY <1>1, <1>2, <1>4 DEF WifiInv, SignalsNamed, NameOf
<1>6. RulesWatched'
  <2>1. CASE NameOf(r) = "PropertiesChanged"
    BY <1>0, <2>1 DEF WifiInv, RulesWatched
  <2>2. CASE NameOf(r) # "PropertiesChanged"
    <3>1. /\ signals'["PropertiesChanged"] = signals["PropertiesChanged"]
          /\ signals["PropertiesChanged"] # r
      BY <1>1, <2>2, HolderNamed DEF Names
    <3>2. signals["PropertiesChanged"] # "none"
             => request'[signals["PropertiesChanged"]] = request[signals["PropertiesChanged"]]
      BY <1>0, <1>4, <3>1 DEF Moves, Names
    <3> QED
      BY <1>0, <3>1, <3>2 DEF WifiInv, RulesWatched
  <2> QED
    BY <2>1, <2>2
<1> QED
  BY <1>3, <1>5, <1>6 DEF Shared

\* The end of a subscription, before or after its match rule: nobody's rules are in place.
LEMMA RemoveChannelShared ==
    ASSUME WifiInv, NEW r \in Requests, Moves(r), RemoveChannel(NameOf(r)), rules' = rules,
           request[r].kind \in {"scan", "connect"}, request[r].at \in {"match", "close"},
           request'[r].at \notin Held
    PROVE  Shared'
<1>0. signals[NameOf(r)] = r
  BY DEF WifiInv, SubscriptionIsExclusive
<1>1. /\ \A q \in Requests \ {r} : chan'[q] = chan[q]
      /\ chan'[r].is = "closed" /\ signals'[NameOf(r)] = "none"
      /\ \A n \in Names \ {NameOf(r)} : signals'[n] = signals[n]
  BY <1>0, RemoveChannelOwn DEF WifiInv
<1>2. \A q \in Requests : /\ NameOf(q)' = NameOf(q) /\ NameOf(q) \in Names
                          /\ request'[q].kind = request[q].kind /\ request'[q].on = request[q].on
  BY NameOfType DEF Moves, NameOf
<1>3. SubscriptionIsExclusive'
  <2> SUFFICES ASSUME NEW q \in Requests
               PROVE (request'[q].kind \in {"scan", "connect"} /\ request'[q].at \in Held)
                     <=> (signals'[NameOf(q)] = q /\ chan'[q].is = "open")
    BY <1>2 DEF SubscriptionIsExclusive, Held
  <2>1. CASE q = r
    BY <1>1, <1>2, <2>1, WifiConstants
  <2>2. CASE q # r
    <3>1. /\ request'[q] = request[q] /\ chan'[q] = chan[q]
          /\ signals'[NameOf(q)] = q <=> signals[NameOf(q)] = q
      BY <1>0, <1>1, <1>2, <2>2, WifiConstants DEF Moves
    <3> QED
      BY <3>1 DEF WifiInv, SubscriptionIsExclusive, Held
  <2> QED
    BY <2>1, <2>2
<1>4. \A n \in Names : signals[n] \in Requests \cup {"none"}
  BY DEF WifiInv, WifiTypeOK
<1>5. SignalsNamed'
  <2> SUFFICES ASSUME NEW n \in Names, signals'[n] # "none"
               PROVE NameOf(signals[n])' = n /\ chan'[signals'[n]].is = "open"
    BY DEF SignalsNamed
  <2>1. signals'[n] = signals[n] /\ n # NameOf(r)
    BY <1>1
  <2>2. NameOf(signals[n]) = n /\ chan[signals[n]].is = "open" /\ signals[n] # r
    BY <2>1 DEF WifiInv, SignalsNamed
  <2> QED
    BY <1>1, <1>2, <1>4, <2>1, <2>2 DEF NameOf
<1>6. RulesWatched'
  <2>1. CASE NameOf(r) = "PropertiesChanged"
    BY <1>0, <2>1 DEF WifiInv, RulesWatched
  <2>2. CASE NameOf(r) # "PropertiesChanged"
    <3>1. /\ signals'["PropertiesChanged"] = signals["PropertiesChanged"]
          /\ signals["PropertiesChanged"] # r
      BY <1>1, <2>2, HolderNamed DEF Names
    <3>2. signals["PropertiesChanged"] # "none"
             => request'[signals["PropertiesChanged"]] = request[signals["PropertiesChanged"]]
      BY <1>4, <3>1 DEF Moves, Names
    <3> QED
      BY <3>1, <3>2 DEF WifiInv, RulesWatched
  <2> QED
    BY <2>1, <2>2
<1> QED
  BY <1>3, <1>5, <1>6 DEF Shared

\* The match rule comes and goes while the subscription is held.
LEMMA MatchShared ==
    ASSUME WifiInv, NEW r \in Requests, AddMatch(r) \/ RemoveMatch(r) PROVE Shared'
<1>0. /\ Moves(r) /\ UNCHANGED <<signals, chan>>
      /\ request[r].kind \in {"scan", "connect"}
      /\ request[r].at \in Held /\ request'[r].at \in Held
      /\ signals[NameOf(r)] = r
  BY GotoMoves
  DEF AddMatch, RemoveMatch, At, WifiInv, SubscriptionIsExclusive, Held, conn, supplicant
<1>1. \A q \in Requests : /\ NameOf(q)' = NameOf(q)
                          /\ request'[q].kind = request[q].kind /\ request'[q].on = request[q].on
                          /\ request[q].at \in Held <=> request'[q].at \in Held
  BY <1>0 DEF Moves, NameOf
<1>2. SubscriptionIsExclusive'
  BY <1>0, <1>1 DEF WifiInv, SubscriptionIsExclusive, Held
<1>3. \A n \in Names : signals[n] \in Requests \cup {"none"}
  BY DEF WifiInv, WifiTypeOK
<1>4. SignalsNamed'
  BY <1>0, <1>1, <1>3 DEF WifiInv, SignalsNamed, NameOf
<1>5. signals["PropertiesChanged"] # r /\ signals["PropertiesChanged"] # "none"
         => request'[signals["PropertiesChanged"]] = request[signals["PropertiesChanged"]]
  BY <1>0, <1>3 DEF Moves, Names
<1>6. CASE NameOf(r) # "PropertiesChanged"
  <2>1. signals["PropertiesChanged"] # r
    BY <1>6, HolderNamed DEF Names
  <2>2. \A i \in Interfaces : <<i, "PropertiesChanged">> \in rules' =>
                              <<i, "PropertiesChanged">> \in rules
    BY <1>6 DEF AddMatch, RemoveMatch
  <2>3. RulesWatched'
    BY <1>0, <1>5, <2>1, <2>2 DEF WifiInv, RulesWatched
  <2> QED
    BY <1>2, <1>4, <2>3 DEF Shared
<1>7. CASE NameOf(r) = "PropertiesChanged" /\ AddMatch(r)
  <2>1. request[r].at = "match" /\ request'[r].at = "wait"
        /\ rules' = rules \cup {<<request[r].on, "PropertiesChanged">>}
    BY <1>7, GotoMoves DEF AddMatch, At, WifiInv
  <2>2. \A i \in Interfaces : <<i, "PropertiesChanged">> \notin rules
    BY <1>0, <1>7, <2>1 DEF WifiInv, RulesWatched
  <2>3. signals'["PropertiesChanged"] = r /\ r # "none" /\ request'[r].on = request[r].on
    BY <1>0, <1>1, <1>7, WifiConstants
  <2>4. \A i \in Interfaces : <<i, "PropertiesChanged">> \in rules' => i = request[r].on
    BY <2>1, <2>2
  <2>5. RulesWatched'
    BY <2>1, <2>3, <2>4 DEF RulesWatched
  <2> QED
    BY <1>2, <1>4, <2>5 DEF Shared
<1>8. CASE NameOf(r) = "PropertiesChanged" /\ RemoveMatch(r)
  <2>1. rules' = rules \ {<<request[r].on, "PropertiesChanged">>}
    BY <1>8 DEF RemoveMatch
  <2>2. \A i \in Interfaces : <<i, "PropertiesChanged">> \notin rules'
    BY <1>0, <1>8, <2>1 DEF WifiInv, RulesWatched
  <2>3. RulesWatched'
    BY <2>2 DEF RulesWatched
  <2> QED
    BY <1>2, <1>4, <2>3 DEF Shared
<1> QED
  BY <1>6, <1>7, <1>8

\* SelectNetwork touches no channel.
LEMMA SelectShared == ASSUME WifiInv, NEW r \in Requests, SelectNetwork(r) PROVE Shared'
<1>0. /\ Moves(r) /\ UNCHANGED <<signals, chan, rules>>
      /\ request[r].at = "select" /\ request'[r].at \in {"subscribe", "answered"}
  BY GotoMoves, AnswerMoves DEF SelectNetwork, At, WifiInv, conn
<1>1. /\ \A q \in Requests : /\ request'[q].kind = request[q].kind
                             /\ request'[q].on = request[q].on
                             /\ request[q].at \in Held <=> request'[q].at \in Held
                             /\ request[q].at \in {"wait", "drop", "unmatch"}
                                   => request'[q].at \in {"wait", "drop", "unmatch"}
  BY <1>0 DEF Moves, Held
<1>2. \A q \in Requests : NameOf(q)' = NameOf(q)
  BY <1>1 DEF NameOf
<1>3. SubscriptionIsExclusive'
  BY <1>0, <1>1, <1>2 DEF WifiInv, SubscriptionIsExclusive, Held
<1>4. \A n \in Names : signals[n] \in Requests \cup {"none"}
  BY DEF WifiInv, WifiTypeOK
<1>5. SignalsNamed'
  BY <1>0, <1>1, <1>2, <1>4 DEF WifiInv, SignalsNamed, NameOf
<1>6. RulesWatched'
  BY <1>0, <1>1, <1>4 DEF WifiInv, RulesWatched, Names
<1> QED
  BY <1>3, <1>5, <1>6 DEF Shared

LEMMA HandlerShared == ASSUME WifiInv, NEW r \in Requests, HandlerStep(r) PROVE Shared'
<1>0. WifiTypeOK
  BY DEF WifiInv
<1>1. CASE QueryStep(r) \/ DisconnectStep(r) \/ ScanStep(r) \/ WaitStep(r)
  BY <1>0, <1>1, PlainShared, QueryPlain, DisconnectPlain, ScanPlain, WaitPlain
<1>2. CASE ConnectStep(r) /\ ~SelectNetwork(r)
  BY <1>0, <1>2, PlainShared, ConnectPlain
<1>3. CASE SelectNetwork(r)
  BY <1>3, SelectShared
<1>4. CASE AlreadySubscribed(r)
  BY <1>0, <1>4, PlainShared, AlreadySubscribedPlain
<1>5. CASE MatchFails(r) \/ CloseChannel(r)
  <2>1. /\ Moves(r) /\ RemoveChannel(NameOf(r)) /\ rules' = rules
        /\ request[r].kind \in {"scan", "connect"} /\ request[r].at \in {"match", "close"}
        /\ request'[r].at \notin Held
    BY <1>0, <1>5, LeaveMoves, GotoMoves DEF MatchFails, CloseChannel, At, Held, bus
  <2> QED
    BY <2>1, RemoveChannelShared
<1>6. CASE AddChannel(r) \/ AddMatch(r) \/ RemoveMatch(r)
  BY <1>6, AddChannelShared, MatchShared
<1> QED
  BY <1>1, <1>2, <1>3, <1>4, <1>5, <1>6 DEF HandlerStep, SubscriptionStep

-----------------------------------------------------------------------------
(* A handler's step and its own request *)

Own(r) == Settled(r) /\ Attempt(r) /\ Undisturbed(r)

LEMMA PlainSettled ==
    ASSUME NEW r \in Requests, Settled(r), Plain(r), chan'[r].is = chan[r].is,
           request'[r].at \in Early => chan'[r] = chan[r],
           request'[r].at \in {"drop", "undo", "unmatch", "close"} => request'[r].status # 0
    PROVE  Settled(r)'
BY DEF Settled, Plain, Moves

LEMMA OwnOfOthers ==
    ASSUME WifiInv, NEW r \in Requests, QueryStep(r) \/ DisconnectStep(r) \/ ScanStep(r)
    PROVE  Own(r)'
<1>0. WifiTypeOK /\ Settled(r)
  BY DEF WifiInv
<1>1. /\ Plain(r) /\ chan' = chan /\ request[r].kind # "connect"
      /\ request'[r].at \notin {"drop", "undo", "unmatch", "close"}
  BY <1>0, QueryPlain, DisconnectPlain, ScanPlain
<1>2. Settled(r)'
  BY <1>0, <1>1, PlainSettled
<1>3. request'[r].kind # "connect"
  BY <1>1 DEF Plain, Moves
<1> QED
  BY <1>2, <1>3 DEF Own, Attempt, Undisturbed

\* Before the network is selected it is not joined, nor is it after the attempt is undone.
LEMMA OwnOfConnect ==
    ASSUME WifiInv, NEW r \in Requests, ConnectStep(r), ~SelectNetwork(r) PROVE Own(r)'
<1> USE DEF supplicant, bus, conn, wifiPast
<1>0. /\ WifiTypeOK /\ Settled(r) /\ Attempt(r) /\ Undisturbed(r)
      /\ request[r].on \in Interfaces /\ r # "none"
  BY WifiConstants DEF WifiInv, WifiTypeOK, Request
<1>1. /\ Plain(r) /\ UNCHANGED <<chan, rules>> /\ request[r].kind = "connect"
      /\ request'[r].kind = "connect" /\ request'[r].on = request[r].on
  BY <1>0, ConnectPlain DEF Plain, Moves
<1>2. CASE StartConnect(r) \/ StopScanning(r) \/ RemoveAllNetworks(r) \/ AddNetwork(r)
           \/ InvalidConfig(r)
  <2>1. /\ request[r].at \in {"start", "call", "remove", "add"}
        /\ request'[r].at \in {"call", "remove", "add", "select", "answered"}
        /\ request'[r].status = request[r].status \/ request'[r].status # 204
    BY <1>0, <1>2, AnswerMoves, GotoMoves
    DEF StartConnect, StopScanning, RemoveAllNetworks, AddNetwork, InvalidConfig, At
  <2>2. selected'[request[r].on] # r
    BY <1>0, <1>1, <2>1 DEF Attempt, Plain, OnlyLeaves
  <2>3. Settled(r)'
    BY <1>0, <1>1, <2>1, PlainSettled
  <2>4. Attempt(r)'
    BY <1>0, <1>1, <2>1, <2>2 DEF Attempt, Plain
  <2>5. Undisturbed(r)'
    BY <2>1 DEF Undisturbed, Held
  <2> QED
    BY <2>3, <2>4, <2>5 DEF Own
<1>3. CASE Undo(r) \/ Drop(r)
  <2>1. /\ request'[r].status = request[r].status /\ selected'[request[r].on] = "none"
        /\ \/ request[r].at = "undo" /\ request'[r].at = "answered"
           \/ request[r].at = "drop" /\ request'[r].at = "unmatch"
    BY <1>0, <1>3, GotoMoves, DisconnectQuiet DEF Undo, Drop, At
  <2>2. Settled(r)'
    <3>1. request'[r].status # 0
      BY <1>0, <2>1 DEF Settled
    <3>2. request'[r].at \notin Early
      BY <2>1 DEF Early
    <3> QED
      BY <1>0, <1>1, <3>1, <3>2, PlainSettled
  <2>3. Attempt(r)'
    BY <1>0, <1>1, <2>1 DEF Attempt, Plain
  <2>4. \A k \in 1 .. Len(queue') :
            queue'[k].value = "completed" => k \in 1 .. Len(queue) /\ queue'[k] = queue[k]
    BY <1>0, <1>1, QuietCompleted DEF Plain
  <2>5. request'[r].at \in Held => request[r].at \in Held
    BY <1>1 DEF Plain
  <2>6. request'[r].at # "subscribe"
    BY <2>1
  <2>7. Undisturbed(r)'
    BY <1>0, <1>1, <2>1, <2>4, <2>5, <2>6 DEF Undisturbed, Plain
  <2> QED
    BY <2>2, <2>3, <2>7 DEF Own
<1> QED
  BY <1>2, <1>3 DEF ConnectStep

LEMMA OwnOfSelect ==
    ASSUME WifiInv, NEW r \in Requests, SelectNetwork(r) PROVE Own(r)'
<1> USE DEF supplicant, bus, conn, wifiPast
<1>0. /\ WifiTypeOK /\ Settled(r) /\ Attempt(r)
      /\ request[r].on \in Interfaces /\ r # "none"
      /\ request[r].kind = "connect" /\ request[r].at = "select" /\ chan' = chan
      /\ reached' = reached /\ chan[r] = NoChannel
  BY WifiConstants DEF WifiInv, WifiTypeOK, Request, SelectNetwork, At, Settled, Early
<1>1. CASE r \in configured[request[r].on]
  <2>1. /\ Moves(r) /\ request'[r].at = "subscribe" /\ request'[r].status = request[r].status
        /\ selected'[request[r].on] = r
    BY <1>0, <1>1, GotoMoves DEF SelectNetwork, WifiTypeOK
  <2>2. disturbed \subseteq disturbed'
    BY <1>1 DEF SelectNetwork
  <2>3. Settled(r)'
    BY <1>0, <2>1 DEF Settled, NoChannel
  <2>4. Attempt(r)'
    BY <1>0, <2>1, <2>2 DEF Attempt, Moves
  <2>5. Undisturbed(r)'
    BY <1>0, <2>1 DEF Undisturbed, Moves, Held
  <2> QED
    BY <2>3, <2>4, <2>5 DEF Own
<1>2. CASE r \notin configured[request[r].on]
  <2>1. /\ Moves(r) /\ request'[r].at = "answered" /\ request'[r].status = 500
        /\ UNCHANGED <<selected, disturbed>>
    BY <1>0, <1>2, AnswerMoves DEF SelectNetwork
  <2>2. Settled(r)'
    BY <1>0, <2>1 DEF Settled, NoChannel, Early
  <2>3. Attempt(r)'
    BY <1>0, <2>1 DEF Attempt, Moves
  <2>4. Undisturbed(r)'
    BY <2>1 DEF Undisturbed, Held
  <2> QED
    BY <2>2, <2>3, <2>4 DEF Own
<1> QED
  BY <1>1, <1>2

\* An attempt that subscribes with nothing on its way sees only what comes after.
LEMMA OwnOfAddChannel ==
    ASSUME WifiInv, NEW r \in Requests, AddChannel(r) PROVE Own(r)'
<1> USE DEF supplicant, bus, conn, wifiPast
<1>0. /\ WifiTypeOK /\ Settled(r) /\ Attempt(r) /\ Undisturbed(r)
      /\ request[r].at = "subscribe" /\ chan[r] = NoChannel
      /\ UNCHANGED <<selected, queue, dispatcher, reached>>
  BY DEF WifiInv, AddChannel, At, Settled, Early
<1>1. Moves(r) /\ request'[r].at = "match" /\ request'[r].status = request[r].status
  BY <1>0, GotoMoves DEF AddChannel
<1>2. chan'[r].is = "open" /\ chan'[r].buffer = <<>>
  BY <1>0 DEF AddChannel, WifiTypeOK, NoChannel
<1>3. disturbed \subseteq disturbed' /\ (UnderWay(NameOf(r)) => r \in disturbed')
  BY DEF AddChannel
<1>4. Settled(r)'
  BY <1>1, <1>2 DEF Settled, Early
<1>5. Attempt(r)'
  BY <1>0, <1>1, <1>3 DEF Attempt, Moves
<1>6. ASSUME request[r].kind = "connect", r \notin disturbed'
      PROVE  /\ \A k \in 1 .. Len(queue) : queue[k].value # "completed"
             /\ \A k \in 1 .. Len(dispatcher.signal) : dispatcher.signal[k].value # "completed"
  BY <1>3, <1>6 DEF UnderWay, NameOf, WifiInv, CompletedNamed
<1>7. Undisturbed(r)'
  BY <1>0, <1>1, <1>2, <1>3, <1>6 DEF Undisturbed, Moves, Held
<1> QED
  BY <1>4, <1>5, <1>7 DEF Own

LEMMA OwnOfSubscription ==
    ASSUME WifiInv, NEW r \in Requests, SubscriptionStep(r), ~AddChannel(r) PROVE Own(r)'
<1> USE DEF supplicant, bus, conn, wifiPast
<1>0. /\ WifiTypeOK /\ Settled(r) /\ Attempt(r) /\ Undisturbed(r)
  BY DEF WifiInv
<1>1. CASE AlreadySubscribed(r)
  <2>1. /\ Plain(r) /\ chan' = chan /\ request'[r].status = 409
        /\ request'[r].at = IF request[r].kind = "scan" THEN "answered" ELSE "undo"
    BY <1>0, <1>1, AlreadySubscribedPlain
  <2>2. Settled(r)'
    BY <1>0, <2>1, PlainSettled
  <2>3. request'[r].kind = "connect" => request'[r].at = "undo"
    BY <2>1 DEF Plain, Moves
  <2> QED
    BY <2>1, <2>2, <2>3 DEF Own, Attempt, Undisturbed, Held
<1>2. CASE AddMatch(r) \/ RemoveMatch(r)
  <2>1. /\ Moves(r) /\ request'[r].status = request[r].status
        /\ \/ request[r].at = "match" /\ request'[r].at = "wait"
           \/ request[r].at = "unmatch" /\ request'[r].at = "close"
        /\ UNCHANGED <<selected, queue, dispatcher, chan, reached, disturbed>>
    BY <1>0, <1>2, GotoMoves DEF AddMatch, RemoveMatch, At
  <2>2. Settled(r)'
    BY <1>0, <2>1 DEF Settled, Early
  <2>3. Attempt(r)'
    BY <1>0, <2>1 DEF Attempt, Moves
  <2>4. Undisturbed(r)'
    BY <1>0, <2>1 DEF Undisturbed, Moves, Held
  <2> QED
    BY <2>2, <2>3, <2>4 DEF Own
<1>3. CASE MatchFails(r)
  <2>1. /\ Moves(r) /\ request'[r].status = 500
        /\ request'[r].at = IF request[r].kind = "scan" THEN "answered" ELSE "undo"
    BY <1>0, <1>3, LeaveMoves DEF MatchFails
  <2>2. request'[r].kind = "connect" => request'[r].at = "undo"
    BY <2>1 DEF Moves
  <2> QED
    BY <2>1, <2>2 DEF Own, Settled, Attempt, Undisturbed, Held, Early
<1>4. CASE CloseChannel(r)
  <2>1. /\ Moves(r) /\ request'[r].status = request[r].status
        /\ request[r].at = "close" /\ request'[r].at = "answered"
        /\ UNCHANGED <<selected, reached, disturbed>>
    BY <1>0, <1>4, GotoMoves DEF CloseChannel, At
  <2>2. Settled(r)'
    BY <1>0, <2>1 DEF Settled, Early
  <2>3. Attempt(r)'
    BY <1>0, <2>1 DEF Attempt, Moves
  <2>4. Undisturbed(r)'
    BY <2>1 DEF Undisturbed, Held
  <2> QED
    BY <2>2, <2>3, <2>4 DEF Own
<1> QED
  BY <1>1, <1>2, <1>3, <1>4 DEF SubscriptionStep

\* The answer 204 is of a "completed" in the channel.
LEMMA OwnOfWait == ASSUME WifiInv, NEW r \in Requests, WaitStep(r) PROVE Own(r)'
<1>0. /\ WifiTypeOK /\ Settled(r) /\ Attempt(r) /\ Undisturbed(r)
      /\ chan[r].buffer \in Seq(Signal)
  BY DEF WifiInv, WifiTypeOK, Channel
<1>1. /\ Plain(r) /\ UNCHANGED <<selected, queue>> /\ request[r].at = "wait"
      /\ chan'[r].is = chan[r].is
      /\ \/ chan'[r].buffer = chan[r].buffer
         \/ chan[r].buffer # <<>> /\ chan'[r].buffer = Tail(chan[r].buffer)
      /\ request'[r].at = "wait" \/ request'[r].status # 0
  BY <1>0, WaitPlain
<1>2. request'[r].at \in {"wait", "drop", "unmatch"}
  BY <1>1 DEF Plain
<1>3. Settled(r)'
  BY <1>0, <1>1, <1>2, PlainSettled DEF Early
<1>4. \A k \in 1 .. Len(chan'[r].buffer) :
          \E j \in 1 .. Len(chan[r].buffer) : chan'[r].buffer[k] = chan[r].buffer[j]
  <2>1. CASE chan'[r].buffer = chan[r].buffer
    BY <2>1
  <2>2. CASE chan[r].buffer # <<>> /\ chan'[r].buffer = Tail(chan[r].buffer)
    <3>1. ASSUME NEW k \in 1 .. Len(chan'[r].buffer)
          PROVE  /\ k + 1 \in 1 .. Len(chan[r].buffer)
                 /\ chan'[r].buffer[k] = chan[r].buffer[k + 1]
      BY <1>0, <2>2, <3>1, HeadTailProperties, LenProperties
    <3> QED
      BY <3>1
  <2> QED
    BY <1>1, <2>1, <2>2
<1>5. Undisturbed(r)'
  BY <1>0, <1>1, <1>2, <1>4 DEF Undisturbed, Plain, Moves, Held
<1>6. ASSUME request[r].kind = "connect" PROVE Attempt(r)'
  <2>1. CASE StateArrives(r)
    <3>1. CASE Head(chan[r].buffer).value = "completed"
      <4>1. Head(chan[r].buffer) = chan[r].buffer[1] /\ 1 \in 1 .. Len(chan[r].buffer)
        BY <1>0, <2>1, HeadTailProperties, LenProperties, EmptySeq DEF StateArrives, TakeSignal
      <4>2. r \in reached \cup disturbed
        BY <1>0, <1>1, <1>6, <3>1, <4>1 DEF Undisturbed, Held
      <4>3. request'[r].status = 204
        BY <1>0, <2>1, <3>1, LeaveMoves DEF StateArrives
      <4> QED
        BY <1>1, <1>2, <4>2, <4>3 DEF Attempt, Plain, Refusals
    <3>2. CASE Head(chan[r].buffer).value # "completed"
      <4>1. \/ request'[r].status = 400
            \/ request'[r].at = "wait" /\ request'[r].status = request[r].status
        <5>1. CASE request' = [request EXCEPT ![r].associating = TRUE]
          BY <1>0, <1>1, <5>1 DEF WifiTypeOK, Request
        <5>2. CASE Leave(r, "drop", 400) \/ Leave(r, "unmatch", 400)
          BY <1>0, <5>2, LeaveMoves
        <5>3. CASE UNCHANGED request
          BY <1>1, <5>3
        <5> QED
          BY <2>1, <3>2, <5>1, <5>2, <5>3 DEF StateArrives
      <4> QED
        BY <1>0, <1>1, <1>2, <4>1 DEF Attempt, Plain, Moves, Refusals
    <3> QED
      BY <3>1, <3>2
  <2>2. CASE TimeOut(r)
    <3>1. request'[r].at = "drop" /\ request'[r].status = 504
      BY <1>0, <1>6, <2>2, LeaveMoves DEF TimeOut
    <3> QED
      BY <3>1 DEF Attempt
  <2>3. CASE ScanIsDone(r)
    BY <1>6, <2>3 DEF ScanIsDone, At
  <2> QED
    BY <2>1, <2>2, <2>3 DEF WaitStep
<1>7. request[r].kind # "connect" => Attempt(r)'
  BY <1>1 DEF Attempt, Plain, Moves
<1> QED
  BY <1>3, <1>5, <1>6, <1>7 DEF Own

LEMMA HandlerKeeps == ASSUME WifiInv, NEW r \in Requests, HandlerStep(r) PROVE WifiInv'
<1>1. WifiTypeOK'
  BY NextTypes DEF WifiInv, WifiNext, ServiceStep
<1>2. Own(r)'
  BY OwnOfOthers, OwnOfConnect, OwnOfSelect, OwnOfAddChannel, OwnOfSubscription, OwnOfWait
  DEF HandlerStep
<1>3. Beside(r)
  BY HandlerBeside
<1>4. \A q \in Requests : Settled(q)' /\ Attempt(q)' /\ Undisturbed(q)'
  BY <1>2, <1>3, OthersKeep DEF Own
<1>5. Shared' /\ CompletedNamed' /\ DeadOfClosed'
  BY <1>3, HandlerShared, BesideShared
<1> QED
  BY <1>1, <1>4, <1>5 DEF WifiInv, Shared

-----------------------------------------------------------------------------
(* The other steps *)

\* What wpa_supplicant does of its own: a "completed" that it signals is about the network
\* of the one who watches the interface.
LEMMA SupplicantKeeps == ASSUME WifiInv, SupplicantStep PROVE WifiInv'
<1> USE DEF supplicant, bus, conn, wifiPast
<1>0. WifiTypeOK /\ WifiTypeOK'
  BY SupplicantTypes DEF WifiInv
<1> PICK i \in Interfaces : Evolve(i) \/ FinishScan(i) \/ OtherChange(i) \/ Unplug(i)
  BY DEF SupplicantStep
<1>1. /\ UNCHANGED <<rules, signals, chan, dispatcher, up, request, disturbed>>
      /\ reached \subseteq reached' /\ OnlyLeaves
  <2>1. Evolve(i) => selected' = selected /\ reached \subseteq reached'
    BY DEF Evolve
  <2>2. Unplug(i) => OnlyLeaves
    BY <1>0 DEF Unplug, OnlyLeaves, WifiTypeOK
  <2> QED
    BY <2>1, <2>2 DEF Evolve, FinishScan, OtherChange, Unplug, OnlyLeaves
<1> DEFINE Joined == /\ <<i, "PropertiesChanged">> \in rules
                     /\ selected[i] # "none"
                     /\ selected[i] \in Requests => selected[i] \in reached'
           News(s) == /\ s.value = "completed" => s.name = "PropertiesChanged" /\ Joined
<1>2. queue' = queue \/ \E s \in Signal : News(s) /\ queue' = Append(queue, s)
  <2>1. CASE Evolve(i)
    <3> PICK s \in States :
          /\ IF selected[i] = "none" THEN s = "disconnected" ELSE TRUE
          /\ EnterState(i, s)
          /\ reached' = IF s = "completed" THEN reached \cup ({selected[i]} \cap Requests)
                        ELSE reached
      BY <2>1 DEF Evolve
    <3> DEFINE new == [name |-> "PropertiesChanged", of |-> i, value |-> s]
    <3>1. new \in Signal /\ new.value = s /\ new.name = "PropertiesChanged"
      BY DEF Signal, Names
    <3>2. CASE queue' = queue
      BY <3>2
    <3>3. CASE queue' # queue
      <4>1. queue' = Append(queue, new) /\ <<i, "PropertiesChanged">> \in rules
        BY <3>3 DEF EnterState
      <4>2. s = "completed" => Joined
        BY <4>1
      <4> QED
        BY <3>1, <4>1, <4>2
    <3> QED
      BY <3>2, <3>3
  <2>2. CASE FinishScan(i)
    <3> DEFINE new == [name |-> "ScanDone", of |-> i, value |-> "other"]
    <3>1. new \in Signal /\ News(new)
      BY DEF Signal, Names
    <3> QED
      BY <2>2, <3>1 DEF FinishScan
  <2>3. CASE OtherChange(i)
    <3> DEFINE new == [name |-> "PropertiesChanged", of |-> i, value |-> "other"]
    <3>1. new \in Signal /\ News(new)
      BY DEF Signal, Names
    <3> QED
      BY <2>3, <3>1 DEF OtherChange
  <2>4. CASE Unplug(i)
    <3>1. QuietQueue
      BY <1>0, <2>4, EnterStateQuiet DEF Unplug, States
    <3> QED
      BY <3>1 DEF QuietQueue
  <2> QED
    BY <2>1, <2>2, <2>3, <2>4
<1>3. ASSUME NEW k \in 1 .. Len(queue'), queue'[k].value = "completed"
      PROVE  \/ k \in 1 .. Len(queue) /\ queue'[k] = queue[k]
             \/ queue'[k].name = "PropertiesChanged" /\ Joined
  <2>1. CASE queue' = queue
    BY <2>1
  <2>2. ASSUME NEW s \in Signal, News(s), queue' = Append(queue, s)
        PROVE  \/ k \in 1 .. Len(queue) /\ queue'[k] = queue[k]
               \/ queue'[k].name = "PropertiesChanged" /\ Joined
    <3>0. queue \in Seq(Signal)
      BY <1>0 DEF WifiTypeOK
    <3>1. /\ Len(queue') = Len(queue) + 1 /\ queue'[Len(queue) + 1] = s
          /\ \A j \in 1 .. Len(queue) : queue'[j] = queue[j]
      BY <2>2, <3>0, AppendProperties
    <3>2. k \in 1 .. Len(queue) \/ k = Len(queue) + 1
      BY <3>0, <3>1, LenProperties
    <3>3. CASE k \in 1 .. Len(queue)
      BY <3>1, <3>3
    <3>4. CASE k = Len(queue) + 1
      BY <1>3, <2>2, <3>1, <3>4
    <3> QED
      BY <3>2, <3>3, <3>4
  <2> QED
    BY <1>2, <2>1, <2>2
<1> HIDE DEF News
<1>4. Shared' /\ DeadOfClosed'
  BY <1>1 DEF WifiInv, Shared, SubscriptionIsExclusive, SignalsNamed, RulesWatched, NameOf,
     DeadOfClosed
<1>5. CompletedNamed'
  BY <1>1, <1>3 DEF WifiInv, CompletedNamed
<1>6. ASSUME NEW r \in Requests PROVE Settled(r)' /\ Attempt(r)' /\ Undisturbed(r)'
  <2>0. /\ Settled(r) /\ Attempt(r) /\ Undisturbed(r)
        /\ request[r].on \in Interfaces /\ r # "none"
    BY <1>0, WifiConstants DEF WifiInv, WifiTypeOK, Request
  <2>1. selected'[request[r].on] \in {selected[request[r].on], "none"}
    BY <1>1, <2>0 DEF OnlyLeaves
  <2>2. Settled(r)'
    BY <1>1, <2>0 DEF Settled
  <2>3. Attempt(r)'
    BY <1>1, <2>0, <2>1 DEF Attempt
  <2>4. ASSUME request[r].kind = "connect", request[r].at \in Held, r \notin disturbed,
               Joined
        PROVE  r \in reached'
    <3>1. signals["PropertiesChanged"] = r
      BY <2>4 DEF WifiInv, SubscriptionIsExclusive, Held, NameOf
    <3>2. request[r].on = i
      BY <2>4, <3>1 DEF WifiInv, RulesWatched
    <3>3. selected[i] \in {r, "none"}
      BY <2>0, <2>4, <3>2 DEF Undisturbed
    <3> QED
      BY <2>4, <3>3
  <2>5. Undisturbed(r)'
    BY <1>1, <1>3, <2>0, <2>1, <2>4 DEF Undisturbed
  <2> QED
    BY <2>2, <2>3, <2>5
<1> QED
  BY <1>0, <1>4, <1>5, <1>6 DEF WifiInv, Shared

LEMMA ConcatMembers ==
    ASSUME NEW s \in Seq(Signal), NEW t \in Seq(Signal), NEW k \in 1 .. Len(s \o t)
    PROVE  \/ \E j \in 1 .. Len(s) : (s \o t)[k] = s[j]
           \/ \E j \in 1 .. Len(t) : (s \o t)[k] = t[j]
<1>1. /\ Len(s \o t) = Len(s) + Len(t) /\ Len(s) \in Nat /\ Len(t) \in Nat
      /\ (s \o t)[k] = IF k <= Len(s) THEN s[k] ELSE t[k - Len(s)]
  BY ConcatProperties, LenProperties
<1>2. CASE k <= Len(s)
  BY <1>1, <1>2
<1>3. CASE ~(k <= Len(s))
  <2>1. k - Len(s) \in 1 .. Len(t)
    BY <1>1, <1>3
  <2> QED
    BY <1>1, <1>3, <2>1
<1> QED
  BY <1>2, <1>3

\* A signal is moved along.
LEMMA DispatcherKeeps == ASSUME WifiInv, DispatcherStep PROVE WifiInv'
<1> USE DEF supplicant, bus, conn, wifiPast
<1>0. WifiTypeOK /\ WifiTypeOK'
  BY DispatcherTypes DEF WifiInv
<1>1. CASE DispatcherTakes
  <2>0. /\ UNCHANGED <<supplicant, rules, signals, chan, up, request, wifiPast>> /\ up
        /\ queue \in Seq(Signal) /\ queue # <<>> /\ queue' = Tail(queue)
    BY <1>0, <1>1 DEF DispatcherTakes, WifiTypeOK
  <2>1. \A k \in 1 .. Len(queue') : \E j \in 1 .. Len(queue) : queue'[k] = queue[j]
    <3>1. ASSUME NEW k \in 1 .. Len(queue')
          PROVE  k + 1 \in 1 .. Len(queue) /\ queue'[k] = queue[k + 1]
      BY <2>0, <3>1, HeadTailProperties, LenProperties
    <3> QED
      BY <3>1
  <2>2. \A k \in 1 .. Len(dispatcher'.signal) :
            \/ k \in 1 .. Len(dispatcher.signal) /\ dispatcher'.signal[k] = dispatcher.signal[k]
            \/ \E j \in 1 .. Len(queue) : dispatcher'.signal[k] = queue[j]
    <3>1. CASE dispatcher' = dispatcher
      BY <3>1
    <3>2. CASE dispatcher'.signal = <<Head(queue)>>
      <4>1. Head(queue) = queue[1] /\ 1 \in 1 .. Len(queue)
        BY <2>0, HeadTailProperties, LenProperties, EmptySeq
      <4> QED
        BY <3>2, <4>1
    <3> QED
      BY <1>1, <3>1, <3>2 DEF DispatcherTakes
  <2>3. Shared' /\ DeadOfClosed'
    BY <2>0 DEF WifiInv, Shared, SubscriptionIsExclusive, SignalsNamed, RulesWatched, NameOf,
       DeadOfClosed
  <2>4. CompletedNamed'
    BY <2>1, <2>2 DEF WifiInv, CompletedNamed
  <2>5. ASSUME NEW r \in Requests PROVE Settled(r)' /\ Attempt(r)' /\ Undisturbed(r)'
    <3>1. Settled(r) /\ Attempt(r) /\ Undisturbed(r)
      BY DEF WifiInv
    <3>2. Settled(r)' /\ Attempt(r)'
      BY <2>0, <3>1 DEF Settled, Attempt
    <3>3. Undisturbed(r)'
      BY <2>0, <2>1, <2>2, <3>1 DEF Undisturbed
    <3> QED
      BY <3>2, <3>3
  <2> QED
    BY <1>0, <2>3, <2>4, <2>5 DEF WifiInv, Shared
<1>2. CASE DispatcherSends
  <2> DEFINE t == dispatcher.to
  <2>0. /\ UNCHANGED <<supplicant, bus, signals, up, request, wifiPast>> /\ up
        /\ t \in Requests /\ chan[t].is = "open" /\ dispatcher.signal \in Seq(Signal)
        /\ chan[t].buffer \in Seq(Signal) /\ dispatcher'.signal = <<>>
    BY <1>0, <1>2 DEF DispatcherSends, WifiTypeOK, Channel
  <2>1. /\ \A q \in Requests : chan'[q].is = chan[q].is
        /\ \A q \in Requests \ {t} : chan'[q] = chan[q]
        /\ chan'[t].buffer = chan[t].buffer \o dispatcher.signal
    BY <1>0, <1>2, <2>0 DEF DispatcherSends, WifiTypeOK, Channel
  <2>2. \A k \in 1 .. Len(chan'[t].buffer) :
            \/ \E j \in 1 .. Len(chan[t].buffer) : chan'[t].buffer[k] = chan[t].buffer[j]
            \/ \E j \in 1 .. Len(dispatcher.signal) : chan'[t].buffer[k] = dispatcher.signal[j]
    <3> DEFINE before == chan[t].buffer
               sent == dispatcher.signal
    <3>1. before \in Seq(Signal) /\ sent \in Seq(Signal) /\ chan'[t].buffer = before \o sent
      BY <2>0, <2>1
    <3> HIDE DEF before, sent
    <3>2. \A k \in 1 .. Len(before \o sent) :
              \/ \E j \in 1 .. Len(before) : (before \o sent)[k] = before[j]
              \/ \E j \in 1 .. Len(sent) : (before \o sent)[k] = sent[j]
      BY <3>1, ConcatMembers
    <3>3. \A k \in 1 .. Len(chan'[t].buffer) :
              \/ \E j \in 1 .. Len(before) : chan'[t].buffer[k] = before[j]
              \/ \E j \in 1 .. Len(sent) : chan'[t].buffer[k] = sent[j]
      BY <3>1, <3>2
    <3> QED
      BY <3>3 DEF before, sent
  <2>3. Shared' /\ DeadOfClosed'
    <3>1. \A n \in Names : signals[n] \in Requests \cup {"none"}
      BY <1>0 DEF WifiTypeOK
    <3> QED
      BY <2>0, <2>1, <3>1
      DEF WifiInv, Shared, SubscriptionIsExclusive, SignalsNamed, RulesWatched, NameOf,
          DeadOfClosed
  <2>4. CompletedNamed'
    <3>1. Len(dispatcher'.signal) = 0
      BY <2>0
    <3> QED
      BY <2>0, <3>1 DEF WifiInv, CompletedNamed
  <2>5. ASSUME NEW r \in Requests PROVE Settled(r)' /\ Attempt(r)' /\ Undisturbed(r)'
    <3>1. Settled(r) /\ Attempt(r) /\ Undisturbed(r)
      BY DEF WifiInv
    <3>2. request[r].at \in Early => r # t
      BY <2>0, <3>1 DEF Settled, NoChannel
    <3>3. Settled(r)' /\ Attempt(r)'
      BY <2>0, <2>1, <3>1, <3>2 DEF Settled, Attempt
    <3> SUFFICES ASSUME request[r].kind = "connect", request[r].at \in Held \cup {"subscribe"},
                        r \notin disturbed
                 PROVE  /\ selected[request[r].on] \in {r, "none"}
                        /\ request[r].at \in Held =>
                             /\ \A k \in 1 .. Len(queue) :
                                   queue[k].value = "completed" => r \in reached
                             /\ \A k \in 1 .. Len(chan'[r].buffer) :
                                   chan'[r].buffer[k].value = "completed" => r \in reached
      <4>1. Len(dispatcher'.signal) = 0
        BY <2>0
      <4> QED
        BY <2>0, <3>3, <4>1 DEF Undisturbed
    <3>4. CASE r = t
      BY <2>2, <3>1, <3>4 DEF Undisturbed
    <3>5. CASE r # t
      BY <2>1, <3>1, <3>5 DEF Undisturbed
    <3> QED
      BY <3>3, <3>4, <3>5
  <2> QED
    BY <1>0, <2>3, <2>4, <2>5 DEF WifiInv, Shared
<1>3. CASE DispatcherPanics
  <2>0. /\ UNCHANGED <<supplicant, bus, signals, chan, dispatcher, request, wifiPast>>
        /\ dispatcher.to \in Requests /\ chan[dispatcher.to].is = "closed"
    BY <1>0, <1>3 DEF DispatcherPanics, WifiTypeOK
  <2>1. DeadOfClosed'
    BY <2>0 DEF WifiInv, Settled, DeadOfClosed
  <2>2. Shared' /\ CompletedNamed'
    BY <2>0 DEF WifiInv, Shared, SubscriptionIsExclusive, SignalsNamed, RulesWatched, NameOf,
       CompletedNamed
  <2>3. \A r \in Requests : Settled(r)' /\ Attempt(r)' /\ Undisturbed(r)'
    BY <2>0 DEF WifiInv, Settled, Attempt, Undisturbed
  <2> QED
    BY <1>0, <2>1, <2>2, <2>3 DEF WifiInv, Shared
<1> QED
  BY <1>1, <1>2, <1>3 DEF DispatcherStep

\* A request comes, and its answer is taken.
LEMMA AskKeeps ==
    ASSUME WifiInv, NEW r \in Requests, Ask(r) \/ TakeAnswer(r) PROVE WifiInv'
<1> USE DEF supplicant, bus, conn, wifiPast
<1>0. WifiTypeOK /\ WifiTypeOK' /\ \A n \in Names : signals[n] \in Requests \cup {"none"}
  BY AskTypes DEF WifiInv, WifiTypeOK
<1>1. request[r].at \in {"free", "answered"}
  BY DEF Ask, Accept, TakeAnswer
<1>2. \A n \in Names : signals[n] # r
  <2> SUFFICES ASSUME NEW n \in Names, signals[n] = r PROVE FALSE
    OBVIOUS
  <2>1. NameOf(r) = n /\ chan[r].is = "open"
    BY HolderNamed, WifiConstants DEF WifiInv, SignalsNamed
  <2> QED
    BY <1>1, <2>1 DEF WifiInv, SubscriptionIsExclusive
<1>3. /\ UNCHANGED <<supplicant, bus, signals, dispatcher, up>>
      /\ \A q \in Requests \ {r} : /\ request'[q] = request[q] /\ chan'[q] = chan[q]
                                   /\ q \in reached' <=> q \in reached
                                   /\ q \in disturbed' <=> q \in disturbed
      /\ request'[r].at \in {"free", "start"}
      /\ request'[r].status = request[r].status \/ up
  <2>1. CASE TakeAnswer(r)
    <3>1. Moves(r) /\ request'[r].at = "free" /\ request'[r].status = request[r].status
      BY <1>0, <2>1, GotoMoves DEF TakeAnswer
    <3> QED
      BY <2>1, <3>1 DEF TakeAnswer, Moves
  <2>2. ASSUME NEW kind, NEW i, NEW todo, Accept(r, kind, i, todo)
        PROVE  /\ UNCHANGED <<supplicant, bus, signals, dispatcher, up>> /\ up
               /\ \A q \in Requests \ {r} : /\ request'[q] = request[q] /\ chan'[q] = chan[q]
                                            /\ q \in reached' <=> q \in reached
                                            /\ q \in disturbed' <=> q \in disturbed
               /\ request'[r].at = "start"
    <3>1. request'[r].at = "start"
      BY <1>0, <2>2 DEF Accept, FreeRequest, WifiTypeOK
    <3> QED
      BY <1>0, <2>2, <3>1 DEF Accept, WifiTypeOK
  <2>3. CASE Ask(r)
    BY <2>2, <2>3 DEF Ask
  <2> QED
    BY <2>1, <2>3
<1>5. SubscriptionIsExclusive'
  <2> SUFFICES ASSUME NEW q \in Requests
               PROVE (/\ request'[q].kind \in {"scan", "connect"}
                      /\ request'[q].at \in {"match", "wait", "drop", "unmatch", "close"})
                     <=> (signals'[NameOf(q)'] = q /\ chan'[q].is = "open")
    BY DEF SubscriptionIsExclusive
  <2>1. CASE q = r
    <3>1. NameOf(r)' \in Names
      BY DEF NameOf, Names
    <3> QED
      BY <1>2, <1>3, <2>1, <3>1
  <2>2. CASE q # r
    BY <1>3, <2>2 DEF WifiInv, SubscriptionIsExclusive, NameOf
  <2> QED
    BY <2>1, <2>2
<1>6. SignalsNamed'
  <2> SUFFICES ASSUME NEW n \in Names, signals[n] # "none"
               PROVE NameOf(signals[n])' = n /\ chan'[signals[n]].is = "open"
    BY <1>3 DEF SignalsNamed
  <2> QED
    BY <1>0, <1>2, <1>3 DEF WifiInv, SignalsNamed, NameOf
<1>7. RulesWatched'
  BY <1>0, <1>2, <1>3 DEF WifiInv, RulesWatched, Names
<1>8. CompletedNamed' /\ DeadOfClosed'
  BY <1>3 DEF WifiInv, CompletedNamed, DeadOfClosed
<1>9. ASSUME NEW q \in Requests \ {r} PROVE Settled(q)' /\ Attempt(q)' /\ Undisturbed(q)'
  <2>1. Settled(q) /\ Attempt(q) /\ Undisturbed(q)
    BY DEF WifiInv
  <2> QED
    BY <1>3, <2>1 DEF Settled, Attempt, Undisturbed
<1>10. Undisturbed(r)'
  BY <1>3 DEF Undisturbed, Held
<1>11. CASE TakeAnswer(r)
  <2>1. /\ request'[r].at = "free" /\ request'[r].kind = request[r].kind
        /\ request'[r].status = request[r].status /\ UNCHANGED <<chan, reached, disturbed>>
    BY <1>0, <1>11, GotoMoves DEF TakeAnswer, Moves
  <2>2. Settled(r)' /\ Attempt(r)'
    BY <2>1 DEF WifiInv, Settled, Attempt, Early
  <2> QED
    BY <1>0, <1>5, <1>6, <1>7, <1>8, <1>9, <1>10, <2>2 DEF WifiInv
<1>12. CASE Ask(r)
  <2> PICK kind \in Kinds, i \in Interfaces :
        \E todo \in IF kind = "bss" THEN {{b} : b \in Bss} ELSE {{}} : Accept(r, kind, i, todo)
    BY <1>12 DEF Ask
  <2> PICK todo : Accept(r, kind, i, todo)
    OBVIOUS
  <2>1. /\ request'[r].at = "start" /\ request'[r].status = 0 /\ request'[r].on = i
        /\ chan'[r] = NoChannel /\ selected[i] # r
    BY <1>0, FreeRequestType DEF Accept, FreeRequest, Request, WifiTypeOK
  <2>2. Settled(r)'
    BY <2>1 DEF Settled, NoChannel
  <2>3. Attempt(r)'
    BY <1>3, <2>1 DEF Attempt
  <2> QED
    BY <1>0, <1>5, <1>6, <1>7, <1>8, <1>9, <1>10, <2>2, <2>3 DEF WifiInv
<1> QED
  BY <1>11, <1>12

-----------------------------------------------------------------------------
(* The theorems *)

LEMMA WifiStart == ASSUME WifiInit PROVE WifiInv
<1>1. /\ \A r \in Requests : request[r].at = "free" /\ request[r].status = 0
                             /\ chan[r] = NoChannel
      /\ \A n \in Names : signals[n] = "none"
      /\ rules = {} /\ queue = <<>> /\ dispatcher.signal = <<>> /\ up
  BY DEF WifiInit, FreeRequest
<1>2. SubscriptionIsExclusive
  BY <1>1, NameOfType, WifiConstants DEF SubscriptionIsExclusive
<1>3. SignalsNamed /\ RulesWatched /\ DeadOfClosed
  BY <1>1 DEF SignalsNamed, RulesWatched, DeadOfClosed
<1>4. CompletedNamed
  BY <1>1 DEF CompletedNamed
<1>5. \A r \in Requests : Settled(r) /\ Attempt(r) /\ Undisturbed(r)
  BY <1>1 DEF Settled, Attempt, Undisturbed, Early, Held, NoChannel, Refusals
<1> QED
  BY <1>2, <1>3, <1>4, <1>5, InitTypes DEF WifiInv

LEMMA WifiStutters == ASSUME WifiInv, UNCHANGED wifiVars PROVE WifiInv'
<1>1. UNCHANGED <<present, state, scanning, seen, configured, selected, rules, queue, signals,
                  chan, dispatcher, up, request, reached, disturbed, events>>
  BY DEF wifiVars, supplicant, bus, conn, wifiPast
<1>2. WifiTypeOK'
  BY <1>1 DEF WifiInv, WifiTypeOK
<1>3. Shared' /\ CompletedNamed' /\ DeadOfClosed'
  BY <1>1 DEF WifiInv, Shared, SubscriptionIsExclusive, SignalsNamed, RulesWatched, NameOf,
     CompletedNamed, DeadOfClosed
<1>4. \A r \in Requests : Settled(r)' /\ Attempt(r)' /\ Undisturbed(r)'
  BY <1>1 DEF WifiInv, Settled, Attempt, Undisturbed
<1> QED
  BY <1>2, <1>3, <1>4 DEF WifiInv, Shared

LEMMA WifiStep == ASSUME WifiInv, [WifiNext]_wifiVars PROVE WifiInv'
BY SupplicantKeeps, DispatcherKeeps, HandlerKeeps, AskKeeps, WifiStutters
DEF WifiNext, ServiceStep

\* What the Wi-Fi service keeps in every state: the invariant of which the properties below
\* are parts or consequences (dbus.go: addChannel, removeChannel, the dispatcher, and what
\* ConnectNetwork has done at each of its returns).
THEOREM WifiInvariant == WifiSpec => []WifiInv
<1>1. WifiInit => WifiInv
  BY WifiStart
<1>2. WifiInv /\ [WifiNext]_wifiVars => WifiInv'
  BY WifiStep
<1> QED
  BY <1>1, <1>2, PTL DEF WifiSpec

\* Every variable of the Wi-Fi service has its type.
THEOREM WifiTypeCorrect == WifiSpec => []WifiTypeOK
<1>1. WifiInv => WifiTypeOK
  BY DEF WifiInv
<1> QED
  BY <1>1, WifiInvariant, PTL

\* A name of a signal has one subscriber, with an open channel, and only from its subscribe
\* to its unsubscribe (addChannel and removeChannel of dbus.go).
THEOREM SubscriptionIsExclusiveHolds == WifiSpec => []SubscriptionIsExclusive
<1>1. WifiInv => SubscriptionIsExclusive
  BY DEF WifiInv
<1> QED
  BY <1>1, WifiInvariant, PTL

\* A ConnectNetwork that is answered by 404, 409, 500 or 504 does not leave wpa_supplicant on
\* its network, whatever the other requests and wpa_supplicant do meanwhile.
THEOREM RefusedAttemptIsOverHolds == WifiSpec => []RefusedAttemptIsOver
<1>1. WifiInv => RefusedAttemptIsOver
  BY DEF WifiInv, Attempt, RefusedAttemptIsOver, Refusals
<1> QED
  BY <1>1, WifiInvariant, PTL

\* A ConnectNetwork that is answered by 204 has had its network completed, but for signals of
\* an earlier subscription and for another request on the same interface.
THEOREM ConnectedWhenSaidHolds == WifiSpec => []ConnectedWhenSaid
<1>1. WifiInv => ConnectedWhenSaid
  BY DEF WifiInv, Attempt, ConnectedWhenSaid
<1> QED
  BY <1>1, WifiInvariant, PTL

\* The dispatcher ends the process only by a send to a request whose answer is settled.
THEOREM DiesOfLateSignalHolds == WifiSpec => []DiesOfLateSignal
<1>1. WifiInv => DiesOfLateSignal
  BY DEF WifiInv, DeadOfClosed, DiesOfLateSignal
<1> QED
  BY <1>1, WifiInvariant, PTL
=============================================================================
