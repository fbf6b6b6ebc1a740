----------------------------- MODULE WifiService -----------------------------
(***************************************************************************)
(* The Wi-Fi service of the honeypot (honeypot/wifi): HTTP handlers that   *)
(* drive wpa_supplicant over D-Bus, and the goroutine that dispatches its  *)
(* signals.                                                                *)
(*                                                                         *)
(* Every request has a goroutine of its own.  A signal goes from the bus   *)
(* to the channel `signal` (queue), and from there, by the one dispatcher, *)
(* to the channel of the request that is subscribed to its NAME: the map   *)
(* signals is not told apart by interface.  The dispatcher looks the       *)
(* channel up under the mutex and sends after it has released it; a send   *)
(* on a channel that was closed in between ends the process.               *)
(*                                                                         *)
(* Abstracted: what a network is configured with; the states of            *)
(* wpa_supplicant between associating and completed; inactive, which the   *)
(* code takes as disconnected; the bodies of answers (the client does not  *)
(* act on the ok of a scan); a match rule is always removed.               *)
(***************************************************************************)
EXTENDS Naturals, Sequences

CONSTANTS
    Interfaces,   \* the interfaces wpa_supplicant may have
    Bss,          \* the base stations it may see
    Requests,     \* the requests that can be open at once
    ChanCap,      \* the buffer of a subscriber's channel, 4 in the code
    MaxSignals,   \* bound: the signals under way when wpa_supplicant sends one of its own
    MaxEvents     \* bound: the changes wpa_supplicant makes of its own

ASSUME WifiConstants ==
    /\ ChanCap \in Nat \ {0} /\ MaxSignals \in Nat /\ MaxEvents \in Nat
    /\ "foreign" \notin Requests /\ "none" \notin Requests
    /\ Interfaces # {}

VARIABLES
    present,      \* the interfaces that exist
    state,        \* the property State of each
    scanning,     \* the property Scanning of each
    seen,         \* the base stations of the last scans
    configured,   \* the networks of each interface, named by the request that added them
    selected,     \* the network each interface is on, or tries to join
    rules,        \* the match rules: which signals of which interface are sent to us
    queue,        \* the channel signal
    signals,      \* Conn.signals: the request whose channel is under a name
    chan,         \* the channel each request has made
    dispatcher,   \* the goroutine of New
    up,           \* the process has not panicked
    request,      \* the HTTP requests
    reached,      \* history: the requests whose network has been joined
    disturbed,    \* history: the requests that subscribed with signals already under way, or
                  \*          beside which another selected its network
    events        \* history: how often wpa_supplicant has acted of its own

supplicant == <<present, state, scanning, seen, configured, selected>>
bus == <<rules, queue>>
conn == <<signals, chan, dispatcher, up>>
wifiPast == <<reached, disturbed, events>>
wifiVars == <<supplicant, bus, conn, request, wifiPast>>

-----------------------------------------------------------------------------
States == {"disconnected", "scanning", "associating", "completed"}
Names == {"ScanDone", "PropertiesChanged"}
Networks == Requests \cup {"foreign"}

\* The value of a PropertiesChanged is the new State, or "other" when it has none.
Signal == [name : Names, of : Interfaces, value : States \cup {"other"}]

Channel == [is : {"none", "open", "closed"}, buffer : Seq(Signal)]
NoChannel == [is |-> "none", buffer |-> <<>>]

Kinds == {"interface", "interfaces", "bss", "bsss", "network",
          "scan", "connect", "disconnect"}
Status == {0, 200, 204, 400, 404, 409, 500, 504}

\* Where a handler is: the D-Bus call or channel operation it does next.
Places == {"free", "start", "list", "call", "remove", "add", "select", "subscribe", "match",
           "wait", "drop", "undo", "unmatch", "close", "answered"}
Request == [kind : Kinds, on : Interfaces, at : Places, todo : SUBSET (Interfaces \cup Bss),
            net : Networks \cup {"none"}, associating : BOOLEAN, status : Status]
FreeRequest == [kind |-> "scan", on |-> CHOOSE i \in Interfaces : TRUE, at |-> "free",
                todo |-> {}, net |-> "none", associating |-> FALSE, status |-> 0]

WifiTypeOK ==
    /\ present \subseteq Interfaces
    /\ state \in [Interfaces -> States]
    /\ scanning \in [Interfaces -> BOOLEAN]
    /\ seen \in [Interfaces -> SUBSET Bss]
    /\ configured \in [Interfaces -> SUBSET Networks]
    /\ selected \in [Interfaces -> Networks \cup {"none"}]
    /\ rules \subseteq Interfaces \X Names
    /\ queue \in Seq(Signal)
    /\ signals \in [Names -> Requests \cup {"none"}]
    /\ chan \in [Requests -> Channel]
    /\ dispatcher \in [to : Requests \cup {"none"}, signal : Seq(Signal)]
    /\ up \in BOOLEAN
    /\ request \in [Requests -> Request]
    /\ reached \subseteq Requests /\ disturbed \subseteq Requests
    /\ events \in 0 .. MaxEvents

\* wpa_supplicant may be on a network that somebody else has configured.
WifiInit ==
    /\ present \in SUBSET Interfaces
    /\ state \in [Interfaces -> {"disconnected", "completed"}]
    /\ \A i \in Interfaces \ present : state[i] = "disconnected"
    /\ scanning = [i \in Interfaces |-> FALSE]
    /\ seen = [i \in Interfaces |-> IF i \in present THEN Bss ELSE {}]
    /\ selected = [i \in Interfaces |-> IF state[i] = "completed" THEN "foreign" ELSE "none"]
    /\ configured = [i \in Interfaces |-> {selected[i]} \cap Networks]
    /\ rules = {} /\ queue = <<>>
    /\ signals = [n \in Names |-> "none"]
    /\ chan = [r \in Requests |-> NoChannel]
    /\ dispatcher = [to |-> "none", signal |-> <<>>]
    /\ up = TRUE
    /\ request = [r \in Requests |-> FreeRequest]
    /\ reached = {} /\ disturbed = {} /\ events = 0

-----------------------------------------------------------------------------
(* What wpa_supplicant does of its own *)

\* wpa_supplicant enters a state and signals it to those who asked for it.
EnterState(i, s) ==
    /\ state' = [state EXCEPT ![i] = s]
    /\ queue' = IF s # state[i] /\ <<i, "PropertiesChanged">> \in rules
                THEN Append(queue, [name |-> "PropertiesChanged", of |-> i, value |-> s])
                ELSE queue

ActsOfItself(i) ==
    /\ i \in present
    /\ Len(queue) < MaxSignals
    /\ events < MaxEvents
    /\ events' = events + 1

Evolve(i) ==
    /\ ActsOfItself(i)
    /\ \E s \in States :
        /\ IF selected[i] = "none"
           THEN state[i] = "scanning" /\ ~scanning[i] /\ s = "disconnected"
           ELSE <<state[i], s>> \in {<<"disconnected", "scanning">>, <<"scanning", "associating">>,
                                     <<"associating", "completed">>,
                                     <<"associating", "disconnected">>,
                                     <<"completed", "disconnected">>}
        /\ EnterState(i, s)
        /\ reached' = IF s = "completed" THEN reached \cup ({selected[i]} \cap Requests)
                      ELSE reached
    /\ UNCHANGED <<present, scanning, seen, configured, selected, rules, conn, request, disturbed>>

FinishScan(i) ==
    /\ ActsOfItself(i)
    /\ scanning[i]
    /\ scanning' = [scanning EXCEPT ![i] = FALSE]
    /\ \E found \in SUBSET Bss : seen' = [seen EXCEPT ![i] = found]
    /\ queue' = IF <<i, "ScanDone">> \in rules
                THEN Append(queue, [name |-> "ScanDone", of |-> i, value |-> "other"])
                ELSE queue
    /\ UNCHANGED <<present, state, configured, selected, rules, conn, request, reached, disturbed>>

\* A property other than State has changed.
OtherChange(i) ==
    /\ ActsOfItself(i)
    /\ <<i, "PropertiesChanged">> \in rules
    /\ queue' = Append(queue, [name |-> "PropertiesChanged", of |-> i, value |-> "other"])
    /\ UNCHANGED <<supplicant, rules, conn, request, reached, disturbed>>

Unplug(i) ==
    /\ ActsOfItself(i)
    /\ present' = present \ {i}
    /\ EnterState(i, "disconnected")
    /\ scanning' = [scanning EXCEPT ![i] = FALSE]
    /\ seen' = [seen EXCEPT ![i] = {}]
    /\ configured' = [configured EXCEPT ![i] = {}]
    /\ selected' = [selected EXCEPT ![i] = "none"]
    /\ UNCHANGED <<rules, conn, request, reached, disturbed>>

SupplicantStep == \E i \in Interfaces : Evolve(i) \/ FinishScan(i) \/ OtherChange(i) \/ Unplug(i)

-----------------------------------------------------------------------------
(* The methods of wpa_supplicant *)

\* Disconnect: an error, and no change, when there is no network to leave.
Disconnect(i) ==
    /\ selected' = [selected EXCEPT ![i] = "none"]
    /\ EnterState(i, IF selected[i] = "none" THEN state[i] ELSE "disconnected")

RemoveNetworks(i, ns) ==
    /\ configured' = [configured EXCEPT ![i] = @ \ ns]
    /\ IF selected[i] \in ns THEN Disconnect(i) ELSE UNCHANGED <<state, queue, selected>>

-----------------------------------------------------------------------------
(* The dispatcher *)

DispatcherTakes ==
    /\ up
    /\ dispatcher.to = "none" /\ queue # <<>>
    /\ queue' = Tail(queue)
    /\ dispatcher' = IF signals[Head(queue).name] = "none" THEN dispatcher
                     ELSE [to |-> signals[Head(queue).name], signal |-> <<Head(queue)>>]
    /\ UNCHANGED <<supplicant, rules, signals, chan, up, request, wifiPast>>

DispatcherSends ==
    /\ up
    /\ dispatcher.to # "none"
    /\ chan[dispatcher.to].is = "open"
    /\ Len(chan[dispatcher.to].buffer) < ChanCap
    /\ chan' = [chan EXCEPT ![dispatcher.to].buffer = @ \o dispatcher.signal]
    /\ dispatcher' = [to |-> "none", signal |-> <<>>]
    /\ UNCHANGED <<supplicant, bus, signals, up, request, wifiPast>>

\* A send on a closed channel.
DispatcherPanics ==
    /\ up
    /\ dispatcher.to # "none"
    /\ chan[dispatcher.to].is = "closed"
    /\ up' = FALSE
    /\ UNCHANGED <<supplicant, bus, signals, chan, dispatcher, request, wifiPast>>

DispatcherStep == DispatcherTakes \/ DispatcherSends \/ DispatcherPanics

-----------------------------------------------------------------------------
(* Requests *)

At(r, kinds, place) == up /\ request[r].kind \in kinds /\ request[r].at = place
Goto(r, place) == request' = [request EXCEPT ![r].at = place]
Leave(r, place, status) == request' = [request EXCEPT ![r].at = place, ![r].status = status]
Answer(r, status) == Leave(r, "answered", status)
Gone(r) == request[r].on \notin present

\* A request is routed to its handler.  A network of an earlier request of this name is
\* gone, and so is the dispatcher's hold on its channel.
Accept(r, kind, i, todo) ==
    /\ up
    /\ request[r].at = "free"
    /\ dispatcher.to # r
    /\ \A j \in Interfaces : r \notin configured[j] \cup {selected[j]}
    /\ request' = [request EXCEPT ![r] = [FreeRequest EXCEPT !.kind = kind, !.on = i,
                                             !.at = "start", !.todo = todo]]
    /\ chan' = [chan EXCEPT ![r] = NoChannel]
    /\ reached' = reached \ {r} /\ disturbed' = disturbed \ {r}
    /\ UNCHANGED <<supplicant, bus, signals, dispatcher, up, events>>

TakeAnswer(r) ==
    /\ request[r].at = "answered"
    /\ Goto(r, "free")
    /\ UNCHANGED <<supplicant, bus, conn, wifiPast>>

\* GetInterface and GetBSS read one object.
ReadOne(r) ==
    /\ At(r, {"interface", "bss"}, "start")
    /\ LET found == IF request[r].kind = "bss" THEN request[r].todo \subseteq seen[request[r].on]
                    ELSE ~Gone(r)
       IN  Answer(r, IF found THEN 200 ELSE 404)
    /\ UNCHANGED <<supplicant, bus, conn, wifiPast>>

\* GetInterfaces and GetBSSs read a list, then each of its members.
ReadList(r) ==
    /\ At(r, {"interfaces", "bsss"}, "start")
    /\ IF request[r].kind = "bsss" /\ Gone(r) THEN Answer(r, 404)
       ELSE request' = [request EXCEPT
                ![r].at = "list",
                ![r].todo = IF request[r].kind = "bsss" THEN seen[request[r].on] ELSE present]
    /\ UNCHANGED <<supplicant, bus, conn, wifiPast>>

ReadMembers(r) ==
    /\ At(r, {"interfaces", "bsss"}, "list")
    /\ Answer(r, IF request[r].kind = "interfaces"
                 THEN IF request[r].todo \subseteq present THEN 200 ELSE 500
                 ELSE IF request[r].todo \subseteq seen[request[r].on] THEN 200 ELSE 404)
    /\ UNCHANGED <<supplicant, bus, conn, wifiPast>>

\* CurrentNetwork: State, and then the network, which is none when it was lost in between.
ReadState(r) ==
    /\ At(r, {"network", "disconnect"}, "start")
    /\ IF Gone(r) \/ state[request[r].on] # "completed" THEN Answer(r, 404) ELSE Goto(r, "list")
    /\ UNCHANGED <<supplicant, bus, conn, wifiPast>>

ReadNetwork(r) ==
    /\ At(r, {"network"}, "list")
    /\ Answer(r, IF Gone(r) THEN 404 ELSE IF selected[request[r].on] = "none" THEN 500 ELSE 200)
    /\ UNCHANGED <<supplicant, bus, conn, wifiPast>>

-----------------------------------------------------------------------------
(* Subscriptions *)

NameOf(r) == IF request[r].kind = "scan" THEN "ScanDone" ELSE "PropertiesChanged"

\* A signal of this name is on its way already.
UnderWay(name) ==
    \/ \E k \in 1 .. Len(queue) : queue[k].name = name
    \/ \E k \in 1 .. Len(dispatcher.signal) : dispatcher.signal[k].name = name

\* Fault: the name is not looked up before it is taken.
AddChannelAlways(r) ==
    /\ At(r, {"scan", "connect"}, "subscribe")
    /\ signals' = [signals EXCEPT ![NameOf(r)] = r]
    /\ chan' = [chan EXCEPT ![r].is = "open"]
    /\ disturbed' = IF UnderWay(NameOf(r)) THEN disturbed \cup {r} ELSE disturbed
    /\ Goto(r, "match")
    /\ UNCHANGED <<supplicant, bus, dispatcher, up, reached, events>>

AddChannel(r) ==
    /\ At(r, {"scan", "connect"}, "subscribe")
    /\ signals[NameOf(r)] = "none"
    /\ signals' = [signals EXCEPT ![NameOf(r)] = r]
    /\ chan' = [chan EXCEPT ![r].is = "open"]
    /\ disturbed' = IF UnderWay(NameOf(r)) THEN disturbed \cup {r} ELSE disturbed
    /\ Goto(r, "match")
    /\ UNCHANGED <<supplicant, bus, dispatcher, up, reached, events>>

AlreadySubscribed(r) ==
    /\ At(r, {"scan", "connect"}, "subscribe")
    /\ signals[NameOf(r)] # "none"
    /\ Leave(r, IF request[r].kind = "scan" THEN "answered" ELSE "undo", 409)
    /\ UNCHANGED <<supplicant, bus, conn, wifiPast>>

AddMatch(r) ==
    /\ At(r, {"scan", "connect"}, "match")
    /\ rules' = rules \cup {<<request[r].on, NameOf(r)>>}
    /\ Goto(r, "wait")
    /\ UNCHANGED <<supplicant, queue, conn, wifiPast>>

RemoveChannel(name) ==
    /\ chan' = [r \in Requests |->
                   IF r = signals[name] THEN [chan[r] EXCEPT !.is = "closed"] ELSE chan[r]]
    /\ signals' = [signals EXCEPT ![name] = "none"]

MatchFails(r) ==
    /\ At(r, {"scan", "connect"}, "match")
    /\ RemoveChannel(NameOf(r))
    /\ Leave(r, IF request[r].kind = "scan" THEN "answered" ELSE "undo", 500)
    /\ UNCHANGED <<supplicant, bus, dispatcher, up, wifiPast>>

RemoveMatch(r) ==
    /\ At(r, {"scan", "connect"}, "unmatch")
    /\ rules' = rules \ {<<request[r].on, NameOf(r)>>}
    /\ Goto(r, "close")
    /\ UNCHANGED <<supplicant, queue, conn, wifiPast>>

CloseChannel(r) ==
    /\ At(r, {"scan", "connect"}, "close")
    /\ RemoveChannel(NameOf(r))
    /\ Goto(r, "answered")
    /\ UNCHANGED <<supplicant, bus, dispatcher, up, wifiPast>>

-----------------------------------------------------------------------------
(* ScanInterface *)

StartScan(r) ==
    /\ At(r, {"scan"}, "start")
    /\ IF Gone(r) THEN Answer(r, 404)
       ELSE Goto(r, IF scanning[request[r].on] THEN "subscribe" ELSE "call")
    /\ UNCHANGED <<supplicant, bus, conn, wifiPast>>

\* wpa_supplicant starts the scan; or refuses it.
CallScan(r) ==
    /\ At(r, {"scan"}, "call")
    /\ ~Gone(r)
    /\ LET i == request[r].on IN
        /\ scanning' = [scanning EXCEPT ![i] = TRUE]
        /\ EnterState(i, IF state[i] = "disconnected" THEN "scanning" ELSE state[i])
    /\ Goto(r, "subscribe")
    /\ UNCHANGED <<present, seen, configured, selected, rules, conn, wifiPast>>

ScanRefused(r) ==
    /\ At(r, {"scan"}, "call")
    /\ Answer(r, 500)
    /\ UNCHANGED <<supplicant, bus, conn, wifiPast>>

-----------------------------------------------------------------------------
(* ConnectNetwork *)

StartConnect(r) ==
    /\ At(r, {"connect"}, "start")
    /\ LET s == state[request[r].on] IN
        IF Gone(r) THEN Answer(r, 404)
        ELSE IF s \in {"completed", "associating"} THEN Answer(r, 409)
        ELSE Goto(r, IF s = "scanning" THEN "call" ELSE "remove")
    /\ UNCHANGED <<supplicant, bus, conn, wifiPast>>

\* A scan is interrupted, if it is that of a network to join.
StopScanning(r) ==
    /\ At(r, {"connect"}, "call")
    /\ Disconnect(request[r].on)
    /\ Goto(r, "remove")
    /\ UNCHANGED <<present, scanning, seen, configured, rules, conn, wifiPast>>

RemoveAllNetworks(r) ==
    /\ At(r, {"connect"}, "remove")
    /\ IF Gone(r) THEN Answer(r, 500) ELSE Goto(r, "add")
    /\ RemoveNetworks(request[r].on, Networks)
    /\ UNCHANGED <<present, scanning, seen, rules, conn, wifiPast>>

AddNetwork(r) ==
    /\ At(r, {"connect"}, "add")
    /\ ~Gone(r)
    /\ configured' = [configured EXCEPT ![request[r].on] = @ \cup {r}]
    /\ Goto(r, "select")
    /\ UNCHANGED <<present, state, scanning, seen, selected, bus, conn, wifiPast>>

\* InvalidArgs, or a configuration that is no message.
InvalidConfig(r) ==
    /\ At(r, {"connect"}, "add")
    /\ Answer(r, IF Gone(r) THEN 500 ELSE 400)
    /\ UNCHANGED <<supplicant, bus, conn, wifiPast>>

\* wpa_supplicant looks for the network at once; unless another request has removed it.
SelectNetwork(r) ==
    /\ At(r, {"connect"}, "select")
    /\ LET i == request[r].on IN
        IF r \in configured[i]
        THEN /\ selected' = [selected EXCEPT ![i] = r]
             /\ EnterState(i, "scanning")
             /\ Goto(r, "subscribe")
             /\ disturbed' = disturbed \cup {q \in Requests \ {r} : request[q].on = i}
        ELSE Answer(r, 500) /\ UNCHANGED <<selected, state, queue, disturbed>>
    /\ UNCHANGED <<present, scanning, seen, configured, rules, conn, reached, events>>

\* The subscription has failed: Disconnect and RemoveNetwork.
Undo(r) ==
    /\ At(r, {"connect"}, "undo")
    /\ Disconnect(request[r].on)
    /\ configured' = [configured EXCEPT ![request[r].on] = @ \ {r}]
    /\ Goto(r, "answered")
    /\ UNCHANGED <<present, scanning, seen, rules, conn, wifiPast>>

\* Fault: the attempt that has timed out goes on.
DropQuietly(r) ==
    /\ At(r, {"connect"}, "drop")
    /\ Goto(r, "unmatch")
    /\ UNCHANGED <<supplicant, bus, conn, wifiPast>>

\* The attempt has failed or timed out: Disconnect.
Drop(r) ==
    /\ At(r, {"connect"}, "drop")
    /\ Disconnect(request[r].on)
    /\ Goto(r, "unmatch")
    /\ UNCHANGED <<present, scanning, seen, configured, rules, conn, wifiPast>>

-----------------------------------------------------------------------------
(* Waiting for a signal *)

TakeSignal(r) ==
    /\ chan[r].buffer # <<>>
    /\ chan' = [chan EXCEPT ![r].buffer = Tail(@)]
    /\ UNCHANGED <<supplicant, bus, signals, dispatcher, up, wifiPast>>

\* Fault: an answer the service does not document.
ScanIsCreated(r) ==
    /\ At(r, {"scan"}, "wait")
    /\ TakeSignal(r)
    /\ Leave(r, "unmatch", 201)

ScanIsDone(r) ==
    /\ At(r, {"scan"}, "wait")
    /\ TakeSignal(r)
    /\ Leave(r, "unmatch", 200)

\* Fault: leaving an earlier state is taken for a failure of this attempt.
AnyStateArrives(r) ==
    /\ At(r, {"connect"}, "wait")
    /\ TakeSignal(r)
    /\ Leave(r, "unmatch", IF Head(chan[r].buffer).value = "disconnected" THEN 400 ELSE 204)

\* A failure counts only after associating.
StateArrives(r) ==
    /\ At(r, {"connect"}, "wait")
    /\ TakeSignal(r)
    /\ LET value == Head(chan[r].buffer).value
           begun == request[r].associating
       IN  CASE value = "associating" -> request' = [request EXCEPT ![r].associating = TRUE]
             [] value = "completed" -> Leave(r, "unmatch", 204)
             [] value = "scanning" /\ begun -> Leave(r, "drop", 400)
             [] value = "disconnected" /\ begun -> Leave(r, "unmatch", 400)
             [] OTHER -> UNCHANGED request

\* Fault: only a scan has a time-out.
TimeOutOfScan(r) ==
    /\ At(r, {"scan"}, "wait")
    /\ chan[r].buffer = <<>>
    /\ Leave(r, "unmatch", 504)
    /\ UNCHANGED <<supplicant, bus, conn, wifiPast>>

\* The time is up and no signal is there.  ConnectNetwork looks at the time only when a
\* second has passed without a signal.
TimeOut(r) ==
    /\ At(r, {"scan", "connect"}, "wait")
    /\ chan[r].buffer = <<>>
    /\ Leave(r, IF request[r].kind = "scan" THEN "unmatch" ELSE "drop", 504)
    /\ UNCHANGED <<supplicant, bus, conn, wifiPast>>

-----------------------------------------------------------------------------
(* DisconnectNetwork *)

\* CurrentNetwork, which may have changed since State was read.
ReadCurrent(r) ==
    /\ At(r, {"disconnect"}, "list")
    /\ IF Gone(r) THEN Answer(r, 404)
       ELSE request' = [request EXCEPT ![r].net = selected[request[r].on], ![r].at = "call"]
    /\ UNCHANGED <<supplicant, bus, conn, wifiPast>>

CallDisconnect(r) ==
    /\ At(r, {"disconnect"}, "call")
    /\ Disconnect(request[r].on)
    /\ IF Gone(r) THEN Answer(r, 500)
       ELSE IF selected[request[r].on] = "none" THEN Answer(r, 404) ELSE Goto(r, "remove")
    /\ UNCHANGED <<present, scanning, seen, configured, rules, conn, wifiPast>>

RemoveCurrent(r) ==
    /\ At(r, {"disconnect"}, "remove")
    /\ RemoveNetworks(request[r].on, {request[r].net})
    /\ Answer(r, IF request[r].net \in configured[request[r].on] THEN 204 ELSE 500)
    /\ UNCHANGED <<present, scanning, seen, rules, conn, wifiPast>>

-----------------------------------------------------------------------------
QueryStep(r) == ReadOne(r) \/ ReadList(r) \/ ReadMembers(r) \/ ReadState(r) \/ ReadNetwork(r)
SubscriptionStep(r) ==
    \/ AddChannel(r) \/ AlreadySubscribed(r) \/ AddMatch(r) \/ MatchFails(r)
    \/ RemoveMatch(r) \/ CloseChannel(r)
ScanStep(r) == StartScan(r) \/ CallScan(r) \/ ScanRefused(r)
ConnectStep(r) ==
    \/ StartConnect(r) \/ StopScanning(r) \/ RemoveAllNetworks(r) \/ AddNetwork(r)
    \/ InvalidConfig(r) \/ SelectNetwork(r) \/ Undo(r) \/ Drop(r)
WaitStep(r) == ScanIsDone(r) \/ StateArrives(r) \/ TimeOut(r)
DisconnectStep(r) == ReadCurrent(r) \/ CallDisconnect(r) \/ RemoveCurrent(r)
HandlerStep(r) ==
    \/ QueryStep(r) \/ SubscriptionStep(r) \/ ScanStep(r) \/ ConnectStep(r) \/ WaitStep(r)
    \/ DisconnectStep(r)

\* A request of any kind; a base station is asked for by its identifier.
Ask(r) ==
    \E kind \in Kinds, i \in Interfaces :
        \E todo \in IF kind = "bss" THEN {{b} : b \in Bss} ELSE {{}} : Accept(r, kind, i, todo)

ServiceStep == DispatcherStep \/ \E r \in Requests : HandlerStep(r)

WifiNext == SupplicantStep \/ ServiceStep \/ \E r \in Requests : Ask(r) \/ TakeAnswer(r)

WifiSpec == WifiInit /\ [][WifiNext]_wifiVars

-----------------------------------------------------------------------------
(* Properties *)

\* A subscription is of one request at a time: whoever is between its subscribe and its
\* close has its own channel open under the name of its signal, and nobody else's can be
\* there (addChannel and removeChannel share the map by name).
SubscriptionIsExclusive ==
    \A r \in Requests :
        (request[r].kind \in {"scan", "connect"}
            /\ request[r].at \in {"match", "wait", "drop", "unmatch", "close"})
        <=> (signals[NameOf(r)] = r /\ chan[r].is = "open")

\* A connection attempt that is refused, times out or cannot be watched does not go on
\* behind its answer: wpa_supplicant is not left trying the network (ConnectNetwork
\* disconnects before it returns).  A 400 is no such promise: after "disconnected" the
\* code leaves the network selected.
RefusedAttemptIsOver ==
    \A r \in Requests :
        (request[r].at = "answered" /\ request[r].kind = "connect"
            /\ request[r].status \in {404, 409, 500, 504})
        => selected[request[r].on] # r

\* The answer 204 to a connect means that wpa_supplicant has completed the network of the
\* request, unless it subscribed while signals of an earlier subscription were under way,
\* which are taken for its own (the dispatcher goes by the name of the signal alone), or
\* another request selected its network on the interface, which is then taken for this one's.
ConnectedWhenSaid ==
    \A r \in Requests :
        (request[r].at = "answered" /\ request[r].kind = "connect" /\ request[r].status = 204)
        => (r \in reached \/ r \in disturbed)

\* The process dies only of a signal that comes when the answer of its receiver is settled
\* already: no request that still waits for its signal is ever cut off, because nobody
\* else can close its channel.
DiesOfLateSignal == ~up => request[dispatcher.to].status # 0
=============================================================================
