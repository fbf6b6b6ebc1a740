------------------------------ MODULE BleBridge ------------------------------
(***************************************************************************)
(* The Bluetooth bridge (honeypot/ble): the process of a central or of a   *)
(* peripheral, which drives BlueZ over D-Bus, runs once and ends.  Its     *)
(* peer, on the other side of the air, may do anything a peer may.         *)
(*                                                                         *)
(* In a process the main goroutine connects, writes for ten seconds and    *)
(* disconnects.  Whoever wants signals subscribes: a forwarder goroutine   *)
(* takes each from a buffered channel and hands it over an unbuffered one, *)
(* and ends when `done` is closed, or sent to.  A second goroutine watches *)
(* the connection between StartNotify and StopNotify and hands values to   *)
(* a consumer.                                                             *)
(*                                                                         *)
(* Abstracted: other devices; properties that the code does not read; the  *)
(* text of an SSID; writes, which change nothing here unless they fail;    *)
(* the pauses of safetyInterval, which order nothing.                      *)
(***************************************************************************)
EXTENDS Integers, Sequences

CONSTANTS
    Securities,   \* the values the peripheral may write: [level, event, seconds]
    MaxWrites,    \* bound: the values the peer sends
    MaxLosses,    \* bound: how often the link is lost
    MaxNoise      \* bound: the signals of BlueZ about other properties of the peer

ASSUME BleConstants ==
    /\ Securities \subseteq [level : 0 .. 255, event : 0 .. 255, seconds : Int]
    /\ MaxWrites \in Nat /\ MaxLosses \in Nat /\ MaxNoise \in Nat

VARIABLES
    role,             \* what the process is
    linked, bonded,   \* BlueZ: the two are connected, and are paired
    resolved,         \* BlueZ: ServicesResolved
    known,            \* BlueZ has an object for the peer
    notifying,        \* BlueZ: notifications have been asked for
    main,             \* where the main goroutine is
    props,            \* devs[dev.path] of Connect: what it knows of the peer
    tried,            \* the flags pairing, paired, connecting and connected of Connect
    fwd,              \* the subscriptions and their forwarders
    watcher,          \* the goroutine of StartNotifySecurity or StartNotifySSID
    consumer,         \* the goroutine of cmd that reads its channel
    disconnected,     \* blueZ.disconnected
    writers,          \* how many calls of WriteValue wait at ssidWriteChan
    sent, received,   \* history: the values the peer has sent, and the consumer has read
    early,            \* history: the link was down when the process began to watch it
    writes, losses, noise

radio == <<role, linked, bonded, resolved, known, notifying>>
bleLocal == <<main, props, tried, consumer, disconnected>>
bleCounts == <<writes, losses, noise>>
blePast == <<sent, received, early>>
bleVars == <<radio, bleLocal, fwd, watcher, writers, blePast, bleCounts>>

-----------------------------------------------------------------------------
Roles == {"central", "peripheral"}
Subs == {"connect", "notify", "disconnect"}
DeviceSignals == {"added", "removed", "connected", "paired", "resolved", "disconnected", "other"}

\* security.go: four bytes, of which two for the seconds (int16).
Bytes(s) == <<s.level % 256, s.event % 256, (s.seconds \div 256) % 256, s.seconds % 256>>

\* Fault: the high byte is shifted before it is widened.
ParseNarrow(b) == [level |-> b[1], event |-> b[2], seconds |-> b[4]]

ParseSecurity(b) ==
    LET word == b[3] * 256 + b[4]
    IN  [level |-> b[1], event |-> b[2],
         seconds |-> IF word >= 32768 THEN word - 65536 ELSE word]

\* What the consumer takes for the end of the channel.
IsZero(s) == s = [level |-> 0, event |-> 0, seconds |-> 0]

\* A signal about the peer's device, or the value of a characteristic.
Signals == [is : DeviceSignals, value : {<<>>}]
              \cup [is : {"value"}, value : {Bytes(s) : s \in Securities}]
About(what) == [is |-> what, value |-> <<>>]
Decoded == [level : 0 .. 255, event : 0 .. 255,
            seconds : {n \in Int : -32768 <= n /\ n <= 32767}]

NoSub == [is |-> "none", queue |-> <<>>, done |-> FALSE]
Sub == [is : {"none", "select", "sends", "ended"}, queue : Seq(Signals), done : BOOLEAN]
Watcher == [at : {"none", "select", "tells", "flags", "hands", "ended"},
            value : Seq(0 .. 255)]
Places == {"find", "advertise", "subscribe", "prepare", "loop", "pair", "connect", "settle",
           "watch", "notify", "run", "stop", "leave", "ask", "hangup", "await", "close", "done",
           "crashed"}

BleTypeOK ==
    /\ role \in Roles
    /\ {linked, bonded, resolved, known, notifying} \subseteq BOOLEAN
    /\ main \in Places
    /\ props \subseteq {"known", "Paired", "Connected", "ServicesResolved"}
    /\ tried \subseteq {"pairing", "paired", "connecting", "connected"}
    /\ fwd \in [Subs -> Sub]
    /\ watcher \in Watcher
    /\ consumer \in {"reads", "stopped"}
    /\ disconnected \in BOOLEAN
    /\ writers \in Nat
    /\ sent \in Seq(Securities) /\ received \in Seq(Decoded)
    /\ early \in BOOLEAN
    /\ writes \in 0 .. MaxWrites /\ losses \in 0 .. MaxLosses /\ noise \in 0 .. MaxNoise

\* The two may have met before, and may be connected.
BleInit ==
    /\ role \in Roles
    /\ bonded \in BOOLEAN /\ linked \in {FALSE, bonded} /\ known \in {TRUE, bonded}
    /\ resolved = linked
    /\ notifying = FALSE
    /\ main = IF role = "central" THEN "find" ELSE "advertise"
    /\ props = {} /\ tried = {}
    /\ fwd = [s \in Subs |-> NoSub]
    /\ watcher = [at |-> "none", value |-> <<>>]
    /\ consumer = "reads"
    /\ disconnected = FALSE
    /\ writers = 0
    /\ sent = <<>> /\ received = <<>> /\ early = FALSE
    /\ writes = 0 /\ losses = 0 /\ noise = 0

-----------------------------------------------------------------------------
(* Signals and subscriptions *)

Listens(f) == f.is \in {"select", "sends"}
Emit(signals) ==
    fwd' = [s \in Subs |-> IF Listens(fwd[s]) THEN [fwd[s] EXCEPT !.queue = @ \o signals]
                           ELSE fwd[s]]

\* signalSubscribe, and close(done).  Where the reader returns with close(done) nobody reads
\* on: the forwarder ends, or is stuck for good on a signal that it has taken.
Subscribe(s) == fwd' = [fwd EXCEPT ![s] = [NoSub EXCEPT !.is = "select"]]
Unsubscribe(s) == fwd' = [fwd EXCEPT ![s] = IF s = "notify" THEN [@ EXCEPT !.done = TRUE] ELSE NoSub]

Alive == main \notin {"done", "crashed"}
Held(s) == Head(fwd[s].queue)
Released(f) == [f EXCEPT !.is = "select", !.queue = Tail(@)]

\* The select of the forwarder: a signal, which it then sends, or done.
ForwarderTakes(s) ==
    /\ Alive
    /\ fwd[s].is = "select" /\ fwd[s].queue # <<>>
    /\ fwd' = [fwd EXCEPT ![s].is = "sends"]
    /\ UNCHANGED <<radio, bleLocal, watcher, writers, blePast, bleCounts>>

ForwarderEnds(s) ==
    /\ Alive
    /\ fwd[s].is = "select" /\ fwd[s].done
    /\ fwd' = [fwd EXCEPT ![s].is = "ended", ![s].queue = <<>>]
    /\ UNCHANGED <<radio, bleLocal, watcher, writers, blePast, bleCounts>>

ForwarderStep == \E s \in Subs : ForwarderTakes(s) \/ ForwarderEnds(s)

-----------------------------------------------------------------------------
(* BlueZ, and the peer *)

\* A scan finds the peer.
Discover ==
    /\ role = "central" /\ main \in {"loop", "pair"} /\ tried \subseteq {"pairing"}
    /\ ~known
    /\ known' = TRUE
    /\ Emit(<<About("added")>>)
    /\ UNCHANGED <<role, linked, bonded, resolved, notifying, bleLocal, watcher, writers,
                   blePast, bleCounts>>

\* BlueZ drops a device that is neither paired nor connected.
Forget ==
    /\ Alive /\ known /\ ~bonded /\ ~linked /\ noise < MaxNoise
    /\ known' = FALSE /\ noise' = noise + 1
    /\ Emit(<<About("removed")>>)
    /\ UNCHANGED <<role, linked, bonded, resolved, notifying, bleLocal, watcher, writers,
                   blePast, writes, losses>>

PeerConnects ==
    /\ role = "peripheral" /\ main \in {"prepare", "loop"}
    /\ ~linked
    /\ linked' = TRUE /\ known' = TRUE
    /\ Emit(<<About("connected")>>)
    /\ UNCHANGED <<role, bonded, resolved, notifying, bleLocal, watcher, writers, blePast,
                   bleCounts>>

PeerPairs ==
    /\ role = "peripheral" /\ Alive
    /\ linked /\ ~bonded
    /\ bonded' = TRUE
    /\ Emit(<<About("paired")>>)
    /\ UNCHANGED <<role, linked, resolved, known, notifying, bleLocal, watcher, writers, blePast,
                   bleCounts>>

ResolveServices ==
    /\ Alive /\ linked /\ ~resolved
    /\ resolved' = TRUE
    /\ Emit(<<About("resolved")>>)
    /\ UNCHANGED <<role, linked, bonded, known, notifying, bleLocal, watcher, writers, blePast,
                   bleCounts>>

\* The peer writes: a notification, or a call of WriteValue, which waits for the watcher.
PeerWrites ==
    /\ Alive /\ linked /\ writes < MaxWrites
    /\ writes' = writes + 1
    /\ \/ /\ role = "central" /\ notifying
          /\ \E s \in Securities :
                Emit(<<[is |-> "value", value |-> Bytes(s)]>>) /\ sent' = Append(sent, s)
          /\ UNCHANGED writers
       \/ /\ role = "peripheral" /\ resolved
          /\ writers' = writers + 1
          /\ UNCHANGED <<fwd, sent>>
    /\ UNCHANGED <<radio, bleLocal, watcher, received, early, losses, noise>>

Noise ==
    /\ Alive /\ known /\ noise < MaxNoise
    /\ noise' = noise + 1
    /\ Emit(<<About("other")>>)
    /\ UNCHANGED <<radio, bleLocal, watcher, writers, blePast, writes, losses>>

LinkDown ==
    /\ linked' = FALSE /\ notifying' = FALSE /\ resolved' = FALSE
    /\ IF linked THEN Emit(<<About("disconnected")>>) ELSE UNCHANGED fwd

Lose ==
    /\ Alive /\ linked /\ losses < MaxLosses
    /\ losses' = losses + 1
    /\ LinkDown
    /\ UNCHANGED <<role, bonded, known, bleLocal, watcher, writers, blePast, writes, noise>>

Radio ==
    \/ Discover \/ Forget \/ PeerConnects \/ PeerPairs \/ ResolveServices \/ PeerWrites
    \/ Noise \/ Lose

-----------------------------------------------------------------------------
(* Connect *)

\* Connect returns an error: its defers, then Close.
Fail == main' = "close" /\ Unsubscribe("connect")

FindPairedDevice ==
    /\ main = "find"
    /\ props' = IF ~bonded THEN {} ELSE
            {"known", "Paired"} \cup (IF linked THEN {"Connected"} ELSE {})
                \cup (IF resolved THEN {"ServicesResolved"} ELSE {})
    /\ tried' = IF bonded THEN {"paired", "connecting"} ELSE {}
    /\ main' = "subscribe"
    /\ UNCHANGED <<radio, consumer, disconnected, fwd, watcher, writers, blePast, bleCounts>>

RegisterAdvertisement ==
    /\ main = "advertise"
    /\ main' \in {"subscribe", "close"}
    /\ UNCHANGED <<radio, props, tried, consumer, disconnected, fwd, watcher, writers, blePast,
                   bleCounts>>

SubscribeToConnect ==
    /\ main = "subscribe"
    /\ Subscribe("connect")
    /\ main' = IF "connecting" \in tried THEN "connect" ELSE "prepare"
    /\ UNCHANGED <<radio, props, tried, consumer, disconnected, watcher, writers, blePast,
                   bleCounts>>

\* StartDiscovery; Discoverable and registerApplication.
Prepare ==
    /\ main = "prepare"
    /\ (main' = "loop" /\ UNCHANGED fwd) \/ Fail
    /\ UNCHANGED <<radio, props, tried, consumer, disconnected, watcher, writers, blePast,
                   bleCounts>>

\* Pair and Connect return after BlueZ has connected the two; or fail, or time out.
Pair ==
    /\ main = "pair"
    /\ linked' = TRUE /\ bonded' = TRUE /\ known' = TRUE
    /\ Emit((IF linked THEN <<>> ELSE <<About("connected")>>) \o <<About("paired")>>)
    /\ main' = "loop"
    /\ UNCHANGED <<role, resolved, notifying, props, tried, consumer, disconnected, watcher,
                   writers, blePast, bleCounts>>

CallConnect ==
    /\ main = "connect"
    /\ linked' = TRUE
    /\ IF linked THEN UNCHANGED fwd ELSE Emit(<<About("connected")>>)
    /\ main' = "loop"
    /\ UNCHANGED <<role, bonded, resolved, known, notifying, props, tried, consumer,
                   disconnected, watcher, writers, blePast, bleCounts>>

CallFails ==
    /\ main \in {"pair", "connect"}
    /\ Fail
    /\ UNCHANGED <<radio, props, tried, consumer, disconnected, watcher, writers, blePast,
                   bleCounts>>

\* maps.Copy(devs[dev.path], dev.data); a removed device is deleted, and one that is not in
\* devs must give its name to the central.
Merged(s) ==
    IF s = "removed" \/ (role = "central" /\ props = {} /\ s # "added") THEN {}
    ELSE ((props \cup {"known"}) \ (IF s = "disconnected" THEN {"Connected"} ELSE {}))
         \cup (CASE s = "connected" -> {"Connected"}
                 [] s = "paired" -> {"Paired"}
                 [] s = "resolved" -> {"ServicesResolved"}
                 [] OTHER -> {})

\* What the central does then: pair, once; connect, once; and go on when it has been told
\* that the services are resolved.  The result is [tried, main].
CentralLooks(now) ==
    LET paired == "paired" \in tried \/ ("pairing" \in tried /\ "Paired" \in now)
        connected == "connected" \in tried \/ "Connected" \in now
    IN  CASE now = {} -> <<tried, "loop">>
          [] now # {} /\ tried = {} -> <<{"pairing"}, "pair">>
          [] now # {} /\ tried # {} /\ ~paired -> <<tried, "loop">>
          [] now # {} /\ tried # {} /\ paired /\ "connecting" \notin tried ->
                <<tried \cup {"paired", "connecting"}, "connect">>
          [] OTHER ->
                IF ~connected THEN <<tried, "loop">>
                ELSE <<tried \cup {"connected"},
                       IF "ServicesResolved" \in now THEN "settle" ELSE "loop">>

\* The peripheral reads the properties again, which fails when there is no device left.
PeripheralLooks(now) ==
    IF "Connected" \notin now THEN {"loop"}
    ELSE IF ~known THEN {"close"}
    ELSE IF bonded \/ resolved THEN {"settle"} ELSE {"loop"}

ConnectHears ==
    /\ main = "loop" /\ fwd["connect"].is = "sends"
    /\ LET s == Held("connect").is
           now == Merged(s)
           looked == CentralLooks(now)
       IN  IF s = "value" THEN UNCHANGED <<main, props, tried>>
           ELSE /\ props' = now
                /\ IF role = "central" THEN tried' = looked[1] /\ main' = looked[2]
                   ELSE main' \in PeripheralLooks(now) /\ UNCHANGED tried
    /\ fwd' = [fwd EXCEPT !["connect"] = IF main' \in {"settle", "close"} THEN NoSub ELSE Released(@)]
    /\ UNCHANGED <<radio, consumer, disconnected, watcher, writers, blePast, bleCounts>>

ConnectTimesOut ==
    /\ main = "loop"
    /\ Fail
    /\ UNCHANGED <<radio, props, tried, consumer, disconnected, watcher, writers, blePast,
                   bleCounts>>

\* newConnection looks for the service and its characteristics.
Settle ==
    /\ main = "settle"
    /\ IF role = "peripheral" \/ resolved
       THEN main' = "watch" /\ UNCHANGED <<linked, notifying, resolved, fwd>>
       ELSE main' = "close" /\ LinkDown
    /\ UNCHANGED <<role, bonded, known, props, tried, consumer, disconnected, watcher, writers,
                   blePast, bleCounts>>

ConnectStep ==
    \/ FindPairedDevice \/ RegisterAdvertisement \/ SubscribeToConnect \/ Prepare
    \/ Pair \/ CallConnect \/ CallFails \/ ConnectHears \/ ConnectTimesOut \/ Settle

-----------------------------------------------------------------------------
(* StartNotify, the writes and StopNotify *)

StartWatching ==
    /\ main = "watch"
    /\ Subscribe("notify")
    /\ early' = ~linked
    /\ IF role = "central" THEN main' = "notify" /\ UNCHANGED watcher
       ELSE main' = "run" /\ watcher' = [watcher EXCEPT !.at = "select"]
    /\ UNCHANGED <<radio, props, tried, consumer, disconnected, writers, sent, received,
                   bleCounts>>

StartNotify ==
    /\ main = "notify"
    /\ IF linked
       THEN /\ notifying' = TRUE /\ main' = "run"
            /\ watcher' = [watcher EXCEPT !.at = "select"]
            /\ UNCHANGED fwd
       ELSE /\ main' = "leave" /\ fwd' = [fwd EXCEPT !["notify"] = NoSub]
            /\ UNCHANGED <<notifying, watcher>>
    /\ UNCHANGED <<role, linked, bonded, resolved, known, props, tried, consumer, disconnected,
                   writers, blePast, bleCounts>>

\* The ten seconds are over, or a write has failed.
EndRun ==
    /\ main = "run"
    /\ main' = "stop"
    /\ UNCHANGED <<radio, props, tried, consumer, disconnected, fwd, watcher, writers, blePast,
                   bleCounts>>

\* close(done): a watcher that is sending to it panics.
StopNotify ==
    /\ main = "stop"
    /\ Unsubscribe("notify")
    /\ main' = IF watcher.at = "tells" THEN "crashed" ELSE "leave"
    /\ UNCHANGED <<radio, props, tried, consumer, disconnected, watcher, writers, blePast,
                   bleCounts>>

NotifyStep == StartWatching \/ StartNotify \/ EndRun \/ StopNotify

-----------------------------------------------------------------------------
(* The watcher *)

\* A signal of the peer's device that does not say Connected is taken for the end.
SaysConnected(s) == s.is = "connected"

\* Fault: the end is looked for among the signals of the characteristic.
WatcherHearsValues ==
    /\ Alive /\ watcher.at = "select" /\ fwd["notify"].is = "sends"
    /\ watcher' = IF Held("notify").is = "value"
                  THEN [at |-> "hands", value |-> Held("notify").value] ELSE watcher
    /\ fwd' = [fwd EXCEPT !["notify"] = Released(@)]
    /\ UNCHANGED <<radio, bleLocal, writers, blePast, bleCounts>>

WatcherHears ==
    /\ Alive /\ watcher.at = "select" /\ fwd["notify"].is = "sends"
    /\ LET s == Held("notify") IN
        watcher' = CASE s.is = "value" -> [at |-> "hands", value |-> s.value]
                     [] s.is # "value" /\ ~SaysConnected(s) -> [watcher EXCEPT !.at = "tells"]
                     [] OTHER -> watcher
    /\ fwd' = [fwd EXCEPT !["notify"] = Released(@)]
    /\ UNCHANGED <<radio, bleLocal, writers, blePast, bleCounts>>

\* done <- struct{}{}: received by the forwarder in its select.
WatcherTells ==
    /\ Alive /\ watcher.at = "tells"
    /\ ~fwd["notify"].done /\ fwd["notify"].is = "select"
    /\ fwd' = [fwd EXCEPT !["notify"].is = "ended", !["notify"].queue = <<>>]
    /\ watcher' = [watcher EXCEPT !.at = "flags"]
    /\ UNCHANGED <<radio, bleLocal, writers, blePast, bleCounts>>

\* On a closed channel it panics.
WatcherPanics ==
    /\ Alive /\ watcher.at = "tells"
    /\ fwd["notify"].done
    /\ main' = "crashed"
    /\ UNCHANGED <<radio, props, tried, consumer, disconnected, fwd, watcher, writers, blePast,
                   bleCounts>>

WatcherFlags ==
    /\ Alive /\ watcher.at = "flags"
    /\ disconnected' = TRUE
    /\ watcher' = [watcher EXCEPT !.at = "select"]
    /\ UNCHANGED <<radio, main, props, tried, consumer, fwd, writers, blePast, bleCounts>>

\* Fault: ssidWriteChan is closed by an earlier watcher, so that one reads from it at any time.
WatcherTakesAny ==
    /\ Alive /\ watcher.at = "select"
    /\ writers' = writers - 1
    /\ watcher' = [watcher EXCEPT !.at = "hands"]
    /\ UNCHANGED <<radio, bleLocal, fwd, blePast, bleCounts>>

\* A call of WriteValue is let go.
WatcherTakesWrite ==
    /\ Alive /\ watcher.at = "select" /\ writers > 0
    /\ writers' = writers - 1
    /\ watcher' = [watcher EXCEPT !.at = "hands"]
    /\ UNCHANGED <<radio, bleLocal, fwd, blePast, bleCounts>>

\* The consumer takes the value, and stops at what looks like the end of the channel: zeros,
\* or, for the peripheral, an empty SSID.
WatcherHands ==
    /\ Alive /\ watcher.at = "hands" /\ consumer = "reads"
    /\ watcher' = [at |-> "select", value |-> <<>>]
    /\ LET s == ParseSecurity(watcher.value) IN
        IF role = "peripheral" THEN consumer' \in {"reads", "stopped"} /\ UNCHANGED received
        ELSE IF IsZero(s) THEN consumer' = "stopped" /\ UNCHANGED received
        ELSE received' = Append(received, s) /\ UNCHANGED consumer
    /\ UNCHANGED <<radio, main, props, tried, disconnected, fwd, writers, sent, early, bleCounts>>

\* close(security), which the consumer reads as a zero value; StopNotify.
WatcherEnds ==
    /\ Alive /\ watcher.at = "select" /\ fwd["notify"].done
    /\ watcher' = [watcher EXCEPT !.at = "ended"]
    /\ consumer' = "stopped"
    /\ notifying' = FALSE
    /\ UNCHANGED <<role, linked, bonded, resolved, known, main, props, tried, disconnected, fwd,
                   writers, blePast, bleCounts>>

WatcherStep ==
    \/ WatcherHears \/ WatcherTells \/ WatcherPanics \/ WatcherFlags \/ WatcherHands
    \/ WatcherEnds \/ WatcherTakesWrite

-----------------------------------------------------------------------------
(* Disconnect and Close *)

\* disconnect() returns: its defers.
Left == main' = "close" /\ disconnected' = TRUE

\* Fault: the subscription is made when BlueZ has been asked already.
LeaveLate ==
    /\ main = "leave"
    /\ main' = IF disconnected THEN "close" ELSE "await"
    /\ IF disconnected THEN UNCHANGED <<linked, notifying, resolved, fwd>>
       ELSE /\ linked' = FALSE /\ notifying' = FALSE /\ resolved' = FALSE
            /\ Subscribe("disconnect")
    /\ UNCHANGED <<role, bonded, known, props, tried, consumer, disconnected, watcher, writers,
                   blePast, bleCounts>>

Leave ==
    /\ main = "leave"
    /\ IF disconnected THEN main' = "close" /\ UNCHANGED fwd
       ELSE main' = "ask" /\ Subscribe("disconnect")
    /\ UNCHANGED <<radio, props, tried, consumer, disconnected, watcher, writers, blePast,
                   bleCounts>>

ReadConnected ==
    /\ main = "ask"
    /\ IF linked THEN main' = "hangup" /\ UNCHANGED <<disconnected, fwd>>
       ELSE Left /\ Unsubscribe("disconnect")
    /\ UNCHANGED <<radio, props, tried, consumer, watcher, writers, blePast, bleCounts>>

\* Disconnect is an error when the link is down by now.
HangUp ==
    /\ main = "hangup"
    /\ IF linked THEN LinkDown /\ main' = "await" /\ UNCHANGED disconnected
       ELSE Left /\ Unsubscribe("disconnect") /\ UNCHANGED <<linked, resolved, notifying>>
    /\ UNCHANGED <<role, bonded, known, props, tried, consumer, watcher, writers, blePast,
                   bleCounts>>

AwaitHears ==
    /\ main = "await" /\ fwd["disconnect"].is = "sends"
    /\ LET s == Held("disconnect")
           over == s.is # "value" /\ ~SaysConnected(s)
       IN  /\ IF over THEN Left ELSE UNCHANGED <<main, disconnected>>
           /\ fwd' = [fwd EXCEPT !["disconnect"] = IF over THEN NoSub ELSE Released(@)]
    /\ UNCHANGED <<radio, props, tried, consumer, watcher, writers, blePast, bleCounts>>

\* The connection to the bus is closed.
CloseBus ==
    /\ main = "close"
    /\ main' = "done"
    /\ fwd' = [s \in Subs |-> NoSub]
    /\ UNCHANGED <<radio, props, tried, consumer, disconnected, watcher, writers, blePast,
                   bleCounts>>

DisconnectStep == Leave \/ ReadConnected \/ HangUp \/ AwaitHears \/ CloseBus

-----------------------------------------------------------------------------
MainStep == ConnectStep \/ NotifyStep \/ DisconnectStep
BleNext == Radio \/ MainStep \/ ForwarderStep \/ WatcherStep

\* Goroutines run when they can; BlueZ and the peer owe nothing.
BleFairness == WF_bleVars(MainStep) /\ WF_bleVars(ForwarderStep) /\ WF_bleVars(WatcherStep)
BleSpec == BleInit /\ [][BleNext]_bleVars /\ BleFairness

-----------------------------------------------------------------------------
(* Properties *)

\* What the consumer of the central reads is what the peer has written since notifications
\* were asked for: from the first value on, in order, with nothing left out, and with the same
\* seconds after two bytes and back.
SecurityArrives ==
    /\ Len(received) <= Len(sent)
    /\ \A k \in 1 .. Len(received) : received[k] = sent[k]

\* Two states in which a process is never told that the link is down: the watcher waits for
\* its forwarder (`done <-`, central.go:255), which waits for it with another signal
\* (`objects <-`, bluez.go:240); and the watcher has a value for a consumer that has taken
\* an earlier one, of zeros, for the end (cmd/central/main.go:39).
Deadlocked == watcher.at = "tells" /\ fwd["notify"].is = "sends"
Unheard == watcher.at = "hands" /\ consumer = "stopped"

\* What the watcher takes for the end of the connection is queued for it.
EndIsQueued ==
    \E k \in 1 .. Len(fwd["notify"].queue) :
        fwd["notify"].queue[k].is \notin {"connected", "value"}

\* A process that writes over a link that is down is going to be told, unless it runs into
\* one of these two states, or the link was down before it began to watch.  The watcher is
\* about to set the flag, or can end the forwarder and then set it; or the signal is queued,
\* and either the watcher takes what the forwarder brings, or it hands over a value first.
LossIsNoticed ==
    (main = "run" /\ ~linked /\ ~disconnected /\ ~early /\ ~Deadlocked /\ ~Unheard)
    => \/ watcher.at = "flags"
       \/ watcher.at = "tells" /\ fwd["notify"].is = "select" /\ ~fwd["notify"].done
       \/ /\ EndIsQueued /\ Listens(fwd["notify"])
          /\ watcher.at = "select" \/ (watcher.at = "hands" /\ consumer = "reads")

\* A process ends, or panics: the wait for the end of the connection, which has no time-out,
\* always sees it, because disconnect() subscribes before it asks BlueZ; and a watcher that
\* is stuck keeps nobody else from ending.
BleRunEnds == <>(main \in {"done", "crashed"})
=============================================================================
