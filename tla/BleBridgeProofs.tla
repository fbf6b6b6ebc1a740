-------------------------- MODULE BleBridgeProofs --------------------------
(***************************************************************************)
(* Proofs about BleBridge, for any values that the peer writes, in any     *)
(* number, and however often the link is lost.                             *)
(***************************************************************************)
EXTENDS BleBridge, SequenceTheorems, TLAPS

-----------------------------------------------------------------------------
(* Types: the subscriptions *)

\* A forwarder that sends has taken a signal.
Ready == \A s \in Subs : fwd[s].is = "sends" => fwd[s].queue # <<>>
FwdOK == fwd \in [Subs -> Sub] /\ Ready

\* The values in the watcher's hand are of four bytes; nobody writes to a central.
HandOK ==
    role = "central" =>
        /\ writers = 0
        /\ watcher.at = "hands" => watcher.value \in {Bytes(s) : s \in Securities}

BleTypes == BleTypeOK /\ Ready /\ HandOK

LEMMA NoSubType == NoSub \in Sub /\ ~Listens(NoSub)
BY EmptySeq DEF NoSub, Sub, Listens

LEMMA AboutType == ASSUME NEW what \in DeviceSignals PROVE <<About(what)>> \in Seq(Signals)
<1>1. About(what) \in Signals
  BY DEF About, Signals
<1> QED
  BY <1>1

\* What is sent to a subscription is put behind what is there.
LEMMA Queued ==
    ASSUME NEW f \in Sub, f.is = "sends" => f.queue # <<>>, NEW q \in Seq(Signals)
    PROVE  /\ [f EXCEPT !.queue = @ \o q] \in Sub
           /\ f.is = "sends" => [f EXCEPT !.queue = @ \o q].queue # <<>>
<1>1. f.queue \in Seq(Signals)
  BY DEF Sub
<1>2. f.queue \o q \in Seq(Signals) /\ Len(f.queue \o q) = Len(f.queue) + Len(q)
  BY <1>1, ConcatProperties
<1>3. f.queue # <<>> => f.queue \o q # <<>>
  <2>1. Len(f.queue) \in Nat /\ Len(q) \in Nat
    BY <1>1, LenProperties
  <2>2. f.queue # <<>> => Len(f.queue) # 0
    BY <1>1, EmptySeq
  <2>3. Len(<<>>) = 0
    OBVIOUS
  <2> QED
    BY <1>2, <2>1, <2>2, <2>3
<1> QED
  BY <1>2, <1>3 DEF Sub

LEMMA EmitKeeps == ASSUME FwdOK, NEW q \in Seq(Signals), Emit(q) PROVE FwdOK'
<1>1. ASSUME NEW s \in Subs
      PROVE  fwd'[s] \in Sub /\ (fwd'[s].is = "sends" => fwd'[s].queue # <<>>)
  <2>1. fwd[s] \in Sub /\ (fwd[s].is = "sends" => fwd[s].queue # <<>>)
    BY DEF FwdOK, Ready
  <2>2. fwd'[s] = IF Listens(fwd[s]) THEN [fwd[s] EXCEPT !.queue = @ \o q] ELSE fwd[s]
    BY DEF Emit
  <2>3. [fwd[s] EXCEPT !.queue = @ \o q].is = fwd[s].is
    BY <2>1 DEF Sub
  <2> QED
    BY <2>1, <2>2, <2>3, Queued
<1>2. fwd' = [s \in Subs |-> fwd'[s]]
  BY DEF Emit
<1> QED
  BY <1>1, <1>2 DEF FwdOK, Ready

\* One subscription changes.
LEMMA OneKeeps ==
    ASSUME FwdOK, NEW s \in Subs, NEW f \in Sub, f.is = "sends" => f.queue # <<>>,
           fwd' = [fwd EXCEPT ![s] = f]
    PROVE  FwdOK'
BY DEF FwdOK, Ready

LEMMA SubscribeKeeps == ASSUME FwdOK, NEW s \in Subs, Subscribe(s) PROVE FwdOK'
<1>1. [NoSub EXCEPT !.is = "select"] \in Sub /\ [NoSub EXCEPT !.is = "select"].is = "select"
  BY EmptySeq DEF NoSub, Sub
<1> QED
  BY <1>1, OneKeeps DEF Subscribe

LEMMA DropKeeps ==
    ASSUME FwdOK, NEW s \in Subs, fwd' = [fwd EXCEPT ![s] = NoSub] PROVE FwdOK'
<1>1. NoSub.is = "none"
  BY DEF NoSub
<1> QED
  BY <1>1, NoSubType, OneKeeps

LEMMA UnsubscribeKeeps == ASSUME FwdOK, NEW s \in Subs, Unsubscribe(s) PROVE FwdOK'
<1>1. CASE s = "notify"
  <2> DEFINE f == [fwd[s] EXCEPT !.done = TRUE]
  <2>1. fwd[s] \in Sub /\ (fwd[s].is = "sends" => fwd[s].queue # <<>>)
    BY DEF FwdOK, Ready
  <2>2. f \in Sub /\ f.is = fwd[s].is /\ f.queue = fwd[s].queue
    BY <2>1 DEF Sub
  <2>3. fwd' = [fwd EXCEPT ![s] = f]
    BY <1>1 DEF Unsubscribe, FwdOK
  <2> HIDE DEF f
  <2> QED
    BY <2>1, <2>2, <2>3, OneKeeps
<1>2. CASE s # "notify"
  <2>1. fwd' = [fwd EXCEPT ![s] = NoSub]
    BY <1>2 DEF Unsubscribe
  <2> QED
    BY <2>1, DropKeeps
<1> QED
  BY <1>1, <1>2

\* The signal that is held is taken.
LEMMA ReleasedType ==
    ASSUME FwdOK, NEW s \in Subs, fwd[s].is = "sends"
    PROVE  /\ Released(fwd[s]) \in Sub /\ Released(fwd[s]).is = "select"
           /\ Held(s) \in Signals
<1>1. fwd[s] \in Sub /\ fwd[s].queue # <<>> /\ fwd[s].queue \in Seq(Signals)
  BY DEF FwdOK, Ready, Sub
<1>2. Tail(fwd[s].queue) \in Seq(Signals) /\ Head(fwd[s].queue) \in Signals
  BY <1>1, HeadTailProperties
<1> QED
  BY <1>1, <1>2 DEF Released, Held, Sub

LEMMA ReleasedKeeps ==
    ASSUME FwdOK, NEW s \in Subs, fwd[s].is = "sends", fwd' = [fwd EXCEPT ![s] = Released(@)]
    PROVE  FwdOK'
<1>1. fwd' = [fwd EXCEPT ![s] = Released(fwd[s])]
  BY DEF FwdOK
<1> QED
  BY <1>1, ReleasedType, OneKeeps

LEMMA LinkDownKeeps == ASSUME FwdOK, LinkDown PROVE FwdOK'
<1>1. <<About("disconnected")>> \in Seq(Signals)
  BY AboutType DEF DeviceSignals
<1>2. CASE UNCHANGED fwd
  BY <1>2 DEF FwdOK, Ready
<1> QED
  BY <1>1, <1>2, EmitKeeps DEF LinkDown

-----------------------------------------------------------------------------
(* Types: the steps *)

\* The radio and the peer.
LEMMA RadioTypes == ASSUME BleTypes, Radio PROVE BleTypes'
<1> USE DEF radio, bleLocal, bleCounts, blePast
<1>0. BleTypeOK /\ FwdOK /\ HandOK
  BY DEF BleTypes, BleTypeOK, FwdOK
<1>1. ASSUME NEW what \in DeviceSignals, Emit(<<About(what)>>) PROVE FwdOK'
  BY <1>0, <1>1, AboutType, EmitKeeps
<1>2. CASE Discover \/ PeerConnects \/ PeerPairs \/ ResolveServices
  <2>1. FwdOK'
    BY <1>1, <1>2 DEF Discover, PeerConnects, PeerPairs, ResolveServices, DeviceSignals
  <2>2. {linked', bonded', resolved', known', notifying'} \subseteq BOOLEAN
    BY <1>0, <1>2, Zenon
    DEF BleTypeOK, Discover, PeerConnects, PeerPairs, ResolveServices
  <2>3. UNCHANGED <<role, bleLocal, watcher, writers, blePast, bleCounts>>
    BY <1>2 DEF Discover, PeerConnects, PeerPairs, ResolveServices
  <2> QED
    BY <1>0, <2>1, <2>2, <2>3 DEF BleTypes, BleTypeOK, FwdOK, HandOK
<1>3. CASE Forget \/ Noise \/ Lose
  <2>1. FwdOK'
    <3>1. CASE Forget \/ Noise
      BY <1>1, <3>1 DEF Forget, Noise, DeviceSignals
    <3>2. CASE Lose
      BY <1>0, <3>2, LinkDownKeeps DEF Lose
    <3> QED
      BY <1>3, <3>1, <3>2
  <2>2. {linked', bonded', resolved', known', notifying'} \subseteq BOOLEAN
    BY <1>0, <1>3, Zenon DEF BleTypeOK, Forget, Noise, Lose, LinkDown
  <2>3. UNCHANGED <<role, bleLocal, watcher, writers, blePast, writes>>
    BY <1>3 DEF Forget, Noise, Lose
  <2>4. losses' \in 0 .. MaxLosses /\ noise' \in 0 .. MaxNoise
    BY <1>0, <1>3, BleConstants DEF BleTypeOK, Forget, Noise, Lose
  <2> QED
    BY <1>0, <2>1, <2>2, <2>3, <2>4 DEF BleTypes, BleTypeOK, FwdOK, HandOK
<1>4. CASE PeerWrites
  <2>0. /\ UNCHANGED <<radio, bleLocal, watcher, received, early, losses, noise>>
        /\ writes' \in 0 .. MaxWrites
    BY <1>0, <1>4, BleConstants DEF BleTypeOK, PeerWrites
  <2>1. CASE role = "central"
    <3>1. /\ writers' = writers
          /\ \E s \in Securities :
                Emit(<<[is |-> "value", value |-> Bytes(s)]>>) /\ sent' = Append(sent, s)
      BY <1>4, <2>1 DEF PeerWrites
    <3> PICK s \in Securities :
          Emit(<<[is |-> "value", value |-> Bytes(s)]>>) /\ sent' = Append(sent, s)
      BY <3>1
    <3>2. [is |-> "value", value |-> Bytes(s)] \in Signals
      BY DEF Signals
    <3>3. FwdOK'
      <4> DEFINE v == [is |-> "value", value |-> Bytes(s)]
      <4>1. <<v>> \in Seq(Signals)
        BY <3>2
      <4>2. Emit(<<v>>)
        OBVIOUS
      <4> HIDE DEF v
      <4> QED
        BY <1>0, <4>1, <4>2, EmitKeeps
    <3>4. sent' \in Seq(Securities)
      BY <1>0, AppendProperties DEF BleTypeOK
    <3> QED
      BY <1>0, <2>0, <3>1, <3>3, <3>4 DEF BleTypes, BleTypeOK, FwdOK, HandOK
  <2>2. CASE role # "central"
    <3>1. writers' = writers + 1 /\ UNCHANGED <<fwd, sent>>
      BY <1>4, <2>2 DEF PeerWrites
    <3> QED
      BY <1>0, <2>0, <2>2, <3>1 DEF BleTypes, BleTypeOK, FwdOK, HandOK, Ready
  <2> QED
    BY <2>1, <2>2
<1> QED
  BY <1>2, <1>3, <1>4 DEF Radio

\* The forwarders.
LEMMA ForwarderTypes == ASSUME BleTypes, ForwarderStep PROVE BleTypes'
<1> USE DEF radio, bleLocal, bleCounts, blePast
<1>0. BleTypeOK /\ FwdOK /\ HandOK
  BY DEF BleTypes, BleTypeOK, FwdOK
<1> PICK s \in Subs : ForwarderTakes(s) \/ ForwarderEnds(s)
  BY DEF ForwarderStep
<1>1. fwd[s] \in Sub /\ fwd \in [Subs -> Sub]
  BY <1>0 DEF FwdOK
<1>2. CASE ForwarderTakes(s)
  <2> DEFINE f == [fwd[s] EXCEPT !.is = "sends"]
  <2>1. f \in Sub /\ f.queue # <<>>
    BY <1>1, <1>2 DEF ForwarderTakes, Sub
  <2>2. fwd' = [fwd EXCEPT ![s] = f]
    BY <1>1, <1>2 DEF ForwarderTakes
  <2> HIDE DEF f
  <2> QED
    BY <1>0, <1>2, <2>1, <2>2, OneKeeps
    DEF ForwarderTakes, BleTypes, BleTypeOK, FwdOK, HandOK
<1>3. CASE ForwarderEnds(s)
  <2> DEFINE f == [fwd[s] EXCEPT !.is = "ended", !.queue = <<>>]
  <2>1. f \in Sub /\ f.is = "ended"
    BY <1>1, EmptySeq DEF Sub
  <2>2. fwd' = [fwd EXCEPT ![s] = f]
    BY <1>1, <1>3 DEF ForwarderEnds
  <2> HIDE DEF f
  <2> QED
    BY <1>0, <1>3, <2>1, <2>2, OneKeeps
    DEF ForwarderEnds, BleTypes, BleTypeOK, FwdOK, HandOK
<1> QED
  BY <1>2, <1>3

\* Connect.
LEMMA LooksTypes ==
    ASSUME BleTypeOK, NEW s \in DeviceSignals
    PROVE  /\ Merged(s) \subseteq {"known", "Paired", "Connected", "ServicesResolved"}
           /\ CentralLooks(Merged(s))[1] \subseteq {"pairing", "paired", "connecting", "connected"}
           /\ CentralLooks(Merged(s))[2] \in {"loop", "pair", "connect", "settle"}
           /\ PeripheralLooks(Merged(s)) \subseteq {"loop", "close", "settle"}
<1>1. Merged(s) \subseteq {"known", "Paired", "Connected", "ServicesResolved"}
  BY DEF Merged, BleTypeOK
<1> DEFINE now == Merged(s)
<1>2. PeripheralLooks(now) \subseteq {"loop", "close", "settle"}
  BY DEF PeripheralLooks
<1> HIDE DEF now
<1>3. /\ CentralLooks(now)[1] \subseteq {"pairing", "paired", "connecting", "connected"}
      /\ CentralLooks(now)[2] \in {"loop", "pair", "connect", "settle"}
  BY DEF CentralLooks, BleTypeOK
<1> QED
  BY <1>1, <1>2, <1>3 DEF now

LEMMA ConnectTypes == ASSUME BleTypes, ConnectStep PROVE BleTypes'
<1> USE DEF radio, bleLocal, bleCounts, blePast
<1>0. BleTypeOK /\ FwdOK /\ HandOK
  BY DEF BleTypes, BleTypeOK, FwdOK
<1>1. CASE FindPairedDevice
  <2>1. /\ props' \subseteq {"known", "Paired", "Connected", "ServicesResolved"}
        /\ tried' \subseteq {"pairing", "paired", "connecting", "connected"}
        /\ main' \in Places
    BY <1>1 DEF FindPairedDevice, Places
  <2> QED
    BY <1>0, <1>1, <2>1 DEF FindPairedDevice, BleTypes, BleTypeOK, FwdOK, HandOK, Ready
<1>2. CASE RegisterAdvertisement
  BY <1>0, <1>2 DEF RegisterAdvertisement, BleTypes, BleTypeOK, FwdOK, HandOK, Ready, Places
<1>3. CASE SubscribeToConnect \/ Prepare \/ CallFails \/ ConnectTimesOut
  <2>1. FwdOK'
    <3>1. "connect" \in Subs
      BY DEF Subs
    <3>2. CASE UNCHANGED fwd
      BY <1>0, <3>2 DEF FwdOK, Ready
    <3> QED
      BY <1>0, <1>3, <3>1, <3>2, SubscribeKeeps, UnsubscribeKeeps
      DEF SubscribeToConnect, Prepare, CallFails, ConnectTimesOut, Fail
  <2>2. main' \in Places
    BY <1>3 DEF SubscribeToConnect, Prepare, CallFails, ConnectTimesOut, Fail, Places
  <2>3. UNCHANGED <<radio, props, tried, consumer, disconnected, watcher, writers, blePast,
                    bleCounts>>
    BY <1>3 DEF SubscribeToConnect, Prepare, CallFails, ConnectTimesOut
  <2> QED
    BY <1>0, <2>1, <2>2, <2>3 DEF BleTypes, BleTypeOK, FwdOK, HandOK
<1>4. CASE Pair
  <2> DEFINE q == (IF linked THEN <<>> ELSE <<About("connected")>>) \o <<About("paired")>>
  <2>1. q \in Seq(Signals)
    <3>1. (IF linked THEN <<>> ELSE <<About("connected")>>) \in Seq(Signals)
      BY AboutType, EmptySeq DEF DeviceSignals
    <3>2. <<About("paired")>> \in Seq(Signals)
      BY AboutType DEF DeviceSignals
    <3> QED
      BY <3>1, <3>2, ConcatProperties
  <2>2. FwdOK'
    BY <1>0, <1>4, <2>1, EmitKeeps DEF Pair
  <2>3. {linked', bonded', resolved', known', notifying'} \subseteq BOOLEAN
    BY <1>0, <1>4, Zenon DEF BleTypeOK, Pair
  <2> QED
    BY <1>0, <1>4, <2>2, <2>3 DEF Pair, BleTypes, BleTypeOK, FwdOK, HandOK, Places
<1>5. CASE CallConnect
  <2>1. FwdOK'
    <3>1. <<About("connected")>> \in Seq(Signals)
      BY AboutType DEF DeviceSignals
    <3>2. CASE UNCHANGED fwd
      BY <1>0, <3>2 DEF FwdOK, Ready
    <3> QED
      BY <1>0, <1>5, <3>1, <3>2, EmitKeeps DEF CallConnect
  <2>2. {linked', bonded', resolved', known', notifying'} \subseteq BOOLEAN
    BY <1>0, <1>5, Zenon DEF BleTypeOK, CallConnect
  <2> QED
    BY <1>0, <1>5, <2>1, <2>2 DEF CallConnect, BleTypes, BleTypeOK, FwdOK, HandOK, Places
<1>6. CASE ConnectHears
  <2>0. /\ "connect" \in Subs /\ fwd["connect"].is = "sends"
        /\ UNCHANGED <<radio, consumer, disconnected, watcher, writers, blePast, bleCounts>>
    BY <1>6 DEF ConnectHears, Subs
  <2>1. FwdOK'
    <3>1. \/ fwd' = [fwd EXCEPT !["connect"] = NoSub]
          \/ fwd' = [fwd EXCEPT !["connect"] = Released(@)]
      BY <1>6 DEF ConnectHears
    <3> QED
      BY <1>0, <2>0, <3>1, DropKeeps, ReleasedKeeps
  <2>2. /\ main' \in Places
        /\ props' \subseteq {"known", "Paired", "Connected", "ServicesResolved"}
        /\ tried' \subseteq {"pairing", "paired", "connecting", "connected"}
    <3> DEFINE s == Held("connect").is
    <3>1. s \in DeviceSignals \cup {"value"}
      BY <1>0, <2>0, ReleasedType DEF Signals
    <3>2. CASE s = "value"
      BY <1>0, <1>6, <3>2 DEF ConnectHears, BleTypeOK
    <3>3. CASE s # "value"
      <4>1. s \in DeviceSignals
        BY <3>1, <3>3
      <4>2. /\ props' = Merged(s)
            /\ IF role = "central"
               THEN tried' = CentralLooks(Merged(s))[1] /\ main' = CentralLooks(Merged(s))[2]
               ELSE main' \in PeripheralLooks(Merged(s)) /\ UNCHANGED tried
        BY <1>6, <3>3 DEF ConnectHears
      <4> HIDE DEF s
      <4> QED
        BY <1>0, <4>1, <4>2, LooksTypes DEF BleTypeOK, Places
    <3> QED
      BY <3>2, <3>3
  <2> QED
    BY <1>0, <2>0, <2>1, <2>2 DEF BleTypes, BleTypeOK, FwdOK, HandOK
<1>7. CASE Settle
  <2>1. FwdOK'
    <3>1. CASE UNCHANGED fwd
      BY <1>0, <3>1 DEF FwdOK, Ready
    <3> QED
      BY <1>0, <1>7, <3>1, LinkDownKeeps DEF Settle
  <2>2. {linked', bonded', resolved', known', notifying'} \subseteq BOOLEAN
    BY <1>0, <1>7, Zenon DEF BleTypeOK, Settle, LinkDown
  <2>3. UNCHANGED <<role, props, tried, consumer, disconnected, watcher, writers,
                    blePast, bleCounts>> /\ main' \in Places
    BY <1>7 DEF Settle, Places
  <2> QED
    BY <1>0, <2>1, <2>2, <2>3 DEF BleTypes, BleTypeOK, FwdOK, HandOK
<1> QED
  BY <1>1, <1>2, <1>3, <1>4, <1>5, <1>6, <1>7 DEF ConnectStep

\* StartNotify, the writes and StopNotify.
LEMMA NotifyTypes == ASSUME BleTypes, NotifyStep PROVE BleTypes'
<1> USE DEF radio, bleLocal, bleCounts, blePast
<1>0. BleTypeOK /\ FwdOK /\ HandOK /\ "notify" \in Subs
  BY DEF BleTypes, BleTypeOK, FwdOK, Subs
<1>1. CASE StartWatching
  <2>1. FwdOK'
    BY <1>0, <1>1, SubscribeKeeps DEF StartWatching
  <2>2. watcher' \in Watcher /\ watcher'.value = watcher.value
        /\ (watcher'.at = "hands" => watcher.at = "hands")
    BY <1>0, <1>1 DEF StartWatching, BleTypeOK, Watcher
  <2>3. main' \in Places /\ early' \in BOOLEAN
    BY <1>0, <1>1, Zenon DEF StartWatching, BleTypeOK, Places
  <2> QED
    BY <1>0, <1>1, <2>1, <2>2, <2>3 DEF StartWatching, BleTypes, BleTypeOK, FwdOK, HandOK
<1>2. CASE StartNotify
  <2>1. FwdOK'
    <3>1. CASE UNCHANGED fwd
      BY <1>0, <3>1 DEF FwdOK, Ready
    <3> QED
      BY <1>0, <1>2, <3>1, DropKeeps DEF StartNotify
  <2>2. watcher' \in Watcher /\ watcher'.value = watcher.value
        /\ (watcher'.at = "hands" => watcher.at = "hands")
    BY <1>0, <1>2 DEF StartNotify, BleTypeOK, Watcher
  <2>3. main' \in Places /\ notifying' \in BOOLEAN
    BY <1>0, <1>2, Zenon DEF StartNotify, BleTypeOK, Places
  <2> QED
    BY <1>0, <1>2, <2>1, <2>2, <2>3 DEF StartNotify, BleTypes, BleTypeOK, FwdOK, HandOK
<1>3. CASE EndRun
  BY <1>0, <1>3 DEF EndRun, BleTypes, BleTypeOK, FwdOK, HandOK, Ready, Places
<1>4. CASE StopNotify
  <2>1. FwdOK'
    BY <1>0, <1>4, UnsubscribeKeeps DEF StopNotify
  <2> QED
    BY <1>0, <1>4, <2>1 DEF StopNotify, BleTypes, BleTypeOK, FwdOK, HandOK, Places
<1> QED
  BY <1>1, <1>2, <1>3, <1>4 DEF NotifyStep

\* Four bytes are read as a value, whatever the peer has sent.
LEMMA BytesType == ASSUME NEW s \in Securities PROVE Bytes(s) \in Seq(0 .. 255)
<1>1. s.level \in 0 .. 255 /\ s.event \in 0 .. 255 /\ s.seconds \in Int
  BY BleConstants
<1>2. \A n \in Int : n % 256 \in 0 .. 255 /\ n \div 256 \in Int
  OBVIOUS
<1>3. /\ s.level % 256 \in 0 .. 255 /\ s.event % 256 \in 0 .. 255
      /\ (s.seconds \div 256) % 256 \in 0 .. 255 /\ s.seconds % 256 \in 0 .. 255
  <2>1. s.level \in Int /\ s.event \in Int
    BY <1>1
  <2>2. s.level % 256 \in 0 .. 255 /\ s.event % 256 \in 0 .. 255
    BY <1>2, <2>1
  <2>3. (s.seconds \div 256) % 256 \in 0 .. 255 /\ s.seconds % 256 \in 0 .. 255
    BY <1>1, <1>2
  <2> QED
    BY <2>2, <2>3
<1> QED
  BY <1>3 DEF Bytes

LEMMA ParseType == ASSUME NEW s \in Securities PROVE ParseSecurity(Bytes(s)) \in Decoded
<1> DEFINE b == Bytes(s)
<1>1. b[1] \in 0 .. 255 /\ b[2] \in 0 .. 255 /\ b[3] \in 0 .. 255 /\ b[4] \in 0 .. 255
  <2>1. s.level \in 0 .. 255 /\ s.event \in 0 .. 255 /\ s.seconds \in Int
    BY BleConstants
  <2>2. /\ b[1] = s.level % 256 /\ b[2] = s.event % 256
        /\ b[3] = (s.seconds \div 256) % 256 /\ b[4] = s.seconds % 256
    BY DEF Bytes
  <2> QED
    BY <2>1, <2>2
<1> HIDE DEF b
<1> DEFINE word == b[3] * 256 + b[4]
           n == IF word >= 32768 THEN word - 65536 ELSE word
<1>2. word \in Int /\ 0 <= word /\ word <= 65535
  <2> DEFINE high == b[3]
             low == b[4]
  <2>1. /\ high \in Int /\ 0 <= high /\ high <= 255
        /\ low \in Int /\ 0 <= low /\ low <= 255
    BY <1>1
  <2>2. word = high * 256 + low
    OBVIOUS
  <2> HIDE DEF high, low, word
  <2> QED
    BY <2>1, <2>2
<1>3. ParseSecurity(b) = [level |-> b[1], event |-> b[2], seconds |-> n]
  BY DEF ParseSecurity
<1> HIDE DEF word
<1>4. n \in Int /\ -32768 <= n /\ n <= 32767
  BY <1>2
<1> HIDE DEF n
<1>5. ParseSecurity(b) \in Decoded
  BY <1>1, <1>3, <1>4 DEF Decoded
<1> QED
  BY <1>5 DEF b

LEMMA WatcherTypes == ASSUME BleTypes, WatcherStep PROVE BleTypes'
<1> USE DEF radio, bleLocal, bleCounts, blePast
<1>0. BleTypeOK /\ FwdOK /\ HandOK /\ "notify" \in Subs
  BY DEF BleTypes, BleTypeOK, FwdOK, Subs
<1>1. CASE WatcherHears
  <2>0. fwd["notify"].is = "sends"
    BY <1>1 DEF WatcherHears
  <2>1. FwdOK'
    BY <1>0, <1>1, ReleasedKeeps DEF WatcherHears
  <2> DEFINE h == Held("notify")
  <2>2. h \in Signals
    BY <1>0, <2>0, ReleasedType
  <2>3. /\ h.is = "value" => watcher' = [at |-> "hands", value |-> h.value]
        /\ h.is # "value" => \/ watcher' = [watcher EXCEPT !.at = "tells"]
                             \/ watcher' = watcher
    BY <1>1 DEF WatcherHears
  <2> HIDE DEF h
  <2>4. h.is = "value" => h.value \in {Bytes(s) : s \in Securities}
    BY <2>2 DEF Signals, DeviceSignals
  <2>5. watcher' \in Watcher
    <3>1. h.is = "value" => h.value \in Seq(0 .. 255)
      BY <2>4, BytesType
    <3> QED
      BY <1>0, <2>3, <3>1 DEF BleTypeOK, Watcher
  <2>6. (role = "central" /\ watcher'.at = "hands")
        => watcher'.value \in {Bytes(s) : s \in Securities}
    BY <1>0, <2>3, <2>4 DEF HandOK, BleTypeOK, Watcher
  <2> QED
    BY <1>0, <1>1, <2>1, <2>5, <2>6 DEF WatcherHears, BleTypes, BleTypeOK, FwdOK, HandOK
<1>2. CASE WatcherTells
  <2> DEFINE f == [fwd["notify"] EXCEPT !.is = "ended", !.queue = <<>>]
  <2>1. f \in Sub /\ f.is = "ended"
    BY <1>0, EmptySeq DEF Sub, FwdOK
  <2>2. fwd' = [fwd EXCEPT !["notify"] = f]
    BY <1>0, <1>2 DEF WatcherTells, FwdOK
  <2> HIDE DEF f
  <2>3. FwdOK'
    BY <1>0, <2>1, <2>2, OneKeeps
  <2>4. watcher' \in Watcher /\ watcher'.at = "flags"
    BY <1>0, <1>2 DEF WatcherTells, BleTypeOK, Watcher
  <2> QED
    BY <1>0, <1>2, <2>3, <2>4 DEF WatcherTells, BleTypes, BleTypeOK, FwdOK, HandOK
<1>3. CASE WatcherPanics
  BY <1>0, <1>3 DEF WatcherPanics, BleTypes, BleTypeOK, FwdOK, HandOK, Ready, Places
<1>4. CASE WatcherFlags
  <2>1. watcher' \in Watcher /\ watcher'.at = "select"
    BY <1>0, <1>4 DEF WatcherFlags, BleTypeOK, Watcher
  <2> QED
    BY <1>0, <1>4, <2>1 DEF WatcherFlags, BleTypes, BleTypeOK, FwdOK, HandOK, Ready
<1>5. CASE WatcherHands
  <2>1. watcher' \in Watcher /\ watcher'.at = "select"
    BY <1>0, <1>5, EmptySeq DEF WatcherHands, Watcher
  <2>2. consumer' \in {"reads", "stopped"} /\ received' \in Seq(Decoded)
    <3> DEFINE v == ParseSecurity(watcher.value)
    <3>1. CASE received' = received
      BY <1>0, <1>5, <3>1 DEF WatcherHands, BleTypeOK
    <3>2. CASE received' # received
      <4>1. role = "central" /\ received' = Append(received, v) /\ consumer' = consumer
        BY <1>0, <1>5, <3>2 DEF WatcherHands, BleTypeOK, Roles
      <4>2. v \in Decoded
        BY <1>0, <1>5, <4>1, ParseType DEF WatcherHands, HandOK
      <4> QED
        BY <1>0, <4>1, <4>2, AppendProperties DEF BleTypeOK
    <3> QED
      BY <3>1, <3>2
  <2>3. UNCHANGED <<radio, main, props, tried, disconnected, fwd, writers, sent, early,
                    bleCounts>>
    BY <1>5 DEF WatcherHands
  <2> QED
    BY <1>0, <2>1, <2>2, <2>3 DEF BleTypes, BleTypeOK, FwdOK, HandOK, Ready
<1>6. CASE WatcherEnds
  <2>1. watcher' \in Watcher /\ watcher'.at = "ended"
    BY <1>0, <1>6 DEF WatcherEnds, BleTypeOK, Watcher
  <2> QED
    BY <1>0, <1>6, <2>1 DEF WatcherEnds, BleTypes, BleTypeOK, FwdOK, HandOK, Ready
<1>7. CASE WatcherTakesWrite
  <2>1. watcher' \in Watcher /\ writers' \in Nat
    <3>1. watcher \in Watcher /\ writers \in Nat /\ writers > 0
      BY <1>0, <1>7 DEF WatcherTakesWrite, BleTypeOK
    <3>2. watcher' = [watcher EXCEPT !.at = "hands"] /\ writers' = writers - 1
      BY <1>7 DEF WatcherTakesWrite
    <3>3. watcher' \in Watcher
      BY <3>1, <3>2 DEF Watcher
    <3> QED
      BY <3>1, <3>2, <3>3
  <2>2. role # "central"
    BY <1>0, <1>7 DEF WatcherTakesWrite, HandOK
  <2> QED
    BY <1>0, <1>7, <2>1, <2>2 DEF WatcherTakesWrite, BleTypes, BleTypeOK, FwdOK, HandOK, Ready
<1> QED
  BY <1>1, <1>2, <1>3, <1>4, <1>5, <1>6, <1>7 DEF WatcherStep

\* Disconnect and Close.
LEMMA DisconnectTypes == ASSUME BleTypes, DisconnectStep PROVE BleTypes'
<1> USE DEF radio, bleLocal, bleCounts, blePast
<1>0. BleTypeOK /\ FwdOK /\ HandOK /\ "disconnect" \in Subs
  BY DEF BleTypes, BleTypeOK, FwdOK, Subs
<1>1. FwdOK'
  <2>1. CASE UNCHANGED fwd
    BY <1>0, <2>1 DEF FwdOK, Ready
  <2>2. CASE Leave \/ ReadConnected \/ HangUp
    BY <1>0, <2>1, <2>2, SubscribeKeeps, UnsubscribeKeeps, LinkDownKeeps
    DEF Leave, ReadConnected, HangUp
  <2>3. CASE AwaitHears
    <3>1. \/ fwd' = [fwd EXCEPT !["disconnect"] = NoSub]
          \/ fwd' = [fwd EXCEPT !["disconnect"] = Released(@)]
      BY <2>3 DEF AwaitHears
    <3> QED
      BY <1>0, <2>3, <3>1, DropKeeps, ReleasedKeeps DEF AwaitHears
  <2>4. CASE CloseBus
    BY <2>4, NoSubType DEF CloseBus, FwdOK, Ready, NoSub
  <2> QED
    BY <2>2, <2>3, <2>4 DEF DisconnectStep
<1>2. {linked', resolved', notifying'} \subseteq BOOLEAN /\ disconnected' \in BOOLEAN
  BY <1>0, Zenon
  DEF DisconnectStep, BleTypeOK, Leave, ReadConnected, HangUp, AwaitHears, CloseBus, LinkDown,
      Left
<1>3. main' \in Places
  BY <1>0
  DEF DisconnectStep, BleTypeOK, Leave, ReadConnected, HangUp, AwaitHears, CloseBus, Left, Places
<1>4. UNCHANGED <<role, bonded, known, props, tried, consumer, watcher, writers, blePast,
                  bleCounts>>
  BY DEF DisconnectStep, Leave, ReadConnected, HangUp, AwaitHears, CloseBus
<1> QED
  BY <1>0, <1>1, <1>2, <1>3, <1>4 DEF BleTypes, BleTypeOK, FwdOK, HandOK

\* Init and the steps together.
LEMMA BleStarts == BleInit => BleTypes
<1> SUFFICES ASSUME BleInit PROVE BleTypes
  OBVIOUS
<1>1. FwdOK
  BY NoSubType DEF BleInit, FwdOK, Ready, NoSub
<1>2. watcher \in Watcher /\ sent \in Seq(Securities) /\ received \in Seq(Decoded)
  BY EmptySeq DEF BleInit, Watcher
<1>3. {linked, bonded, resolved, known, notifying} \subseteq BOOLEAN
  BY Zenon DEF BleInit
<1>4. HandOK
  BY DEF BleInit, HandOK
<1>5. /\ role \in Roles /\ main \in Places /\ writers \in Nat
      /\ writes \in 0 .. MaxWrites /\ losses \in 0 .. MaxLosses /\ noise \in 0 .. MaxNoise
  BY BleConstants DEF BleInit, Roles, Places
<1> QED
  BY <1>1, <1>2, <1>3, <1>4, <1>5 DEF BleInit, BleTypes, BleTypeOK, FwdOK

LEMMA BleTypesKept == ASSUME BleTypes, [BleNext]_bleVars PROVE BleTypes'
<1>1. CASE UNCHANGED bleVars
  BY <1>1 DEF BleTypes, BleTypeOK, Ready, HandOK, bleVars, radio, bleLocal, blePast, bleCounts
<1> QED
  BY <1>1, RadioTypes, ForwarderTypes, ConnectTypes, NotifyTypes, WatcherTypes, DisconnectTypes
  DEF BleNext, MainStep

\* Every variable of the bridge keeps its type: a forwarder sends only a signal that it has,
\* and the four bytes that a peer sends are always read as a value.
THEOREM BleTypeCorrect == BleSpec => []BleTypeOK
<1>1. BleTypes => BleTypeOK
  BY DEF BleTypes
<1> QED
  BY <1>1, BleStarts, BleTypesKept, PTL DEF BleSpec

-----------------------------------------------------------------------------
(* A loss is noticed *)

Before == {"find", "advertise", "subscribe", "prepare", "loop", "pair", "connect", "settle",
           "watch"}

\* A signal that the watcher takes for the end of the connection.
TellsEnd(q) == \E k \in 1 .. Len(q) : q[k].is \notin {"connected", "value"}

\* Before StartNotify nobody watches.  From the subscription to StopNotify the forwarder ends
\* only when the watcher has told it to, so that no signal is missed; and the watcher ends
\* only after StopNotify.
LossInv ==
    /\ main \in Before => fwd["notify"].is = "none"
    /\ main \in Before \cup {"notify"} => watcher.at = "none" /\ ~disconnected
    /\ main \in {"notify", "run"} =>
        /\ ~fwd["notify"].done
        /\ Listens(fwd["notify"]) \/ watcher.at = "flags" \/ disconnected
        /\ (~linked /\ ~disconnected /\ ~early)
           => TellsEnd(fwd["notify"].queue) \/ watcher.at \in {"tells", "flags"}
    /\ main = "run" => watcher.at \notin {"none", "ended"}

LEMMA TellsEndAppend ==
    ASSUME NEW q \in Seq(Signals), NEW r \in Seq(Signals)
    PROVE  /\ TellsEnd(q) => TellsEnd(q \o r)
           /\ TellsEnd(r) => TellsEnd(q \o r)
<1>1. /\ Len(q) \in Nat /\ Len(r) \in Nat /\ Len(q \o r) = Len(q) + Len(r)
      /\ \A k \in 1 .. Len(q) + Len(r) : (q \o r)[k] = IF k <= Len(q) THEN q[k] ELSE r[k - Len(q)]
  BY ConcatProperties, LenProperties
<1>2. ASSUME TellsEnd(q) PROVE TellsEnd(q \o r)
  <2> PICK k \in 1 .. Len(q) : q[k].is \notin {"connected", "value"}
    BY <1>2 DEF TellsEnd
  <2>1. k \in 1 .. Len(q \o r) /\ (q \o r)[k] = q[k]
    BY <1>1
  <2> QED
    BY <2>1 DEF TellsEnd
<1>3. ASSUME TellsEnd(r) PROVE TellsEnd(q \o r)
  <2> PICK k \in 1 .. Len(r) : r[k].is \notin {"connected", "value"}
    BY <1>3 DEF TellsEnd
  <2>1. Len(q) + k \in 1 .. Len(q \o r) /\ (q \o r)[Len(q) + k] = r[k]
    BY <1>1
  <2> QED
    BY <2>1 DEF TellsEnd
<1> QED
  BY <1>2, <1>3

LEMMA TellsEndTail ==
    ASSUME NEW q \in Seq(Signals), q # <<>>, TellsEnd(q), Head(q).is \in {"connected", "value"}
    PROVE  TellsEnd(Tail(q))
<1> PICK k \in 1 .. Len(q) : q[k].is \notin {"connected", "value"}
  BY DEF TellsEnd
<1>1. Len(q) \in Nat /\ Head(q) = q[1]
  BY LenProperties, HeadTailProperties
<1>2. k # 1
  BY <1>1
<1>3. /\ Len(Tail(q)) = Len(q) - 1
      /\ \A i \in 1 .. Len(Tail(q)) : Tail(q)[i] = q[i + 1]
  BY HeadTailProperties
<1>4. k - 1 \in 1 .. Len(Tail(q)) /\ Tail(q)[k - 1] = q[k]
  BY <1>1, <1>2, <1>3
<1> QED
  BY <1>4 DEF TellsEnd

\* What the other subscriptions do changes nothing, and a signal more is only a signal more.
LEMMA EmitIsMore ==
    ASSUME FwdOK, NEW q \in Seq(Signals), Emit(q)
    PROVE  \/ fwd'["notify"] = fwd["notify"] /\ ~Listens(fwd["notify"])
           \/ /\ Listens(fwd["notify"])
              /\ fwd'["notify"] = [fwd["notify"] EXCEPT !.queue = @ \o q]
BY DEF Emit, Subs

LEMMA QuietKeepsLoss ==
    ASSUME LossInv, FwdOK, UNCHANGED <<main, watcher, disconnected, early, linked>>,
           \/ fwd'["notify"] = fwd["notify"]
           \/ \E q \in Seq(Signals) : Emit(q)
    PROVE  LossInv'
<1>1. CASE fwd'["notify"] = fwd["notify"]
  BY <1>1 DEF LossInv
<1>2. ASSUME NEW q \in Seq(Signals), Emit(q) PROVE LossInv'
  <2>1. CASE fwd'["notify"] = fwd["notify"]
    BY <2>1 DEF LossInv
  <2> DEFINE f == fwd["notify"]
  <2>2. CASE Listens(f) /\ fwd'["notify"] = [f EXCEPT !.queue = @ \o q]
    <3>1. f \in Sub /\ f.queue \in Seq(Signals)
      BY DEF FwdOK, Sub, Subs
    <3>2. /\ fwd'["notify"].is = f.is /\ fwd'["notify"].done = f.done
          /\ fwd'["notify"].queue = f.queue \o q
      BY <2>2, <3>1 DEF Sub
    <3>3. TellsEnd(f.queue) => TellsEnd(fwd'["notify"].queue)
      BY <3>1, <3>2, TellsEndAppend
    <3> QED
      BY <3>2, <3>3 DEF LossInv, Listens
  <2> QED
    BY <1>2, <2>1, <2>2, EmitIsMore
<1> QED
  BY <1>1, <1>2

\* The link is lost while somebody watches: the signal is behind the others.
LEMMA LinkDownIsTold ==
    ASSUME LossInv, FwdOK, LinkDown, UNCHANGED <<main, watcher, disconnected, early>>
    PROVE  LossInv'
<1> DEFINE q == <<About("disconnected")>>
<1>1. q \in Seq(Signals)
  BY AboutType DEF DeviceSignals
<1>2. CASE ~linked
  <2>1. linked' = FALSE /\ fwd' = fwd
    BY <1>2 DEF LinkDown
  <2> QED
    BY <1>2, <2>1 DEF LossInv
<1>3. CASE linked
  <2>1. Emit(q)
    BY <1>3 DEF LinkDown
  <2> DEFINE f == fwd["notify"]
  <2>2. CASE fwd'["notify"] = f /\ ~Listens(f)
    BY <2>2 DEF LossInv
  <2>3. CASE Listens(f) /\ fwd'["notify"] = [f EXCEPT !.queue = @ \o q]
    <3>1. f \in Sub /\ f.queue \in Seq(Signals)
      BY DEF FwdOK, Sub, Subs
    <3>2. /\ fwd'["notify"].is = f.is /\ fwd'["notify"].done = f.done
          /\ fwd'["notify"].queue = f.queue \o q
      BY <2>3, <3>1 DEF Sub
    <3>3. TellsEnd(q)
      BY DEF TellsEnd, About
    <3>4. TellsEnd(fwd'["notify"].queue)
      BY <1>1, <3>1, <3>2, <3>3, TellsEndAppend
    <3> QED
      BY <2>3, <3>2, <3>4 DEF LossInv, Listens
  <2> HIDE DEF q
  <2> QED
    BY <1>1, <2>1, <2>2, <2>3, EmitIsMore
<1> QED
  BY <1>2, <1>3

LEMMA RadioKeepsLoss == ASSUME LossInv, FwdOK, Radio PROVE LossInv'
<1> USE DEF radio, bleLocal, bleCounts, blePast
<1>1. CASE Lose
  <2>1. LinkDown /\ UNCHANGED <<main, watcher, disconnected, early>>
    BY <1>1 DEF Lose
  <2> QED
    BY <2>1, LinkDownIsTold
<1>2. CASE PeerConnects
  <2>1. main \in Before /\ main \notin {"notify", "run"}
    BY <1>2 DEF PeerConnects, Before
  <2>2. UNCHANGED <<main, watcher, disconnected, early>> /\ Emit(<<About("connected")>>)
    BY <1>2 DEF PeerConnects
  <2>3. <<About("connected")>> \in Seq(Signals)
    BY AboutType DEF DeviceSignals
  <2>4. fwd'["notify"].is = "none"
    BY <2>1, <2>2, <2>3, EmitIsMore DEF LossInv, Listens
  <2> QED
    BY <2>1, <2>2, <2>4 DEF LossInv
<1>3. CASE Discover \/ Forget \/ PeerPairs \/ ResolveServices \/ Noise
  <2>1. \E what \in DeviceSignals : Emit(<<About(what)>>)
    BY <1>3 DEF Discover, Forget, PeerPairs, ResolveServices, Noise, DeviceSignals
  <2>2. UNCHANGED <<main, watcher, disconnected, early, linked>>
    BY <1>3 DEF Discover, Forget, PeerPairs, ResolveServices, Noise
  <2> QED
    BY <2>1, <2>2, AboutType, QuietKeepsLoss
<1>4. CASE PeerWrites
  <2>1. UNCHANGED <<main, watcher, disconnected, early, linked>>
    BY <1>4 DEF PeerWrites
  <2>2. CASE UNCHANGED fwd
    BY <2>1, <2>2, QuietKeepsLoss
  <2>3. ASSUME NEW s \in Securities, Emit(<<[is |-> "value", value |-> Bytes(s)]>>)
        PROVE  LossInv'
    <3> DEFINE v == [is |-> "value", value |-> Bytes(s)]
    <3>1. <<v>> \in Seq(Signals)
      BY DEF Signals
    <3>2. Emit(<<v>>)
      BY <2>3
    <3> HIDE DEF v
    <3> QED
      BY <2>1, <3>1, <3>2, QuietKeepsLoss
  <2> QED
    BY <1>4, <2>2, <2>3 DEF PeerWrites
<1> QED
  BY <1>1, <1>2, <1>3, <1>4 DEF Radio

LEMMA ForwarderKeepsLoss == ASSUME LossInv, FwdOK, ForwarderStep PROVE LossInv'
<1> USE DEF radio, bleLocal, bleCounts, blePast
<1> PICK s \in Subs : ForwarderTakes(s) \/ ForwarderEnds(s)
  BY DEF ForwarderStep
<1>0. /\ fwd[s] \in Sub /\ fwd["notify"] \in Sub /\ "notify" \in Subs
      /\ UNCHANGED <<main, watcher, disconnected, early, linked>>
  BY DEF FwdOK, Subs, ForwarderTakes, ForwarderEnds
<1>1. CASE s # "notify"
  <2>1. fwd'["notify"] = fwd["notify"]
    BY <1>0, <1>1 DEF ForwarderTakes, ForwarderEnds, FwdOK
  <2> QED
    BY <1>0, <2>1, QuietKeepsLoss
<1>2. CASE s = "notify" /\ ForwarderTakes(s)
  <2>1. /\ fwd["notify"].is = "select" /\ fwd'["notify"].is = "sends"
        /\ fwd'["notify"].queue = fwd["notify"].queue
        /\ fwd'["notify"].done = fwd["notify"].done
    BY <1>0, <1>2 DEF ForwarderTakes, FwdOK, Sub
  <2> QED
    BY <1>0, <2>1 DEF LossInv, Listens
<1>3. CASE s = "notify" /\ ForwarderEnds(s)
  <2>1. fwd["notify"].is = "select" /\ fwd["notify"].done
    BY <1>3 DEF ForwarderEnds
  <2>2. main \notin {"notify", "run"} /\ main \notin Before
    BY <2>1 DEF LossInv
  <2> QED
    BY <1>0, <2>2 DEF LossInv
<1> QED
  BY <1>1, <1>2, <1>3

LEMMA ConnectKeepsLoss == ASSUME LossInv, FwdOK, ConnectStep PROVE LossInv'
<1> USE DEF radio, bleLocal, bleCounts, blePast
<1>1. CASE Settle
  <2>1. main \in Before /\ UNCHANGED <<watcher, disconnected, early>>
    BY <1>1 DEF Settle, Before
  <2>2. CASE main' = "watch" /\ UNCHANGED fwd
    BY <2>1, <2>2 DEF LossInv, Before
  <2>3. CASE main' = "close"
    BY <2>1, <2>3 DEF LossInv, Before
  <2> QED
    BY <1>1, <2>2, <2>3 DEF Settle
<1>2. CASE ConnectStep /\ ~Settle
  <2>1. main \in Before /\ main \notin {"notify", "run"} /\ UNCHANGED <<watcher, disconnected>>
    BY <1>2
    DEF ConnectStep, FindPairedDevice, RegisterAdvertisement, SubscribeToConnect, Prepare, Pair,
        CallConnect, CallFails, ConnectHears, ConnectTimesOut, Before
  <2>2. main' \notin {"notify", "run"}
    BY <1>2
    DEF ConnectStep, FindPairedDevice, RegisterAdvertisement, SubscribeToConnect, Prepare, Pair,
        CallConnect, CallFails, ConnectHears, ConnectTimesOut, Fail, CentralLooks,
        PeripheralLooks
  <2>3. fwd'["notify"] = fwd["notify"]
    <3>1. /\ fwd["notify"].is = "none" /\ "notify" \in Subs
      BY <2>1 DEF LossInv, Subs
    <3>2. CASE Pair \/ CallConnect
      BY <3>1, <3>2 DEF Pair, CallConnect, Emit, Listens
    <3>3. CASE ~Pair /\ ~CallConnect
      BY <1>2, <3>1, <3>3
      DEF ConnectStep, FindPairedDevice, RegisterAdvertisement, SubscribeToConnect, Prepare,
          CallFails, ConnectHears, ConnectTimesOut, Fail, Subscribe, Unsubscribe, FwdOK
    <3> QED
      BY <3>2, <3>3
  <2> QED
    BY <2>1, <2>2, <2>3 DEF LossInv
<1> QED
  BY <1>1, <1>2

LEMMA NotifyKeepsLoss ==
    ASSUME LossInv, FwdOK, watcher \in Watcher, NotifyStep PROVE LossInv'
<1> USE DEF radio, bleLocal, bleCounts, blePast
<1>1. CASE StartWatching
  <2>1. main = "watch" /\ watcher.at = "none" /\ ~disconnected
    BY <1>1 DEF StartWatching, LossInv, Before
  <2>2. /\ Listens(fwd'["notify"]) /\ ~fwd'["notify"].done
        /\ disconnected' = disconnected /\ linked' = linked /\ early' = ~linked
    BY <1>1 DEF StartWatching, Subscribe, NoSub, Listens, FwdOK, Subs
  <2>3. \/ main' = "notify" /\ watcher' = watcher
        \/ main' = "run" /\ watcher'.at = "select"
    BY <1>1 DEF StartWatching, Watcher
  <2> QED
    BY <2>1, <2>2, <2>3 DEF LossInv, Before
<1>2. CASE StartNotify
  <2>1. main = "notify" /\ watcher.at = "none"
    BY <1>2 DEF StartNotify, LossInv
  <2>2. CASE linked
    BY <1>2, <2>1, <2>2 DEF StartNotify, LossInv, Before, Watcher
  <2>3. CASE ~linked
    BY <1>2, <2>3 DEF StartNotify, LossInv, Before
  <2> QED
    BY <2>2, <2>3
<1>3. CASE EndRun \/ StopNotify
  <2>1. main' \in {"stop", "leave", "crashed"}
    BY <1>3 DEF EndRun, StopNotify
  <2> QED
    BY <2>1 DEF LossInv, Before
<1> QED
  BY <1>1, <1>2, <1>3 DEF NotifyStep

LEMMA WatcherKeepsLoss == ASSUME LossInv, BleTypes, WatcherStep PROVE LossInv'
<1> USE DEF radio, bleLocal, bleCounts, blePast
<1>0. /\ FwdOK /\ watcher \in Watcher /\ fwd["notify"] \in Sub /\ "notify" \in Subs
  BY DEF BleTypes, BleTypeOK, FwdOK, Subs
<1>1. watcher.at # "none" /\ main \notin Before \cup {"notify"}
  BY DEF LossInv, WatcherStep, WatcherHears, WatcherTells, WatcherPanics, WatcherFlags,
         WatcherHands, WatcherEnds, WatcherTakesWrite
<1>2. UNCHANGED <<early, linked>> /\ (main' = main \/ main' = "crashed")
  BY DEF WatcherStep, WatcherHears, WatcherTells, WatcherPanics, WatcherFlags,
         WatcherHands, WatcherEnds, WatcherTakesWrite
<1>3. CASE main' # "run"
  BY <1>1, <1>2, <1>3 DEF LossInv, Before
<1>4. CASE main' = "run"
  <2>1. main = "run"
    BY <1>2, <1>4
  <2>2. CASE WatcherHears
    <3> DEFINE f == fwd["notify"]
    <3>1. /\ f.is = "sends" /\ watcher.at = "select" /\ f.queue \in Seq(Signals)
          /\ f.queue # <<>>
      BY <1>0, <2>2 DEF WatcherHears, Sub, FwdOK, Ready
    <3>2. fwd'["notify"] = Released(f) /\ disconnected' = disconnected
      BY <1>0, <2>2 DEF WatcherHears, FwdOK
    <3>3. /\ fwd'["notify"].is = "select" /\ fwd'["notify"].done = f.done
          /\ fwd'["notify"].queue = Tail(f.queue)
      BY <1>0, <3>2 DEF Released, Sub
    <3>4. Head(f.queue).is \notin {"connected", "value"} => watcher'.at = "tells"
      BY <1>0, <2>2 DEF WatcherHears, Held, SaysConnected, Watcher
    <3>5. watcher'.at \in {"select", "tells", "hands"}
      BY <1>0, <2>2, <3>1 DEF WatcherHears, Watcher
    <3>6. TellsEnd(f.queue) => TellsEnd(fwd'["notify"].queue) \/ watcher'.at = "tells"
      BY <3>1, <3>3, <3>4, TellsEndTail
    <3> QED
      BY <1>2, <2>1, <3>1, <3>2, <3>3, <3>5, <3>6 DEF LossInv, Listens, Before
  <2>3. CASE WatcherTells
    <3>1. watcher'.at = "flags" /\ disconnected' = disconnected
      BY <1>0, <2>3 DEF WatcherTells, Watcher
    <3>2. fwd'["notify"].done = fwd["notify"].done
      BY <1>0, <2>3 DEF WatcherTells, FwdOK, Sub
    <3> QED
      BY <2>1, <1>4, <3>1, <3>2 DEF LossInv, Before
  <2>4. CASE WatcherFlags
    BY <2>1, <1>4, <2>4 DEF WatcherFlags, LossInv, Before
  <2>5. CASE WatcherHands \/ WatcherTakesWrite
    <3>1. watcher.at \in {"select", "hands"} /\ UNCHANGED <<fwd, disconnected>>
      BY <2>5 DEF WatcherHands, WatcherTakesWrite
    <3>2. watcher'.at \in {"select", "hands"}
      BY <1>0, <2>5 DEF WatcherHands, WatcherTakesWrite, Watcher
    <3> QED
      BY <1>2, <2>1, <1>4, <3>1, <3>2 DEF LossInv, Before
  <2>6. CASE WatcherEnds
    BY <2>1, <2>6 DEF WatcherEnds, LossInv
  <2>7. CASE WatcherPanics
    BY <1>4, <2>7 DEF WatcherPanics
  <2> QED
    BY <2>2, <2>3, <2>4, <2>5, <2>6, <2>7 DEF WatcherStep
<1> QED
  BY <1>3, <1>4

LEMMA DisconnectKeepsLoss == ASSUME DisconnectStep PROVE LossInv'
<1>1. main' \in {"ask", "hangup", "await", "close", "done"}
  BY DEF DisconnectStep, Leave, ReadConnected, HangUp, AwaitHears, CloseBus, Left
<1> QED
  BY <1>1 DEF LossInv, Before

LEMMA LossKept == ASSUME LossInv, BleTypes, [BleNext]_bleVars PROVE LossInv'
<1>1. FwdOK /\ watcher \in Watcher
  BY DEF BleTypes, BleTypeOK, FwdOK
<1>2. CASE UNCHANGED bleVars
  BY <1>2 DEF LossInv, bleVars, radio, bleLocal, blePast, bleCounts
<1> QED
  BY <1>1, <1>2, RadioKeepsLoss, ForwarderKeepsLoss, ConnectKeepsLoss, NotifyKeepsLoss,
     WatcherKeepsLoss, DisconnectKeepsLoss
  DEF BleNext, MainStep

\* While a process writes over a link that is down, forwarder and watcher can go on until it
\* is told, however many signals are before the one that says so and wherever the two are
\* when the link is lost; but for the two states in which they never do, and a link that was
\* down before they began.
THEOREM LossIsNoticedHolds == BleSpec => []LossIsNoticed
<1>1. BleInit => LossInv
  BY DEF BleInit, LossInv, Before, NoSub, Subs
<1>2. LossInv /\ BleTypes => LossIsNoticed
  <2> SUFFICES ASSUME LossInv, BleTypes, main = "run", ~linked, ~disconnected, ~early,
                      ~Deadlocked, ~Unheard, watcher.at # "flags"
               PROVE  \/ watcher.at = "tells" /\ fwd["notify"].is = "select"
                         /\ ~fwd["notify"].done
                      \/ /\ EndIsQueued /\ Listens(fwd["notify"])
                         /\ watcher.at = "select" \/ (watcher.at = "hands" /\ consumer = "reads")
    BY DEF LossIsNoticed
  <2>1. watcher.at \in {"select", "tells", "hands"} /\ consumer \in {"reads", "stopped"}
    BY DEF LossInv, BleTypes, BleTypeOK, Watcher
  <2>2. Listens(fwd["notify"]) /\ ~fwd["notify"].done
    BY DEF LossInv
  <2>3. TellsEnd(fwd["notify"].queue) \/ watcher.at = "tells"
    BY DEF LossInv
  <2>4. CASE watcher.at = "tells"
    BY <2>2, <2>4 DEF Deadlocked, Listens
  <2>5. CASE watcher.at \in {"select", "hands"}
    BY <2>1, <2>2, <2>3, <2>5 DEF Unheard, EndIsQueued, TellsEnd
  <2> QED
    BY <2>1, <2>4, <2>5
<1> QED
  BY <1>1, <1>2, BleStarts, BleTypesKept, LossKept, PTL DEF BleSpec

-----------------------------------------------------------------------------
(* What arrives *)

\* The seconds fit in two bytes.
Fitting == Securities \subseteq Decoded

LEMMA ParseBytes ==
    ASSUME Fitting, NEW s \in Securities PROVE ParseSecurity(Bytes(s)) = s
<1>1. /\ s.level \in 0 .. 255 /\ s.event \in 0 .. 255
      /\ s.seconds \in Int /\ -32768 <= s.seconds /\ s.seconds <= 32767
      /\ s = [level |-> s.level, event |-> s.event, seconds |-> s.seconds]
  BY DEF Fitting, Decoded
<1> DEFINE n == s.seconds
           high == (n \div 256) % 256
           low == n % 256
           word == high * 256 + low
           m == IF word >= 32768 THEN word - 65536 ELSE word
<1>2. s.level % 256 = s.level /\ s.event % 256 = s.event
  BY <1>1
<1>3. ParseSecurity(Bytes(s)) = [level |-> s.level, event |-> s.event, seconds |-> m]
  BY <1>2 DEF ParseSecurity, Bytes
<1>4. n \in Int /\ -32768 <= n /\ n <= 32767
  BY <1>1
<1> HIDE DEF n
<1>5. n = (n \div 256) * 256 + low /\ low \in 0 .. 255 /\ n \div 256 \in -128 .. 127
  BY <1>4
<1>6. \/ n >= 0 /\ high = n \div 256
      \/ n < 0 /\ high = n \div 256 + 256
  BY <1>4, <1>5
<1>7. m = n
  BY <1>4, <1>5, <1>6
<1> HIDE DEF m
<1> QED
  BY <1>1, <1>3, <1>7 DEF n

\* The values of a queue are those of `sent` from one number to another; p counts them.
Counts(p, q, from) ==
    /\ p \in [0 .. Len(q) -> Nat]
    /\ p[0] = from
    /\ p[Len(q)] = Len(sent)
    /\ \A k \in 1 .. Len(q) :
          IF q[k].is = "value"
          THEN p[k] = p[k - 1] + 1 /\ p[k] <= Len(sent) /\ q[k].value = Bytes(sent[p[k]])
          ELSE p[k] = p[k - 1]
Carried(q, from) == \E p \in [0 .. Len(q) -> Nat] : Counts(p, q, from)

LEMMA CarriedNothing ==
    ASSUME Len(sent) = 0 PROVE Carried(<<>>, 0)
<1> DEFINE p == [k \in 0 .. 0 |-> 0]
<1>1. Len(<<>>) = 0 /\ p \in [0 .. 0 -> Nat] /\ p[0] = 0
  OBVIOUS
<1> HIDE DEF p
<1>2. Counts(p, <<>>, 0)
  BY <1>1 DEF Counts
<1> QED
  BY <1>1, <1>2 DEF Carried

\* A signal about the device is no value.
LEMMA CarriedQuiet ==
    ASSUME NEW q \in Seq(Signals), NEW a \in Signals, a.is # "value", NEW from \in Nat,
           Carried(q, from)
    PROVE  Carried(q \o <<a>>, from)
<1> PICK p \in [0 .. Len(q) -> Nat] : Counts(p, q, from)
  BY DEF Carried
<1> DEFINE r == q \o <<a>>
           n == Len(q)
           p2 == [k \in 0 .. n + 1 |-> IF k <= n THEN p[k] ELSE p[n]]
<1>1. /\ n \in Nat /\ Len(r) = n + 1
      /\ \A k \in 1 .. n + 1 : r[k] = IF k <= n THEN q[k] ELSE a
  BY LenProperties, ConcatProperties
<1> HIDE DEF r, n
<1>2. p \in [0 .. n -> Nat]
  BY DEF n
<1>3. p2 \in [0 .. n + 1 -> Nat]
  BY <1>1, <1>2
<1>4. p2[0] = from /\ p2[n + 1] = Len(sent) /\ p2[n] = Len(sent)
  BY <1>1 DEF Counts, n
<1>5. ASSUME NEW k \in 1 .. n
      PROVE  r[k] = q[k] /\ p2[k] = p[k] /\ p2[k - 1] = p[k - 1]
  BY <1>1
<1>6. r[n + 1] = a
  BY <1>1
<1> HIDE DEF p2
<1>7. ASSUME NEW k \in 1 .. n + 1
      PROVE  IF r[k].is = "value"
             THEN p2[k] = p2[k - 1] + 1 /\ p2[k] <= Len(sent) /\ r[k].value = Bytes(sent[p2[k]])
             ELSE p2[k] = p2[k - 1]
  <2>1. CASE k = n + 1
    BY <1>1, <1>4, <1>6, <2>1
  <2>2. CASE k # n + 1
    <3>1. k \in 1 .. n
      BY <1>1, <2>2
    <3> QED
      BY <1>5, <3>1 DEF Counts, n
  <2> QED
    BY <2>1, <2>2
<1>8. Counts(p2, r, from)
  BY <1>1, <1>3, <1>4, <1>7 DEF Counts
<1> QED
  BY <1>1, <1>3, <1>8 DEF Carried, r

\* A value that is sent is the last.
LEMMA CarriedValue ==
    ASSUME NEW q \in Seq(Signals), NEW s \in Securities, NEW from \in Nat,
           sent \in Seq(Securities), sent' = Append(sent, s), Carried(q, from)
    PROVE  Carried(q \o <<[is |-> "value", value |-> Bytes(s)]>>, from)'
<1> PICK p \in [0 .. Len(q) -> Nat] : Counts(p, q, from)
  BY DEF Carried
<1> DEFINE a == [is |-> "value", value |-> Bytes(s)]
           r == q \o <<a>>
           n == Len(q)
           p2 == [k \in 0 .. n + 1 |-> IF k <= n THEN p[k] ELSE p[n] + 1]
<1>0. a \in Signals /\ a.is = "value" /\ a.value = Bytes(s)
  BY DEF Signals
<1> HIDE DEF a
<1>1. /\ n \in Nat /\ Len(r) = n + 1
      /\ \A k \in 1 .. n + 1 : r[k] = IF k <= n THEN q[k] ELSE a
  BY <1>0, LenProperties, ConcatProperties
<1> HIDE DEF r, n
<1>2. p \in [0 .. n -> Nat]
  BY DEF n
<1>3. p2 \in [0 .. n + 1 -> Nat]
  BY <1>1, <1>2
<1>4. /\ Len(sent) \in Nat /\ Len(sent') = Len(sent) + 1 /\ sent'[Len(sent) + 1] = s
      /\ \A i \in 1 .. Len(sent) : sent'[i] = sent[i]
  BY LenProperties, AppendProperties
<1>5. p2[0] = from /\ p2[n + 1] = Len(sent') /\ p2[n] = Len(sent)
  BY <1>1, <1>4 DEF Counts, n
<1>6. ASSUME NEW k \in 1 .. n
      PROVE  r[k] = q[k] /\ p2[k] = p[k] /\ p2[k - 1] = p[k - 1]
  BY <1>1
<1>7. r[n + 1] = a
  BY <1>1
<1> HIDE DEF p2
<1>8. ASSUME NEW k \in 1 .. n + 1
      PROVE  IF r[k].is = "value"
             THEN p2[k] = p2[k - 1] + 1 /\ p2[k] <= Len(sent')
                  /\ r[k].value = Bytes(sent'[p2[k]])
             ELSE p2[k] = p2[k - 1]
  <2>1. CASE k = n + 1
    BY <1>0, <1>1, <1>4, <1>5, <1>7, <2>1
  <2>2. CASE k # n + 1
    <3>1. k \in 1 .. n
      BY <1>1, <2>2
    <3>0. k \in 0 .. n /\ k - 1 \in 0 .. n
      BY <1>1, <3>1
    <3>2. /\ r[k] = q[k] /\ p2[k] = p[k] /\ p2[k - 1] = p[k - 1]
          /\ p[k] \in Nat /\ p[k - 1] \in Nat
      BY <1>2, <1>6, <3>0, <3>1
    <3>3. IF q[k].is = "value"
          THEN p[k] = p[k - 1] + 1 /\ p[k] <= Len(sent) /\ q[k].value = Bytes(sent[p[k]])
          ELSE p[k] = p[k - 1]
      BY <3>1 DEF Counts, n
    <3>4. CASE q[k].is = "value"
      <4>1. p[k] \in 1 .. Len(sent) /\ p[k] <= Len(sent')
        BY <1>4, <3>2, <3>3, <3>4
      <4> QED
        BY <1>4, <3>2, <3>3, <3>4, <4>1
    <3> QED
      BY <3>2, <3>3, <3>4
  <2> QED
    BY <2>1, <2>2
<1>9. Counts(p2, r, from)'
  BY <1>1, <1>3, <1>5, <1>8 DEF Counts
<1> QED
  BY <1>1, <1>3, <1>9 DEF Carried, r, a

\* The first signal is taken.
LEMMA CarriedTail ==
    ASSUME NEW q \in Seq(Signals), q # <<>>, NEW from \in Nat, Carried(q, from)
    PROVE  /\ Head(q).is # "value" => Carried(Tail(q), from)
           /\ Head(q).is = "value" =>
                 /\ from < Len(sent) /\ Head(q).value = Bytes(sent[from + 1])
                 /\ Carried(Tail(q), from + 1)
<1> PICK p \in [0 .. Len(q) -> Nat] : Counts(p, q, from)
  BY DEF Carried
<1> DEFINE t == Tail(q)
           n == Len(t)
           p2 == [k \in 0 .. n |-> p[k + 1]]
<1>1. /\ Len(q) \in Nat /\ Head(q) = q[1] /\ t \in Seq(Signals) /\ n = Len(q) - 1
      /\ \A k \in 1 .. n : t[k] = q[k + 1]
  BY LenProperties, HeadTailProperties
<1>2. n \in Nat
  BY <1>1, LenProperties
<1> HIDE DEF t, n
<1>3. p2 \in [0 .. n -> Nat] /\ \A k \in 0 .. n : p2[k] = p[k + 1]
  BY <1>1, <1>2
<1> HIDE DEF p2
<1>4. Counts(p2, t, p2[0])
  <2>1. p2[n] = Len(sent)
    BY <1>1, <1>2, <1>3 DEF Counts
  <2>2. ASSUME NEW k \in 1 .. n
        PROVE  IF t[k].is = "value"
               THEN p2[k] = p2[k - 1] + 1 /\ p2[k] <= Len(sent)
                    /\ t[k].value = Bytes(sent[p2[k]])
               ELSE p2[k] = p2[k - 1]
    <3>1. t[k] = q[k + 1] /\ p2[k] = p[k + 1] /\ p2[k - 1] = p[k] /\ k + 1 \in 1 .. Len(q)
      BY <1>1, <1>2, <1>3
    <3> QED
      BY <3>1 DEF Counts
  <2> QED
    BY <1>2, <1>3, <2>1, <2>2 DEF Counts, n
<1>5. Carried(t, p2[0])
  BY <1>3, <1>4 DEF Carried, n
<1>6. p2[0] = p[1] /\ 1 \in 1 .. Len(q) /\ p[0] = from
  BY <1>1, <1>2, <1>3 DEF Counts
<1>7. IF q[1].is = "value"
      THEN p[1] = from + 1 /\ p[1] <= Len(sent) /\ q[1].value = Bytes(sent[p[1]])
      ELSE p[1] = from
  BY <1>6 DEF Counts
<1> QED
  <2>1. CASE q[1].is = "value"
    <3>1. Len(sent) >= from + 1
      BY <1>7, <2>1
    <3> QED
      BY <1>1, <1>5, <1>6, <1>7, <2>1, <3>1 DEF t
  <2>2. CASE q[1].is # "value"
    BY <1>1, <1>5, <1>6, <1>7, <2>2 DEF t
  <2> QED
    BY <2>1, <2>2

\* While the consumer reads and the forwarder listens, nothing that was sent is anywhere but
\* with the consumer, in the watcher's hand or in the queue.
InHand == IF watcher.at = "hands" THEN 1 ELSE 0
ArriveInv ==
    role = "central" =>
        /\ main \in Before => ~notifying /\ sent = <<>> /\ received = <<>>
        /\ SecurityArrives
        /\ (watcher.at = "hands" /\ consumer = "reads") =>
              Len(received) < Len(sent) /\ watcher.value = Bytes(sent[Len(received) + 1])
        /\ (Listens(fwd["notify"]) /\ consumer = "reads") =>
              Carried(fwd["notify"].queue, Len(received) + InHand)

ArriveSame == UNCHANGED <<role, watcher, consumer, sent, received>>

\* A step of the others.
LEMMA QuietKeepsArrive ==
    ASSUME ArriveInv, ArriveSame, role = "central",
           main' \in Before => main \in Before /\ ~notifying',
           Listens(fwd'["notify"]) =>
               Listens(fwd["notify"]) /\ fwd'["notify"].queue = fwd["notify"].queue
    PROVE  ArriveInv'
<1>1. Listens(fwd["notify"])' <=> Listens(fwd'["notify"])
  BY DEF Listens
<1>2. ASSUME NEW q, NEW n, Carried(q, n) PROVE Carried(q, n)'
  BY <1>2 DEF Carried, Counts, ArriveSame
<1>3. InHand' = InHand
  BY DEF InHand, ArriveSame
<1> QED
  BY <1>1, <1>2, <1>3 DEF ArriveInv, ArriveSame, SecurityArrives

\* A signal about the device.
LEMMA AboutKeepsArrive ==
    ASSUME ArriveInv, BleTypes, ArriveSame, role = "central",
           main' \in Before => main \in Before /\ ~notifying',
           NEW what \in DeviceSignals, Emit(<<About(what)>>)
    PROVE  ArriveInv'
<1> DEFINE f == fwd["notify"]
           a == About(what)
<1>1. <<a>> \in Seq(Signals) /\ a \in Signals /\ a.is # "value"
  <2>1. a \in Signals /\ a.is # "value"
    BY DEF About, Signals, DeviceSignals
  <2> QED
    BY <2>1
<1>2. FwdOK /\ f \in Sub /\ f.queue \in Seq(Signals) /\ received \in Seq(Decoded)
  BY DEF BleTypes, BleTypeOK, FwdOK, Sub, Subs
<1>3. CASE fwd'["notify"] = f
  BY <1>3, QuietKeepsArrive
<1>4. CASE Listens(f) /\ fwd'["notify"] = [f EXCEPT !.queue = @ \o <<a>>]
  <2>1. fwd'["notify"].is = f.is /\ fwd'["notify"].queue = f.queue \o <<a>>
    BY <1>2, <1>4 DEF Sub
  <2>2. Len(received) + InHand \in Nat
    BY <1>2, LenProperties DEF InHand
  <2> HIDE DEF a
  <2>3. Carried(f.queue, Len(received) + InHand)
        => Carried(fwd'["notify"].queue, Len(received) + InHand)
    BY <1>1, <1>2, <2>1, <2>2, CarriedQuiet
  <2>4. ASSUME NEW q, NEW n, Carried(q, n) PROVE Carried(q, n)'
    BY <2>4 DEF Carried, Counts, ArriveSame
  <2>5. InHand' = InHand
    BY DEF InHand, ArriveSame
  <2>6. Listens(fwd["notify"])' /\ Listens(f)
    BY <1>4, <2>1 DEF Listens
  <2>7. (consumer = "reads" => Carried(f.queue, Len(received) + InHand))
        => (consumer = "reads" => Carried(fwd["notify"].queue, Len(received) + InHand)')
    BY <2>3, <2>4, <2>5 DEF ArriveSame
  <2> QED
    BY <2>6, <2>7 DEF ArriveInv, ArriveSame, SecurityArrives
<1> QED
  BY <1>1, <1>2, <1>3, <1>4, EmitIsMore

LEMMA RadioKeepsArrive ==
    ASSUME ArriveInv, BleTypes, Radio, role = "central" PROVE ArriveInv'
<1> USE DEF radio, bleLocal, bleCounts, blePast
<1>1. CASE Lose
  <2>1. ArriveSame /\ main' = main /\ ~notifying' /\ Emit(<<About("disconnected")>>)
    BY <1>1 DEF Lose, LinkDown, ArriveSame
  <2> QED
    BY <2>1, AboutKeepsArrive DEF DeviceSignals
<1>2. CASE Discover \/ Forget \/ PeerConnects \/ PeerPairs \/ ResolveServices \/ Noise
  <2>1. \E what \in DeviceSignals : Emit(<<About(what)>>)
    BY <1>2 DEF Discover, Forget, PeerConnects, PeerPairs, ResolveServices, Noise, DeviceSignals
  <2>2. ArriveSame /\ main' = main /\ notifying' = notifying
    BY <1>2 DEF Discover, Forget, PeerConnects, PeerPairs, ResolveServices, Noise, ArriveSame
  <2> QED
    BY <2>1, <2>2, AboutKeepsArrive DEF ArriveInv
<1>3. CASE PeerWrites
  <2>1. /\ notifying /\ UNCHANGED <<role, main, watcher, consumer, received>>
        /\ \E s \in Securities :
              Emit(<<[is |-> "value", value |-> Bytes(s)]>>) /\ sent' = Append(sent, s)
    BY <1>3 DEF PeerWrites
  <2> PICK s \in Securities :
        Emit(<<[is |-> "value", value |-> Bytes(s)]>>) /\ sent' = Append(sent, s)
    BY <2>1
  <2>2. main \notin Before
    BY <2>1 DEF ArriveInv
  <2>3. FwdOK /\ sent \in Seq(Securities) /\ received \in Seq(Decoded)
    BY DEF BleTypes, BleTypeOK, FwdOK
  <2>4. /\ Len(sent) \in Nat /\ Len(received) \in Nat /\ Len(sent') = Len(sent) + 1
        /\ \A i \in 1 .. Len(sent) : sent'[i] = sent[i]
    BY <2>3, LenProperties, AppendProperties
  <2>5. SecurityArrives'
    <3>1. SecurityArrives
      BY DEF ArriveInv
    <3>2. \A k \in 1 .. Len(received) : k \in 1 .. Len(sent)
      BY <2>4, <3>1 DEF SecurityArrives
    <3> QED
      BY <2>1, <2>4, <3>1, <3>2 DEF SecurityArrives
  <2>6. (watcher'.at = "hands" /\ consumer' = "reads") =>
            Len(received') < Len(sent') /\ watcher'.value = Bytes(sent'[Len(received') + 1])
    <3> SUFFICES ASSUME watcher.at = "hands", consumer = "reads"
                 PROVE  Len(received) < Len(sent')
                        /\ watcher.value = Bytes(sent'[Len(received) + 1])
      BY <2>1
    <3>1. Len(received) < Len(sent) /\ watcher.value = Bytes(sent[Len(received) + 1])
      BY DEF ArriveInv
    <3>2. Len(received) + 1 \in 1 .. Len(sent)
      BY <2>4, <3>1
    <3> QED
      BY <2>4, <3>1, <3>2
  <2>7. (Listens(fwd["notify"])' /\ consumer' = "reads") =>
            Carried(fwd["notify"].queue, Len(received) + InHand)'
    <3> DEFINE f == fwd["notify"]
               a == [is |-> "value", value |-> Bytes(s)]
    <3>1. <<a>> \in Seq(Signals)
      BY DEF Signals
    <3>2. Emit(<<a>>) /\ f \in Sub /\ f.queue \in Seq(Signals)
      BY <2>3 DEF FwdOK, Sub, Subs
    <3>3. Len(received) + InHand \in Nat /\ (Len(received) + InHand)' = Len(received) + InHand
      BY <2>1, <2>4 DEF InHand
    <3>4. \A q \in Seq(Signals), m \in Nat : Carried(q, m) => Carried(q \o <<a>>, m)'
      BY <2>3, CarriedValue
    <3> HIDE DEF a
    <3>5. \/ fwd'["notify"] = f /\ ~Listens(f)
          \/ Listens(f) /\ fwd'["notify"] = [f EXCEPT !.queue = @ \o <<a>>]
      BY <2>3, <3>1, <3>2, EmitIsMore
    <3>6. CASE fwd'["notify"] = f /\ ~Listens(f)
      BY <3>6 DEF Listens
    <3>7. CASE Listens(f) /\ fwd'["notify"] = [f EXCEPT !.queue = @ \o <<a>>]
      <4>1. fwd'["notify"].queue = f.queue \o <<a>>
        BY <3>2, <3>7 DEF Sub
      <4>2. consumer = "reads" => Carried(f.queue, Len(received) + InHand)
        BY <3>7 DEF ArriveInv
      <4> DEFINE m == Len(received) + InHand
                 q == f.queue
      <4>3. ASSUME NEW r, r = q \o <<a>>, NEW k, k = m, consumer = "reads"
            PROVE  Carried(r, k)'
        BY <3>2, <3>3, <3>4, <4>2, <4>3
      <4>4. \A r, k : (r = q \o <<a>> /\ k = m /\ consumer = "reads") => Carried(r, k)'
        BY <4>3
      <4> QED
        BY <2>1, <3>3, <4>1, <4>4
    <3> QED
      BY <3>5, <3>6, <3>7
  <2> QED
    BY <2>1, <2>2, <2>5, <2>6, <2>7 DEF ArriveInv
<1> QED
  BY <1>1, <1>2, <1>3 DEF Radio

LEMMA ForwarderKeepsArrive ==
    ASSUME ArriveInv, BleTypes, ForwarderStep, role = "central" PROVE ArriveInv'
<1> USE DEF radio, bleLocal, bleCounts, blePast
<1> PICK s \in Subs : ForwarderTakes(s) \/ ForwarderEnds(s)
  BY DEF ForwarderStep
<1>1. ArriveSame /\ main' = main /\ notifying' = notifying /\ fwd \in [Subs -> Sub]
  BY DEF ForwarderTakes, ForwarderEnds, ArriveSame, BleTypes, BleTypeOK
<1>2. Listens(fwd'["notify"]) =>
          Listens(fwd["notify"]) /\ fwd'["notify"].queue = fwd["notify"].queue
  <2>1. CASE ForwarderTakes(s)
    BY <1>1, <2>1 DEF ForwarderTakes, Listens, Sub, Subs
  <2>2. CASE ForwarderEnds(s)
    BY <1>1, <2>2 DEF ForwarderEnds, Listens, Sub, Subs
  <2> QED
    BY <2>1, <2>2
<1> QED
  BY <1>1, <1>2, QuietKeepsArrive DEF ArriveInv

LEMMA ConnectKeepsArrive ==
    ASSUME ArriveInv, LossInv, BleTypes, ConnectStep, role = "central" PROVE ArriveInv'
<1> USE DEF radio, bleLocal, bleCounts, blePast
<1>1. main \in Before /\ ArriveSame
  BY DEF ConnectStep, FindPairedDevice, RegisterAdvertisement, SubscribeToConnect, Prepare, Pair,
         CallConnect, CallFails, ConnectHears, ConnectTimesOut, Settle, Before, ArriveSame
<1>2. ~notifying'
  BY <1>1
  DEF ConnectStep, FindPairedDevice, RegisterAdvertisement, SubscribeToConnect, Prepare, Pair,
      CallConnect, CallFails, ConnectHears, ConnectTimesOut, Settle, LinkDown, ArriveInv
<1>3. fwd'["notify"] = fwd["notify"]
  <2>1. fwd["notify"].is = "none" /\ "notify" \in Subs /\ fwd \in [Subs -> Sub]
    BY <1>1 DEF LossInv, Subs, BleTypes, BleTypeOK
  <2>2. CASE Pair \/ CallConnect \/ Settle
    BY <2>1, <2>2 DEF Pair, CallConnect, Settle, LinkDown, Emit, Listens
  <2>3. CASE ~Pair /\ ~CallConnect /\ ~Settle
    BY <2>1, <2>3
    DEF ConnectStep, FindPairedDevice, RegisterAdvertisement, SubscribeToConnect, Prepare,
        CallFails, ConnectHears, ConnectTimesOut, Fail, Subscribe, Unsubscribe
  <2> QED
    BY <2>2, <2>3
<1> QED
  BY <1>1, <1>2, <1>3, QuietKeepsArrive

LEMMA NotifyKeepsArrive ==
    ASSUME ArriveInv, LossInv, BleTypes, NotifyStep, role = "central" PROVE ArriveInv'
<1> USE DEF radio, bleLocal, bleCounts, blePast
<1>0. /\ watcher \in Watcher /\ fwd \in [Subs -> Sub] /\ "notify" \in Subs
      /\ UNCHANGED <<role, consumer, sent, received>> /\ main' \notin Before
  BY DEF BleTypes, BleTypeOK, NotifyStep, StartWatching, StartNotify, EndRun, StopNotify, Subs,
         Before
<1>1. CASE StartWatching
  <2>1. sent = <<>> /\ received = <<>> /\ watcher.at = "none" /\ watcher' = watcher
    BY <1>1 DEF StartWatching, Before, ArriveInv, LossInv
  <2>2. fwd'["notify"].queue = <<>>
    BY <1>0, <1>1 DEF StartWatching, Subscribe, NoSub
  <2>3. Len(sent) = 0 /\ Len(received) = 0 /\ InHand = 0
    BY <2>1 DEF InHand
  <2>4. Carried(<<>>, 0)
    BY <2>3, CarriedNothing
  <2>5. Carried(<<>>, 0)'
    BY <1>0, <2>4 DEF Carried, Counts
  <2>6. (Len(received) + InHand)' = 0
    BY <1>0, <2>1, <2>3 DEF InHand
  <2>7. Carried(fwd["notify"].queue, Len(received) + InHand)'
    BY <2>2, <2>5, <2>6
  <2> QED
    BY <1>0, <2>1, <2>3, <2>7 DEF ArriveInv, SecurityArrives
<1>2. CASE ~StartWatching
  <2>1. /\ Listens(fwd'["notify"]) =>
            Listens(fwd["notify"]) /\ fwd'["notify"].queue = fwd["notify"].queue
        /\ watcher'.at = "hands" <=> watcher.at = "hands"
        /\ watcher'.value = watcher.value
    <3>1. CASE StartNotify /\ linked
      BY <1>0, <3>1 DEF StartNotify, LossInv, Watcher
    <3>2. CASE StartNotify /\ ~linked
      BY <1>0, <3>2 DEF StartNotify, NoSub, Listens
    <3>3. CASE EndRun
      BY <3>3 DEF EndRun
    <3>4. CASE StopNotify
      BY <1>0, <3>4 DEF StopNotify, Unsubscribe, Sub, Listens
    <3> QED
      BY <1>2, <3>1, <3>2, <3>3, <3>4 DEF NotifyStep
  <2>2. InHand' = InHand
    BY <2>1 DEF InHand
  <2>3. ASSUME NEW q, NEW n, Carried(q, n) PROVE Carried(q, n)'
    BY <1>0, <2>3 DEF Carried, Counts
  <2>4. Listens(fwd["notify"])' <=> Listens(fwd'["notify"])
    BY DEF Listens
  <2> QED
    BY <1>0, <2>1, <2>2, <2>3, <2>4 DEF ArriveInv, SecurityArrives
<1> QED
  BY <1>1, <1>2

LEMMA DisconnectKeepsArrive ==
    ASSUME ArriveInv, BleTypes, DisconnectStep, role = "central" PROVE ArriveInv'
<1> USE DEF radio, bleLocal, bleCounts, blePast
<1>1. ArriveSame /\ main' \notin Before
  BY DEF DisconnectStep, Leave, ReadConnected, HangUp, AwaitHears, CloseBus, Left, Before,
         ArriveSame
<1>2. FwdOK /\ fwd \in [Subs -> Sub] /\ "notify" \in Subs
  BY DEF BleTypes, BleTypeOK, FwdOK, Subs
<1>3. CASE HangUp /\ linked
  <2>1. Emit(<<About("disconnected")>>)
    BY <1>3 DEF HangUp, LinkDown
  <2> QED
    BY <1>1, <2>1, AboutKeepsArrive DEF DeviceSignals
<1>4. CASE ~(HangUp /\ linked)
  <2>1. Listens(fwd'["notify"]) =>
            Listens(fwd["notify"]) /\ fwd'["notify"].queue = fwd["notify"].queue
    BY <1>2, <1>4
    DEF DisconnectStep, Leave, ReadConnected, HangUp, AwaitHears, CloseBus, Subscribe,
        Unsubscribe, NoSub, Listens
  <2> QED
    BY <1>1, <2>1, QuietKeepsArrive
<1> QED
  BY <1>3, <1>4

LEMMA WatcherKeepsArrive ==
    ASSUME ArriveInv, LossInv, BleTypes, Fitting, WatcherStep, role = "central"
    PROVE  ArriveInv'
<1> USE DEF radio, bleLocal, bleCounts, blePast
<1>0. /\ watcher \in Watcher /\ FwdOK /\ fwd["notify"] \in Sub /\ "notify" \in Subs
      /\ sent \in Seq(Securities) /\ received \in Seq(Decoded)
      /\ Len(received) \in Nat /\ Len(sent) \in Nat
      /\ consumer \in {"reads", "stopped"}
  BY LenProperties DEF BleTypes, BleTypeOK, FwdOK, Subs
<1>1. main' \notin Before /\ UNCHANGED <<role, sent>>
  BY DEF LossInv, Before, WatcherStep, WatcherHears, WatcherTells, WatcherPanics, WatcherFlags,
         WatcherHands, WatcherEnds, WatcherTakesWrite
<1>2. ASSUME NEW q, NEW n, Carried(q, n) PROVE Carried(q, n)'
  BY <1>1, <1>2 DEF Carried, Counts
<1>3. CASE WatcherHears
  <2> DEFINE f == fwd["notify"]
             h == Held("notify")
             q == f.queue
             n == Len(received)
  <2>1. /\ f.is = "sends" /\ watcher.at = "select" /\ q \in Seq(Signals) /\ q # <<>>
        /\ UNCHANGED <<consumer, received>> /\ h = Head(q)
    BY <1>0, <1>3 DEF WatcherHears, Sub, FwdOK, Ready, Held
  <2>2. fwd'["notify"] = Released(f)
    BY <1>0, <1>3 DEF WatcherHears, FwdOK
  <2>3. fwd'["notify"].queue = Tail(q)
    BY <1>0, <2>2 DEF Released, Sub
  <2>4. /\ h.is = "value" => watcher' = [at |-> "hands", value |-> h.value]
        /\ h.is # "value" => watcher'.at # "hands"
    BY <1>0, <1>3 DEF WatcherHears, Watcher
  <2>5. InHand = 0 /\ InHand' = IF h.is = "value" THEN 1 ELSE 0
    BY <2>1, <2>4 DEF InHand
  <2>6. SUFFICES ASSUME consumer = "reads"
                 PROVE  /\ h.is = "value" => n < Len(sent) /\ h.value = Bytes(sent[n + 1])
                        /\ Carried(Tail(q), IF h.is = "value" THEN n + 1 ELSE n)
    <3>1. n + InHand' = IF h.is = "value" THEN n + 1 ELSE n
      BY <1>0, <2>5
    <3>2. consumer' = "reads" => Carried(fwd["notify"].queue, Len(received) + InHand)'
      BY <1>2, <2>1, <2>3, <2>6, <3>1
    <3>3. (watcher'.at = "hands" /\ consumer' = "reads") =>
            Len(received') < Len(sent') /\ watcher'.value = Bytes(sent'[Len(received') + 1])
      BY <1>1, <2>1, <2>4, <2>6
    <3> QED
      BY <1>1, <2>1, <3>2, <3>3 DEF ArriveInv, SecurityArrives
  <2>7. Carried(q, n)
    <3>1. Carried(q, n + InHand)
      BY <2>1, <2>6 DEF ArriveInv, Listens
    <3> QED
      BY <1>0, <2>5, <3>1
  <2> HIDE DEF h, q, n
  <2>8. n \in Nat
    BY <1>0 DEF n
  <2> QED
    BY <2>1, <2>7, <2>8, CarriedTail
<1>4. CASE WatcherHands
  <2> DEFINE n == Len(received)
             s == sent[n + 1]
  <2>1. /\ watcher.at = "hands" /\ consumer = "reads" /\ fwd' = fwd
        /\ n < Len(sent) /\ watcher.value = Bytes(s)
    BY <1>4 DEF WatcherHands, ArriveInv
  <2>2. s \in Securities
    <3>1. n + 1 \in 1 .. Len(sent)
      BY <1>0, <2>1
    <3> QED
      BY <1>0, <3>1, ElementOfSeq
  <2>3. ParseSecurity(watcher.value) = s
    BY <2>1, <2>2, ParseBytes
  <2>4. InHand = 1 /\ InHand' = 0 /\ watcher'.at = "select"
    BY <1>4, <2>1 DEF WatcherHands, InHand
  <2>5. CASE received' = received /\ consumer' = "stopped"
    BY <1>1, <2>4, <2>5 DEF ArriveInv, SecurityArrives
  <2>6. CASE received' = Append(received, s) /\ consumer' = consumer
    <3>1. /\ Len(received') = n + 1 /\ received'[n + 1] = s
          /\ \A i \in 1 .. n : received'[i] = received[i]
      <4>1. s \in Decoded
        BY <2>2 DEF Fitting
      <4> QED
        BY <1>0, <2>6, <4>1, AppendProperties
    <3>2. SecurityArrives'
      <4>1. n + 1 <= Len(sent)
        BY <1>0, <2>1
      <4>2. \A i \in 1 .. n : received[i] = sent[i]
        BY DEF ArriveInv, SecurityArrives
      <4>3. ASSUME NEW k \in 1 .. n + 1 PROVE received'[k] = sent[k]
        <5>1. CASE k = n + 1
          BY <3>1, <5>1
        <5>2. CASE k # n + 1
          <6>1. k \in 1 .. n
            BY <1>0, <5>2
          <6> QED
            BY <3>1, <4>2, <6>1
        <5> QED
          BY <5>1, <5>2
      <4> QED
        BY <1>1, <3>1, <4>1, <4>3 DEF SecurityArrives
    <3>3. (Len(received) + InHand)' = n + InHand
      BY <1>0, <2>4, <3>1
    <3>4. Listens(fwd["notify"])' => Carried(fwd["notify"].queue, Len(received) + InHand)'
      <4>1. Listens(fwd["notify"]) => Carried(fwd["notify"].queue, n + InHand)
        BY <2>1 DEF ArriveInv
      <4>2. fwd' = fwd /\ (Listens(fwd["notify"])' <=> Listens(fwd["notify"]))
        BY <2>1 DEF Listens
      <4> QED
        BY <1>2, <3>3, <4>1, <4>2
    <3> QED
      BY <1>1, <2>4, <3>2, <3>4 DEF ArriveInv
  <2> QED
    BY <1>4, <2>3, <2>5, <2>6 DEF WatcherHands
<1>5. CASE WatcherEnds
  <2>1. consumer' = "stopped" /\ received' = received
    BY <1>5 DEF WatcherEnds
  <2> QED
    BY <1>1, <2>1 DEF ArriveInv, SecurityArrives
<1>6. CASE WatcherTells \/ WatcherPanics \/ WatcherFlags
  <2>1. UNCHANGED <<consumer, received>> /\ watcher.at # "hands" /\ watcher'.at # "hands"
    BY <1>0, <1>6 DEF WatcherTells, WatcherPanics, WatcherFlags, Watcher
  <2>2. InHand' = InHand
    BY <2>1 DEF InHand
  <2>3. fwd' = fwd \/ ~Listens(fwd["notify"])'
    BY <1>0, <1>6 DEF WatcherTells, WatcherPanics, WatcherFlags, FwdOK, Listens, Sub
  <2>4. fwd' = fwd => (Listens(fwd["notify"])' <=> Listens(fwd["notify"]))
    BY DEF Listens
  <2> QED
    BY <1>1, <1>2, <2>1, <2>2, <2>3, <2>4 DEF ArriveInv, SecurityArrives
<1>7. CASE WatcherTakesWrite
  BY <1>0, <1>7 DEF WatcherTakesWrite, BleTypes, HandOK
<1> QED
  BY <1>3, <1>4, <1>5, <1>6, <1>7 DEF WatcherStep

\* A peripheral sends the values; it reads none.
NoneRead == role # "central" => received = <<>>

LEMMA RoleStays == [BleNext]_bleVars => role' = role
BY DEF BleNext, Radio, MainStep, ConnectStep, NotifyStep, DisconnectStep, ForwarderStep,
       WatcherStep, Discover, Forget, PeerConnects, PeerPairs, ResolveServices, PeerWrites,
       Noise, Lose, FindPairedDevice, RegisterAdvertisement, SubscribeToConnect, Prepare, Pair,
       CallConnect, CallFails, ConnectHears, ConnectTimesOut, Settle, StartWatching,
       StartNotify, EndRun, StopNotify, WatcherHears, WatcherTells, WatcherPanics,
       WatcherFlags, WatcherHands, WatcherEnds, WatcherTakesWrite, Leave, ReadConnected,
       HangUp, AwaitHears, CloseBus, ForwarderTakes, ForwarderEnds, bleVars, radio

LEMMA NoneReadKept == ASSUME BleTypes, NoneRead, [BleNext]_bleVars PROVE NoneRead'
<1>1. CASE WatcherHands
  BY <1>1, RoleStays DEF WatcherHands, NoneRead, BleTypes, BleTypeOK, Roles
<1>2. CASE ~WatcherHands
  <2>1. received' = received
    BY <1>2
    DEF BleNext, Radio, MainStep, ConnectStep, NotifyStep, DisconnectStep, ForwarderStep,
        WatcherStep, Discover, Forget, PeerConnects, PeerPairs, ResolveServices, PeerWrites,
        Noise, Lose, FindPairedDevice, RegisterAdvertisement, SubscribeToConnect, Prepare, Pair,
        CallConnect, CallFails, ConnectHears, ConnectTimesOut, Settle, StartWatching,
        StartNotify, EndRun, StopNotify, WatcherHears, WatcherTells, WatcherPanics,
        WatcherFlags, WatcherEnds, WatcherTakesWrite, Leave, ReadConnected,
        HangUp, AwaitHears, CloseBus, ForwarderTakes, ForwarderEnds, bleVars, blePast
  <2> QED
    BY <2>1, RoleStays DEF NoneRead
<1> QED
  BY <1>1, <1>2

LEMMA ArriveKept ==
    ASSUME ArriveInv, LossInv, BleTypes, Fitting, [BleNext]_bleVars PROVE ArriveInv'
<1>1. CASE UNCHANGED bleVars
  <2>1. ASSUME NEW q, NEW n, Carried(q, n) PROVE Carried(q, n)'
    BY <1>1, <2>1 DEF Carried, Counts, bleVars, blePast
  <2> QED
    BY <1>1, <2>1
    DEF ArriveInv, SecurityArrives, InHand, Listens, bleVars, radio, bleLocal, blePast
<1>2. CASE role # "central"
  BY <1>2, RoleStays DEF ArriveInv
<1> QED
  BY <1>1, <1>2, RadioKeepsArrive, ForwarderKeepsArrive, ConnectKeepsArrive,
     NotifyKeepsArrive, WatcherKeepsArrive, DisconnectKeepsArrive
  DEF BleNext, MainStep

\* What the consumer of a central has read is the beginning of what the peer has written since
\* notifications were asked for, provided that the seconds fit in two bytes: through the queue,
\* the forwarder and the watcher nothing is left out, doubled or overtaken, also when the link
\* is lost or the watch ends in between.
THEOREM SecurityArrivesHolds == ASSUME Fitting PROVE BleSpec => []SecurityArrives
<1>1. BleInit => LossInv
  BY DEF BleInit, LossInv, Before, NoSub, Subs
<1>2. BleInit => ArriveInv /\ NoneRead
  BY DEF BleInit, ArriveInv, SecurityArrives, NoSub, Subs, Listens, NoneRead
<1>3. BleTypes /\ ArriveInv /\ NoneRead => SecurityArrives
  <2>1. BleTypes => Len(sent) \in Nat
    BY LenProperties DEF BleTypes, BleTypeOK
  <2>2. Len(<<>>) = 0
    OBVIOUS
  <2> QED
    BY <2>1, <2>2 DEF ArriveInv, NoneRead, SecurityArrives
<1>4. ArriveInv /\ LossInv /\ BleTypes /\ [BleNext]_bleVars => ArriveInv'
  BY ArriveKept
<1> QED
  BY <1>1, <1>2, <1>3, <1>4, BleStarts, BleTypesKept, LossKept, NoneReadKept, PTL DEF BleSpec
=============================================================================
