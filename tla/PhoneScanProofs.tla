---------------------------- MODULE PhoneScanProofs ----------------------------
(***************************************************************************)
(* Proofs about PhoneScan, for any set of networks and any bounds on the   *)
(* scans, the pairings and the changes.                                    *)
(***************************************************************************)
EXTENDS PhoneScan, SequenceTheorems, TLAPS

-----------------------------------------------------------------------------
(* The inductive invariant *)

\* A call of runScan is about a scan that was started, and its screen's user is signed in.
RunIsStarted ==
    /\ run.at # "none" => run.id \in 1 .. started
    /\ run.at = "saved" => run.id \in history
    /\ run.own => signedIn

PhoneInv ==
    /\ PhoneTypeOK
    /\ RunIsStarted
    /\ ScanIsInOnePlace
    /\ ScreenFollowsRun
    /\ SavedIsQueued
    /\ PairingIsUnderWay

-----------------------------------------------------------------------------
(* The stack of views and the calls of pair() *)

Pushable == {"settings_device", "modal", "network_details"}

LEMMA PushedType ==
    ASSUME stack \in Seq(Pushable), NEW v \in Pushable
    PROVE  Pushed(v) \in Seq(Pushable)
BY DEF Pushed

LEMMA PopType ==
    ASSUME PhoneTypeOK, Pop
    PROVE  /\ stack' \in Seq(Pushable)
           /\ modal' \in [step : {"closed", "discover", "enter-code", "pairing"}, found : BOOLEAN]
<1>1. stack \in Seq(Pushable)
  BY DEF PhoneTypeOK, Pushable
<1>2. CASE stack = <<>>
  BY <1>1, <1>2 DEF Pop, Top, PhoneTypeOK, NoModal
<1>3. CASE stack # <<>>
  <2>1. Len(stack) - 1 \in Int /\ \A i \in 1 .. Len(stack) - 1 : stack[i] \in Pushable
    BY <1>1, LenProperties, ElementOfSeq
  <2>2. SubSeq(stack, 1, Len(stack) - 1) \in Seq(Pushable)
    BY <2>1, SubSeqProperties
  <2> QED
    BY <1>3, <2>2 DEF Pop, PhoneTypeOK, NoModal
<1> QED
  BY <1>2, <1>3

LEMMA OrphanedType ==
    ASSUME NEW calls \in Seq(BOOLEAN)
    PROVE  Orphaned(calls) \in Seq(BOOLEAN) /\ (calls # <<>> => Orphaned(calls) # <<>>)
<1>1. Len(calls) \in Nat /\ DOMAIN calls = 1 .. Len(calls)
  BY LenProperties
<1>2. Orphaned(calls) \in [1 .. Len(calls) -> BOOLEAN]
  BY <1>1 DEF Orphaned
<1>3. Orphaned(calls) \in Seq(BOOLEAN) /\ Len(Orphaned(calls)) = Len(calls)
  BY <1>1, <1>2
<1>4. calls # <<>> => Len(calls) # 0
  BY EmptySeq
<1> QED
  BY <1>3, <1>4, EmptySeq

LEMMA TailType ==
    ASSUME PhoneTypeOK, pairs # <<>>
    PROVE  Tail(pairs) \in Seq(BOOLEAN) /\ Orphaned(Tail(pairs)) \in Seq(BOOLEAN)
<1>1. Tail(pairs) \in Seq(BOOLEAN)
  BY HeadTailProperties DEF PhoneTypeOK
<1> QED
  BY <1>1, OrphanedType

LEMMA PingType == ASSUME NEW s \in Screen PROVE Ping(s) \in Screen /\ Ping(s).scanning = s.scanning
BY DEF Ping, Screen

LEMMA ConstantTypes ==
    /\ Mounted \in Screen /\ Unmounted \in Screen
    /\ ~Mounted.scanning /\ ~Unmounted.scanning
    /\ NoScan \in [id : 0 .. MaxScans, net : Networks \cup {0}, state : States]
    /\ NoRun \in [at : {"none", "waits", "has", "saved"}, id : 0 .. MaxScans, own : BOOLEAN]
    /\ NoModal \in [step : {"closed", "discover", "enter-code", "pairing"}, found : BOOLEAN]
<1>1. 0 \in States /\ 0 \in 0 .. MaxScans
  BY PhoneConstants DEF States
<1>2. Unmounted \in Screen /\ ~Unmounted.scanning
  BY <1>1 DEF Unmounted, Screen
<1>3. Mounted \in Screen /\ ~Mounted.scanning
  BY <1>1 DEF Mounted, Ping, Screen
<1>4. /\ NoScan \in [id : 0 .. MaxScans, net : Networks \cup {0}, state : States]
      /\ NoRun \in [at : {"none", "waits", "has", "saved"}, id : 0 .. MaxScans, own : BOOLEAN]
      /\ NoModal \in [step : {"closed", "discover", "enter-code", "pairing"}, found : BOOLEAN]
  BY <1>1 DEF NoScan, NoRun, NoModal
<1> QED
  BY <1>2, <1>3, <1>4

LEMMA SpinnerType ==
    ASSUME NEW s \in Screen, NEW b \in BOOLEAN, NEW p \in States
    PROVE  /\ [s EXCEPT !.scanning = b, !.progress = p] \in Screen
           /\ [s EXCEPT !.scanning = b, !.progress = p].scanning = b
BY DEF Screen

-----------------------------------------------------------------------------
(* Steps that move no scan *)

\* What the steps of the router, of pairing and of the lists leave as it is.
StillScans ==
    /\ active' = active /\ results' = results /\ run' = run
    /\ history' = history /\ started' = started /\ lost' = lost
    /\ cut' = cut /\ failed' = failed
    /\ screen'.scanning = screen.scanning

LEMMA StillKeeps ==
    ASSUME PhoneInv, StillScans, queue' = queue, handled' = handled, run.own => signedIn'
    PROVE  RunIsStarted' /\ ScanIsInOnePlace' /\ ScreenFollowsRun' /\ SavedIsQueued'
BY DEF PhoneInv, StillScans, RunIsStarted, ScanIsInOnePlace, ScreenFollowsRun, SavedIsQueued,
       InHand, Running

LEMMA ViewSteps ==
    ASSUME PhoneInv,
           ListArrives \/ (\E n \in Networks : SelectNetwork(n)) \/ PairStep \/ PairEnds
    PROVE  PhoneInv'
<1> USE DEF transport, views, tables, phonePast
<1>0. PhoneTypeOK /\ screen \in Screen /\ stack \in Seq(Pushable) /\ pairs \in Seq(BOOLEAN)
  BY DEF PhoneInv, PhoneTypeOK, Pushable
<1>1. CASE ListArrives
  <2>1. PhoneTypeOK' /\ StillScans
    BY <1>0, <1>1, ZenonT(40) DEF ListArrives, PhoneTypeOK, StillScans, Screen
  <2> QED
    BY <1>1, <2>1, StillKeeps DEF ListArrives, PhoneInv, PairingIsUnderWay, RunIsStarted
<1>2. ASSUME NEW n \in Networks, SelectNetwork(n) PROVE PhoneInv'
  <2>1. PhoneTypeOK' /\ StillScans
    BY <1>0, <1>2, ZenonT(40) DEF SelectNetwork, PhoneTypeOK, StillScans, Screen
  <2> QED
    BY <1>2, <2>1, StillKeeps DEF SelectNetwork, PhoneInv, PairingIsUnderWay, RunIsStarted
<1>3. CASE OpenModal
  <2>1. Pushed("modal") \in Seq(Pushable)
    BY <1>0, PushedType DEF Pushable
  <2>2. PhoneTypeOK' /\ StillScans
    BY <1>0, <1>3, <2>1 DEF OpenModal, PhoneTypeOK, StillScans, Pushable
  <2> QED
    BY <1>3, <2>2, StillKeeps DEF OpenModal, PhoneInv, PairingIsUnderWay, RunIsStarted
<1>4. CASE DevicesArrive \/ ChooseDevice
  <2>1. PhoneTypeOK' /\ StillScans
    BY <1>0, <1>4 DEF DevicesArrive, ChooseDevice, PhoneTypeOK, StillScans
  <2> QED
    BY <1>4, <2>1, StillKeeps
    DEF DevicesArrive, ChooseDevice, PhoneInv, PairingIsUnderWay, RunIsStarted
<1>5. CASE PressPair
  <2>1. Append(pairs, TRUE) \in Seq(BOOLEAN) /\ Append(pairs, TRUE) # <<>>
    BY <1>0, AppendProperties, EmptySeq, ZenonT(40)
  <2>2. screen' \in Screen /\ screen'.scanning = screen.scanning
    BY <1>0, <1>5, PingType DEF PressPair
  <2>3. paired' \in 0 .. MaxPairs
    BY <1>0, <1>5, PhoneConstants DEF PressPair, PhoneTypeOK
  <2>4. modal' \in [step : {"closed", "discover", "enter-code", "pairing"}, found : BOOLEAN]
    BY <1>0, <1>5 DEF PressPair, PhoneTypeOK
  <2>5. PhoneTypeOK'
    BY <1>0, <1>5, <2>1, <2>2, <2>3, <2>4 DEF PressPair, PhoneTypeOK, Pushable
  <2>6. StillScans
    BY <1>5, <2>2 DEF PressPair, StillScans
  <2> QED
    BY <1>5, <2>1, <2>5, <2>6, StillKeeps DEF PressPair, PhoneInv, PairingIsUnderWay, RunIsStarted
<1>6. CASE OpenSettings
  <2>1. Pushed("settings_device") \in Seq(Pushable)
    BY <1>0, PushedType DEF Pushable
  <2>2. PhoneTypeOK' /\ StillScans
    BY <1>0, <1>6, <2>1 DEF OpenSettings, PhoneTypeOK, StillScans, Pushable
  <2> QED
    BY <1>6, <2>2, StillKeeps DEF OpenSettings, PhoneInv, PairingIsUnderWay, RunIsStarted
<1>7. CASE DisconnectDevice
  <2>1. screen' \in Screen /\ screen'.scanning = screen.scanning
    BY <1>0, <1>7, PingType DEF DisconnectDevice
  <2>2. PhoneTypeOK' /\ StillScans
    BY <1>0, <1>7, <2>1 DEF DisconnectDevice, PhoneTypeOK, StillScans
  <2> QED
    BY <1>7, <2>2, StillKeeps DEF DisconnectDevice, PhoneInv, PairingIsUnderWay, RunIsStarted
<1>8. CASE GoBack
  <2>1. /\ pairs' \in Seq(BOOLEAN)
        /\ pairs # <<>> => pairs' # <<>>
    BY <1>0, <1>8, OrphanedType DEF GoBack
  <2>2. PhoneTypeOK' /\ StillScans
    BY <1>0, <1>8, <2>1, PopType DEF GoBack, PhoneTypeOK, StillScans, Pushable
  <2> QED
    BY <1>8, <2>1, <2>2, StillKeeps DEF GoBack, PhoneInv, PairingIsUnderWay, RunIsStarted
<1>9. CASE PairEnds
  <2>1. pairs' \in Seq(BOOLEAN)
    BY <1>0, <1>9, TailType DEF PairEnds
  <2>2. screen' \in Screen /\ screen'.scanning = screen.scanning
    BY <1>0, <1>9, PingType DEF PairEnds
  <2>3. PhoneTypeOK' /\ StillScans
    BY <1>0, <1>9, <2>1, <2>2, PopType DEF PairEnds, PhoneTypeOK, StillScans, Pushable
  <2> QED
    BY <1>9, <2>3, StillKeeps DEF PairEnds, PhoneInv, PairingIsUnderWay, RunIsStarted
<1> QED
  BY <1>1, <1>2, <1>3, <1>4, <1>5, <1>6, <1>7, <1>8, <1>9 DEF PairStep

-----------------------------------------------------------------------------
(* Steps that move a scan *)

LEMMA SettledType ==
    ASSUME PhoneInv PROVE Settled \in Screen /\ ~(run.own /\ Settled.scanning)
<1>1. screen \in Screen /\ 0 \in States /\ run.own \in BOOLEAN
  BY DEF PhoneInv, PhoneTypeOK, States
<1> QED
  BY <1>1, SpinnerType DEF Settled

\* A scan that is told COMPLETED either has its result taken or fails.
LEMMA HearType ==
    ASSUME PhoneInv, run.at = "waits", NEW kept, HearCompleted(kept)
    PROVE  /\ run' \in [at : {"none", "waits", "has", "saved"}, id : 0 .. MaxScans, own : BOOLEAN]
           /\ screen' \in Screen
           /\ failed' \subseteq 1 .. MaxScans
           /\ run.id \in kept => run'.at = "has" /\ run'.id = run.id /\ run'.own = run.own
                                 /\ screen' = screen
           /\ run.id \notin kept => run' = NoRun /\ screen' = Settled
<1>1. run.id \in 1 .. MaxScans
  BY PhoneConstants DEF PhoneInv, RunIsStarted, PhoneTypeOK
<1> QED
  BY <1>1, SettledType, ConstantTypes, ZenonT(40) DEF HearCompleted, PhoneInv, PhoneTypeOK, NoRun

LEMMA PressScanKeeps == ASSUME PhoneInv, PressScan PROVE PhoneInv'
<1> USE DEF transport, views, tables, phonePast
<1>1. CASE active.id # 0
  BY <1>1 DEF PressScan, StartScan, PhoneInv, PhoneTypeOK, RunIsStarted, ScanIsInOnePlace,
     ScreenFollowsRun, SavedIsQueued, PairingIsUnderWay, InHand, Running
<1>2. CASE active.id = 0
  <2>1. /\ started < MaxScans /\ started' = started + 1
        /\ active' = [id |-> started + 1, net |-> screen.selected, state |-> 0]
        /\ run' = [at |-> "waits", id |-> started + 1, own |-> TRUE]
        /\ screen' = [screen EXCEPT !.scanning = TRUE, !.progress = 0]
        /\ run.at \in {"none", "waits"} /\ signedIn
        /\ UNCHANGED <<link, results, pairs, modal, stack, signedIn, history, queue, lost, cut,
                       handled, failed, paired, changes>>
    BY <1>2 DEF PressScan, StartScan, Quiet
  <2>2. screen' \in Screen /\ screen'.scanning /\ screen.selected \in Networks \cup {0}
    <3>1. screen \in Screen /\ 0 \in States
      BY DEF PhoneInv, PhoneTypeOK, States
    <3> QED
      BY <2>1, <3>1, SpinnerType DEF Screen
  <2>3. PhoneTypeOK'
    BY <2>1, <2>2, PhoneConstants, SMTT(30) DEF PhoneInv, PhoneTypeOK, States
  <2>4. 1 .. started = results \cup history \cup lost /\ run.at = "none"
    BY <1>2, <2>1 DEF PhoneInv, ScanIsInOnePlace, ScreenFollowsRun, InHand, Running
  <2>5. 1 .. started' = (1 .. started) \cup {started + 1} /\ started + 1 \notin 1 .. started
    BY <2>1 DEF PhoneInv, PhoneTypeOK
  <2>6. Running' = {started + 1} /\ InHand' = {}
    BY <2>1 DEF Running, InHand, PhoneInv, PhoneTypeOK
  <2>7. ScanIsInOnePlace'
    BY <2>1, <2>4, <2>5, <2>6 DEF PhoneInv, ScanIsInOnePlace
  <2>8. RunIsStarted' /\ ScreenFollowsRun' /\ SavedIsQueued' /\ PairingIsUnderWay'
    BY <2>1, <2>2, <2>4, <2>5 DEF PhoneInv, PhoneTypeOK, RunIsStarted, ScreenFollowsRun,
       SavedIsQueued, PairingIsUnderWay
  <2> QED
    BY <2>3, <2>7, <2>8 DEF PhoneInv
<1> QED
  BY <1>1, <1>2

\* The scan that runs is the one that runScan waits for.
LEMMA RunningIsWaitedFor ==
    ASSUME PhoneInv, active.id # 0
    PROVE  /\ run.at = "waits" /\ run.id = active.id
           /\ active.id \in 1 .. started /\ active.id \in 1 .. MaxScans
           /\ InHand = {} /\ Running = {active.id}
BY PhoneConstants
DEF PhoneInv, ScreenFollowsRun, RunIsStarted, PhoneTypeOK, InHand, Running

LEMMA TickKeeps == ASSUME PhoneInv, Tick PROVE PhoneInv'
<1> USE DEF transport, views, tables, phonePast
<1>0. /\ active.id # 0
      /\ UNCHANGED <<link, pairs, modal, stack, signedIn, history, queue, started, lost, cut,
                     handled, paired, changes>>
  BY DEF Tick
<1> PICK s \in States :
        /\ s > active.state
        /\ IF s = Completed
           THEN /\ HearCompleted(results)
                /\ results' = results \cup {active.id}
                /\ active' = NoScan
           ELSE /\ active' = [active EXCEPT !.state = s]
                /\ screen' = IF run.own THEN [screen EXCEPT !.progress = s] ELSE screen
                /\ UNCHANGED <<results, run, failed>>
  BY DEF Tick
<1>1. CASE s = Completed
  <2>1. run.id \notin results
    BY <1>0, RunningIsWaitedFor DEF PhoneInv, ScanIsInOnePlace
  <2>2. /\ run' = NoRun /\ screen' = Settled /\ active' = NoScan
        /\ results' = results \cup {active.id}
        /\ screen' \in Screen /\ failed' \subseteq 1 .. MaxScans
    BY <1>0, <1>1, <2>1, RunningIsWaitedFor, HearType
  <2>3. PhoneTypeOK'
    BY <1>0, <2>2, RunningIsWaitedFor, ConstantTypes DEF PhoneInv, PhoneTypeOK
  <2>4. Running' = {} /\ InHand' = {}
    BY <2>2 DEF Running, InHand, NoScan, NoRun
  <2>5. ScanIsInOnePlace'
    BY <1>0, <2>2, <2>4, RunningIsWaitedFor DEF PhoneInv, ScanIsInOnePlace
  <2>6. ~Settled.scanning
    BY SettledType DEF PhoneInv, ScreenFollowsRun, Settled
  <2> QED
    BY <1>0, <2>2, <2>3, <2>5, <2>6, RunningIsWaitedFor
    DEF PhoneInv, RunIsStarted, ScreenFollowsRun, SavedIsQueued, PairingIsUnderWay, NoRun, NoScan
<1>2. CASE s # Completed
  <2>1. active' \in [id : 0 .. MaxScans, net : Networks \cup {0}, state : States]
        /\ active'.id = active.id
    BY <1>2 DEF PhoneInv, PhoneTypeOK
  <2>2. screen' \in Screen /\ screen'.scanning = screen.scanning
    BY <1>2 DEF PhoneInv, PhoneTypeOK, Screen
  <2>3. PhoneTypeOK'
    BY <1>0, <1>2, <2>1, <2>2 DEF PhoneInv, PhoneTypeOK
  <2> QED
    BY <1>0, <1>2, <2>1, <2>2, <2>3
    DEF PhoneInv, RunIsStarted, ScanIsInOnePlace, ScreenFollowsRun, SavedIsQueued,
        PairingIsUnderWay, Running, InHand
<1> QED
  BY <1>1, <1>2

LEMMA StopScanKeepsInv == ASSUME PhoneInv, StopScan PROVE PhoneInv'
<1> USE DEF transport, views, tables, phonePast
<1>0. /\ active.id # 0 /\ HearCompleted(results \cup {active.id})
      /\ results' = (results \cup {active.id}) \ {run.id}
      /\ active' = NoScan
      /\ UNCHANGED <<link, pairs, modal, stack, signedIn, history, queue, started, lost, cut,
                     handled, paired, changes>>
  BY DEF StopScan
<1>1. /\ run'.at = "has" /\ run'.id = run.id /\ run'.own = run.own /\ screen' = screen
      /\ run' \in [at : {"none", "waits", "has", "saved"}, id : 0 .. MaxScans, own : BOOLEAN]
      /\ failed' \subseteq 1 .. MaxScans
  BY <1>0, RunningIsWaitedFor, HearType
<1>2. results' = results
  BY <1>0, RunningIsWaitedFor DEF PhoneInv, ScanIsInOnePlace
<1>3. PhoneTypeOK'
  BY <1>0, <1>1, <1>2, ConstantTypes, ZenonT(40) DEF PhoneInv, PhoneTypeOK
<1>4. Running' = {} /\ InHand' = {active.id}
  BY <1>0, <1>1, RunningIsWaitedFor DEF Running, InHand, NoScan
<1>5. ScanIsInOnePlace'
  BY <1>0, <1>2, <1>4, RunningIsWaitedFor DEF PhoneInv, ScanIsInOnePlace
<1> QED
  BY <1>0, <1>1, <1>3, <1>5, RunningIsWaitedFor
  DEF PhoneInv, RunIsStarted, ScreenFollowsRun, SavedIsQueued, PairingIsUnderWay, NoScan

LEMMA RunStepKeeps == ASSUME PhoneInv, RunStep PROVE PhoneInv'
<1> USE DEF transport, views, tables, phonePast
<1>0. run.at # "none" => run.id \in 1 .. MaxScans
  BY PhoneConstants DEF PhoneInv, RunIsStarted, PhoneTypeOK
<1>1. CASE PersistScan
  <2>1. /\ run' \in [at : {"none", "waits", "has", "saved"}, id : 0 .. MaxScans, own : BOOLEAN]
        /\ run'.at = "saved" /\ run'.id = run.id /\ run'.own = run.own
    BY <1>1 DEF PersistScan, PhoneInv, PhoneTypeOK
  <2>2. PhoneTypeOK'
    BY <1>0, <1>1, <2>1 DEF PersistScan, PhoneInv, PhoneTypeOK
  <2>3. InHand = {run.id} /\ InHand' = {} /\ Running' = Running
    BY <1>1, <2>1 DEF PersistScan, InHand, Running
  <2>4. ScanIsInOnePlace'
    BY <1>1, <2>3 DEF PersistScan, PhoneInv, ScanIsInOnePlace
  <2> QED
    BY <1>1, <2>1, <2>2, <2>4
    DEF PersistScan, PhoneInv, RunIsStarted, ScreenFollowsRun, SavedIsQueued, PairingIsUnderWay
<1>2. CASE EnqueueUpload
  <2>1. Pushed("network_details") \in Seq(Pushable)
    BY PushedType DEF PhoneInv, PhoneTypeOK, Pushable
  <2>2. Settled \in Screen /\ ~Settled.scanning
    BY <1>2, SettledType DEF PhoneInv, ScreenFollowsRun, Settled
  <2>3. PhoneTypeOK'
    BY <1>0, <1>2, <2>1, <2>2, ConstantTypes, ZenonT(40)
    DEF EnqueueUpload, PhoneInv, PhoneTypeOK, Pushable
  <2>4. InHand = {} /\ InHand' = {} /\ Running' = Running
    BY <1>2 DEF EnqueueUpload, InHand, Running, NoRun
  <2>5. ScanIsInOnePlace'
    BY <1>2, <2>4 DEF EnqueueUpload, PhoneInv, ScanIsInOnePlace
  <2> QED
    BY <1>2, <2>2, <2>3, <2>5
    DEF EnqueueUpload, PhoneInv, RunIsStarted, ScreenFollowsRun, SavedIsQueued,
        PairingIsUnderWay, NoRun
<1> QED
  BY <1>1, <1>2 DEF RunStep

LEMMA LeaveQueueKeeps ==
    ASSUME PhoneInv, NEW id \in 1 .. MaxScans, LeaveQueue(id) PROVE PhoneInv'
BY DEF transport, views, tables, phonePast, LeaveQueue, PhoneInv, PhoneTypeOK, RunIsStarted,
       ScanIsInOnePlace, ScreenFollowsRun, SavedIsQueued, PairingIsUnderWay, InHand, Running

-----------------------------------------------------------------------------
(* The session and the app *)

LEMMA ChangeKeeps == ASSUME PhoneInv, SignOut \/ SignIn \/ AppDies PROVE PhoneInv'
<1> USE DEF transport, views, tables, phonePast
<1>1. CASE SignOut
  <2>1. /\ run' \in [at : {"none", "waits", "has", "saved"}, id : 0 .. MaxScans, own : BOOLEAN]
        /\ run'.at = run.at /\ run'.id = run.id /\ ~run'.own
    BY <1>1 DEF SignOut, PhoneInv, PhoneTypeOK
  <2>2. changes' \in 0 .. MaxChanges
    BY <1>1, PhoneConstants DEF SignOut, PhoneInv, PhoneTypeOK
  <2>3. PhoneTypeOK'
    BY <1>1, <2>1, <2>2, ConstantTypes DEF SignOut, PhoneInv, PhoneTypeOK
  <2> QED
    BY <1>1, <2>1, <2>3, ConstantTypes
    DEF SignOut, PhoneInv, RunIsStarted, ScanIsInOnePlace, ScreenFollowsRun, SavedIsQueued,
        PairingIsUnderWay, InHand, Running
<1>2. CASE SignIn
  <2>1. PhoneTypeOK'
    BY <1>2, ConstantTypes DEF SignIn, PhoneInv, PhoneTypeOK
  <2> QED
    BY <1>2, <2>1, ConstantTypes
    DEF SignIn, PhoneInv, RunIsStarted, ScanIsInOnePlace, ScreenFollowsRun, SavedIsQueued,
        PairingIsUnderWay, InHand, Running
<1>3. CASE AppDies
  <2>1. run.at # "none" => run.id \in 1 .. MaxScans
    BY PhoneConstants DEF PhoneInv, RunIsStarted, PhoneTypeOK
  <2>2. lost' = lost \cup results \cup Running \cup InHand
    BY <1>3 DEF AppDies, Running, InHand
  <2>3. Running' = {} /\ InHand' = {}
    BY <1>3 DEF AppDies, Running, InHand, NoScan, NoRun
  <2>4. ScanIsInOnePlace'
    BY <1>3, <2>2, <2>3 DEF AppDies, PhoneInv, ScanIsInOnePlace
  <2>5. Running \subseteq 1 .. MaxScans
    BY DEF PhoneInv, PhoneTypeOK, Running
  <2>6. lost' \subseteq 1 .. MaxScans /\ cut' \subseteq 1 .. MaxScans
    BY <1>3, <2>1, <2>2, <2>5 DEF AppDies, PhoneInv, PhoneTypeOK, InHand
  <2>7. PhoneTypeOK'
    BY <1>3, <2>6, ConstantTypes, PhoneConstants, EmptySeq
    DEF AppDies, PhoneInv, PhoneTypeOK
  <2> QED
    BY <1>3, <2>4, <2>7, ConstantTypes
    DEF AppDies, PhoneInv, RunIsStarted, ScreenFollowsRun, SavedIsQueued, PairingIsUnderWay,
        NoRun, NoScan
<1> QED
  BY <1>1, <1>2, <1>3

-----------------------------------------------------------------------------
(* The theorems *)

LEMMA InitEstablishes == PhoneInit => PhoneInv
<1> SUFFICES ASSUME PhoneInit PROVE PhoneInv
  OBVIOUS
<1>1. PhoneTypeOK
  BY ConstantTypes, PhoneConstants, EmptySeq DEF PhoneInit, PhoneTypeOK
<1> QED
  BY <1>1, ConstantTypes, PhoneConstants
  DEF PhoneInit, PhoneInv, RunIsStarted, ScanIsInOnePlace, ScreenFollowsRun, SavedIsQueued,
      PairingIsUnderWay, InHand, Running, NoRun, NoScan

LEMMA NextKeeps == PhoneInv /\ [PhoneNext]_phoneVars => PhoneInv'
<1>1. ASSUME PhoneInv, PhoneNext PROVE PhoneInv'
  BY <1>1, ViewSteps, PressScanKeeps, TickKeeps, StopScanKeepsInv, RunStepKeeps, LeaveQueueKeeps,
     ChangeKeeps
  DEF PhoneNext, ScreenStep
<1>2. ASSUME PhoneInv, UNCHANGED phoneVars PROVE PhoneInv'
  BY <1>2 DEF phoneVars, transport, views, tables, phonePast, PhoneInv, PhoneTypeOK, RunIsStarted,
     ScanIsInOnePlace, ScreenFollowsRun, SavedIsQueued, PairingIsUnderWay, InHand, Running
<1> QED
  BY <1>1, <1>2

\* The conjunction the theorems below are parts of: in particular a call of runScan is about
\* a scan that was started, and belongs to no screen once the user has signed out.
THEOREM PhoneInvariant == PhoneSpec => []PhoneInv
BY InitEstablishes, NextKeeps, PTL DEF PhoneSpec

\* The transport, the screens and the tables keep their types.
THEOREM PhoneTypeCorrect == PhoneSpec => []PhoneTypeOK
<1>1. PhoneInv => PhoneTypeOK
  BY DEF PhoneInv
<1> QED
  BY <1>1, PhoneInvariant, PTL

\* However ticks, cancellations, sign-outs and deaths of the app (honeypot.ts:218-323) fall, a
\* scan is in exactly one place.
THEOREM ScanIsInOnePlaceHolds == PhoneSpec => []ScanIsInOnePlace
<1>1. PhoneInv => ScanIsInOnePlace
  BY DEF PhoneInv
<1> QED
  BY <1>1, PhoneInvariant, PTL

\* The spinner of the scan screen (scan_screen.tsx:65-121) goes on exactly as long as the call
\* of runScan that this screen made.
THEOREM ScreenFollowsRunHolds == PhoneSpec => []ScreenFollowsRun
<1>1. PhoneInv => ScreenFollowsRun
  BY DEF PhoneInv
<1> QED
  BY <1>1, PhoneInvariant, PTL

\* A scan in the history is queued, or has been, or the app died between the two writes of
\* runScan (scan_manager.ts:49-50).
THEOREM SavedIsQueuedHolds == PhoneSpec => []SavedIsQueued
<1>1. PhoneInv => SavedIsQueued
  BY DEF PhoneInv
<1> QED
  BY <1>1, PhoneInvariant, PTL

\* However modals are closed while they pair (modal.tsx:41-54), PAIRING means that a call of
\* pair() is under way.
THEOREM PairingIsUnderWayHolds == PhoneSpec => []PairingIsUnderWay
<1>1. PhoneInv => PairingIsUnderWay
  BY DEF PhoneInv
<1> QED
  BY <1>1, PhoneInvariant, PTL
=============================================================================
