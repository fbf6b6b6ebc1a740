------------------------- MODULE ScanServiceProofs -------------------------
(***************************************************************************)
(* Proofs about ScanService, for any set of scans, networks and detectors. *)
(***************************************************************************)
EXTENDS ScanService, TLAPS

-----------------------------------------------------------------------------
(* Type correctness *)

LEMMA StatusType ==
    ASSUME NEW f \in [Scans -> Record], NEW i \in Scans, NEW s \in Status
    PROVE  [f EXCEPT ![i].status = s] \in [Scans -> Record]
BY DEF Record

LEMMA RecordType ==
    ASSUME NEW f \in [Scans -> Record], NEW i \in Scans, NEW s \in Status,
           NEW A \in SUBSET Alert, NEW B \in SUBSET Alert
    PROVE  [f EXCEPT ![i] = [status |-> s, alerts |-> A, summary |-> B]] \in [Scans -> Record]
BY DEF Record

LEMMA PlaceType ==
    ASSUME NEW i, NEW from, NEW to \in Place, pc \in [Scans -> Place], At(i, from, to)
    PROVE  pc' \in [Scans -> Place]
BY DEF At

LEMMA AlertType ==
    ASSUME collected \in [Scans -> SUBSET Alert], NEW c, NEW a \in Alert, AddAlert(c, a)
    PROVE  collected' \in [Scans -> SUBSET Alert]
BY DEF AddAlert

LEMMA CaptureType ==
    ASSUME NEW f \in [Scans -> [managed : Capture, monitor : Capture]],
           NEW i \in Scans, NEW x \in Capture
    PROVE  /\ [f EXCEPT ![i].managed = x] \in [Scans -> [managed : Capture, monitor : Capture]]
           /\ [f EXCEPT ![i].monitor = x] \in [Scans -> [managed : Capture, monitor : Capture]]
OBVIOUS

LEMMA FoundType ==
    ASSUME NEW d \in Managed \cup {Twin, Resolver}, NEW n \in Networks \cup {NoNet}
    PROVE  Found(d, n) \in Alert
BY ScanConstants DEF Found, Alert, Detectors

LEMMA EarlyType == \A a \in Alert : [a EXCEPT !.early = TRUE] \in Alert
BY DEF Alert

\* What a thread has in its hands changes only by what it finds, adds and drops.
LEMMA PendingType ==
    ASSUME NEW f \in [Scans -> SUBSET Alert], NEW i \in Scans, NEW A \in SUBSET Alert
    PROVE  [f EXCEPT ![i] = A] \in [Scans -> SUBSET Alert]
OBVIOUS

LEMMA TakenType ==
    ASSUME NEW f \in [Scans -> [alerts : SUBSET Alert, summary : SUBSET Alert]],
           NEW i \in Scans, NEW S \in SUBSET Alert
    PROVE  /\ [f EXCEPT ![i].alerts = S]
                \in [Scans -> [alerts : SUBSET Alert, summary : SUBSET Alert]]
           /\ [f EXCEPT ![i].summary = S]
                \in [Scans -> [alerts : SUBSET Alert, summary : SUBSET Alert]]
OBVIOUS

LEMMA TypeStep == TypeOK /\ [Next]_vars => TypeOK'
<1> SUFFICES ASSUME TypeOK, [Next]_vars PROVE TypeOK'
  OBVIOUS
<1> USE DEF TypeOK
<1>1. ASSUME NEW i \in Scans, NEW n \in Networks, StartScan(i, n) PROVE TypeOK'
  <2>1. pc' \in [Scans -> Place]
    BY <1>1, PlaceType DEF StartScan, Place
  <2>2. record' \in [Scans -> Record]
    BY <1>1, StatusType DEF StartScan, UpdateScanStatus, Status
  <2> QED
    BY <1>1, <2>1, <2>2 DEF StartScan, wifi, threads
<1>2. ASSUME NEW i \in Scans,
             \/ Begin(i) \/ FindNothing(i) \/ Leave(i) \/ Connect(i) \/ ConnectFails(i)
             \/ Settle(i) \/ Release(i)
      PROVE  TypeOK'
  <2>1. pc' \in [Scans -> Place]
    <3> /\ "find" \in Place /\ "fail" \in Place /\ "join" \in Place /\ "settle" \in Place
        /\ "launch" \in Place /\ "store" \in Place
      BY DEF Place
    <3> QED
      BY <1>2, PlaceType DEF Begin, FindNothing, Leave, Connect, ConnectFails, Settle, Release
  <2>2. record' \in [Scans -> Record]
    <3>1. CASE Begin(i)
      BY <3>1, StatusType DEF Begin, UpdateScanStatus, Status
    <3>3. CASE Settle(i)
      BY <3>3, StatusType DEF Settle, UpdateScanStatus, Status
    <3>2. CASE FindNothing(i) \/ Leave(i) \/ Connect(i) \/ ConnectFails(i) \/ Release(i)
      BY <3>2 DEF FindNothing, Leave, Connect, ConnectFails, Release
    <3> QED
      BY <1>2, <3>1, <3>2, <3>3
  <2>3. link' \in Networks \cup {NoNet} /\ chosen' \in Networks \cup {NoNet}
    BY <1>2 DEF Begin, FindNothing, Leave, Connect, ConnectFails, Settle, Release, wifi, Disconnect
  <2>4. UNCHANGED <<target, collected, owner, todo, capture, pending, taken, overlap>>
    BY <1>2 DEF Begin, FindNothing, Leave, Connect, ConnectFails, Settle, Release, threads
  <2> QED
    BY <2>1, <2>2, <2>3, <2>4
<1>3. ASSUME NEW i \in Scans, Launch(i) PROVE TypeOK'
  <2>1. pc' \in [Scans -> Place]
    BY <1>3, PlaceType DEF Launch, Place
  <2>2. record' \in [Scans -> Record]
    BY <1>3, StatusType DEF Launch, UpdateScanStatus, Status
  <2>3. capture' \in [Scans -> [managed : Capture, monitor : Capture]]
    BY <1>3 DEF Launch, Capture
  <2>4. pending' \in [Scans -> SUBSET Alert]
    BY <1>3, EarlyType DEF Launch
  <2> QED
    BY <1>3, <2>1, <2>2, <2>3, <2>4 DEF Launch, wifi
<1>4. ASSUME NEW i \in Scans, GetAlerts(i) PROVE TypeOK'
  <2>1. pc' \in [Scans -> Place]
    BY <1>4, PlaceType DEF GetAlerts, Place
  <2>2. collected[i] \in SUBSET Alert
    OBVIOUS
  <2>3. taken' \in [Scans -> [alerts : SUBSET Alert, summary : SUBSET Alert]]
    BY <1>4, <2>2, TakenType DEF GetAlerts
  <2> QED
    BY <1>4, <2>1, <2>3 DEF GetAlerts, wifi, threads
<1>5. ASSUME NEW i \in Scans, GetSummary(i) PROVE TypeOK'
  <2>1. pc' \in [Scans -> Place]
    BY <1>5, PlaceType DEF GetSummary, Place
  <2>2. collected[i] \in SUBSET Alert
    OBVIOUS
  <2>3. taken' \in [Scans -> [alerts : SUBSET Alert, summary : SUBSET Alert]]
    BY <1>5, <2>2, TakenType DEF GetSummary
  <2> QED
    BY <1>5, <2>1, <2>3 DEF GetSummary, wifi
<1>6. ASSUME NEW i \in Scans, StoreResult(i) \/ Fail(i) PROVE TypeOK'
  <2>1. pc' \in [Scans -> Place]
    BY <1>6, PlaceType DEF StoreResult, Fail, Place
  <2>2. record' \in [Scans -> Record]
    <3> taken[i].alerts \in SUBSET Alert /\ taken[i].summary \in SUBSET Alert
      OBVIOUS
    <3>1. CASE StoreResult(i)
      BY <3>1, RecordType DEF StoreResult, CompleteScan, Status, Final
    <3>2. CASE Fail(i)
      BY <3>2, RecordType DEF Fail, CompleteScan, Status, Final
    <3> QED
      BY <1>6, <3>1, <3>2
  <2>3. taken' \in [Scans -> [alerts : SUBSET Alert, summary : SUBSET Alert]]
    BY <1>6 DEF StoreResult, Fail, NothingTaken
  <2> QED
    BY <1>6, <2>1, <2>2, <2>3 DEF StoreResult, Fail, wifi, threads
<1>7. ASSUME NEW i \in Scans, NEW d \in Managed, InitDetector(i, d) PROVE TypeOK'
  BY <1>7 DEF InitDetector, service, wifi
<1>8. ASSUME NEW i \in Scans, InitFails(i) \/ StartSniff(i) PROVE TypeOK'
  <2>1. capture' \in [Scans -> [managed : Capture, monitor : Capture]]
    <3>1. CASE InitFails(i)
      BY <3>1, CaptureType DEF InitFails, Capture
    <3>2. CASE StartSniff(i)
      BY <3>2, CaptureType DEF StartSniff, Capture
    <3> QED
      BY <1>8, <3>1, <3>2
  <2>2. pending' \in [Scans -> SUBSET Alert]
    BY <1>8 DEF InitFails, StartSniff
  <2> QED
    BY <1>8, <2>1, <2>2 DEF InitFails, StartSniff, service, wifi
<1>9. ASSUME NEW i \in Scans, SetAlertCollector(i) PROVE TypeOK'
  <2>1. capture' \in [Scans -> [managed : Capture, monitor : Capture]]
    BY <1>9, CaptureType DEF SetAlertCollector, Capture
  <2> QED
    BY <1>9, <2>1 DEF SetAlertCollector, service, wifi, Detectors
<1>10. ASSUME NEW i \in Scans, NEW d \in Managed, Catch(i, d) \/ Resolve(i)
       PROVE  TypeOK'
  <2>1. Found(d, link) \in Alert /\ Found(Resolver, link) \in Alert
    BY FoundType
  <2>2. pending' \in [Scans -> SUBSET Alert]
    <3>1. CASE Catch(i, d)
      BY <2>1, <3>1, PendingType DEF Catch
    <3>2. CASE Resolve(i)
      BY <2>1, <3>2, PendingType DEF Resolve
    <3> QED
      BY <1>10, <3>1, <3>2
  <2> QED
    BY <1>10, <2>2 DEF Catch, Resolve, service, wifi
<1>16. ASSUME NEW i \in Scans, NEW a \in pending[i], Report(i, a) PROVE TypeOK'
  <2>1. a \in Alert
    OBVIOUS
  <2>2. collected' \in [Scans -> SUBSET Alert]
    BY <1>16, <2>1, AlertType DEF Report
  <2>3. pending' \in [Scans -> SUBSET Alert]
    BY <1>16 DEF Report
  <2> QED
    BY <1>16, <2>2, <2>3 DEF Report, service, wifi
<1>17. ASSUME NEW i \in Scans, DetectEvilTwin(i) PROVE TypeOK'
  <2>1. collected' \in [Scans -> SUBSET Alert]
    BY <1>17, FoundType, AlertType DEF DetectEvilTwin
  <2> QED
    BY <1>17, <2>1 DEF DetectEvilTwin, service, wifi
<1>11. ASSUME NEW i \in Scans, NEW mode \in {"managed", "monitor"}, EndSniff(i, mode)
       PROVE  TypeOK'
  <2>1. capture' \in [Scans -> [managed : Capture, monitor : Capture]]
    BY <1>11, CaptureType DEF EndSniff, Capture
  <2>2. pending' \in [Scans -> SUBSET Alert]
    BY <1>11 DEF EndSniff
  <2> QED
    BY <1>11, <2>1, <2>2 DEF EndSniff, service, wifi
<1>12. CASE LinkLost \/ Associate \/ TimeOut
  BY <1>12 DEF LinkLost, Associate, TimeOut, service, threads
<1>13. CASE UNCHANGED vars
  BY <1>13 DEF vars
<1>14. ASSUME NEW i \in Scans, RunnerStep(i) PROVE TypeOK'
  BY <1>14, <1>2, <1>3, <1>4, <1>5, <1>6 DEF RunnerStep
<1>15. ASSUME NEW i \in Scans, CaptureStep(i) PROVE TypeOK'
  BY <1>15, <1>7, <1>8, <1>9, <1>10, <1>11, <1>16, <1>17, ScanConstants DEF CaptureStep
<1> QED
  BY <1>1, <1>12, <1>13, <1>14, <1>15 DEF Next

\* The service, its threads, the collectors and the interface keep their types.
THEOREM ScanTypeCorrect == Spec => []TypeOK
<1>1. Init => TypeOK
  <2> SUFFICES ASSUME Init PROVE TypeOK
    OBVIOUS
  <2>1. record \in [Scans -> Record]
    BY DEF Init, Record, Status
  <2>2. pc \in [Scans -> Place] /\ capture \in [Scans -> [managed : Capture, monitor : Capture]]
    BY DEF Init, Place, Capture
  <2>3. taken \in [Scans -> [alerts : SUBSET Alert, summary : SUBSET Alert]]
    BY DEF Init, NothingTaken
  <2> QED
    BY <2>1, <2>2, <2>3 DEF Init, TypeOK
<1> QED
  BY <1>1, TypeStep, PTL DEF Spec
-----------------------------------------------------------------------------
(* What is stored is what was counted: SummaryInv is inductive *)

\* An alert is only ever added to a collector that get_summary has still to read.
LEMMA AlertGrows ==
    ASSUME TypeOK, NEW i \in Scans, pc[i] = "summarise", NEW c, NEW a, AddAlert(c, a)
    PROVE  collected[i] \subseteq collected'[i]
BY DEF AddAlert, Closed, TypeOK

\* The capture threads and the interface leave the threads of the scans alone.
LEMMA CaptureQuiet ==
    ASSUME TypeOK, NEW j \in Scans,
           CaptureStep(j) \/ LinkLost \/ Associate \/ TimeOut \/ UNCHANGED vars
    PROVE  /\ UNCHANGED <<record, pc, target, taken, overlap>>
           /\ \A i \in Scans : pc[i] = "summarise" => collected[i] \subseteq collected'[i]
<1>1. CASE \E a \in pending[j] : Report(j, a)
  <2> PICK a \in pending[j] : Report(j, a)
    BY <1>1
  <2> QED
    BY AlertGrows DEF Report, service
<1>2. CASE DetectEvilTwin(j)
  BY <1>2, AlertGrows DEF DetectEvilTwin, service
<1>3. CASE \E d \in Managed : InitDetector(j, d) \/ Catch(j, d)
  BY <1>3 DEF InitDetector, Catch, service
<1>4. CASE InitFails(j) \/ Resolve(j) \/ StartSniff(j) \/ SetAlertCollector(j)
           \/ \E mode \in {"managed", "monitor"} : EndSniff(j, mode)
  BY <1>4 DEF InitFails, Resolve, StartSniff, SetAlertCollector, EndSniff, service
<1>5. CASE LinkLost \/ Associate \/ TimeOut \/ UNCHANGED vars
  BY <1>5 DEF LinkLost, Associate, TimeOut, service, threads, vars
<1> QED
  BY <1>1, <1>2, <1>3, <1>4, <1>5 DEF CaptureStep

\* The thread of one scan does not touch another.
LEMMA RunnerLocal ==
    ASSUME TypeOK, NEW j \in Scans,
           RunnerStep(j) \/ \E n \in Networks : StartScan(j, n), NEW i \in Scans, i # j
    PROVE  /\ pc'[i] = pc[i]
           /\ record'[i] = record[i]
           /\ target'[i] = target[i]
           /\ collected'[i] = collected[i]
           /\ taken'[i] = taken[i]
           /\ capture'[i] = capture[i]
           /\ UNCHANGED owner
<1>1. CASE \E n \in Networks : StartScan(j, n)
  BY <1>1 DEF StartScan, At, UpdateScanStatus, threads, TypeOK
<1>2. CASE Begin(j) \/ FindNothing(j) \/ Leave(j) \/ Connect(j) \/ ConnectFails(j) \/ Settle(j)
  BY <1>2 DEF Begin, FindNothing, Leave, Connect, ConnectFails, Settle, At, UpdateScanStatus,
              threads, TypeOK
<1>3. CASE Launch(j) \/ GetAlerts(j) \/ GetSummary(j)
  BY <1>3 DEF Launch, GetAlerts, GetSummary, At, UpdateScanStatus, threads, TypeOK
<1>4. CASE Release(j) \/ StoreResult(j) \/ Fail(j)
  BY <1>4 DEF Release, StoreResult, Fail, At, CompleteScan, threads, TypeOK
<1> QED
  BY <1>1, <1>2, <1>3, <1>4 DEF RunnerStep

LEMMA CoveredStep ==
    ASSUME TypeOK, SummaryInv, NEW j \in Scans,
           RunnerStep(j) \/ \E n \in Networks : StartScan(j, n)
    PROVE  record'[j].alerts \subseteq record'[j].summary /\ Covered(j)'
<1> USE DEF TypeOK, At, Covered
<1>1. Covered(j) /\ record[j].alerts \subseteq record[j].summary /\ record[j] \in Record
  BY DEF SummaryInv, SummaryCovers
<1>2. CASE \E n \in Networks : StartScan(j, n)
  BY <1>1, <1>2 DEF StartScan, UpdateScanStatus, Record
<1>3. CASE Begin(j) \/ FindNothing(j) \/ Leave(j) \/ Connect(j) \/ ConnectFails(j) \/ Settle(j)
  BY <1>1, <1>3 DEF Begin, FindNothing, Leave, Connect, ConnectFails, Settle, UpdateScanStatus,
                    Record
<1>4. CASE Launch(j)
  BY <1>1, <1>4 DEF Launch, UpdateScanStatus, Record
<1>5. CASE GetAlerts(j)
  BY <1>1, <1>5 DEF GetAlerts, threads
<1>6. CASE GetSummary(j)
  BY <1>1, <1>6 DEF GetSummary
<1>7. CASE Release(j)
  BY <1>1, <1>7 DEF Release
<1>8. CASE StoreResult(j)
  BY <1>1, <1>8 DEF StoreResult, CompleteScan
<1>9. CASE Fail(j)
  BY <1>1, <1>9 DEF Fail, CompleteScan
<1> QED
  BY <1>2, <1>3, <1>4, <1>5, <1>6, <1>7, <1>8, <1>9 DEF RunnerStep

LEMMA SummaryStep == TypeOK /\ SummaryInv /\ [Next]_vars => SummaryInv'
<1> SUFFICES ASSUME TypeOK, SummaryInv, [Next]_vars, NEW i \in Scans
             PROVE  record'[i].alerts \subseteq record'[i].summary /\ Covered(i)'
  BY DEF SummaryInv, SummaryCovers
<1>1. record[i].alerts \subseteq record[i].summary /\ Covered(i)
  BY DEF SummaryInv, SummaryCovers
<1>2. ASSUME NEW j \in Scans, RunnerStep(j) \/ \E n \in Networks : StartScan(j, n)
      PROVE  record'[i].alerts \subseteq record'[i].summary /\ Covered(i)'
  <2>1. CASE i = j
    BY <1>2, <2>1, CoveredStep
  <2>2. CASE i # j
    BY <1>1, <1>2, <2>2, RunnerLocal DEF Covered
  <2> QED
    BY <2>1, <2>2
<1>3. ASSUME NEW j \in Scans,
             CaptureStep(j) \/ LinkLost \/ Associate \/ TimeOut \/ UNCHANGED vars
      PROVE  record'[i].alerts \subseteq record'[i].summary /\ Covered(i)'
  BY <1>1, <1>3, CaptureQuiet DEF Covered
<1> QED
  BY <1>2, <1>3 DEF Next

\* A stored summary counts every stored alert, however many scans and capture threads
\* run at once.
THEOREM SummaryCoversHolds == Spec => []SummaryCovers
<1>1. Init => SummaryInv
  BY DEF Init, SummaryInv, SummaryCovers, Covered
<1>2. SummaryInv => SummaryCovers
  BY DEF SummaryInv
<1> QED
  BY <1>1, <1>2, SummaryStep, ScanTypeCorrect, PTL DEF Spec
-----------------------------------------------------------------------------
(* A result is about its target: UntouchedInv and AloneInv are inductive *)

LEMMA UntouchedRunner ==
    ASSUME TypeOK, NEW j \in Scans, Untouched(j),
           RunnerStep(j) \/ \E n \in Networks : StartScan(j, n)
    PROVE  Untouched(j)'
<1> USE DEF TypeOK, At, Untouched, NotLaunched
<1>1. record[j] \in Record
  OBVIOUS
<1>2. CASE \E n \in Networks : StartScan(j, n)
  BY <1>1, <1>2 DEF StartScan, UpdateScanStatus, Record, threads
<1>3. CASE Begin(j) \/ Settle(j)
  <2>1. UNCHANGED <<collected, owner, capture>> /\ pc[j] \in {"begin", "settle"}
    BY <1>3 DEF Begin, Settle, threads
  <2>2. record'[j].alerts = record[j].alerts
    BY <1>1, <1>3 DEF Begin, Settle, UpdateScanStatus, Record
  <2> QED
    BY <2>1, <2>2
<1>4. CASE FindNothing(j) \/ Leave(j) \/ Connect(j) \/ ConnectFails(j)
  BY <1>4 DEF FindNothing, Leave, Connect, ConnectFails, threads
<1>5. CASE Launch(j) \/ GetAlerts(j) \/ GetSummary(j) \/ Release(j) \/ StoreResult(j) \/ Fail(j)
  BY <1>5 DEF Launch, GetAlerts, GetSummary, Release, StoreResult, Fail
<1> QED
  BY <1>2, <1>3, <1>4, <1>5 DEF RunnerStep

\* A capture thread belongs to a scan that was launched, and takes over detectors for
\* that scan only.
LEMMA UntouchedCapture ==
    ASSUME TypeOK, UntouchedInv, NEW j \in Scans, CaptureStep(j), NEW i \in Scans
    PROVE  Untouched(i)'
<1> SUFFICES ASSUME pc[i] \in NotLaunched
             PROVE  /\ collected'[i] = {}
                    /\ capture'[i] = capture[i]
                    /\ \A d \in Detectors : owner'[d] # i
  BY CaptureQuiet DEF Untouched, UntouchedInv
<1>1. /\ collected[i] = {}
      /\ capture[i] = [managed |-> "none", monitor |-> "none"]
      /\ \A d \in Detectors : owner[d] # i
  BY DEF Untouched, UntouchedInv
<1>2. Twin \in Detectors /\ Resolver \in Detectors /\ Managed \subseteq Detectors
  BY ScanConstants DEF Detectors
<1> USE DEF TypeOK
<1>3. ASSUME NEW d \in Managed, InitDetector(j, d)
      PROVE  collected'[i] = {} /\ capture'[i] = capture[i] /\ \A e \in Detectors : owner'[e] # i
  BY <1>1, <1>2, <1>3 DEF InitDetector
<1>4. ASSUME NEW a \in pending[j], Report(j, a)
      PROVE  collected'[i] = {} /\ capture'[i] = capture[i] /\ \A e \in Detectors : owner'[e] # i
  <2>1. owner[a.detector] # i
    BY <1>1 DEF Alert
  <2> QED
    BY <1>1, <1>4, <2>1 DEF Report, AddAlert
<1>5. CASE DetectEvilTwin(j)
  BY <1>1, <1>2, <1>5 DEF DetectEvilTwin, AddAlert
<1>6. CASE InitFails(j) \/ Resolve(j) \/ StartSniff(j) \/ \E d \in Managed : Catch(j, d)
  BY <1>1, <1>6 DEF InitFails, Resolve, StartSniff, Catch
<1>7. CASE SetAlertCollector(j)
  BY <1>1, <1>2, <1>7 DEF SetAlertCollector
<1>8. CASE \E mode \in {"managed", "monitor"} : EndSniff(j, mode)
  BY <1>1, <1>8 DEF EndSniff
<1> QED
  BY <1>3, <1>4, <1>5, <1>6, <1>7, <1>8 DEF CaptureStep

LEMMA UntouchedStep == TypeOK /\ UntouchedInv /\ [Next]_vars => UntouchedInv'
<1> SUFFICES ASSUME TypeOK, UntouchedInv, [Next]_vars, NEW i \in Scans PROVE Untouched(i)'
  BY DEF UntouchedInv
<1>1. Untouched(i)
  BY DEF UntouchedInv
<1>2. ASSUME NEW j \in Scans, RunnerStep(j) \/ \E n \in Networks : StartScan(j, n)
      PROVE  Untouched(i)'
  <2>1. CASE i = j
    BY <1>1, <1>2, <2>1, UntouchedRunner
  <2>2. CASE i # j
    BY <1>1, <1>2, <2>2, RunnerLocal DEF Untouched
  <2> QED
    BY <2>1, <2>2
<1>3. ASSUME NEW j \in Scans, CaptureStep(j) PROVE Untouched(i)'
  BY <1>3, UntouchedCapture
<1>4. CASE LinkLost \/ Associate \/ TimeOut \/ UNCHANGED vars
  BY <1>1, <1>4 DEF LinkLost, Associate, TimeOut, service, threads, vars, Untouched
<1> QED
  BY <1>2, <1>3, <1>4 DEF Next

\* A scan is started alone, and no other starts while it runs.
LEMMA AloneStart ==
    ASSUME TypeOK, NEW j \in Scans,
           RunnerStep(j) \/ \E n \in Networks : StartScan(j, n), ~overlap'
    PROVE  /\ ~overlap
           /\ RunnerStep(j) => Running(j)
           /\ \A n \in Networks : StartScan(j, n) => \A i \in Scans : ~Running(i)
<1>1. CASE \E n \in Networks : StartScan(j, n)
  <2>1. ASSUME NEW n \in Networks, StartScan(j, n)
        PROVE  ~overlap /\ \A i \in Scans : ~Running(i)
    BY <2>1 DEF StartScan
  <2>2. pc[j] = "none"
    BY <1>1 DEF StartScan, At
  <2>3. ~RunnerStep(j)
    BY <2>2 DEF RunnerStep, Begin, FindNothing, Leave, Connect, ConnectFails, Settle, Launch,
                GetAlerts, GetSummary, Release, StoreResult, Fail, At
  <2> QED
    BY <1>1, <2>1, <2>3
<1>2. CASE RunnerStep(j)
  <2>1. pc[j] # "none" /\ pc[j] # "done"
    BY <1>2 DEF RunnerStep, Begin, FindNothing, Leave, Connect, ConnectFails, Settle, Launch,
                GetAlerts, GetSummary, Release, StoreResult, Fail, At
  <2>2. overlap' = overlap
    BY <1>2 DEF RunnerStep, Begin, FindNothing, Leave, Connect, ConnectFails, Settle, Launch,
                GetAlerts, GetSummary, Release, StoreResult, Fail
  <2>3. \A n \in Networks : ~StartScan(j, n)
    BY <2>1 DEF StartScan, At
  <2> QED
    BY <2>1, <2>2, <2>3 DEF Running
<1> QED
  BY <1>1, <1>2

LEMMA HoldsStep ==
    ASSUME TypeOK, NEW j \in Scans, Holds(j),
           RunnerStep(j) \/ \E n \in Networks : StartScan(j, n)
    PROVE  Holds(j)'
<1> USE DEF TypeOK, At, Holds, Attached
<1>1. CASE \E n \in Networks : StartScan(j, n)
  BY <1>1 DEF StartScan
<1>2. CASE Begin(j) \/ FindNothing(j) \/ Leave(j) \/ ConnectFails(j)
  BY <1>2 DEF Begin, FindNothing, Leave, ConnectFails
<1>3. CASE Connect(j)
  BY <1>3 DEF Connect
<1>4. CASE Settle(j) \/ Launch(j) \/ GetAlerts(j) \/ GetSummary(j)
  BY <1>4 DEF Settle, Launch, GetAlerts, GetSummary, wifi
<1>5. CASE Release(j) \/ StoreResult(j) \/ Fail(j)
  BY <1>5 DEF Release, StoreResult, Fail
<1> QED
  BY <1>1, <1>2, <1>3, <1>4, <1>5 DEF RunnerStep

LEMMA OwnRunner ==
    ASSUME TypeOK, NEW j \in Scans, Untouched(j), Own(j),
           RunnerStep(j) \/ \E n \in Networks : StartScan(j, n)
    PROVE  Own(j)'
<1> USE DEF TypeOK, At, Own, OnTarget
<1>1. record[j] \in Record
  OBVIOUS
<1>2. CASE \E n \in Networks : StartScan(j, n)
  BY <1>1, <1>2 DEF StartScan, UpdateScanStatus, Record, threads, Untouched, NotLaunched
<1>3. CASE Begin(j) \/ Settle(j)
  BY <1>1, <1>3 DEF Begin, Settle, UpdateScanStatus, Record, threads
<1>4. CASE FindNothing(j) \/ Leave(j) \/ Connect(j) \/ ConnectFails(j)
  BY <1>4 DEF FindNothing, Leave, Connect, ConnectFails, threads
<1>5. CASE Launch(j)
  BY <1>1, <1>5 DEF Launch, UpdateScanStatus, Record
<1>6. CASE GetAlerts(j)
  BY <1>6 DEF GetAlerts, threads
<1>7. CASE GetSummary(j)
  BY <1>7 DEF GetSummary
<1>8. CASE Release(j)
  BY <1>8 DEF Release, threads
<1>9. CASE StoreResult(j)
  BY <1>9 DEF StoreResult, CompleteScan, threads
<1>10. CASE Fail(j)
  BY <1>10 DEF Fail, CompleteScan, threads
<1> QED
  BY <1>2, <1>3, <1>4, <1>5, <1>6, <1>7, <1>8, <1>9, <1>10 DEF RunnerStep

\* Launching the capture threads marks what has been found before.
LEMMA FreshRunner ==
    ASSUME TypeOK, NEW j \in Scans, Fresh(j),
           RunnerStep(j) \/ \E n \in Networks : StartScan(j, n)
    PROVE  Fresh(j)'
<1> USE DEF TypeOK, At, Fresh
<1>1. CASE \E n \in Networks : StartScan(j, n)
  BY <1>1 DEF StartScan
<1>2. CASE Launch(j)
  <2>1. \A k \in Scans : \A a \in pending'[k] : a.early
    BY <1>2 DEF Launch, Alert
  <2> QED
    BY <2>1 DEF OnTarget
<1>3. CASE GetAlerts(j)
  BY <1>3 DEF GetAlerts, threads, OnTarget
<1>4. CASE Begin(j) \/ FindNothing(j) \/ Leave(j) \/ Connect(j) \/ ConnectFails(j) \/ Settle(j)
  BY <1>4 DEF Begin, FindNothing, Leave, Connect, ConnectFails, Settle
<1>5. CASE GetSummary(j) \/ Release(j) \/ StoreResult(j) \/ Fail(j)
  BY <1>5 DEF GetSummary, Release, StoreResult, Fail
<1> QED
  BY <1>1, <1>2, <1>3, <1>4, <1>5 DEF RunnerStep

\* What a thread has in its hands is what it had, or was found over the link of now.
LEMMA PendingGrows ==
    ASSUME TypeOK, NEW j \in Scans, CaptureStep(j), NEW k \in Scans, NEW a \in pending'[k]
    PROVE  a \in pending[k] \/ (link # NoNet /\ \E d \in Managed : a = Found(d, link))
<1> USE DEF TypeOK
<1>1. CASE \E d \in Managed : Catch(j, d)
  BY <1>1 DEF Catch
<1>2. CASE Resolve(j)
  BY <1>2, ScanConstants DEF Resolve
<1>3. CASE \E b \in pending[j] : Report(j, b)
  BY <1>3 DEF Report
<1>4. CASE InitFails(j) \/ \E mode \in {"managed", "monitor"} : EndSniff(j, mode)
  BY <1>4 DEF InitFails, EndSniff
<1>5. CASE StartSniff(j) \/ SetAlertCollector(j) \/ DetectEvilTwin(j)
           \/ \E d \in Managed : InitDetector(j, d)
  BY <1>5 DEF StartSniff, SetAlertCollector, DetectEvilTwin, InitDetector
<1> QED
  BY <1>1, <1>2, <1>3, <1>4, <1>5 DEF CaptureStep

LEMMA FreshCapture ==
    ASSUME TypeOK, NEW i \in Scans, Holds(i), Fresh(i), NEW j \in Scans, CaptureStep(j)
    PROVE  Fresh(i)'
<1>1. SUFFICES ASSUME pc[i] \in {"wait", "summarise"}, NEW k \in Scans, NEW a \in pending'[k],
                      a.detector # Twin, ~a.early
               PROVE  a.net = target[i]
  BY CaptureQuiet DEF Fresh, OnTarget
<1>2. link \in {target[i], NoNet}
  BY <1>1 DEF Holds, Attached
<1>3. CASE a \in pending[k]
  BY <1>1, <1>3 DEF Fresh, OnTarget
<1>4. CASE link # NoNet /\ \E d \in Managed : a = Found(d, link)
  BY <1>2, <1>4 DEF Found
<1> QED
  BY <1>3, <1>4, PendingGrows

\* An alert a thread adds is kept only by the scan that is running, and is then of the
\* target of that scan or marked.
LEMMA OwnAlert ==
    ASSUME TypeOK, UntouchedInv, NEW i \in Scans, Own(i), Fresh(i),
           NEW j \in Scans, NEW a \in pending[j], AddAlert(owner[a.detector], a)
    PROVE  OnTarget(collected'[i], i)
<1> USE DEF TypeOK
<1>1. CASE owner[a.detector] # i
  BY <1>1 DEF AddAlert, Own
<1>2. CASE owner[a.detector] = i /\ Closed(i)
  BY <1>2 DEF AddAlert, OnTarget
<1>3. CASE owner[a.detector] = i /\ ~Closed(i)
  <2>1. a.detector \in Detectors
    BY DEF Alert
  <2>2. pc[i] \notin NotLaunched
    BY <1>3, <2>1 DEF UntouchedInv, Untouched
  <2>3. pc[i] \in {"wait", "summarise"}
    BY <1>3, <2>2 DEF Place, NotLaunched, Closed
  <2>4. a.detector # Twin /\ ~a.early => a.net = target[i]
    BY <2>3 DEF Fresh, OnTarget
  <2>5. collected'[i] = collected[i] \cup {a}
    BY <1>3 DEF AddAlert
  <2> QED
    BY <2>4, <2>5 DEF Own, OnTarget
<1> QED
  BY <1>1, <1>2, <1>3

LEMMA OwnCapture ==
    ASSUME TypeOK, UntouchedInv, NEW i \in Scans, Own(i), Fresh(i),
           NEW j \in Scans, CaptureStep(j)
    PROVE  Own(i)'
<1> SUFFICES OnTarget(collected'[i], i)
  BY CaptureQuiet DEF Own, OnTarget
<1>1. ASSUME NEW a \in pending[j], Report(j, a) PROVE OnTarget(collected'[i], i)
  BY <1>1, OwnAlert DEF Report
<1>2. CASE DetectEvilTwin(j)
  BY <1>2 DEF DetectEvilTwin, AddAlert, Found, Own, OnTarget, TypeOK
<1>3. CASE collected' = collected
  BY <1>3 DEF Own
<1>4. CASE \E d \in Managed : InitDetector(j, d) \/ Catch(j, d)
  BY <1>3, <1>4 DEF InitDetector, Catch
<1>5. CASE InitFails(j) \/ Resolve(j) \/ StartSniff(j) \/ SetAlertCollector(j)
           \/ \E mode \in {"managed", "monitor"} : EndSniff(j, mode)
  BY <1>3, <1>5 DEF InitFails, Resolve, StartSniff, SetAlertCollector, EndSniff
<1> QED
  BY <1>1, <1>2, <1>4, <1>5 DEF CaptureStep

LEMMA AloneStep == TypeOK /\ UntouchedInv /\ AloneInv /\ [Next]_vars => AloneInv'
<1> SUFFICES ASSUME TypeOK, UntouchedInv, AloneInv, [Next]_vars, ~overlap'
             PROVE  OneScanAtATime' /\ \A i \in Scans : Holds(i)' /\ Own(i)' /\ Fresh(i)'
  BY DEF AloneInv
<1>1. ASSUME NEW j \in Scans, RunnerStep(j) \/ \E n \in Networks : StartScan(j, n)
      PROVE  OneScanAtATime' /\ \A i \in Scans : Holds(i)' /\ Own(i)' /\ Fresh(i)'
  <2>1. OneScanAtATime /\ \A i \in Scans : Holds(i) /\ Own(i) /\ Fresh(i) /\ Untouched(i)
    BY <1>1, AloneStart DEF AloneInv, UntouchedInv
  <2>2. \A i \in Scans \ {j} : ~Running(i)
    BY <1>1, <2>1, AloneStart DEF OneScanAtATime
  <2>3. \A i \in Scans \ {j} : pc'[i] = pc[i] /\ ~Running(i)'
    BY <1>1, <2>2, RunnerLocal DEF Running
  <2>4. OneScanAtATime'
    BY <2>3 DEF OneScanAtATime
  <2>5. \A i \in Scans \ {j} : Holds(i)' /\ Fresh(i)'
    BY <2>2, <2>3 DEF Running, Holds, Attached, Fresh
  <2>6. \A i \in Scans \ {j} : Own(i)'
    BY <1>1, <2>1, RunnerLocal DEF Own, OnTarget
  <2>7. Holds(j)' /\ Own(j)' /\ Fresh(j)'
    BY <1>1, <2>1, HoldsStep, OwnRunner, FreshRunner
  <2> QED
    BY <2>4, <2>5, <2>6, <2>7
<1>2. ASSUME NEW j \in Scans, CaptureStep(j)
      PROVE  OneScanAtATime' /\ \A i \in Scans : Holds(i)' /\ Own(i)' /\ Fresh(i)'
  <2>1. UNCHANGED <<record, pc, target, taken, overlap>>
    BY <1>2, CaptureQuiet
  <2>2. UNCHANGED wifi
    BY <1>2 DEF CaptureStep, InitDetector, Resolve, InitFails, StartSniff, SetAlertCollector,
                Catch, Report, DetectEvilTwin, EndSniff
  <2>3. OneScanAtATime /\ \A i \in Scans : Holds(i) /\ Own(i) /\ Fresh(i)
    BY <2>1 DEF AloneInv
  <2>4. \A i \in Scans : Own(i)' /\ Fresh(i)'
    BY <1>2, <2>3, OwnCapture, FreshCapture
  <2>5. OneScanAtATime' /\ \A i \in Scans : Holds(i)'
    BY <2>1, <2>2, <2>3 DEF OneScanAtATime, Running, Holds, wifi
  <2> QED
    BY <2>4, <2>5
<1>3. CASE LinkLost \/ Associate \/ TimeOut \/ UNCHANGED vars
  <2>1. UNCHANGED <<record, pc, target, collected, pending, taken, overlap>>
    BY <1>3 DEF LinkLost, Associate, TimeOut, service, threads, vars
  <2>2. OneScanAtATime /\ \A i \in Scans : Holds(i) /\ Own(i) /\ Fresh(i)
    BY <2>1 DEF AloneInv
  <2>3. \A i \in Scans : Holds(i)'
    BY <1>3, <2>1, <2>2 DEF Holds, LinkLost, Associate, TimeOut, vars
  <2>4. OneScanAtATime' /\ \A i \in Scans : Own(i)' /\ Fresh(i)'
    BY <2>1, <2>2 DEF OneScanAtATime, Running, Own, Fresh, OnTarget
  <2> QED
    BY <2>3, <2>4
<1> QED
  BY <1>1, <1>2, <1>3 DEF Next

\* Where scans do not overlap, whatever capture threads and associations outlive their
\* scan: what is found once a scan's capture threads have been started, by them or by older
\* ones, and comes into its result was found on its target.
THEOREM ResultsOfTargetHolds == Spec => []ResultsOfTarget
<1>1. Init => UntouchedInv
  <2> SUFFICES ASSUME Init, NEW i \in Scans
               PROVE  Untouched(i)
    BY DEF UntouchedInv
  <2>1. collected[i] = {} /\ record[i].alerts = {}
    BY DEF Init
  <2>2. capture[i] = [managed |-> "none", monitor |-> "none"]
    BY DEF Init
  <2>3. \A d \in Detectors : owner[d] # i
    BY ScanConstants DEF Init
  <2> QED
    BY <2>1, <2>2, <2>3 DEF Untouched
<1>2. Init => AloneInv
  BY DEF Init, AloneInv, OneScanAtATime, Running, Holds, Attached, Own, Fresh, OnTarget
<1>3. AloneInv => ResultsOfTarget
  BY DEF AloneInv, Own, OnTarget, ResultsOfTarget
<1> QED
  BY <1>1, <1>2, <1>3, UntouchedStep, AloneStep, ScanTypeCorrect, PTL DEF Spec
=============================================================================
