---------------------------- MODULE ScanService ----------------------------
(***************************************************************************)
(* The scan service of the honeypot: POST /scan starts a thread of its own *)
(* for every scan (honeypot/service/server.py), which associates the one   *)
(* managed interface with the target, starts two capture threads           *)
(* (honeypot/scanner/launcher.py), waits for them with a time-out, and     *)
(* stores what its AlertCollector holds.  The detectors are Python modules *)
(* that keep the collector they report to in a global of the module.       *)
(*                                                                         *)
(* Abstracted: packets and resolved names, of which only the alerts they   *)
(* raise count, a repeated alert counting once; time, so that every wait   *)
(* may end at any point; the WiFi service and wpa_supplicant behind it, of *)
(* which only the network selected and the network associated with are     *)
(* kept.                                                                   *)
(*****************************************************************************)
EXTENDS Naturals

CONSTANTS
    Scans,      \* the scan ids create_scan hands out
    Networks,   \* the networks in range
    Managed,    \* the managed-mode detectors, numbered as they are initialised
    Resolver,   \* the one whose initialisation resolves names (dns_spoofing)
    NoScan,     \* the collector of a detector no scan has initialised
    NoNet       \* the network of an interface that is not associated

ASSUME ScanConstants ==
    /\ Managed \subseteq Nat \ {0}
    /\ Resolver \in Managed
    /\ NoScan \notin Scans
    /\ NoNet \notin Networks

VARIABLES
    record,     \* ScanManager.scans: the record of each scan
    pc,         \* what the thread of each scan (ScanRunner.execute) does next
    target,     \* the network each scan is to analyse
    link,       \* the network the managed interface is associated with
    chosen,     \* the network wpa_supplicant is to associate it with
    collected,  \* the alerts in the AlertCollector of each scan
    owner,      \* _alert_collector of each detector module
    todo,       \* the detectors the managed thread of each scan has to initialise
    capture,    \* the state of the two capture threads of each scan
    pending,    \* the alerts the managed thread of each scan has found and not yet added
    taken,      \* what run_all_scanners read from the collector
    overlap     \* history: a scan was started while another was running

vars == <<record, pc, target, link, chosen, collected, owner, todo, capture, pending,
          taken, overlap>>
service == <<record, pc, target>>
wifi == <<link, chosen>>
threads == <<collected, owner, todo, capture, pending>>

-----------------------------------------------------------------------------
Twin == 0                           \* the evil twin detector, in monitor mode
Detectors == Managed \cup {Twin}

\* What a detector has found on a network; `early` is history: it was found before the
\* capture threads last started were started.
Alert == [detector : Detectors, net : Networks \cup {NoNet}, early : BOOLEAN]
Found(d, n) == [detector |-> d, net |-> n, early |-> FALSE]

Final == {"COMPLETED", "ERROR"}
Status == Final \cup {"none", "INITIALIZING", "CONNECTING", "CONNECTED", "SCANNING"}
Record == [status : Status, alerts : SUBSET Alert, summary : SUBSET Alert]
Place == {"none", "begin", "find", "join", "settle", "launch", "wait",
          "summarise", "release", "store", "fail", "done"}
Capture == {"none", "init", "sniff", "ended"}

NothingTaken == [alerts |-> {}, summary |-> {}]

Running(i) == pc[i] \notin {"none", "done"}

TypeOK ==
    /\ record \in [Scans -> Record]
    /\ pc \in [Scans -> Place]
    /\ target \in [Scans -> Networks \cup {NoNet}]
    /\ link \in Networks \cup {NoNet}
    /\ chosen \in Networks \cup {NoNet}
    /\ collected \in [Scans -> SUBSET Alert]
    /\ owner \in [Detectors -> Scans \cup {NoScan}]
    /\ todo \in [Scans -> SUBSET Managed]
    /\ capture \in [Scans -> [managed : Capture, monitor : Capture]]
    /\ pending \in [Scans -> SUBSET Alert]
    /\ taken \in [Scans -> [alerts : SUBSET Alert, summary : SUBSET Alert]]
    /\ overlap \in BOOLEAN

Init ==
    /\ record = [i \in Scans |-> [status |-> "none", alerts |-> {}, summary |-> {}]]
    /\ pc = [i \in Scans |-> "none"]
    /\ target = [i \in Scans |-> NoNet]
    /\ link = NoNet
    /\ chosen = NoNet
    /\ collected = [i \in Scans |-> {}]
    /\ owner = [d \in Detectors |-> NoScan]
    /\ todo = [i \in Scans |-> {}]
    /\ capture = [i \in Scans |-> [managed |-> "none", monitor |-> "none"]]
    /\ pending = [i \in Scans |-> {}]
    /\ taken = [i \in Scans |-> NothingTaken]
    /\ overlap = FALSE

-----------------------------------------------------------------------------
(* ScanManager and the thread of a scan *)

At(i, from, to) == pc[i] = from /\ pc' = [pc EXCEPT ![i] = to]

UpdateScanStatus(i, status) == record' = [record EXCEPT ![i].status = status]

\* Fault: a status the clients do not know.
CompleteScanFailed(i, status, alerts, summary) ==
    record' = [record EXCEPT ![i] = [status |-> "failed", alerts |-> alerts,
                                     summary |-> summary]]

CompleteScan(i, status, alerts, summary) ==
    record' = [record EXCEPT ![i] = [status |-> status, alerts |-> alerts,
                                     summary |-> summary]]

\* POST /scan: nothing looks whether another scan is running.
StartScan(i, n) ==
    /\ At(i, "none", "begin")
    /\ UpdateScanStatus(i, "INITIALIZING")
    /\ target' = [target EXCEPT ![i] = n]
    /\ overlap' = (overlap \/ \E j \in Scans : Running(j))
    /\ UNCHANGED <<wifi, threads, taken>>

Begin(i) ==
    /\ At(i, "begin", "find")
    /\ UpdateScanStatus(i, "CONNECTING")
    /\ UNCHANGED <<target, wifi, threads, taken, overlap>>

\* scan_networks and get_bss_list: the target is not found, or it needs a password.
FindNothing(i) ==
    /\ At(i, "find", "fail")
    /\ UNCHANGED <<record, target, wifi, threads, taken, overlap>>

\* The errors of disconnect are ignored, here and in Release.  It is refused while the
\* interface is not associated, and what was selected then stays selected.
Disconnect ==
    \/ UNCHANGED wifi
    \/ link # NoNet /\ link' = NoNet /\ chosen' = NoNet

\* The target is found: the interface leaves the network it is associated with.
Leave(i) ==
    /\ At(i, "find", "join")
    /\ Disconnect
    /\ UNCHANGED <<record, target, threads, taken, overlap>>

\* Fault: being associated already is taken for success.
ConnectAlready(i) ==
    /\ At(i, "join", "settle")
    /\ link' = IF link = NoNet THEN target[i] ELSE link
    /\ chosen' = link'
    /\ UNCHANGED <<record, target, threads, taken, overlap>>

\* connect is refused while the interface is associated (ErrAlreadyConnected); else
\* it removes what was selected before.
Connect(i) ==
    /\ At(i, "join", "settle")
    /\ link = NoNet
    /\ link' = target[i]
    /\ chosen' = target[i]
    /\ UNCHANGED <<record, target, threads, taken, overlap>>

\* It raises; as the client's ten seconds end before the service's, the target may
\* have been selected and remain so.
ConnectFails(i) ==
    /\ At(i, "join", "fail")
    /\ \/ chosen' = chosen
       \/ link = NoNet /\ chosen' \in {target[i], NoNet}
    /\ UNCHANGED <<record, target, link, threads, taken, overlap>>

Settle(i) ==
    /\ At(i, "settle", "launch")
    /\ UpdateScanStatus(i, "CONNECTED")
    /\ UNCHANGED <<target, wifi, threads, taken, overlap>>

\* run_all_scanners starts the two capture threads.
Launch(i) ==
    /\ At(i, "launch", "wait")
    /\ UpdateScanStatus(i, "SCANNING")
    /\ todo' = [todo EXCEPT ![i] = Managed]
    /\ capture' = [capture EXCEPT ![i] = [managed |-> "init", monitor |-> "init"]]
    /\ pending' = [j \in Scans |-> {[a EXCEPT !.early = TRUE] : a \in pending[j]}]
    /\ UNCHANGED <<target, wifi, collected, owner, taken, overlap>>

\* The two joins return when the threads end or their time-out has passed; then
\* get_alerts copies the list, and get_summary counts it again.
GetAlerts(i) ==
    /\ At(i, "wait", "summarise")
    /\ taken' = [taken EXCEPT ![i].alerts = collected[i]]
    /\ UNCHANGED <<record, target, wifi, threads, overlap>>

\* Fault: the summary is counted before the list is copied.
GetSummaryFirst(i) ==
    /\ At(i, "summarise", "release")
    /\ taken' = [taken EXCEPT ![i] = [alerts |-> collected[i], summary |-> @.alerts]]
    /\ collected' = [collected EXCEPT ![i] = {}]
    /\ UNCHANGED <<record, target, wifi, owner, todo, capture, pending, overlap>>

GetSummary(i) ==
    /\ At(i, "summarise", "release")
    /\ taken' = [taken EXCEPT ![i].summary = collected[i]]
    /\ collected' = [collected EXCEPT ![i] = {}]
    /\ UNCHANGED <<record, target, wifi, owner, todo, capture, pending, overlap>>

Release(i) ==
    /\ At(i, "release", "store")
    /\ Disconnect
    /\ UNCHANGED <<record, target, threads, taken, overlap>>

StoreResult(i) ==
    /\ At(i, "store", "done")
    /\ CompleteScan(i, "COMPLETED", taken[i].alerts, taken[i].summary)
    /\ taken' = [taken EXCEPT ![i] = NothingTaken]
    /\ UNCHANGED <<target, wifi, threads, overlap>>

\* The exception handler of execute; it does not disconnect.
Fail(i) ==
    /\ At(i, "fail", "done")
    /\ CompleteScan(i, "ERROR", {}, {})
    /\ UNCHANGED <<target, wifi, threads, taken, overlap>>

-----------------------------------------------------------------------------
(* The capture threads: they end on their own, whether or not they were joined *)

\* The next detector is initialised: its module now reports to this scan.
InitDetector(i, d) ==
    /\ capture[i].managed = "init" /\ pending[i] = {}
    /\ d \in todo[i] /\ \A e \in todo[i] : d <= e
    /\ owner' = [owner EXCEPT ![d] = i]
    /\ todo' = [todo EXCEPT ![i] = @ \ {d}]
    /\ UNCHANGED <<service, wifi, collected, capture, pending, taken, overlap>>

\* Once the Resolver is initialised, dnssec_test asks the resolver of the network for a
\* name and compares the answer with DNSSEC, which may take long; it is a finding about
\* the network that was asked, whichever the interface is on when it is reported.
Resolve(i) ==
    /\ capture[i].managed = "init" /\ pending[i] = {}
    /\ Resolver \notin todo[i] /\ \A d \in Managed \ todo[i] : d <= Resolver
    /\ link # NoNet
    /\ pending' = [pending EXCEPT ![i] = {Found(Resolver, link)}]
    /\ UNCHANGED <<service, wifi, collected, owner, todo, capture, taken, overlap>>

\* Any of the initialisations raises, before or after it has set the collector.
InitFails(i) ==
    /\ capture[i].managed = "init"
    /\ capture' = [capture EXCEPT ![i].managed = "ended"]
    /\ pending' = [pending EXCEPT ![i] = {}]
    /\ UNCHANGED <<service, wifi, collected, owner, todo, taken, overlap>>

StartSniff(i) ==
    /\ capture[i].managed = "init" /\ pending[i] = {}
    /\ todo[i] = {}
    /\ capture' = [capture EXCEPT ![i].managed = "sniff"]
    /\ UNCHANGED <<service, wifi, collected, owner, todo, pending, taken, overlap>>

SetAlertCollector(i) ==
    /\ capture[i].monitor = "init"
    /\ owner' = [owner EXCEPT ![Twin] = i]
    /\ capture' = [capture EXCEPT ![i].monitor = "sniff"]
    /\ UNCHANGED <<service, wifi, collected, todo, pending, taken, overlap>>

\* A packet of the associated network that detector d is going to raise an alert for is
\* caught; it waits in the socket, then for the detectors before it.
Catch(i, d) ==
    /\ capture[i].managed = "sniff"
    /\ link # NoNet
    /\ pending' = [pending EXCEPT ![i] = @ \cup {Found(d, link)}]
    /\ UNCHANGED <<service, wifi, collected, owner, todo, capture, taken, overlap>>

\* Once get_summary has read a collector nobody reads it again, and what it holds is
\* no longer kept here.
Closed(c) == pc[c] \in {"release", "store", "done"}

AddAlert(c, alert) ==
    collected' = [collected EXCEPT ![c] = IF Closed(c) THEN {} ELSE @ \cup {alert}]

\* The detector adds its alert to the collector its module has by now.
Report(i, a) ==
    /\ a \in pending[i]
    /\ AddAlert(owner[a.detector], a)
    /\ pending' = [pending EXCEPT ![i] = @ \ {a}]
    /\ UNCHANGED <<service, wifi, owner, todo, capture, taken, overlap>>

\* A frame on the air: the monitor interface is not associated with any network.
DetectEvilTwin(i) ==
    /\ capture[i].monitor = "sniff"
    /\ AddAlert(owner[Twin], Found(Twin, NoNet))
    /\ UNCHANGED <<service, wifi, owner, todo, capture, pending, taken, overlap>>

\* The time is up, or the capture fails: what has been caught and not handled is lost.
EndSniff(i, mode) ==
    /\ capture[i][mode] = "sniff"
    /\ capture' = [capture EXCEPT ![i][mode] = "ended"]
    /\ pending' = IF mode = "managed" THEN [pending EXCEPT ![i] = {}] ELSE pending
    /\ UNCHANGED <<service, wifi, collected, owner, todo, taken, overlap>>

-----------------------------------------------------------------------------
(* wpa_supplicant, and the WiFi service after its client has gone *)

\* The access point goes away and comes back.
LinkLost ==
    /\ link # NoNet
    /\ link' = NoNet
    /\ UNCHANGED <<service, chosen, threads, taken, overlap>>

Associate ==
    /\ link = NoNet
    /\ chosen # NoNet
    /\ link' = chosen
    /\ UNCHANGED <<service, chosen, threads, taken, overlap>>

\* ConnectNetwork gives up on what it had selected.
TimeOut ==
    /\ chosen # NoNet
    /\ link' = NoNet
    /\ chosen' = NoNet
    /\ UNCHANGED <<service, threads, taken, overlap>>

-----------------------------------------------------------------------------
RunnerStep(i) ==
    \/ Begin(i) \/ FindNothing(i) \/ Leave(i) \/ Connect(i) \/ ConnectFails(i)
    \/ Settle(i) \/ Launch(i) \/ GetAlerts(i) \/ GetSummary(i) \/ Release(i)
    \/ StoreResult(i) \/ Fail(i)

CaptureStep(i) ==
    \/ \E d \in Managed : InitDetector(i, d) \/ Catch(i, d)
    \/ \E a \in pending[i] : Report(i, a)
    \/ InitFails(i) \/ Resolve(i) \/ StartSniff(i)
    \/ SetAlertCollector(i) \/ DetectEvilTwin(i)
    \/ \E mode \in {"managed", "monitor"} : EndSniff(i, mode)

Next ==
    \/ \E i \in Scans : \/ RunnerStep(i) \/ CaptureStep(i)
                       \/ \E n \in Networks : StartScan(i, n)
    \/ LinkLost \/ Associate \/ TimeOut

Spec == Init /\ [][Next]_vars

-----------------------------------------------------------------------------
(* Properties *)

\* Every alert a finished scan reports is counted in its summary, although the
\* capture threads may still be adding alerts while the two are read one after the
\* other (launcher.py:98-103).
SummaryCovers ==
    \A i \in Scans : record[i].alerts \subseteq record[i].summary

\* Where the client starts a scan only when the one before has finished, what is found
\* once the capture threads of a scan are started and comes into its result was found on
\* its target, whatever capture threads and associations of earlier scans there are
\* (server.py:116-210).  What was found before and is reported after is excepted: a thread
\* that an earlier scan left behind in dnssec_test, or with a packet in its hands, adds its
\* alert to the collector of the next scan, once that has set it (dns_spoofing.py:84-94).
ResultsOfTarget ==
    ~overlap => \A i \in Scans : \A a \in record[i].alerts :
                    a.detector # Twin /\ ~a.early => a.net = target[i]

\* API.md:639: "the honeypot processes one command at a time"; while a scan is
\* running, "further commands are rejected with the error BUSY".
OneScanAtATime == \A i, j \in Scans : Running(i) /\ Running(j) => i = j

-----------------------------------------------------------------------------
(* What SummaryCovers and ResultsOfTarget rest on *)

\* The list is copied first, so what is counted later has it all.
Covered(i) ==
    /\ pc[i] = "summarise" => taken[i].alerts \subseteq collected[i]
    /\ pc[i] \in {"release", "store"} => taken[i].alerts \subseteq taken[i].summary

\* Until its capture threads start, a scan has no alerts and no detector reports to it.
NotLaunched == {"none", "begin", "find", "join", "settle", "launch", "fail"}

Untouched(i) ==
    pc[i] \in NotLaunched => /\ collected[i] = {}
                             /\ record[i].alerts = {}
                             /\ capture[i] = [managed |-> "none", monitor |-> "none"]
                             /\ \A d \in Detectors : owner[d] # i

\* From its connection to its release a scan that runs alone has the interface.
Attached == {"settle", "launch", "wait", "summarise", "release"}

Holds(i) == pc[i] \in Attached => link \in {target[i], NoNet} /\ chosen \in {target[i], NoNet}

OnTarget(alerts, i) ==
    \A a \in alerts : a.detector # Twin /\ ~a.early => a.net = target[i]

Own(i) ==
    /\ OnTarget(collected[i], i)
    /\ OnTarget(record[i].alerts, i)
    /\ pc[i] \in {"summarise", "release", "store"} => OnTarget(taken[i].alerts, i)

\* While its collector may be read, whatever any thread finds is of the target.
Fresh(i) == pc[i] \in {"wait", "summarise"} => \A j \in Scans : OnTarget(pending[j], i)

SummaryInv == SummaryCovers /\ \A i \in Scans : Covered(i)
UntouchedInv == \A i \in Scans : Untouched(i)
AloneInv == ~overlap => OneScanAtATime /\ \A i \in Scans : Holds(i) /\ Own(i) /\ Fresh(i)
=============================================================================
