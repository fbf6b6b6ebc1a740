------------------------------ MODULE PhoneScan ------------------------------
(***************************************************************************)
(* The phone's own scans: the honeypot transport (services/honeypot.ts,    *)
(* the mock that the app ships with), runScan (services/scan_manager.ts)   *)
(* and the screens that start them, pair and disconnect.                   *)
(*                                                                         *)
(* JavaScript runs to completion: an action is all that happens between    *)
(* two timers or touches, promise continuations included.  The one thing   *)
(* that can cut it short is the death of the app, so the two writes to     *)
(* SQLite that follow a scan are actions of their own, and `Quiet` keeps   *)
(* everything but a death from coming between them.                        *)
(*                                                                         *)
(* Abstracted: percentages within one state of a scan; the findings of a   *)
(* scan; ping() and listNetworks(), which never fail in the mock; the      *)
(* codes of six digits, all of which the mock accepts; the other tabs.     *)
(***************************************************************************)
EXTENDS Integers, Sequences

CONSTANTS
    Networks,     \* the networks that listNetworks() finds
    MaxScans,     \* bound: the scans started
    MaxPairs,     \* bound: the times Pair is pressed
    MaxChanges    \* bound: sign-outs and deaths of the app

ASSUME PhoneConstants ==
    MaxScans \in Nat /\ MaxPairs \in Nat /\ MaxChanges \in Nat

VARIABLES
    link,         \* MockHoneypotTransport._state
    active,       \* activeScan: [id, net, state]; id 0 when there is none
    results,      \* completedResults
    run,          \* the call of runScan: [at, id, own], own while its screen is mounted
    screen,       \* ScanScreen: list, selected, scanning, progress, online
    modal,        \* PairHoneypotModal: [step, found]
    pairs,        \* the calls of pair() under way: whether their modal is still there
    stack,        \* what the router has put over the tabs
    signedIn,     \* AuthProvider
    history,      \* the table scans
    queue,        \* the table upload_queue
    started,      \* history: how many scans have been started
    lost, cut,    \* history: the scans that died with the app, and that it saved and no more
    handled,      \* history: the scans that have left the queue, uploaded or removed
    failed,       \* history: the scans that ended as "Scan failed"
    paired, changes

transport == <<link, active, results, pairs>>
views == <<screen, modal, stack, signedIn>>
tables == <<history, queue>>
phonePast == <<started, lost, cut, handled, failed, paired, changes>>
phoneVars == <<transport, run, views, tables, phonePast>>

-----------------------------------------------------------------------------
NoScan == [id |-> 0, net |-> 0, state |-> 0]
NoRun == [at |-> "none", id |-> 0, own |-> FALSE]
NoModal == [step |-> "closed", found |-> FALSE]

\* INITIALIZING, CONNECTING, SCANNING, ANALYZING and COMPLETED.
States == 0 .. 4
Completed == 4

\* ScanScreen as it is mounted: the effects ask the device and list the networks.
Ping(s) == [s EXCEPT !.online = TRUE]
Mounted == Ping([list |-> "coming", selected |-> 0, scanning |-> FALSE, progress |-> 0,
                 online |-> FALSE])
Unmounted == [list |-> "none", selected |-> 0, scanning |-> FALSE, progress |-> 0,
              online |-> FALSE]

Screen == [list : {"none", "coming", "shown"}, selected : Networks \cup {0},
           scanning : BOOLEAN, progress : States, online : BOOLEAN]

PhoneTypeOK ==
    /\ link \in {"DISCONNECTED", "PAIRING", "CONNECTED"}
    /\ active \in [id : 0 .. MaxScans, net : Networks \cup {0}, state : States]
    /\ results \subseteq 1 .. MaxScans
    /\ run \in [at : {"none", "waits", "has", "saved"}, id : 0 .. MaxScans, own : BOOLEAN]
    /\ screen \in Screen
    /\ modal \in [step : {"closed", "discover", "enter-code", "pairing"}, found : BOOLEAN]
    /\ pairs \in Seq(BOOLEAN)
    /\ stack \in Seq({"settings_device", "modal", "network_details"})
    /\ signedIn \in BOOLEAN
    /\ history \subseteq 1 .. MaxScans /\ queue \subseteq 1 .. MaxScans
    /\ started \in 0 .. MaxScans
    /\ {lost, cut, handled, failed} \subseteq SUBSET (1 .. MaxScans)
    /\ paired \in 0 .. MaxPairs /\ changes \in 0 .. MaxChanges

PhoneInit ==
    /\ link = "DISCONNECTED" /\ active = NoScan /\ results = {} /\ pairs = <<>>
    /\ run = NoRun
    /\ signedIn \in BOOLEAN
    /\ screen = IF signedIn THEN Mounted ELSE Unmounted
    /\ modal = NoModal /\ stack = <<>>
    /\ history = {} /\ queue = {}
    /\ started = 0 /\ lost = {} /\ cut = {} /\ handled = {} /\ failed = {}
    /\ paired = 0 /\ changes = 0

\* No turn of JavaScript has stopped half way.
Quiet == run.at \in {"none", "waits"}

Top == IF stack = <<>> THEN "tabs" ELSE stack[Len(stack)]
Pushed(view) == Append(stack, view)

\* The top of the stack goes; a modal takes its state with it, and not its call of pair().
Pop ==
    /\ stack' = IF stack = <<>> THEN <<>> ELSE SubSeq(stack, 1, Len(stack) - 1)
    /\ modal' = IF Top = "modal" THEN NoModal ELSE modal

Orphaned(calls) == [k \in DOMAIN calls |-> FALSE]

-----------------------------------------------------------------------------
(* The scan screen *)

ListArrives ==
    /\ Quiet /\ screen.list = "coming"
    /\ screen' = [screen EXCEPT !.list = "shown"]
    /\ UNCHANGED <<transport, run, modal, stack, signedIn, tables, phonePast>>

SelectNetwork(n) ==
    /\ Quiet /\ Top = "tabs"
    /\ screen.list = "shown" /\ screen.selected # n
    /\ screen' = [screen EXCEPT !.selected = n]
    /\ UNCHANGED <<transport, run, modal, stack, signedIn, tables, phonePast>>

\* The end of handleScan, in the screen that called it.
Settled == IF run.own THEN [screen EXCEPT !.scanning = FALSE, !.progress = 0] ELSE screen

\* startScan, and the subscription of runScan; BUSY when a scan runs, which ends it all.
StartScan ==
    /\ IF active.id # 0 THEN UNCHANGED <<active, run, screen, started>>
       ELSE /\ started < MaxScans
            /\ started' = started + 1
            /\ active' = [id |-> started + 1, net |-> screen.selected, state |-> 0]
            /\ run' = [at |-> "waits", id |-> started + 1, own |-> TRUE]
            /\ screen' = [screen EXCEPT !.scanning = TRUE, !.progress = 0]

\* Fault: the button is not disabled while a scan runs, and the end of the second call of
\* handleScan, which is BUSY, takes the spinner from the first.
PressScanAgain ==
    /\ Quiet /\ signedIn /\ Top = "tabs" /\ screen.selected # 0
    /\ IF active.id # 0
       THEN screen' = [screen EXCEPT !.scanning = FALSE] /\ UNCHANGED <<active, run, started>>
       ELSE StartScan
    /\ UNCHANGED <<link, results, pairs, modal, stack, signedIn, tables, lost, cut, handled,
                   failed, paired, changes>>

PressScan ==
    /\ Quiet /\ signedIn /\ Top = "tabs"
    /\ screen.selected # 0 /\ ~screen.scanning /\ screen.online
    /\ StartScan
    /\ UNCHANGED <<link, results, pairs, modal, stack, signedIn, tables, lost, cut, handled,
                   failed, paired, changes>>

-----------------------------------------------------------------------------
(* The transport's scan *)

\* What runScan does when it hears COMPLETED, with the results that there are by then: it
\* unsubscribes, and getResult takes the result or throws SCAN_NOT_FOUND.
HearCompleted(kept) ==
    IF run.id \in kept
    THEN run' = [run EXCEPT !.at = "has"] /\ UNCHANGED <<screen, failed>>
    ELSE run' = NoRun /\ screen' = Settled /\ failed' = failed \cup {run.id}

\* Fault: the percentage is not capped, and only 100 is the end of a scan.
TickUncapped ==
    /\ Quiet /\ active.id # 0
    /\ \E s \in 0 .. Completed + 1 :
          /\ s > active.state
          /\ IF s = Completed
             THEN /\ HearCompleted(results)
                  /\ results' = results \cup {active.id} /\ active' = NoScan
             ELSE /\ active' = [active EXCEPT !.state = s]
                  /\ screen' = IF run.own THEN [screen EXCEPT !.progress = s] ELSE screen
                  /\ UNCHANGED <<results, run, failed>>
    /\ UNCHANGED <<link, pairs, modal, stack, signedIn, tables, started, lost, cut, handled,
                   paired, changes>>

\* A tick, after which the state is another; several go by while the app is suspended.  The
\* last one tells the listeners before finishScan keeps the result.
Tick ==
    /\ Quiet /\ active.id # 0
    /\ \E s \in States :
          /\ s > active.state
          /\ IF s = Completed
             THEN /\ HearCompleted(results)
                  /\ results' = results \cup {active.id}
                  /\ active' = NoScan
             ELSE /\ active' = [active EXCEPT !.state = s]
                  /\ screen' = IF run.own THEN [screen EXCEPT !.progress = s] ELSE screen
                  /\ UNCHANGED <<results, run, failed>>
    /\ UNCHANGED <<link, pairs, modal, stack, signedIn, tables, started, lost, cut, handled,
                   paired, changes>>

\* Fault: getResult reads the result and leaves it where it is.
StopScanKeeps ==
    /\ Quiet /\ active.id # 0
    /\ HearCompleted({active.id})
    /\ results' = results \cup {active.id} /\ active' = NoScan
    /\ UNCHANGED <<link, pairs, modal, stack, signedIn, tables, started, lost, cut, handled,
                   paired, changes>>

\* cancelScan: finishScan keeps the result and tells the listeners, who take it.
StopScan ==
    /\ Quiet /\ active.id # 0
    /\ HearCompleted(results \cup {active.id})
    /\ results' = (results \cup {active.id}) \ {run.id}
    /\ active' = NoScan
    /\ UNCHANGED <<link, pairs, modal, stack, signedIn, tables, started, lost, cut, handled,
                   paired, changes>>

PersistScan ==
    /\ run.at = "has"
    /\ history' = history \cup {run.id}
    /\ run' = [run EXCEPT !.at = "saved"]
    /\ UNCHANGED <<transport, views, queue, phonePast>>

\* Fault: only a screen that is still there queues the scan.
EnqueueIfMounted ==
    /\ run.at = "saved"
    /\ queue' = IF run.own THEN queue \cup {run.id} ELSE queue
    /\ run' = NoRun
    /\ screen' = Settled
    /\ stack' = IF signedIn THEN Pushed("network_details") ELSE stack
    /\ UNCHANGED <<transport, modal, signedIn, history, phonePast>>

\* enqueueUpload, and the end of handleScan: whoever is signed in is shown the scan.
EnqueueUpload ==
    /\ run.at = "saved"
    /\ queue' = queue \cup {run.id}
    /\ run' = NoRun
    /\ screen' = Settled
    /\ stack' = IF signedIn THEN Pushed("network_details") ELSE stack
    /\ UNCHANGED <<transport, modal, signedIn, history, phonePast>>

\* The row of a scan that has been uploaded goes, or the user removes it.
LeaveQueue(id) ==
    /\ Quiet /\ id \in queue
    /\ queue' = queue \ {id} /\ handled' = handled \cup {id}
    /\ UNCHANGED <<transport, run, views, history, started, lost, cut, failed, paired, changes>>

-----------------------------------------------------------------------------
(* Pairing, the device's settings and the router *)

OpenModal ==
    /\ Quiet /\ signedIn /\ Top \in {"tabs", "settings_device"}
    /\ stack' = Pushed("modal")
    /\ modal' = [step |-> "discover", found |-> FALSE]
    /\ UNCHANGED <<transport, run, screen, signedIn, tables, phonePast>>

DevicesArrive ==
    /\ Quiet /\ modal.step # "closed" /\ ~modal.found
    /\ modal' = [modal EXCEPT !.found = TRUE]
    /\ UNCHANGED <<transport, run, screen, stack, signedIn, tables, phonePast>>

ChooseDevice ==
    /\ Quiet /\ Top = "modal" /\ modal.step = "discover" /\ modal.found
    /\ modal' = [modal EXCEPT !.step = "enter-code"]
    /\ UNCHANGED <<transport, run, screen, stack, signedIn, tables, phonePast>>

PressPair ==
    /\ Quiet /\ Top = "modal" /\ modal.step = "enter-code" /\ paired < MaxPairs
    /\ paired' = paired + 1
    /\ modal' = [modal EXCEPT !.step = "pairing"]
    /\ pairs' = Append(pairs, TRUE)
    /\ link' = "PAIRING"
    /\ screen' = IF screen.list = "none" THEN screen ELSE Ping(screen)
    /\ UNCHANGED <<active, results, run, stack, signedIn, tables, started, lost, cut, handled,
                   failed, changes>>

\* Fault: the state of the link is set by the modal, while it is there.
PairEndsQuietly ==
    /\ Quiet /\ pairs # <<>>
    /\ link' = IF Head(pairs) THEN "CONNECTED" ELSE link
    /\ pairs' = Tail(pairs)
    /\ Pop
    /\ UNCHANGED <<active, results, run, screen, signedIn, tables, phonePast>>

\* pair() returns; handlePair goes back one view, whichever is on top by now.
PairEnds ==
    /\ Quiet /\ pairs # <<>>
    /\ link' = "CONNECTED"
    /\ screen' = IF screen.list = "none" THEN screen ELSE Ping(screen)
    /\ pairs' = IF Top = "modal" THEN Orphaned(Tail(pairs)) ELSE Tail(pairs)
    /\ Pop
    /\ UNCHANGED <<active, results, run, signedIn, tables, phonePast>>

OpenSettings ==
    /\ Quiet /\ signedIn /\ Top = "tabs"
    /\ stack' = Pushed("settings_device")
    /\ UNCHANGED <<transport, run, screen, modal, signedIn, tables, phonePast>>

\* disconnect() leaves the scan alone, and a call of pair() too, which connects again.
DisconnectDevice ==
    /\ Quiet /\ Top = "settings_device" /\ link # "DISCONNECTED"
    /\ link' = "DISCONNECTED"
    /\ screen' = IF screen.list = "none" THEN screen ELSE Ping(screen)
    /\ UNCHANGED <<active, results, pairs, run, modal, stack, signedIn, tables, phonePast>>

GoBack ==
    /\ Quiet /\ stack # <<>>
    /\ Pop
    /\ pairs' = IF Top = "modal" THEN Orphaned(pairs) ELSE pairs
    /\ UNCHANGED <<link, active, results, run, screen, signedIn, tables, phonePast>>

-----------------------------------------------------------------------------
(* The session and the app *)

\* The tabs are replaced by the login screen; a scan goes on.
SignOut ==
    /\ Quiet /\ signedIn /\ Top = "tabs" /\ changes < MaxChanges
    /\ changes' = changes + 1
    /\ signedIn' = FALSE
    /\ screen' = Unmounted
    /\ run' = [run EXCEPT !.own = FALSE]
    /\ UNCHANGED <<transport, modal, stack, tables, started, lost, cut, handled, failed, paired>>

SignIn ==
    /\ Quiet /\ ~signedIn
    /\ signedIn' = TRUE
    /\ screen' = Mounted
    /\ UNCHANGED <<transport, run, modal, stack, tables, phonePast>>

\* The app dies and is started again; the tables and the session outlive it.
AppDies ==
    /\ changes < MaxChanges
    /\ changes' = changes + 1
    /\ lost' = lost \cup results \cup ({active.id} \ {0})
                   \cup (IF run.at = "has" THEN {run.id} ELSE {})
    /\ cut' = cut \cup (IF run.at = "saved" THEN {run.id} ELSE {})
    /\ link' = "DISCONNECTED" /\ active' = NoScan /\ results' = {} /\ pairs' = <<>>
    /\ run' = NoRun
    /\ screen' = IF signedIn THEN Mounted ELSE Unmounted
    /\ modal' = NoModal /\ stack' = <<>>
    /\ UNCHANGED <<signedIn, tables, started, handled, failed, paired>>

-----------------------------------------------------------------------------
ScreenStep == ListArrives \/ PressScan \/ \E n \in Networks : SelectNetwork(n)
RunStep == PersistScan \/ EnqueueUpload
PairStep ==
    \/ OpenModal \/ DevicesArrive \/ ChooseDevice \/ PressPair \/ OpenSettings
    \/ DisconnectDevice \/ GoBack
PhoneNext ==
    \/ ScreenStep \/ Tick \/ StopScan \/ RunStep \/ PairStep \/ PairEnds
    \/ SignOut \/ SignIn \/ AppDies \/ \E id \in 1 .. MaxScans : LeaveQueue(id)

\* Timers fire, and JavaScript goes on with what it has begun.
PhoneFairness ==
    WF_phoneVars(Tick) /\ WF_phoneVars(RunStep) /\ WF_phoneVars(PairEnds)
PhoneSpec == PhoneInit /\ [][PhoneNext]_phoneVars /\ PhoneFairness

-----------------------------------------------------------------------------
(* Properties *)

InHand == IF run.at = "has" THEN {run.id} ELSE {}
Running == {active.id} \ {0}

\* A scan that has been started is in one place: it runs, the transport keeps its result,
\* runScan has it in hand, it is in the history, or it died with the app.
ScanIsInOnePlace ==
    /\ 1 .. started = Running \cup results \cup InHand \cup history \cup lost
    /\ Running \cap results = {} /\ InHand \cap (Running \cup results) = {}
    /\ history \cap (Running \cup results \cup InHand) = {}
    /\ lost \cap (Running \cup results \cup InHand \cup history) = {}

\* The screen says that it scans as long as its own call of runScan goes on, and a call that
\* waits has a scan that will tell it: BUSY, which a screen gets that was mounted while a
\* scan ran, disturbs neither.
ScreenFollowsRun ==
    /\ screen.scanning <=> (run.at # "none" /\ run.own)
    /\ run.at = "waits" <=> active.id # 0
    /\ run.at = "waits" => run.id = active.id

\* A scan is in the history before it is in the upload queue; and one that is in the history
\* is in the queue or has left it, unless it is about to be queued or the app died between
\* the two writes.
SavedIsQueued ==
    /\ queue \subseteq history
    /\ history \subseteq queue \cup handled \cup cut
                              \cup (IF run.at = "saved" THEN {run.id} ELSE {})

\* Only a call of pair() that is under way leaves the link PAIRING: not one whose modal has
\* been closed, nor one that another has overtaken.
PairingIsUnderWay == link = "PAIRING" => pairs # <<>>

\* A screen does not scan for ever, and a link does not pair for ever.
PhoneSettles ==
    /\ screen.scanning ~> ~screen.scanning
    /\ link = "PAIRING" ~> link # "PAIRING"

\* runScan: "start -> wait -> get result -> save": a scan that has run gives its result.
ScanGivesResult == failed = {}
=============================================================================
