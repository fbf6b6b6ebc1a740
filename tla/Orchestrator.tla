---------------------------- MODULE Orchestrator ----------------------------
(***************************************************************************)
(* The command-line orchestrator (honeypot/orchestrator.py) and its HTTP   *)
(* client (scanner/wifi_api_client.py), beside the Wi-Fi service they      *)
(* talk to and another client of that service.                             *)
(*                                                                         *)
(* The orchestrator makes one call after the other and waits for each at   *)
(* most its time-out; the service does not notice that a client has gone,  *)
(* so that a handler goes on behind a call that was given up.  SIGINT and  *)
(* SIGTERM run cleanup() over whatever the program was doing and then      *)
(* raise SystemExit, which passes through the `finally` of run().          *)
(*                                                                         *)
(* Abstracted: the choice of the interface and of the target by name,      *)
(* which may also fail; the scanners themselves (ScanService).             *)
(***************************************************************************)
EXTENDS WifiService

CONSTANTS
    MaxInterrupts,   \* bound: the signals the orchestrator is sent
    MaxOthers        \* bound: the requests of the other client

ASSUME OrchestratorConstants ==
    MaxInterrupts \in Nat /\ MaxOthers \in Nat /\ "none" \notin Interfaces

VARIABLES
    step,         \* what the orchestrator does
    calling,      \* the request it waits for
    managed,      \* managed_interface, "none" before it is chosen
    inFinally,    \* the `finally` of run() has begun
    joining,      \* history: the request to join the target network, until its name is reused
    gaveUp,       \* history: it did not wait for the answer to that request
    leaving,      \* history: what has come of its requests to disconnect since it joined
    interrupts, others

client == <<step, calling, managed, inFinally, joining, gaveUp, leaving, interrupts>>
orchVars == <<wifiVars, client, others>>

-----------------------------------------------------------------------------
Steps == {"check", "discover", "scan", "find", "leave", "join", "scanners", "handler", "cleanup",
          "done"}

OrchTypeOK ==
    /\ WifiTypeOK
    /\ step \in Steps
    /\ calling \in Requests \cup {"none"}
    /\ managed \in Interfaces \cup {"none"}
    /\ inFinally \in BOOLEAN
    /\ joining \in Requests \cup {"none"}
    /\ gaveUp \in BOOLEAN /\ leaving \in {"unasked", "refused", "left"}
    /\ interrupts \in 0 .. MaxInterrupts /\ others \in 0 .. MaxOthers

\* The orchestrator is started, or is not.
OrchInit ==
    /\ WifiInit
    /\ step \in {"check", "done"} /\ calling = "none" /\ managed = "none"
    /\ inFinally = FALSE
    /\ joining = "none" /\ gaveUp = FALSE /\ leaving = "unasked"
    /\ interrupts = 0 /\ others = 0

-----------------------------------------------------------------------------
(* Calls *)

\* The request each step makes; cleanup disconnects only when an interface was chosen.
CallOf ==
    CASE step \in {"check", "discover"} -> "interfaces"
      [] step = "scan" -> "scan"
      [] step = "find" -> "bsss"
      [] step \in {"leave", "handler", "cleanup"} -> "disconnect"
      [] step = "join" -> "connect"
Calls == step \notin {"scanners", "done"} /\ ~(step \in {"handler", "cleanup"} /\ managed = "none")

\* The name of a request that is over, and whose network is gone, is given again.
Renamed(r) == IF r = joining THEN "none" ELSE joining

Call(r) ==
    /\ Calls /\ calling = "none"
    /\ Accept(r, CallOf, IF managed = "none" THEN FreeRequest.on ELSE managed, {})
    /\ calling' = r
    /\ joining' = IF step = "join" THEN r ELSE Renamed(r)
    /\ UNCHANGED <<step, managed, inFinally, gaveUp, leaving, interrupts, others>>

\* What follows a step: cleanup, whatever its call came to, leads on.
AfterCleanup == IF step = "handler" /\ ~inFinally THEN "cleanup" ELSE "done"
Onward(next) ==
    /\ step' = IF step \in {"handler", "cleanup"} THEN AfterCleanup ELSE next
    /\ inFinally' = (inFinally \/ step' = "cleanup")
    /\ calling' = "none"
Left(status) ==
    leaving' = IF step \notin {"handler", "cleanup"} \/ leaving = "left" THEN leaving
               ELSE IF status = 204 THEN "left" ELSE "refused"

\* Fault: the status of the answer is not looked at (no raise_for_status).
SuccessorOfAny(status, list) ==
    CASE step = "check" -> {"discover"}
      [] step = "discover" -> IF list # {} THEN {"scan"} ELSE {"cleanup"}
      [] step = "scan" -> {"find"}
      [] step = "find" -> IF list # {} THEN {"leave"} ELSE {"cleanup"}
      [] step = "leave" -> {"join"}
      [] step = "join" -> {"scanners"}
      [] OTHER -> {"done"}

\* The answer.  An empty list, a target that is not there and a missing password end the
\* run; so does every status from 400 on, except that _check_connection takes a 404.
Successor(status, list) ==
    CASE step = "check" -> IF status \in {200, 404} THEN {"discover"} ELSE {"cleanup"}
      [] step = "discover" -> IF status = 200 /\ list # {} THEN {"scan", "cleanup"} ELSE {"cleanup"}
      [] step = "scan" -> IF status = 200 THEN {"find"} ELSE {"cleanup"}
      [] step = "find" -> IF status = 200 /\ list # {} THEN {"leave", "cleanup"} ELSE {"cleanup"}
      [] step = "leave" -> IF status = 204 THEN {"join"} ELSE {"cleanup"}
      [] step = "join" -> IF status = 204 THEN {"scanners", "cleanup"} ELSE {"cleanup"}
      [] OTHER -> {"done"}

Answered ==
    /\ calling # "none" /\ request[calling].at = "answered"
    /\ \E next \in Successor(request[calling].status, request[calling].todo) :
        /\ Onward(next)
        /\ IF step = "discover" /\ next = "scan"
           THEN \E i \in request[calling].todo : managed' = i
           ELSE UNCHANGED managed
    /\ Left(request[calling].status)
    /\ Goto(calling, "free")
    /\ UNCHANGED <<supplicant, bus, conn, wifiPast, joining, gaveUp, interrupts, others>>

\* Fault: a service that has died is waited for.
GivesUpWhenUp ==
    /\ up
    /\ calling # "none" /\ request[calling].at # "answered"
    /\ Onward("cleanup")
    /\ gaveUp' = (gaveUp \/ step = "join")
    /\ Left(0)
    /\ UNCHANGED <<wifiVars, managed, joining, interrupts, others>>

\* The time-out of the client, while the handler goes on.
GivesUp ==
    /\ calling # "none" /\ request[calling].at # "answered"
    /\ Onward("cleanup")
    /\ gaveUp' = (gaveUp \/ step = "join")
    /\ Left(0)
    /\ UNCHANGED <<wifiVars, managed, joining, interrupts, others>>

\* The service is not there.
NoConnection ==
    /\ Calls /\ calling = "none" /\ ~up
    /\ Onward("cleanup")
    /\ Left(0)
    /\ UNCHANGED <<wifiVars, managed, joining, gaveUp, interrupts, others>>

-----------------------------------------------------------------------------
(* The rest *)

\* Fault: cleanup is left to the signal handler.
ScannersEndRun ==
    /\ step = "scanners"
    /\ step' = "done"
    /\ UNCHANGED <<wifiVars, calling, managed, inFinally, joining, gaveUp, leaving, interrupts, others>>

ScannersEnd ==
    /\ step = "scanners"
    /\ Onward("cleanup")
    /\ UNCHANGED <<wifiVars, managed, joining, gaveUp, leaving, interrupts, others>>

NothingToCleanUp ==
    /\ step \in {"handler", "cleanup"} /\ managed = "none"
    /\ Onward("done")
    /\ UNCHANGED <<wifiVars, managed, joining, gaveUp, leaving, interrupts, others>>

\* A signal: the handler cleans up in the middle of what the program was doing.
Interrupt ==
    /\ step # "done" /\ interrupts < MaxInterrupts
    /\ interrupts' = interrupts + 1
    /\ step' = "handler" /\ calling' = "none"
    /\ gaveUp' = (gaveUp \/ (step = "join" /\ calling # "none"))
    /\ UNCHANGED <<wifiVars, managed, inFinally, joining, leaving, others>>

OrchStep ==
    \/ \E r \in Requests : Call(r)
    \/ Answered \/ GivesUp \/ NoConnection \/ ScannersEnd \/ NothingToCleanUp

\* The other client of the service; and the answers the orchestrator does not wait for.
Other ==
    /\ others < MaxOthers /\ others' = others + 1
    /\ \E r \in Requests : Ask(r) /\ joining' = Renamed(r)
    /\ UNCHANGED <<step, calling, managed, inFinally, gaveUp, leaving, interrupts>>

Forgotten ==
    /\ \E r \in Requests \ {calling} : TakeAnswer(r)
    /\ UNCHANGED <<client, others>>

OrchNext ==
    \/ OrchStep
    \/ Interrupt
    \/ Other \/ Forgotten
    \/ (SupplicantStep \/ ServiceStep) /\ UNCHANGED <<client, others>>

\* Goroutines and the orchestrator run when they can, and every call ends by its time-out;
\* wpa_supplicant owes nothing.
Alone == UNCHANGED <<client, others>>
OrchFairness ==
    /\ \A r \in Requests : WF_orchVars(HandlerStep(r) /\ Alone)
    /\ WF_orchVars(DispatcherStep /\ Alone)
    /\ WF_orchVars(Forgotten)
    /\ WF_orchVars(OrchStep)

OrchSpec == OrchInit /\ [][OrchNext]_orchVars /\ OrchFairness

-----------------------------------------------------------------------------
(* Properties *)

\* Whatever ends the run, an error, the scanners or a signal or two, the orchestrator does
\* not forget to leave the network it joined, and what it has left is not joined again
\* behind it; provided that it waited for the answer to its connect (a handler that is
\* given up joins later), and that a request to disconnect was answered 204 (the network
\* that is lost for a moment is answered 404, and wpa_supplicant goes on).
LeavesTheNetwork ==
    (step = "done" /\ joining # "none" /\ ~gaveUp /\ leaving # "refused")
    => \A i \in Interfaces : selected[i] # joining

\* The scanners are started only when the honeypot is on the target network: the request
\* to join was waited for and wpa_supplicant has completed it, not merely been asked to;
\* but for the cases in which the service is mistaken about it (ConnectedWhenSaid).
ScansAfterJoining ==
    [][(step # "scanners" /\ step' = "scanners")
        => (~gaveUp /\ leaving = "unasked" /\ joining \in reached \cup disturbed)]_orchVars

\* The run ends: whatever the service does, dies or hangs, each call of the orchestrator
\* comes to an end and the cleanup is passed through at most once more for each signal.
RunEnds == <>(step = "done")

\* A handler comes to its answer, or the service dies: of any call of any client, a scan, a
\* connect, a disconnect or a query, and also when nobody waits for the answer any more.  A
\* wait for a signal that has been missed ends by the handler's own time-out.  It is said of
\* a wpa_supplicant that falls silent, as MaxEvents makes it: signals that come in every
\* second put off the time-out of ConnectNetwork (dbus.go:453) for as long as they come.
Unanswered(r) == up /\ request[r].at \notin {"free", "answered"}
HandlersEnd == \A r \in Requests : Unanswered(r) ~> ~Unanswered(r)
=============================================================================
