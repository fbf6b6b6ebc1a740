------------------------------ MODULE MCDevice ------------------------------
(***************************************************************************)
(* The Wi-Fi service checked in two parts, told apart by `part`, which is  *)
(* chosen at the start: the orchestrator alone with the service, on one    *)
(* interface; and the service alone, with the requests of any clients,     *)
(* whose answers are kept.  In the second part the first request and the   *)
(* first interface to be used are fixed, the others being alike; the run's *)
(* constants bound the rest.                                               *)
(***************************************************************************)
EXTENDS Orchestrator, FiniteSets

VARIABLE part
mcVars == <<orchVars, part>>

First == CHOOSE r \in Requests : TRUE
Changes == {"scan", "connect", "disconnect"}

MCInit ==
    /\ OrchInit
    /\ \/ part = "orchestrator" /\ step = "check" /\ present = {FreeRequest.on}
       \/ part = "service" /\ step = "done" /\ present = Interfaces
          /\ \A i \in Interfaces : state[i] = "disconnected"

Starts(r) == request[r].at = "free" /\ request'[r].at = "start"

MCNext ==
    /\ OrchNext /\ UNCHANGED part
    /\ part = "orchestrator" => others' = 0 /\ \A i \in Interfaces : ~OtherChange(i)
    /\ part = "service" => events' <= 2 /\ present' = present /\ \A r \in Requests :
          /\ request[r].at = "answered" => request'[r].at = "answered"
          /\ Starts(r) => (others > 0 \/ (r = First /\ request'[r].on = FreeRequest.on))
          /\ Starts(r) => (request'[r].kind \in Changes \/ others = 0)

\* As nothing goes on for ever in these two parts, less fairness than OrchFairness will do:
\* some goroutine of the service runs when one can.
OnlyOrchestrator == part = "orchestrator" /\ UNCHANGED part
MCSpec ==
    /\ MCInit /\ [][MCNext]_mcVars
    /\ WF_mcVars(Alone /\ UNCHANGED part /\ ServiceStep)
    /\ WF_mcVars(OnlyOrchestrator /\ Forgotten)
    /\ WF_mcVars(OnlyOrchestrator /\ OrchStep)
=============================================================================
