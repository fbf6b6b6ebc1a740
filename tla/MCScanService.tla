---------------------------- MODULE MCScanService ----------------------------
(***************************************************************************)
(* ScanService for TLC.  Scans and networks are interchangeable.  What is  *)
(* found is bounded: a managed thread has MaxPending alerts in its hands.  *)
(* While no scans have overlapped, the question is where an alert was      *)
(* found: a collector holds one, and the monitor-mode detector, which is   *)
(* on no network, has yet to start.  Once they have, the question is what  *)
(* is read of a collector: it holds MaxAlerts, so that one is added after  *)
(* another was read, all scans have the same target, and the interface is  *)
(* only connected and disconnected.                                        *)
(***************************************************************************)
EXTENDS ScanService, FiniteSets, TLC

CONSTANTS MaxAlerts, MaxPending

Apart ==
    \A i \in Scans : Cardinality(collected'[i]) <= 1 /\ capture'[i].monitor \in {"none", "init"}
Together ==
    /\ \A i \in Scans : Cardinality(collected'[i]) <= MaxAlerts
    /\ Cardinality({target'[i] : i \in Scans} \ {NoNet}) = 1
    /\ ~LinkLost /\ ~Associate /\ ~TimeOut

MCNext ==
    /\ Next
    /\ \A i \in Scans : Cardinality(pending'[i]) <= MaxPending
    /\ IF overlap' THEN Together ELSE Apart

MCSpec == Init /\ [][MCNext]_vars

ScanSymmetry == Permutations(Scans) \cup Permutations(Networks)
=============================================================================
