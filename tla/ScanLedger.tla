----------------------------- MODULE ScanLedger -----------------------------
(***************************************************************************)
(* What uploading a scan promises, whatever the phone, the network and the *)
(* server go through: a scan is entered in the ledger at most once, under  *)
(* one id, its entry is never changed or withdrawn, and the phone is given *)
(* a receipt only for an entry that exists.                                *)
(***************************************************************************)
CONSTANTS Scans, Ids

VARIABLES ledger,     \* the entries, each a scan and the id it was stored under
          receipts    \* the entries the phone has been told of

vars == <<ledger, receipts>>

Entry == [client : Scans, sid : Ids]

Init == ledger = {} /\ receipts = {}

\* A scan without an entry is entered, under an id no other scan has.
Store(e) ==
    /\ e \in Entry
    /\ \A f \in ledger : f.client # e.client /\ f.sid # e.sid
    /\ ledger' = ledger \cup {e}
    /\ UNCHANGED receipts

\* The phone learns of an entry.
Acknowledge(e) ==
    /\ receipts' = receipts \cup {e}
    /\ UNCHANGED ledger

\* The entry a step makes is named by what it adds, as the ids are unbounded.
Next ==
    \/ \E e \in ledger' \ ledger : Store(e)
    \/ \E e \in ledger : Acknowledge(e)

Spec == Init /\ [][Next]_vars
=============================================================================
