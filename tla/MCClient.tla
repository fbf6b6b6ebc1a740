------------------------------ MODULE MCClient ------------------------------
(***************************************************************************)
(* Three components that share no state, checked in one run and told apart *)
(* by `part`, which is chosen at the start: the Bluetooth bridge, the      *)
(* phone's own scans, and the lists in pages.  The others stay as they     *)
(* are, each in one of its initial states; a part under fairness is fair   *)
(* while it is the one that moves.                                         *)
(***************************************************************************)
EXTENDS BleBridge, PhoneScan, ScanLists

VARIABLE part
clientVars == <<bleVars, phoneVars, listVars, part>>

\* A value that needs both bytes, and the one that looks like the end of the channel.
SomeSecurities ==
    {[level |-> 1, event |-> 1, seconds |-> 300], [level |-> 0, event |-> 0, seconds |-> 0]}

\* Two pages and a row, with a page that ends between rows of one value; rows without one.
Row(v, m) == [val |-> v, match |-> m]
SomeTables ==
    {[id \in {1, 3, 4, 5, 6} |-> Row(IF id \in {1, 4} THEN 2 ELSE 1, id # 3)],
     [id \in {1, 3, 4, 5} |->
         Row(CASE id = 4 -> 2 [] id \in {3, 5} -> Null [] OTHER -> 1, id > 1)]}

BleStill == role = "central" /\ bonded /\ linked
PhoneStill == signedIn
ListsStill == kind = "scans"

Init ==
    /\ BleInit /\ PhoneInit /\ ListInit
    /\ \/ part = "ble" /\ PhoneStill /\ ListsStill
       \/ part = "phone" /\ BleStill /\ ListsStill
       \/ part = "lists" /\ BleStill /\ PhoneStill

Ble(A) == part = "ble" /\ A /\ UNCHANGED <<phoneVars, listVars, part>>
Phone(A) == part = "phone" /\ A /\ UNCHANGED <<bleVars, listVars, part>>
\* Of networks that change while the fields do nothing is promised.
OneChange == kind = "networks" => edits' + updates' <= 1
Lists(A) == part = "lists" /\ A /\ UNCHANGED <<bleVars, phoneVars, part>>

Next == Ble(BleNext) \/ Phone(PhoneNext) \/ Lists(ListNext /\ OneChange)

ClientSpec ==
    /\ Init /\ [][Next]_clientVars
    /\ WF_bleVars(Ble(MainStep)) /\ WF_bleVars(Ble(ForwarderStep)) /\ WF_bleVars(Ble(WatcherStep))
    /\ WF_phoneVars(Phone(Tick)) /\ WF_phoneVars(Phone(RunStep)) /\ WF_phoneVars(Phone(PairEnds))

\* A bridge that runs comes to its end, whatever the peer and BlueZ do.
BridgeEnds == part = "ble" => BleRunEnds
=============================================================================
