------------------------------ MODULE ScanLists ------------------------------
(***************************************************************************)
(* Lists in pages: the keyset pagination of the server (ScansService and   *)
(* NetworksService .findAll, NetworksQueryRepository.applyKeysetCondition) *)
(* and the two views of the web front end that walk through it (MyScans    *)
(* and NetworkSearch), while uploads change the table.                     *)
(*                                                                         *)
(* A request is answered in two steps, because the row of the cursor is    *)
(* read before the page; and answers come back in any order.               *)
(*                                                                         *)
(* Abstracted: the filters, of which there is one, that a row matches or   *)
(* not; the sort keys, of which a row has one value, or none where the     *)
(* aggregate of a network without scans is NULL; what a row shows.         *)
(***************************************************************************)
EXTENDS Integers, Sequences, FiniteSets, SequencesExt

CONSTANTS
    Tables,       \* the tables to start with: functions from ids to [val, match]
    NewIds,       \* the ids of rows that are inserted later
    PerPage,
    MaxPending,   \* bound: requests in flight
    MaxUpdates,   \* bound: changes of the table
    MaxEdits      \* bound: changes of the fields of a view

Null == 0
Values == 1 .. 2
ASSUME ListConstants ==
    /\ PerPage \in Nat \ {0} /\ MaxPending \in Nat /\ MaxUpdates \in Nat
    /\ MaxEdits \in Nat
    /\ NewIds \subseteq Nat
    /\ \A t \in Tables :
          /\ IsFiniteSet(DOMAIN t)
          /\ \A id \in DOMAIN t :
                id \in Nat /\ t[id] \in [val : Values \cup {Null}, match : BOOLEAN]

VARIABLES
    kind,            \* "scans" (MyScans) or "networks" (NetworkSearch)
    rows,            \* the table
    cursor, page,    \* the view: cursor, and what it shows: list, total, next and prev
    search, order,   \* the view: its fields, which v-model keeps up with the keyboard
    pending,         \* the requests in flight
    walk,            \* history: the rows seen by Next alone, and the table at the beginning
    edits,           \* history: how often a field was changed since the view was loaded
    wentBack,        \* history: Previous was pressed since then
    updates

view == <<cursor, page, search, order>>
listPast == <<walk, edits, wentBack>>
listVars == <<kind, rows, view, pending, listPast, updates>>

-----------------------------------------------------------------------------
(* The server *)

NoCursor == [id |-> -1, prev |-> FALSE]
Missing == -1
NoAnswer == [list |-> <<>>, total |-> 0, next |-> NoCursor, prev |-> NoCursor, all |-> {}]
NoWalk == [on |-> FALSE, seen |-> <<>>, base |-> {}, search |-> FALSE]

Request(c, s, o) ==
    [at |-> "sent", cursor |-> c, search |-> s, order |-> o, found |-> Missing,
     answer |-> NoAnswer]

Flip(o) == IF o = "DESC" THEN "ASC" ELSE "DESC"
Effective(q) == IF q.cursor.prev THEN Flip(q.order) ELSE q.order
Comes(o, x, y) == IF o = "DESC" THEN x > y ELSE x < y
IdComes(q, x, y) == IF q.cursor.prev THEN x > y ELSE x < y

\* ORDER BY key NULLS LAST, id.
Precedes(q, x, y) ==
    LET a == rows[x].val
        b == rows[y].val
    IN  \/ a # Null /\ b = Null
        \/ a # Null /\ b # Null /\ Comes(Effective(q), a, b)
        \/ a = b /\ IdComes(q, x, y)

\* Fault: rows of the same value are not told apart by their id.
KeptByValue(q, id) ==
    \/ q.cursor = NoCursor
    \/ q.found = Missing /\ kind = "scans"
    \/ q.found \notin {Null, Missing} /\ rows[id].val # Null
       /\ Comes(Effective(q), q.found, rows[id].val)

\* The keyset condition: beyond the value of the cursor's row, as it was when it was read.
Kept(q, id) ==
    \/ q.cursor = NoCursor
    \/ q.found = Missing /\ kind = "scans"
    \/ /\ q.found = Null \/ (q.found = Missing /\ kind = "networks")
       /\ rows[id].val = Null /\ IdComes(q, q.cursor.id, id)
    \/ /\ q.found \notin {Null, Missing}
       /\ \/ rows[id].val # Null /\ Comes(Effective(q), q.found, rows[id].val)
          \/ rows[id].val = q.found /\ IdComes(q, q.cursor.id, id)
          \/ rows[id].val = Null /\ Effective(q) = "DESC"

\* The place of a row in the list is told by how many rows come before it.
Before(q, ids, x) == {y \in ids : Precedes(q, y, x)}
InOrder(q, ids) ==
    [k \in 1 .. Cardinality(ids) |->
        CHOOSE x \in ids : Cardinality(Before(q, ids, x)) = k - 1]

Matching(s) == {id \in DOMAIN rows : s => rows[id].match}
Found(q) == InOrder(q, {id \in Matching(q.search) : Kept(q, id)})

\* What is made of the rows: one more than a page was asked for, and the page is reversed.
AnswerOf(q, taken, more) ==
    LET list == IF q.cursor.prev THEN Reverse(taken) ELSE taken
    IN  [list |-> list, total |-> Cardinality(Matching(q.search)),
         next |-> IF list # <<>> /\ (q.cursor.prev \/ more)
                  THEN [id |-> list[Len(list)], prev |-> FALSE] ELSE NoCursor,
         prev |-> IF list # <<>> /\ (IF q.cursor.prev THEN more ELSE q.cursor # NoCursor)
                  THEN [id |-> list[1], prev |-> TRUE] ELSE NoCursor,
         all |-> IF kind = "scans" THEN Matching(q.search) ELSE {}]

\* Fault: the row that was asked for beyond the page is left in it.
AnswerWithExtra(q) == AnswerOf(q, SubSeq(Found(q), 1, PerPage + 1), Len(Found(q)) > PerPage)

\* Fault: a page is full when it has PerPage rows.
AnswerFullIsMore(q) ==
    LET found == Found(q)
        more == Len(found) >= PerPage
    IN  AnswerOf(q, IF more THEN SubSeq(found, 1, PerPage) ELSE found, more)

Answer(q) ==
    LET found == Found(q)
        more == Len(found) > PerPage
    IN  AnswerOf(q, IF more THEN SubSeq(found, 1, PerPage) ELSE found, more)

ReadCursorRow(k) ==
    /\ pending[k].at = "sent"
    /\ LET c == pending[k].cursor.id IN
        pending' = [pending EXCEPT ![k].at = "found",
                        ![k].found = IF c \in DOMAIN rows THEN rows[c].val ELSE Missing]
    /\ UNCHANGED <<kind, rows, view, listPast, updates>>

FindAll(k) ==
    /\ pending[k].at = "found"
    /\ pending' = [pending EXCEPT ![k].at = "answered", ![k].answer = Answer(pending[k])]
    /\ UNCHANGED <<kind, rows, view, listPast, updates>>

\* A scan is uploaded: a row of the user's, of any age; or a network that is new, which has no
\* value yet, as its scan is saved after it.
InsertRow ==
    /\ updates < MaxUpdates
    /\ \E id \in NewIds \ DOMAIN rows, m \in BOOLEAN,
          v \in IF kind = "scans" THEN Values ELSE {Null} :
          rows' = [x \in DOMAIN rows \cup {id} |->
                      IF x = id THEN [val |-> v, match |-> m] ELSE rows[x]]
    /\ updates' = updates + 1
    /\ UNCHANGED <<kind, view, pending, listPast>>

\* A scan of a network is saved, the first or another, which moves it; the last of its scans
\* may go, with its user.
UpdateNetwork ==
    /\ kind = "networks" /\ updates < MaxUpdates
    /\ \E id \in DOMAIN rows, v \in Values \cup {Null} :
          v # rows[id].val /\ rows' = [rows EXCEPT ![id].val = v]
    /\ updates' = updates + 1
    /\ UNCHANGED <<kind, view, pending, listPast>>

-----------------------------------------------------------------------------
(* The view *)

\* loadScans and loadNetworks.
Load(c) == pending' = Append(pending, Request(c, search, order))
MayLoad == Len(pending) < MaxPending

GoNext ==
    /\ MayLoad /\ page.next # NoCursor
    /\ cursor' = page.next
    /\ Load(page.next)
    /\ UNCHANGED <<kind, rows, page, search, order, listPast, updates>>

GoPrev ==
    /\ MayLoad /\ page.prev # NoCursor
    /\ cursor' = page.prev
    /\ Load(page.prev)
    /\ wentBack' = TRUE
    /\ UNCHANGED <<kind, rows, page, search, order, walk, edits, updates>>

\* The fields change under the cursor, which is of a page of the list as it was.
TypeSearch ==
    /\ edits < MaxEdits
    /\ search' = ~search /\ edits' = edits + 1
    /\ UNCHANGED <<kind, rows, cursor, page, order, pending, walk, wentBack,
                   updates>>

ChooseOrder ==
    /\ kind = "networks" /\ edits < MaxEdits
    /\ order' = Flip(order) /\ edits' = edits + 1
    /\ UNCHANGED <<kind, rows, cursor, page, search, pending, walk, wentBack,
                   updates>>

\* MyScans: the button loads the page of the cursor, with the new fields.
PressFilter ==
    /\ kind = "scans" /\ MayLoad
    /\ Load(cursor)
    /\ UNCHANGED <<kind, rows, view, listPast, updates>>

\* NetworkSearch: the button submits the form, and the browser loads the view anew.
PressSearch ==
    /\ kind = "networks"
    /\ cursor' = NoCursor /\ page' = NoAnswer
    /\ search' = FALSE /\ order' = "DESC"
    /\ pending' = <<Request(NoCursor, FALSE, "DESC")>>
    /\ walk' = NoWalk /\ edits' = 0 /\ wentBack' = FALSE
    /\ UNCHANGED <<kind, rows, updates>>

\* The walk goes on when the page is of the cursor after its last row, and has been answered
\* no earlier than the first one; it begins anew with a first page.
Walked(q) ==
    LET goesOn == walk.on /\ walk.search = q.search /\ ~q.cursor.prev
                  /\ walk.seen # <<>> /\ q.cursor.id = walk.seen[Len(walk.seen)]
                  /\ walk.base \subseteq q.answer.all
    IN  CASE q.cursor = NoCursor /\ kind = "scans" ->
                [on |-> TRUE, seen |-> q.answer.list, base |-> q.answer.all,
                 search |-> q.search]
          [] goesOn -> [walk EXCEPT !.seen = @ \o q.answer.list]
          [] OTHER -> NoWalk

\* An answer is applied when it comes, whatever has been asked for since.
ResponseArrives(k) ==
    /\ pending[k].at = "answered"
    /\ page' = pending[k].answer
    /\ walk' = Walked(pending[k])
    /\ pending' = RemoveAt(pending, k)
    /\ UNCHANGED <<kind, rows, cursor, search, order, edits, wentBack, updates>>

\* The page stays, and its buttons ask for what they asked for.
RequestFails(k) ==
    /\ pending' = RemoveAt(pending, k)
    /\ UNCHANGED <<kind, rows, cursor, page, search, order, listPast, updates>>

-----------------------------------------------------------------------------
ListInit ==
    /\ kind \in {"scans", "networks"}
    /\ rows \in Tables
    /\ kind = "scans" => \A id \in DOMAIN rows : rows[id].val # Null
    /\ cursor = NoCursor /\ page = NoAnswer /\ search = FALSE /\ order = "DESC"
    /\ pending = <<Request(NoCursor, FALSE, "DESC")>>
    /\ walk = NoWalk /\ edits = 0 /\ wentBack = FALSE
    /\ updates = 0

ServerStep == InsertRow \/ UpdateNetwork
ViewStep == GoNext \/ GoPrev \/ TypeSearch \/ ChooseOrder \/ PressFilter \/ PressSearch
RequestStep(k) == ReadCursorRow(k) \/ FindAll(k) \/ ResponseArrives(k) \/ RequestFails(k)
ListNext == ServerStep \/ ViewStep \/ \E k \in DOMAIN pending : RequestStep(k)
ListSpec == ListInit /\ [][ListNext]_listVars

-----------------------------------------------------------------------------
(* Properties *)

Ids == DOMAIN rows
Cursor == [id : Ids, prev : BOOLEAN] \cup {NoCursor}
IsPage(p) ==
    /\ p.list \in Seq(Ids) /\ Len(p.list) <= PerPage
    /\ p.total \in Nat
    /\ {p.next, p.prev} \subseteq Cursor

ListsTypeOK ==
    /\ kind \in {"scans", "networks"}
    /\ \A id \in Ids : rows[id] \in [val : Values \cup {Null}, match : BOOLEAN]
    /\ cursor \in Cursor /\ IsPage(page)
    /\ {search, wentBack} \subseteq BOOLEAN
    /\ order \in {"ASC", "DESC"}
    /\ \A k \in DOMAIN pending :
          pending[k].at \in {"sent", "found", "answered"} /\ IsPage(pending[k].answer)
    /\ walk.seen \in Seq(Ids)
    /\ updates \in 0 .. MaxUpdates /\ edits \in 0 .. MaxEdits

NoNulls == \A id \in Ids : rows[id].val # Null

\* The list of the view, and what it is to be one of its pages: the n-th after the first.
WholeList == InOrder(Request(NoCursor, search, order), Matching(search))
IsWhole(p) ==
    LET all == WholeList IN
    \E n \in 0 .. Len(all) :
        LET last == n * PerPage + Len(p.list) IN
        /\ last <= Len(all)
        /\ p.list = SubSeq(all, n * PerPage + 1, last)
        /\ Len(p.list) = PerPage \/ last = Len(all)
        /\ p.next # NoCursor <=> last < Len(all)
        /\ p.prev # NoCursor <=> n > 0
        /\ p.total = Len(all)

\* While neither the table nor the fields change, the view shows a whole page of the list:
\* Next, Previous, failures and answers in any order never skip, repeat or cut a row; there is
\* a next page exactly if rows follow, and a previous one exactly if rows come before.  The
\* rows without a value are the exception: they cannot be walked backwards.
PageIsWhole ==
    (page # NoAnswer /\ updates = 0 /\ edits = 0 /\ (NoNulls \/ ~wentBack)) => IsWhole(page)

\* The cursor is stable while records are added: who walks through the scans with Next sees
\* none twice and, of those there were at the beginning, misses none.
WalkMissesNothing ==
    (kind = "scans" /\ walk.on)
    => LET q == Request(NoCursor, walk.search, "DESC")
           seen == ToSet(walk.seen)
       IN  /\ Cardinality(seen) = Len(walk.seen)
           /\ \A id \in walk.base \ seen :
                 page.next # NoCursor /\ Precedes(q, walk.seen[Len(walk.seen)], id)
=============================================================================
