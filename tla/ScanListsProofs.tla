--------------------------- MODULE ScanListsProofs ---------------------------
(***************************************************************************)
(* Proofs about ScanLists, for any tables, any size of a page and any      *)
(* number of requests in flight, updates and edits.                        *)
(***************************************************************************)
EXTENDS ScanLists, FiniteSetTheorems, SequenceTheorems, TLAPS

-----------------------------------------------------------------------------
(* The order of the list *)

\* The table is finite, and its rows are what they are taken for.
RowsOK ==
    /\ IsFiniteSet(Ids)
    /\ \A id \in Ids : id \in Nat /\ rows[id] \in [val : Values \cup {Null}, match : BOOLEAN]

\* ORDER BY the key and the id puts the rows in a strict total order, whichever way the key
\* goes and whether or not the request is for the page before.
LEMMA PrecedesIsOrder ==
    ASSUME RowsOK, NEW q
    PROVE  /\ \A x \in Ids : ~Precedes(q, x, x)
           /\ \A x, y \in Ids : x # y => Precedes(q, x, y) \/ Precedes(q, y, x)
           /\ \A x, y, z \in Ids :
                 Precedes(q, x, y) /\ Precedes(q, y, z) => Precedes(q, x, z)
<1>1. \A x \in Ids : x \in Int /\ rows[x].val \in Int
  BY DEF RowsOK, Values, Null
<1>2. CASE q.cursor.prev
  BY <1>1, <1>2 DEF Precedes, Comes, IdComes
<1>3. CASE ~q.cursor.prev
  BY <1>1, <1>3 DEF Precedes, Comes, IdComes
<1> QED
  BY <1>2, <1>3

LEMMA BeforeFinite ==
    ASSUME RowsOK, NEW q, NEW S \in SUBSET Ids, NEW x \in S
    PROVE  /\ IsFiniteSet(S) /\ Cardinality(S) \in Nat
           /\ IsFiniteSet(Before(q, S, x)) /\ Cardinality(Before(q, S, x)) \in Nat
           /\ Cardinality(Before(q, S, x)) < Cardinality(S)
<1>1. IsFiniteSet(S) /\ Cardinality(S) \in Nat
  BY FS_Subset, FS_CardinalityType DEF RowsOK
<1>2. Before(q, S, x) \subseteq S /\ x \notin Before(q, S, x)
  BY PrecedesIsOrder DEF Before
<1>3. /\ IsFiniteSet(Before(q, S, x))
      /\ Cardinality(Before(q, S, x)) <= Cardinality(S)
      /\ Cardinality(Before(q, S, x)) = Cardinality(S) => Before(q, S, x) = S
  BY <1>1, <1>2, FS_Subset
<1>4. Cardinality(Before(q, S, x)) \in Nat
  BY <1>3, FS_CardinalityType
<1> QED
  BY <1>1, <1>2, <1>3, <1>4

\* More rows come before a row that comes later.
LEMMA BeforeGrows ==
    ASSUME RowsOK, NEW q, NEW S \in SUBSET Ids, NEW x \in S, NEW y \in S, Precedes(q, x, y)
    PROVE  Cardinality(Before(q, S, x)) < Cardinality(Before(q, S, y))
<1>1. Before(q, S, x) \subseteq Before(q, S, y)
  BY PrecedesIsOrder DEF Before
<1>2. x \in Before(q, S, y) /\ x \notin Before(q, S, x)
  BY PrecedesIsOrder DEF Before
<1>3. /\ Cardinality(Before(q, S, x)) <= Cardinality(Before(q, S, y))
      /\ Cardinality(Before(q, S, x)) # Cardinality(Before(q, S, y))
  BY <1>1, <1>2, BeforeFinite, FS_Subset
<1> QED
  BY <1>3, BeforeFinite

\* So that every place is taken by one row.
LEMMA PlacesTaken ==
    ASSUME RowsOK, NEW q, NEW S \in SUBSET Ids
    PROVE  /\ IsFiniteSet(S) /\ Cardinality(S) \in Nat
           /\ \A k \in 1 .. Cardinality(S) :
                 \E x \in S : Cardinality(Before(q, S, x)) = k - 1
           /\ \A x, y \in S :
                 Cardinality(Before(q, S, x)) = Cardinality(Before(q, S, y)) => x = y
<1>1. IsFiniteSet(S) /\ Cardinality(S) \in Nat
  BY FS_Subset, FS_CardinalityType DEF RowsOK
<1>2. \A x, y \in S : Cardinality(Before(q, S, x)) = Cardinality(Before(q, S, y)) => x = y
  <2> SUFFICES ASSUME NEW x \in S, NEW y \in S, x # y
               PROVE  Cardinality(Before(q, S, x)) # Cardinality(Before(q, S, y))
    OBVIOUS
  <2>1. Precedes(q, x, y) \/ Precedes(q, y, x)
    BY PrecedesIsOrder
  <2>2. /\ Cardinality(Before(q, S, x)) \in Nat /\ Cardinality(Before(q, S, y)) \in Nat
    BY BeforeFinite
  <2> QED
    BY <2>1, <2>2, BeforeGrows
<1> DEFINE T == 0 .. Cardinality(S) - 1
           g == [x \in S |-> Cardinality(Before(q, S, x))]
<1>3. g \in [S -> T]
  BY <1>1, BeforeFinite
<1>4. g \in Injection(S, T)
  BY <1>2, <1>3 DEF Injection, IsInjective
<1>5. IsFiniteSet(T) /\ Cardinality(T) = Cardinality(S)
  <2>1. /\ IsFiniteSet(0 .. Cardinality(S) - 1)
        /\ Cardinality(0 .. Cardinality(S) - 1) =
              IF 0 > Cardinality(S) - 1 THEN 0 ELSE (Cardinality(S) - 1) - 0 + 1
    <3>1. Cardinality(S) - 1 \in Int
      BY <1>1
    <3> QED
      BY <3>1, FS_Interval
  <2> QED
    BY <1>1, <2>1
<1>6. g \in Surjection(S, T)
  BY <1>1, <1>4, <1>5, FS_Injection
<1>7. ASSUME NEW k \in 1 .. Cardinality(S)
      PROVE  \E x \in S : Cardinality(Before(q, S, x)) = k - 1
  <2>1. k - 1 \in T
    BY <1>1
  <2> QED
    BY <1>6, <2>1 DEF Surjection
<1> QED
  BY <1>1, <1>2, <1>7

\* The rows in order are each of the rows, once, in order.
LEMMA InOrderIsOrdered ==
    ASSUME RowsOK, NEW q, NEW S \in SUBSET Ids
    PROVE  /\ IsFiniteSet(S) /\ Cardinality(S) \in Nat
           /\ InOrder(q, S) \in [1 .. Cardinality(S) -> S]
           /\ \A k \in 1 .. Cardinality(S) :
                 Cardinality(Before(q, S, InOrder(q, S)[k])) = k - 1
           /\ \A x \in S : \E k \in 1 .. Cardinality(S) : InOrder(q, S)[k] = x
           /\ \A j, k \in 1 .. Cardinality(S) :
                 j < k <=> Precedes(q, InOrder(q, S)[j], InOrder(q, S)[k])
<1> DEFINE n == Cardinality(S)
           f == InOrder(q, S)
<1>1. /\ IsFiniteSet(S) /\ n \in Nat
      /\ \A k \in 1 .. n : \E x \in S : Cardinality(Before(q, S, x)) = k - 1
      /\ \A x, y \in S :
            Cardinality(Before(q, S, x)) = Cardinality(Before(q, S, y)) => x = y
  BY PlacesTaken
<1>2. \A k \in 1 .. n : f[k] \in S /\ Cardinality(Before(q, S, f[k])) = k - 1
  BY <1>1 DEF InOrder
<1>3. f \in [1 .. n -> S]
  BY <1>2 DEF InOrder
<1>4. ASSUME NEW x \in S PROVE \E k \in 1 .. n : f[k] = x
  <2> DEFINE k == Cardinality(Before(q, S, x)) + 1
  <2>1. k \in 1 .. n /\ k - 1 = Cardinality(Before(q, S, x))
    BY <1>1, BeforeFinite
  <2>2. f[k] \in S /\ Cardinality(Before(q, S, f[k])) = Cardinality(Before(q, S, x))
    BY <1>2, <2>1
  <2> QED
    BY <1>1, <2>1, <2>2
<1>5. ASSUME NEW j \in 1 .. n, NEW k \in 1 .. n PROVE j < k <=> Precedes(q, f[j], f[k])
  <2>1. f[j] \in S /\ f[k] \in S /\ f[j] \in Ids /\ f[k] \in Ids
    BY <1>2
  <2>2. Precedes(q, f[j], f[k]) => j < k
    BY <1>2, <2>1, BeforeGrows
  <2>3. Precedes(q, f[k], f[j]) => k < j
    BY <1>2, <2>1, BeforeGrows
  <2>4. CASE j < k
    BY <2>1, <2>3, <2>4, PrecedesIsOrder, <1>2
  <2> QED
    BY <2>2, <2>4
<1> QED
  BY <1>1, <1>2, <1>3, <1>4, <1>5

\* f is each of the rows S in m places, in order.
Lists(f, m, q, S) ==
    /\ f \in [1 .. m -> S]
    /\ \A x \in S : \E k \in 1 .. m : f[k] = x
    /\ \A j, k \in 1 .. m : j < k => Precedes(q, f[j], f[k])

\* And nothing else is: rows that are each of S, in order, are the rows of S in order.
LEMMA OrderedIsInOrder ==
    ASSUME RowsOK, NEW q, NEW S \in SUBSET Ids, NEW m \in Nat, NEW f, Lists(f, m, q, S)
    PROVE  Cardinality(S) = m /\ InOrder(q, S) = f
<1>0. /\ f \in [1 .. m -> S]
      /\ \A x \in S : \E k \in 1 .. m : f[k] = x
      /\ \A j, k \in 1 .. m : j < k => Precedes(q, f[j], f[k])
  BY DEF Lists
<1>1. \A j, k \in 1 .. m : f[j] \in Ids /\ (f[j] = f[k] => j = k)
  <2> SUFFICES ASSUME NEW j \in 1 .. m, NEW k \in 1 .. m, f[j] = f[k], j < k PROVE FALSE
    BY <1>0
  <2> QED
    BY <1>0, PrecedesIsOrder
<1>2. f \in Bijection(1 .. m, S)
  BY <1>0, <1>1 DEF Bijection, Injection, Surjection, IsInjective
<1>3. Cardinality(S) = m
  BY <1>2, FS_CountingElements DEF ExistsBijection
<1>4. ASSUME NEW k \in 1 .. m PROVE Cardinality(Before(q, S, f[k])) = k - 1
  <2> DEFINE B == Before(q, S, f[k])
             g == [j \in 1 .. k - 1 |-> f[j]]
  <2>1. \A j \in 1 .. k - 1 : j \in 1 .. m /\ f[j] \in B
    BY <1>0 DEF Before
  <2>2. ASSUME NEW x \in B PROVE \E j \in 1 .. k - 1 : f[j] = x
    <3>1. PICK j \in 1 .. m : f[j] = x
      BY <1>0 DEF Before
    <3>2. Precedes(q, f[j], f[k])
      BY <3>1 DEF Before
    <3>3. ~(k < j) /\ j # k
      BY <1>0, <1>1, <3>2, PrecedesIsOrder
    <3> QED
      BY <3>1, <3>3
  <2>3. g \in Bijection(1 .. k - 1, B)
    BY <1>0, <1>1, <2>1, <2>2 DEF Bijection, Injection, Surjection, IsInjective
  <2> QED
    BY <2>3, FS_CountingElements DEF ExistsBijection
<1>5. ASSUME NEW k \in 1 .. m PROVE InOrder(q, S)[k] = f[k]
  <2>1. /\ InOrder(q, S)[k] \in S
        /\ Cardinality(Before(q, S, InOrder(q, S)[k])) = k - 1
    <3>1. k \in 1 .. Cardinality(S)
      BY <1>3
    <3> HIDE <1>3
    <3> QED
      BY <3>1, InOrderIsOrdered
  <2>2. f[k] \in S
    BY <1>0
  <2> QED
    BY <1>4, <2>1, <2>2, PlacesTaken
<1>6. InOrder(q, S) \in [1 .. m -> S]
  BY <1>3, InOrderIsOrdered
<1> QED
  BY <1>0, <1>3, <1>5, <1>6

\* The request for the first page of a list that goes down, and all the rows in its order.
Down == Request(NoCursor, FALSE, "DESC")
All == InOrder(Down, Ids)

\* The order of the list, and the opposite.
SameOrder(q) == \A x, y \in Ids : Precedes(q, x, y) <=> Precedes(Down, x, y)
BackToFront(q) == \A x, y \in Ids : Precedes(q, x, y) <=> Precedes(Down, y, x)

\* T is what follows the first p rows; T is the first p rows.
IsRest(T, p) == \A k \in 1 .. Cardinality(Ids) : All[k] \in T <=> p < k
IsFirst(T, p) == \A k \in 1 .. Cardinality(Ids) : All[k] \in T <=> k <= p

LEMMA AllIsList ==
    ASSUME RowsOK
    PROVE  /\ Cardinality(Ids) \in Nat /\ Len(All) = Cardinality(Ids)
           /\ All \in Seq(Ids) /\ All \in [1 .. Len(All) -> Ids]
           /\ \A id \in Ids : \E k \in 1 .. Len(All) : All[k] = id
           /\ \A j, k \in 1 .. Len(All) : j < k <=> Precedes(Down, All[j], All[k])
<1>1. /\ Cardinality(Ids) \in Nat /\ All \in [1 .. Cardinality(Ids) -> Ids]
      /\ \A id \in Ids : \E k \in 1 .. Cardinality(Ids) : All[k] = id
      /\ \A j, k \in 1 .. Cardinality(Ids) : j < k <=> Precedes(Down, All[j], All[k])
  BY InOrderIsOrdered DEF All
<1> HIDE DEF All
<1>2. All \in Seq(Ids) /\ Len(All) = Cardinality(Ids)
  BY <1>1
<1> QED
  BY <1>1, <1>2

\* What follows the first p rows, in the same order.
LEMMA InOrderFrom ==
    ASSUME RowsOK, NEW q, SameOrder(q), NEW p \in 0 .. Cardinality(Ids), NEW T \in SUBSET Ids,
           IsRest(T, p)
    PROVE  /\ Cardinality(T) = Cardinality(Ids) - p
           /\ InOrder(q, T) = [k \in 1 .. Cardinality(Ids) - p |-> All[p + k]]
<1> DEFINE n == Cardinality(Ids)
           g == [k \in 1 .. n - p |-> All[p + k]]
<1>1. /\ n \in Nat /\ All \in [1 .. n -> Ids]
      /\ \A x \in Ids : \E k \in 1 .. n : All[k] = x
      /\ \A j, k \in 1 .. n : j < k <=> Precedes(Down, All[j], All[k])
      /\ \A k \in 1 .. n : All[k] \in T <=> p < k
  BY AllIsList DEF IsRest
<1>2. p \in 0 .. n
  OBVIOUS
<1> HIDE DEF n
<1>3. n - p \in Nat /\ \A k \in 1 .. n - p : p + k \in 1 .. n /\ p < p + k
  BY <1>1, <1>2
<1>4. g \in [1 .. n - p -> T]
  BY <1>1, <1>3
<1>5. ASSUME NEW x \in T PROVE \E k \in 1 .. n - p : g[k] = x
  <2>1. PICK k \in 1 .. n : All[k] = x
    BY <1>1
  <2>2. p < k
    BY <1>1, <2>1
  <2>3. k - p \in 1 .. n - p /\ p + (k - p) = k
    BY <1>1, <1>2, <2>2
  <2> QED
    BY <2>1, <2>3
<1>6. \A j, k \in 1 .. n - p : j < k => Precedes(q, g[j], g[k])
  <2> SUFFICES ASSUME NEW j \in 1 .. n - p, NEW k \in 1 .. n - p, j < k
               PROVE  Precedes(q, g[j], g[k])
    OBVIOUS
  <2>1. p + j < p + k /\ p + j \in 1 .. n /\ p + k \in 1 .. n
    BY <1>2, <1>3
  <2>2. Precedes(Down, All[p + j], All[p + k]) /\ All[p + j] \in Ids /\ All[p + k] \in Ids
    BY <1>1, <2>1
  <2> QED
    BY <2>2 DEF SameOrder
<1>7. Lists(g, n - p, q, T)
  BY <1>4, <1>5, <1>6 DEF Lists
<1>8. T \subseteq Ids
  OBVIOUS
<1> HIDE DEF g
<1>9. Cardinality(T) = n - p /\ InOrder(q, T) = g
  BY <1>3, <1>7, <1>8, OrderedIsInOrder
<1> QED
  BY <1>9 DEF n, g

\* The first p rows, in the opposite order.
LEMMA InOrderBack ==
    ASSUME RowsOK, NEW q, BackToFront(q), NEW p \in 0 .. Cardinality(Ids), NEW T \in SUBSET Ids,
           IsFirst(T, p)
    PROVE  /\ Cardinality(T) = p
           /\ InOrder(q, T) = [k \in 1 .. p |-> All[p + 1 - k]]
<1> DEFINE n == Cardinality(Ids)
           g == [k \in 1 .. p |-> All[p + 1 - k]]
<1>1. /\ n \in Nat /\ All \in [1 .. n -> Ids]
      /\ \A x \in Ids : \E k \in 1 .. n : All[k] = x
      /\ \A j, k \in 1 .. n : j < k <=> Precedes(Down, All[j], All[k])
      /\ \A k \in 1 .. n : All[k] \in T <=> k <= p
  BY AllIsList DEF IsFirst
<1>2. p \in 0 .. n
  OBVIOUS
<1> HIDE DEF n
<1>3. p \in Nat /\ \A k \in 1 .. p : p + 1 - k \in 1 .. n /\ p + 1 - k <= p
  BY <1>1, <1>2
<1>4. g \in [1 .. p -> T]
  BY <1>1, <1>3
<1>5. ASSUME NEW x \in T PROVE \E k \in 1 .. p : g[k] = x
  <2>1. PICK k \in 1 .. n : All[k] = x
    BY <1>1
  <2>2. k <= p
    BY <1>1, <2>1
  <2>3. p + 1 - k \in 1 .. p /\ p + 1 - (p + 1 - k) = k
    BY <1>3, <2>2
  <2> QED
    BY <2>1, <2>3
<1>6. \A j, k \in 1 .. p : j < k => Precedes(q, g[j], g[k])
  <2> SUFFICES ASSUME NEW j \in 1 .. p, NEW k \in 1 .. p, j < k PROVE Precedes(q, g[j], g[k])
    OBVIOUS
  <2>1. p + 1 - k < p + 1 - j /\ p + 1 - k \in 1 .. n /\ p + 1 - j \in 1 .. n
    BY <1>3
  <2>2. /\ Precedes(Down, All[p + 1 - k], All[p + 1 - j])
        /\ All[p + 1 - k] \in Ids /\ All[p + 1 - j] \in Ids
    BY <1>1, <2>1
  <2> QED
    BY <2>2 DEF BackToFront
<1>7. Lists(g, p, q, T)
  BY <1>4, <1>5, <1>6 DEF Lists
<1>8. T \subseteq Ids
  OBVIOUS
<1> HIDE DEF g
<1>9. Cardinality(T) = p /\ InOrder(q, T) = g
  BY <1>3, <1>7, <1>8, OrderedIsInOrder
<1> QED
  BY <1>9 DEF g

-----------------------------------------------------------------------------
(* What the variables are *)

Cursors(S) == [id : S, prev : BOOLEAN] \cup {NoCursor}
NextCursors(S) == {c \in Cursors(S) : ~c.prev}
Pages(S) ==
    {p \in [list : Seq(S), total : Nat, next : NextCursors(S), prev : Cursors(S),
            all : SUBSET S] :
        Len(p.list) <= PerPage}
Requests(S) ==
    [at : {"sent", "found", "answered"}, cursor : Cursors(S), search : BOOLEAN,
     order : {"ASC", "DESC"}, found : Values \cup {Null, Missing}, answer : Pages(S)]
Walks(S) == [on : BOOLEAN, seen : Seq(S), base : SUBSET S, search : BOOLEAN]

TypeInv ==
    /\ RowsOK
    /\ kind \in {"scans", "networks"}
    /\ cursor \in Cursors(Ids) /\ page \in Pages(Ids)
    /\ search \in BOOLEAN /\ order \in {"ASC", "DESC"} /\ wentBack \in BOOLEAN
    /\ pending \in Seq(Requests(Ids))
    /\ walk \in Walks(Ids)
    /\ updates \in 0 .. MaxUpdates /\ edits \in 0 .. MaxEdits

\* What was typed stays so when rows are added.
LEMMA PagesGrow ==
    ASSUME NEW S, NEW T, S \subseteq T
    PROVE  /\ Cursors(S) \subseteq Cursors(T) /\ Pages(S) \subseteq Pages(T)
           /\ Requests(S) \subseteq Requests(T) /\ Walks(S) \subseteq Walks(T)
<1>1. Cursors(S) \subseteq Cursors(T)
  BY DEF Cursors
<1>2. Seq(S) \subseteq Seq(T)
  BY SeqMonotonic
<1>3. Pages(S) \subseteq Pages(T)
  BY <1>1, <1>2 DEF Pages, NextCursors
<1>4. Requests(S) \subseteq Requests(T)
  BY <1>1, <1>3 DEF Requests
<1> QED
  BY <1>1, <1>2, <1>3, <1>4 DEF Walks

\* The page and the request that a view begins with.
LEMMA FirstPage ==
    ASSUME NEW S
    PROVE  /\ NoCursor \in Cursors(S) /\ NoAnswer \in Pages(S) /\ NoWalk \in Walks(S)
           /\ \A c \in Cursors(S), s \in BOOLEAN, o \in {"ASC", "DESC"} :
                 Request(c, s, o) \in Requests(S)
<1>1. NoCursor \in Cursors(S)
  BY DEF Cursors
<1>2. << >> \in Seq(S) /\ Len(<< >>) = 0
  OBVIOUS
<1>3. NoAnswer \in Pages(S)
  <2>1. NoCursor \in NextCursors(S)
    BY <1>1 DEF NextCursors, NoCursor
  <2> QED
    BY <1>1, <1>2, <2>1, ListConstants DEF NoAnswer, Pages
<1>4. NoWalk \in Walks(S)
  BY <1>2 DEF NoWalk, Walks
<1> QED
  BY <1>1, <1>3, <1>4 DEF Request, Requests

LEMMA CursorIsTyped ==
    ASSUME NEW S, NEW c \in Cursors(S)
    PROVE  c.prev \in BOOLEAN /\ (c # NoCursor => c.id \in S)
<1>1. CASE c \in [id : S, prev : BOOLEAN]
  BY <1>1
<1>2. CASE c = NoCursor
  <2>1. c.prev = FALSE
    BY <1>2 DEF NoCursor
  <2> QED
    BY <1>2, <2>1
<1> QED
  BY <1>1, <1>2 DEF Cursors

-----------------------------------------------------------------------------
(* The answers of the server *)

Candidates(q) == {id \in Matching(q.search) : Kept(q, id)}
Taken(q) == IF Len(Found(q)) > PerPage THEN SubSeq(Found(q), 1, PerPage) ELSE Found(q)

\* What is found is a list of the rows that match and are kept, each once.
LEMMA FoundIsList ==
    ASSUME RowsOK, NEW q
    PROVE  /\ Candidates(q) \subseteq Matching(q.search) /\ Matching(q.search) \subseteq Ids
           /\ IsFiniteSet(Matching(q.search)) /\ Cardinality(Matching(q.search)) \in Nat
           /\ Found(q) = InOrder(q, Candidates(q))
           /\ Found(q) \in Seq(Ids) /\ Len(Found(q)) = Cardinality(Candidates(q))
<1>1. Candidates(q) \subseteq Matching(q.search) /\ Matching(q.search) \subseteq Ids
  BY DEF Candidates, Matching, Ids
<1>2. IsFiniteSet(Matching(q.search)) /\ Cardinality(Matching(q.search)) \in Nat
  BY <1>1, FS_Subset, FS_CardinalityType DEF RowsOK
<1>3. Found(q) = InOrder(q, Candidates(q))
  BY DEF Found, Candidates
<1>4. /\ Cardinality(Candidates(q)) \in Nat
      /\ InOrder(q, Candidates(q)) \in [1 .. Cardinality(Candidates(q)) -> Candidates(q)]
  BY <1>1, InOrderIsOrdered
<1> HIDE DEF Candidates, InOrder
<1>5. Found(q) \in Seq(Candidates(q)) /\ Len(Found(q)) = Cardinality(Candidates(q))
  BY <1>3, <1>4
<1>6. Seq(Candidates(q)) \subseteq Seq(Ids)
  BY <1>1, SeqMonotonic
<1> QED
  BY <1>1, <1>2, <1>3, <1>5, <1>6

\* The rows of the page, from the first or from the last of those that are taken.
LEMMA AnswerList ==
    ASSUME RowsOK, NEW q, q.cursor.prev \in BOOLEAN
    PROVE  LET list == Answer(q).list
               n == Len(list)
           IN  /\ list \in Seq(Ids) /\ n \in Nat /\ n <= PerPage
               /\ n = IF Len(Found(q)) > PerPage THEN PerPage ELSE Len(Found(q))
               /\ \A k \in 1 .. n :
                     list[k] = Found(q)[IF q.cursor.prev THEN n - k + 1 ELSE k]
<1> DEFINE F == Found(q)
           n == IF Len(F) > PerPage THEN PerPage ELSE Len(F)
           t == Taken(q)
<1>1. F \in Seq(Ids) /\ Len(F) \in Nat /\ PerPage \in Nat
  BY FoundIsList, ListConstants
<1> HIDE DEF F
<1>2. /\ t \in Seq(Ids) /\ Len(t) = n /\ n \in Nat /\ n <= PerPage
      /\ \A k \in 1 .. n : t[k] = F[k]
  <2>1. CASE Len(F) > PerPage
    BY <1>1, <2>1 DEF Taken, F
  <2>2. CASE ~(Len(F) > PerPage)
    BY <1>1, <2>2 DEF Taken, F
  <2> QED
    BY <2>1, <2>2
<1> DEFINE list == IF q.cursor.prev THEN Reverse(t) ELSE t
<1>3. Answer(q).list = list
  BY DEF Answer, AnswerOf, Taken
<1> HIDE DEF t
<1>4. CASE q.cursor.prev
  <2>1. list = [k \in 1 .. n |-> t[n - k + 1]]
    BY <1>2, <1>4 DEF Reverse
  <2>2. \A k \in 1 .. n : n - k + 1 \in 1 .. n /\ t[n - k + 1] \in Ids
    BY <1>2
  <2>3. list \in Seq(Ids) /\ Len(list) = n
    <3> HIDE DEF list, n
    <3>1. list \in [1 .. n -> Ids]
      BY <2>1, <2>2
    <3> QED
      BY <1>2, <3>1
  <2>4. \A k \in 1 .. n : list[k] = F[n - k + 1]
    BY <1>2, <2>1, <2>2
  <2> HIDE DEF n, list
  <2> QED
    BY <1>2, <1>3, <1>4, <2>3, <2>4 DEF F, n
<1>5. CASE ~q.cursor.prev
  <2>1. list = t
    BY <1>5
  <2> HIDE DEF list
  <2> QED
    BY <1>2, <1>3, <1>5, <2>1 DEF F
<1> QED
  BY <1>4, <1>5

LEMMA AnswerIsPage ==
    ASSUME RowsOK, NEW q \in Requests(Ids)
    PROVE  Answer(q) \in Pages(Ids)
<1>1. q.cursor.prev \in BOOLEAN
  BY CursorIsTyped DEF Requests
<1> DEFINE list == Answer(q).list
<1>2. list \in Seq(Ids) /\ Len(list) \in Nat /\ Len(list) <= PerPage
  BY <1>1, AnswerList
<1>3. Matching(q.search) \subseteq Ids /\ Cardinality(Matching(q.search)) \in Nat
  BY FoundIsList
<1> DEFINE more == Len(Found(q)) > PerPage
           next == IF list # <<>> /\ (q.cursor.prev \/ more)
                   THEN [id |-> list[Len(list)], prev |-> FALSE] ELSE NoCursor
           prev == IF list # <<>> /\ (IF q.cursor.prev THEN more ELSE q.cursor # NoCursor)
                   THEN [id |-> list[1], prev |-> TRUE] ELSE NoCursor
           all == IF kind = "scans" THEN Matching(q.search) ELSE {}
<1>4. Answer(q) = [list |-> list, total |-> Cardinality(Matching(q.search)), next |-> next,
                   prev |-> prev, all |-> all]
  BY DEF Answer, AnswerOf
<1> HIDE DEF list, more
<1>5. next \in NextCursors(Ids) /\ prev \in Cursors(Ids)
  <2>1. \A id \in Ids, b \in BOOLEAN : [id |-> id, prev |-> b] \in Cursors(Ids)
    BY DEF Cursors
  <2>2. list # <<>> => list[Len(list)] \in Ids /\ list[1] \in Ids
    BY <1>2
  <2>3. NoCursor \in Cursors(Ids) /\ ~NoCursor.prev
    BY DEF Cursors, NoCursor
  <2> QED
    BY <2>1, <2>2, <2>3 DEF NextCursors
<1>6. all \subseteq Ids
  BY <1>3
<1> HIDE DEF next, prev, all
<1> QED
  BY <1>2, <1>3, <1>4, <1>5, <1>6 DEF Pages

-----------------------------------------------------------------------------
(* Type correctness *)

\* A queue of things of S stays one when one is added, replaced or taken away.
LEMMA QueueKeeps ==
    ASSUME NEW S, NEW s \in Seq(S)
    PROVE  /\ \A x \in S : Append(s, x) \in Seq(S) /\ <<x>> \in Seq(S)
           /\ \A k \in DOMAIN s : s[k] \in S /\ RemoveAt(s, k) \in Seq(S)
           /\ \A k \in DOMAIN s, x \in S : [s EXCEPT ![k] = x] \in Seq(S)
<1>1. ASSUME NEW k \in DOMAIN s PROVE s[k] \in S /\ RemoveAt(s, k) \in Seq(S)
  <2>1. k \in 1 .. Len(s) /\ Len(s) \in Nat
    OBVIOUS
  <2>2. SubSeq(s, 1, k - 1) \in Seq(S) /\ SubSeq(s, k + 1, Len(s)) \in Seq(S)
    BY <2>1
  <2> QED
    BY <2>1, <2>2 DEF RemoveAt
<1> QED
  BY <1>1

ReadOf(q) ==
    [q EXCEPT !.at = "found",
              !.found = IF q.cursor.id \in DOMAIN rows THEN rows[q.cursor.id].val
                        ELSE Missing]
AnsweredOf(q) == [q EXCEPT !.at = "answered", !.answer = Answer(q)]

LEMMA RequestSteps ==
    ASSUME TypeInv, NEW k \in DOMAIN pending
    PROVE  /\ pending[k] \in Requests(Ids)
           /\ ReadCursorRow(k) =>
                 /\ ReadOf(pending[k]) \in Requests(Ids)
                 /\ pending' = [pending EXCEPT ![k] = ReadOf(pending[k])]
           /\ FindAll(k) =>
                 /\ AnsweredOf(pending[k]) \in Requests(Ids)
                 /\ pending' = [pending EXCEPT ![k] = AnsweredOf(pending[k])]
<1>1. pending \in Seq(Requests(Ids)) /\ RowsOK
  BY DEF TypeInv
<1>2. pending[k] \in Requests(Ids)
  BY <1>1, QueueKeeps
<1>3. ReadOf(pending[k]) \in Requests(Ids)
  <2> DEFINE v == IF pending[k].cursor.id \in DOMAIN rows
                  THEN rows[pending[k].cursor.id].val ELSE Missing
  <2>1. v \in Values \cup {Null, Missing}
    BY <1>1 DEF RowsOK, Ids
  <2> HIDE DEF v
  <2> QED
    BY <1>2, <2>1 DEF ReadOf, Requests, v
<1>4. AnsweredOf(pending[k]) \in Requests(Ids)
  <2>1. Answer(pending[k]) \in Pages(Ids)
    BY <1>1, <1>2, AnswerIsPage
  <2> QED
    BY <1>2, <2>1 DEF AnsweredOf, Requests
<1>5. ReadCursorRow(k) => pending' = [pending EXCEPT ![k] = ReadOf(pending[k])]
  BY <1>1, <1>2 DEF ReadCursorRow, ReadOf, Requests
<1>6. FindAll(k) => pending' = [pending EXCEPT ![k] = AnsweredOf(pending[k])]
  BY <1>1, <1>2 DEF FindAll, AnsweredOf, Requests
<1> QED
  BY <1>2, <1>3, <1>4, <1>5, <1>6

LEMMA WalkedIsWalk ==
    ASSUME NEW q \in Requests(Ids), walk \in Walks(Ids)
    PROVE  Walked(q) \in Walks(Ids)
<1>1. /\ q.answer.list \in Seq(Ids) /\ q.answer.all \subseteq Ids /\ q.search \in BOOLEAN
      /\ walk.seen \in Seq(Ids) /\ walk.on \in BOOLEAN /\ walk.base \subseteq Ids
      /\ walk.search \in BOOLEAN
  BY DEF Requests, Pages, Walks
<1>2. [on |-> TRUE, seen |-> q.answer.list, base |-> q.answer.all, search |-> q.search]
         \in Walks(Ids)
  BY <1>1 DEF Walks
<1>3. [walk EXCEPT !.seen = @ \o q.answer.list] \in Walks(Ids)
  <2>1. walk.seen \o q.answer.list \in Seq(Ids)
    BY <1>1
  <2> QED
    BY <1>1, <2>1 DEF Walks
<1>4. NoWalk \in Walks(Ids)
  BY FirstPage
<1> QED
  BY <1>2, <1>3, <1>4 DEF Walked

LEMMA TypeStart == ListInit => TypeInv
<1> SUFFICES ASSUME ListInit PROVE TypeInv
  OBVIOUS
<1>1. RowsOK
  BY ListConstants DEF ListInit, RowsOK, Ids
<1>2. /\ NoCursor \in Cursors(Ids) /\ NoAnswer \in Pages(Ids) /\ NoWalk \in Walks(Ids)
      /\ Request(NoCursor, FALSE, "DESC") \in Requests(Ids)
  BY FirstPage
<1>3. <<Request(NoCursor, FALSE, "DESC")>> \in Seq(Requests(Ids))
  <2> DEFINE r == Request(NoCursor, FALSE, "DESC")
             R == Requests(Ids)
  <2>1. r \in R
    BY <1>2
  <2> HIDE DEF r, R
  <2>2. <<r>> \in Seq(R)
    BY <2>1
  <2> QED
    BY <2>2 DEF r, R
<1>4. 0 \in 0 .. MaxUpdates /\ 0 \in 0 .. MaxEdits
  BY ListConstants
<1>5. /\ kind \in {"scans", "networks"} /\ search = FALSE /\ order = "DESC"
      /\ wentBack = FALSE /\ updates = 0 /\ edits = 0
      /\ cursor = NoCursor /\ page = NoAnswer /\ walk = NoWalk
      /\ pending = <<Request(NoCursor, FALSE, "DESC")>>
  BY DEF ListInit
<1> QED
  BY <1>1, <1>2, <1>3, <1>4, <1>5 DEF TypeInv

\* Rows are added and change, and none goes.
LEMMA RowsGrow ==
    ASSUME TypeInv, ServerStep
    PROVE  RowsOK' /\ Ids \subseteq Ids'
<1>1. RowsOK
  BY DEF TypeInv
<1>2. CASE InsertRow
  <2>1. PICK id \in NewIds \ DOMAIN rows, m \in BOOLEAN,
             v \in IF kind = "scans" THEN Values ELSE {Null} :
           rows' = [x \in DOMAIN rows \cup {id} |->
                       IF x = id THEN [val |-> v, match |-> m] ELSE rows[x]]
    BY <1>2 DEF InsertRow
  <2>2. Ids' = Ids \cup {id} /\ id \in Nat
    BY <2>1, ListConstants DEF Ids
  <2>3. IsFiniteSet(Ids')
    BY <1>1, <2>2, FS_AddElement DEF RowsOK
  <2>4. ASSUME NEW x \in Ids'
        PROVE  x \in Nat /\ rows'[x] \in [val : Values \cup {Null}, match : BOOLEAN]
    <3>1. rows'[x] = IF x = id THEN [val |-> v, match |-> m] ELSE rows[x]
      BY <2>1, <2>4 DEF Ids
    <3> QED
      BY <1>1, <2>2, <3>1 DEF RowsOK
  <2> QED
    BY <2>2, <2>3, <2>4 DEF RowsOK
<1>3. CASE UpdateNetwork
  <2>1. PICK id \in DOMAIN rows, v \in Values \cup {Null} : rows' = [rows EXCEPT ![id].val = v]
    BY <1>3 DEF UpdateNetwork
  <2>2. Ids' = Ids
    BY <2>1 DEF Ids
  <2>3. ASSUME NEW x \in Ids
        PROVE  rows'[x] \in [val : Values \cup {Null}, match : BOOLEAN]
    <3>1. rows'[x] = IF x = id THEN [rows[x] EXCEPT !.val = v] ELSE rows[x]
      BY <2>1 DEF Ids
    <3> QED
      BY <1>1, <3>1 DEF RowsOK
  <2> QED
    BY <1>1, <2>2, <2>3 DEF RowsOK
<1> QED
  BY <1>2, <1>3 DEF ServerStep

LEMMA TypeKept == TypeInv /\ [ListNext]_listVars => TypeInv'
<1> SUFFICES ASSUME TypeInv, [ListNext]_listVars PROVE TypeInv'
  OBVIOUS
<1> DEFINE R == Requests(Ids)
<1>0. /\ RowsOK /\ kind \in {"scans", "networks"}
      /\ cursor \in Cursors(Ids) /\ page \in Pages(Ids)
      /\ page.next \in Cursors(Ids) /\ page.prev \in Cursors(Ids)
      /\ search \in BOOLEAN /\ order \in {"ASC", "DESC"} /\ wentBack \in BOOLEAN
      /\ pending \in Seq(R) /\ walk \in Walks(Ids)
      /\ updates \in 0 .. MaxUpdates /\ edits \in 0 .. MaxEdits
  BY DEF TypeInv, Pages, NextCursors
<1>1. /\ MaxUpdates \in Nat /\ MaxEdits \in Nat
      /\ NoCursor \in Cursors(Ids) /\ NoAnswer \in Pages(Ids) /\ NoWalk \in Walks(Ids)
      /\ \A c \in Cursors(Ids), s \in BOOLEAN, o \in {"ASC", "DESC"} : Request(c, s, o) \in R
  BY FirstPage, ListConstants
<1> HIDE DEF R
<1>2. \A c \in Cursors(Ids) : Load(c) => pending' \in Seq(R)
  BY <1>0, <1>1, QueueKeeps DEF Load
<1>3. CASE ServerStep
  <2>1. RowsOK' /\ Ids \subseteq Ids'
    BY <1>3, RowsGrow
  <2>2. /\ Cursors(Ids) \subseteq Cursors(Ids') /\ Pages(Ids) \subseteq Pages(Ids')
        /\ Requests(Ids) \subseteq Requests(Ids') /\ Walks(Ids) \subseteq Walks(Ids')
    BY <2>1, PagesGrow
  <2>3. Seq(R) \subseteq Seq(Requests(Ids'))
    BY <2>2, SeqMonotonic DEF R
  <2>4. updates' \in 0 .. MaxUpdates
    BY <1>0, <1>1, <1>3 DEF ServerStep, InsertRow, UpdateNetwork
  <2>5. UNCHANGED <<kind, view, pending, listPast>>
    BY <1>3 DEF ServerStep, InsertRow, UpdateNetwork
  <2> QED
    BY <1>0, <2>1, <2>2, <2>3, <2>4, <2>5 DEF TypeInv, view, listPast
<1>4. CASE GoNext
  BY <1>0, <1>2, <1>4 DEF GoNext, TypeInv, RowsOK, Ids, R, listPast
<1>5. CASE GoPrev
  BY <1>0, <1>2, <1>5 DEF GoPrev, TypeInv, RowsOK, Ids, R
<1>6. CASE TypeSearch
  BY <1>0, <1>1, <1>6 DEF TypeSearch, TypeInv, RowsOK, Ids, R
<1>7. CASE ChooseOrder
  BY <1>0, <1>1, <1>7 DEF ChooseOrder, Flip, TypeInv, RowsOK, Ids, R
<1>8. CASE PressFilter
  BY <1>0, <1>2, <1>8 DEF PressFilter, TypeInv, RowsOK, Ids, R, view, listPast
<1>9. CASE PressSearch
  <2>1. pending' \in Seq(R)
    BY <1>0, <1>1, <1>9, QueueKeeps DEF PressSearch
  <2>2. 0 \in 0 .. MaxEdits
    BY <1>1
  <2>3. /\ cursor' = NoCursor /\ page' = NoAnswer /\ search' = FALSE /\ order' = "DESC"
        /\ walk' = NoWalk /\ edits' = 0 /\ wentBack' = FALSE
        /\ UNCHANGED <<kind, rows, updates>>
    BY <1>9 DEF PressSearch
  <2>4. RowsOK' /\ Ids' = Ids
    BY <1>0, <2>3 DEF RowsOK, Ids
  <2> QED
    BY <1>0, <1>1, <2>1, <2>2, <2>3, <2>4 DEF TypeInv, R
<1>10. ASSUME NEW k \in DOMAIN pending, RequestStep(k) PROVE TypeInv'
  <2>1. pending[k] \in R
    BY <1>0, QueueKeeps
  <2>2. CASE ReadCursorRow(k)
    <3>1. pending' \in Seq(R)
      BY <1>0, <2>2, RequestSteps, QueueKeeps DEF R
    <3> QED
      BY <1>0, <2>2, <3>1 DEF ReadCursorRow, TypeInv, RowsOK, Ids, R, view, listPast
  <2>3. CASE FindAll(k)
    <3>1. pending' \in Seq(R)
      BY <1>0, <2>3, RequestSteps, QueueKeeps DEF R
    <3> QED
      BY <1>0, <2>3, <3>1 DEF FindAll, TypeInv, RowsOK, Ids, R, view, listPast
  <2>4. CASE ResponseArrives(k)
    <3>1. pending' \in Seq(R)
      BY <1>0, <2>4, QueueKeeps DEF ResponseArrives
    <3>2. page' \in Pages(Ids)
      BY <2>1, <2>4 DEF ResponseArrives, R, Requests
    <3>3. walk' \in Walks(Ids)
      BY <1>0, <2>1, <2>4, WalkedIsWalk DEF ResponseArrives, R
    <3> QED
      BY <1>0, <2>4, <3>1, <3>2, <3>3 DEF ResponseArrives, TypeInv, RowsOK, Ids, R
  <2>5. CASE RequestFails(k)
    <3>1. pending' \in Seq(R)
      BY <1>0, <2>5, QueueKeeps DEF RequestFails
    <3> QED
      BY <1>0, <2>5, <3>1 DEF RequestFails, TypeInv, RowsOK, Ids, R, listPast
  <2> QED
    BY <1>10, <2>2, <2>3, <2>4, <2>5 DEF RequestStep
<1>11. CASE UNCHANGED listVars
  BY <1>0, <1>11 DEF listVars, view, listPast, TypeInv, RowsOK, Ids, R
<1> QED
  BY <1>3, <1>4, <1>5, <1>6, <1>7, <1>8, <1>9, <1>10, <1>11 DEF ListNext, ViewStep

\* The view, the requests in flight and the walk hold cursors and rows of the table.
THEOREM ListsTypeCorrect == ListSpec => []ListsTypeOK
<1>1. ListInit => TypeInv
  BY TypeStart
<1>2. TypeInv /\ [ListNext]_listVars => TypeInv'
  BY TypeKept
<1>3. TypeInv => ListsTypeOK
  <2> SUFFICES ASSUME TypeInv PROVE ListsTypeOK
    OBVIOUS
  <2>1. \A p \in Pages(Ids) : IsPage(p)
    BY DEF Pages, NextCursors, Cursors, IsPage, Cursor
  <2>2. ASSUME NEW k \in DOMAIN pending
        PROVE  pending[k].at \in {"sent", "found", "answered"} /\ IsPage(pending[k].answer)
    <3>1. pending[k] \in Requests(Ids)
      BY RequestSteps
    <3> QED
      BY <2>1, <3>1 DEF Requests
  <2> HIDE DEF IsPage
  <2> QED
    BY <2>1, <2>2 DEF TypeInv, RowsOK, ListsTypeOK, Walks, Cursors, Cursor
<1> QED
  BY <1>1, <1>2, <1>3, PTL DEF ListSpec

-----------------------------------------------------------------------------
(* The walk with Next *)

\* The rows come in the order of the list, each once.
Rises(s) == \A j, k \in DOMAIN s : j < k => Precedes(Down, s[j], s[k])

\* Those that are not among them come after the last, and there is a page that follows.
Covers(s, ids, next) ==
    \A id \in ids \ ToSet(s) :
        s # <<>> /\ next # NoCursor /\ Precedes(Down, s[Len(s)], id)

After(q, ids) == {id \in ids : q.cursor = NoCursor \/ Precedes(Down, q.cursor.id, id)}
IsRead(q) == q.at # "sent" /\ q.cursor # NoCursor => q.found = rows[q.cursor.id].val

\* The page goes on after the cursor, and misses none that was in the table then.
GoesOn(q) ==
    LET list == q.answer.list IN
    /\ Rises(list)
    /\ ToSet(list) = After(q, ToSet(list))
    /\ Covers(list, After(q, q.answer.all), q.answer.next)

ScanRequests ==
    {q \in Requests(Ids) :
        /\ q.order = "DESC"
        /\ IsRead(q)
        /\ q.at = "answered" /\ ~q.cursor.prev => GoesOn(q)}

\* The scans of a user never change, and are listed by a value that each of them has.
WalkInv ==
    kind = "scans" =>
        /\ order = "DESC" /\ NoNulls
        /\ pending \in Seq(ScanRequests)
        /\ walk.on => Rises(walk.seen) /\ Covers(walk.seen, walk.base, page.next)

\* A request for the next page orders the rows as the list does.
LEMMA DownOrder ==
    ASSUME NEW q, ~q.cursor.prev, q.order = "DESC"
    PROVE  \A x, y : Precedes(q, x, y) <=> Precedes(Down, x, y)
BY DEF Precedes, Effective, Down, Request, NoCursor, IdComes

\* What the keyset condition keeps is what comes after the row of the cursor, wherever that
\* row stands, and rows without a value included.
LEMMA KeptIsAfter ==
    ASSUME RowsOK, NEW q \in Requests(Ids), q.order = "DESC", ~q.cursor.prev,
           q.at # "sent", IsRead(q), NEW S \in SUBSET Ids
    PROVE  {id \in S : Kept(q, id)} = After(q, S)
<1>1. CASE q.cursor = NoCursor
  BY <1>1 DEF Kept, After
<1>2. CASE q.cursor # NoCursor
  <2> DEFINE c == q.cursor.id
  <2>1. c \in Ids /\ q.found = rows[c].val /\ q.found # Missing
    BY <1>2, CursorIsTyped DEF Requests, IsRead, RowsOK, Values, Null, Missing
  <2>2. ASSUME NEW id \in S
        PROVE  Kept(q, id) <=> Precedes(q, c, id)
    <3>1. id \in Ids /\ rows[id].val \in Int /\ rows[c].val \in Int
      BY <2>1 DEF RowsOK, Values, Null
    <3>2. Effective(q) = "DESC" /\ \A x, y : IdComes(q, x, y) <=> x < y
      BY DEF Effective, IdComes
    <3> HIDE DEF c
    <3> QED
      BY <1>2, <2>1, <3>1, <3>2 DEF Kept, Precedes, Comes, c
  <2> QED
    BY <1>2, <2>2, DownOrder DEF After
<1> QED
  BY <1>1, <1>2

\* An answer to a request for a next page, however old the cursor is.
LEMMA AnswerGoesOn ==
    ASSUME RowsOK, kind = "scans", NEW q \in Requests(Ids), q.order = "DESC",
           ~q.cursor.prev, q.at = "found", IsRead(q)
    PROVE  GoesOn(AnsweredOf(q))
<1> DEFINE a == Answer(q)
           list == a.list
           n == Len(list)
           F == Found(q)
           C == Candidates(q)
           N == Cardinality(C)
<1>1. /\ list \in Seq(Ids) /\ n \in Nat
      /\ n = IF N > PerPage THEN PerPage ELSE N
      /\ \A k \in 1 .. n : list[k] = F[k]
  <2>1. q.cursor.prev \in BOOLEAN
    BY CursorIsTyped DEF Requests
  <2>2. Len(F) = N
    BY FoundIsList
  <2> HIDE DEF F, N
  <2> QED
    BY <2>1, <2>2, AnswerList DEF F
<1>2. C = After(q, Matching(q.search)) /\ C \subseteq Ids
  BY KeptIsAfter, FoundIsList DEF Candidates
<1>3. /\ N \in Nat /\ F \in [1 .. N -> C]
      /\ \A x \in C : \E k \in 1 .. N : F[k] = x
      /\ \A j, k \in 1 .. N : j < k => Precedes(Down, F[j], F[k])
  <2>1. F = InOrder(q, C)
    BY FoundIsList
  <2> HIDE DEF C, F, N
  <2>2. /\ N \in Nat /\ F \in [1 .. N -> C]
        /\ \A x \in C : \E k \in 1 .. N : F[k] = x
        /\ \A j, k \in 1 .. N : j < k => Precedes(q, F[j], F[k])
    BY <1>2, <2>1, InOrderIsOrdered DEF N
  <2> QED
    BY <2>2, DownOrder
<1>4. /\ a.all = Matching(q.search)
      /\ list # <<>> /\ N > PerPage => a.next = [id |-> list[n], prev |-> FALSE]
  BY FoundIsList DEF Answer, AnswerOf
<1>5. AnsweredOf(q).answer = a /\ AnsweredOf(q).cursor = q.cursor
  BY DEF AnsweredOf, Requests
<1> HIDE DEF a, F, C
<1>6. PerPage \in Nat \ {0} /\ n <= N
  BY <1>1, <1>3, ListConstants
<1>7. Rises(list)
  BY <1>1, <1>3, <1>6 DEF Rises
<1>8. ToSet(list) = After(q, ToSet(list))
  <2>1. \A k \in 1 .. n : list[k] \in C
    BY <1>1, <1>3, <1>6
  <2>2. ToSet(list) \subseteq C
    BY <1>1, <2>1 DEF ToSet
  <2> QED
    BY <1>2, <2>2 DEF After
<1>9. Covers(list, After(q, a.all), a.next)
  <2> SUFFICES ASSUME NEW id \in C, id \notin ToSet(list)
               PROVE  list # <<>> /\ a.next # NoCursor /\ Precedes(Down, list[n], id)
    BY <1>2, <1>4 DEF Covers
  <2>1. PICK k \in 1 .. N : F[k] = id
    BY <1>3
  <2>2. ~(k <= n)
    BY <1>1, <2>1 DEF ToSet
  <2>3. N > PerPage /\ n = PerPage /\ n \in 1 .. N /\ n < k
    BY <1>1, <1>3, <1>6, <2>2
  <2>4. list # <<>> /\ list[n] = F[n] /\ list[n] \in Ids
    BY <1>1, <2>3
  <2>5. Precedes(Down, list[n], id)
    BY <1>3, <2>1, <2>3, <2>4
  <2>6. list[n] # -1
    BY <2>4 DEF RowsOK
  <2> QED
    BY <1>4, <2>3, <2>4, <2>5, <2>6 DEF NoCursor
<1>10. After(AnsweredOf(q), ToSet(list)) = After(q, ToSet(list))
       /\ After(AnsweredOf(q), a.all) = After(q, a.all)
  BY <1>5 DEF After
<1> QED
  BY <1>5, <1>7, <1>8, <1>9, <1>10 DEF GoesOn

\* The requests in flight stay as they are when a scan is added.
LEMMA ScanRequestsStay ==
    ASSUME TypeInv, kind = "scans", ServerStep
    PROVE  /\ ScanRequests \subseteq ScanRequests'
           /\ \A x, y \in Ids : Precedes(Down, x, y)' <=> Precedes(Down, x, y)
           /\ NoNulls => NoNulls'
<1>1. InsertRow
  BY DEF ServerStep, UpdateNetwork
<1>2. Ids \subseteq Ids' /\ RowsOK
  BY RowsGrow DEF TypeInv
<1>3. PICK id \in NewIds \ DOMAIN rows, m \in BOOLEAN, v \in Values :
         rows' = [x \in DOMAIN rows \cup {id} |->
                     IF x = id THEN [val |-> v, match |-> m] ELSE rows[x]]
  BY <1>1 DEF InsertRow
<1>4. \A x \in Ids : rows'[x] = rows[x]
  BY <1>3 DEF Ids
<1>5. NoNulls => NoNulls'
  BY <1>3, <1>4 DEF NoNulls, Ids, Values, Null
<1>6. ASSUME NEW x \in Ids, NEW y \in Ids
      PROVE  Precedes(Down, x, y)' <=> Precedes(Down, x, y)
  BY <1>4 DEF Precedes
<1>7. ASSUME NEW q \in ScanRequests PROVE q \in ScanRequests'
  <2>1. q \in Requests(Ids) /\ q \in Requests(Ids')
    BY <1>2, PagesGrow DEF ScanRequests
  <2>2. /\ q.answer.list \in Seq(Ids) /\ q.answer.all \subseteq Ids
        /\ q.cursor # NoCursor => q.cursor.id \in Ids
    BY <2>1, CursorIsTyped DEF Requests, Pages
  <2>3. IsRead(q)'
    BY <1>4, <2>2 DEF ScanRequests, IsRead
  <2>4. ASSUME GoesOn(q) PROVE GoesOn(q)'
    <3> DEFINE list == q.answer.list
    <3>1. \A k \in DOMAIN list : list[k] \in Ids
      BY <2>2
    <3>2. Rises(list)'
      BY <1>6, <2>4, <3>1 DEF GoesOn, Rises
    <3>3. \A S \in SUBSET Ids : After(q, S)' = After(q, S)
      BY <1>6, <2>2 DEF After
    <3>4. ToSet(list) \subseteq Ids
      BY <3>1 DEF ToSet
    <3>5. (ToSet(list) = After(q, ToSet(list)))'
      BY <2>4, <3>3, <3>4 DEF GoesOn
    <3>6. After(q, q.answer.all)' = After(q, q.answer.all)
      BY <2>2, <3>3
    <3>7. After(q, q.answer.all) \subseteq Ids
      BY <2>2 DEF After
    <3>8. Covers(list, After(q, q.answer.all), q.answer.next)'
      <4> SUFFICES ASSUME NEW x \in After(q, q.answer.all), x \notin ToSet(list)
                   PROVE  list # <<>> /\ q.answer.next # NoCursor
                          /\ Precedes(Down, list[Len(list)], x)'
        BY <3>6 DEF Covers
      <4>1. list # <<>> /\ q.answer.next # NoCursor /\ Precedes(Down, list[Len(list)], x)
        BY <2>4 DEF GoesOn, Covers
      <4>2. list[Len(list)] \in Ids
        BY <2>2, <4>1
      <4> QED
        BY <1>6, <3>7, <4>1, <4>2
    <3> QED
      BY <3>2, <3>5, <3>8 DEF GoesOn
  <2> QED
    BY <2>1, <2>3, <2>4 DEF ScanRequests
<1> QED
  BY <1>5, <1>6, <1>7

LEMMA JoinedList ==
    ASSUME NEW S, NEW s \in Seq(S), NEW t \in Seq(S), s # <<>>
    PROVE  /\ Len(s) \in Nat \ {0} /\ s[Len(s)] \in S /\ Len(t) \in Nat
           /\ s \o t \in Seq(S) /\ Len(s \o t) = Len(s) + Len(t)
           /\ \A k \in 1 .. Len(s) : (s \o t)[k] = s[k]
           /\ \A k \in 1 .. Len(t) : (s \o t)[Len(s) + k] = t[k]
           /\ ToSet(s \o t) = ToSet(s) \cup ToSet(t)
           /\ t # <<>> => s \o t # <<>> /\ (s \o t)[Len(s \o t)] = t[Len(t)]
<1>1. /\ Len(s) \in Nat \ {0} /\ s[Len(s)] \in S /\ Len(t) \in Nat
      /\ s \o t \in Seq(S) /\ Len(s \o t) = Len(s) + Len(t)
      /\ \A k \in 1 .. Len(s) : (s \o t)[k] = s[k]
      /\ \A k \in 1 .. Len(t) : (s \o t)[Len(s) + k] = t[k]
  OBVIOUS
<1>2. DOMAIN s = 1 .. Len(s) /\ DOMAIN t = 1 .. Len(t)
      /\ DOMAIN (s \o t) = 1 .. Len(s) + Len(t)
  BY <1>1
<1>3. t # <<>> => Len(t) \in 1 .. Len(t)
  BY <1>1
<1> DEFINE u == s \o t
<1> HIDE DEF u
<1>4. ASSUME NEW k \in 1 .. Len(s) + Len(t), ~(k <= Len(s))
      PROVE  k - Len(s) \in 1 .. Len(t) /\ k = Len(s) + (k - Len(s))
  BY <1>1, <1>4
<1>5. ASSUME NEW x \in ToSet(u) PROVE x \in ToSet(s) \cup ToSet(t)
  <2>1. PICK k \in 1 .. Len(s) + Len(t) : u[k] = x
    BY <1>2 DEF ToSet, u
  <2>2. CASE k <= Len(s)
    <3>1. k \in 1 .. Len(s)
      BY <1>1, <2>2
    <3> QED
      BY <1>1, <1>2, <2>1, <3>1 DEF ToSet, u
  <2>3. CASE ~(k <= Len(s))
    <3>1. u[k] = t[k - Len(s)] /\ k - Len(s) \in 1 .. Len(t)
      BY <1>1, <1>4, <2>3 DEF u
    <3> QED
      BY <1>2, <2>1, <3>1 DEF ToSet
  <2> QED
    BY <2>2, <2>3
<1>6. ASSUME NEW x \in ToSet(s) \cup ToSet(t) PROVE x \in ToSet(u)
  <2>1. \A k \in 1 .. Len(s) : k \in DOMAIN u /\ u[k] = s[k]
    BY <1>1, <1>2 DEF u
  <2>2. \A k \in 1 .. Len(t) : Len(s) + k \in DOMAIN u /\ u[Len(s) + k] = t[k]
    BY <1>1, <1>2 DEF u
  <2> QED
    BY <1>2, <2>1, <2>2 DEF ToSet
<1> QED
  BY <1>1, <1>3, <1>5, <1>6 DEF u

LEMMA RisesOn ==
    ASSUME RowsOK, NEW s \in Seq(Ids), NEW t \in Seq(Ids), s # <<>>, Rises(s), Rises(t),
           \A k \in DOMAIN t : Precedes(Down, s[Len(s)], t[k])
    PROVE  Rises(s \o t)
<1> DEFINE u == s \o t
           n == Len(s)
<1>1. /\ n \in Nat \ {0} /\ s[n] \in Ids /\ Len(t) \in Nat
      /\ Len(u) = n + Len(t) /\ u \in Seq(Ids)
      /\ \A k \in 1 .. n : u[k] = s[k] /\ s[k] \in Ids
      /\ \A k \in 1 .. Len(t) : u[n + k] = t[k] /\ t[k] \in Ids
      /\ DOMAIN s = 1 .. n /\ DOMAIN t = 1 .. Len(t)
  BY JoinedList
<1> HIDE DEF u, n
<1>2. DOMAIN u = 1 .. n + Len(t)
  BY <1>1
<1>3. \A j \in 1 .. n, k \in 1 .. Len(t) : Precedes(Down, s[j], t[k])
  <2> SUFFICES ASSUME NEW j \in 1 .. n, NEW k \in 1 .. Len(t) PROVE Precedes(Down, s[j], t[k])
    OBVIOUS
  <2>1. Precedes(Down, s[n], t[k])
    BY <1>1 DEF n
  <2>2. j = n \/ (j \in DOMAIN s /\ n \in DOMAIN s /\ j < n)
    BY <1>1
  <2>3. j = n \/ Precedes(Down, s[j], s[n])
    BY <2>2 DEF Rises
  <2> QED
    BY <1>1, <2>1, <2>3, PrecedesIsOrder
<1> SUFFICES ASSUME NEW j \in DOMAIN u, NEW k \in DOMAIN u, j < k
             PROVE  Precedes(Down, u[j], u[k])
  BY DEF Rises, u
<1>4. \A i \in DOMAIN u : i \in 1 .. n \/ (i - n \in 1 .. Len(t) /\ i = n + (i - n))
  BY <1>1, <1>2
<1>5. CASE j \in 1 .. n /\ k \in 1 .. n
  BY <1>1, <1>5 DEF Rises
<1>6. CASE j \in 1 .. n /\ k - n \in 1 .. Len(t) /\ k = n + (k - n)
  BY <1>1, <1>3, <1>6
<1>7. CASE /\ j - n \in 1 .. Len(t) /\ j = n + (j - n)
           /\ k - n \in 1 .. Len(t) /\ k = n + (k - n)
  <2>1. j - n < k - n /\ u[j] = t[j - n] /\ u[k] = t[k - n]
    BY <1>1, <1>2, <1>7
  <2> QED
    BY <1>1, <1>7, <2>1 DEF Rises
<1> QED
  BY <1>1, <1>2, <1>4, <1>5, <1>6, <1>7

\* The walk goes on with the page of the cursor after its last row, or begins with a first
\* page, and misses nothing.
LEMMA WalkedMissesNothing ==
    ASSUME TypeInv, kind = "scans", NEW q \in ScanRequests, q.at = "answered",
           walk.on => Rises(walk.seen) /\ Covers(walk.seen, walk.base, page.next),
           Walked(q).on
    PROVE  /\ Rises(Walked(q).seen)
           /\ Covers(Walked(q).seen, Walked(q).base, q.answer.next)
<1> DEFINE list == q.answer.list
           seen == walk.seen
           w == Walked(q)
<1>1. /\ list \in Seq(Ids) /\ q.answer.all \subseteq Ids
      /\ seen \in Seq(Ids) /\ walk.base \subseteq Ids /\ RowsOK
      /\ walk \in Walks(Ids)
  BY DEF TypeInv, Walks, ScanRequests, Requests, Pages
<1>2. \A x, y, z \in Ids :
         Precedes(Down, x, y) /\ Precedes(Down, y, z) => Precedes(Down, x, z)
  BY <1>1, PrecedesIsOrder
<1>3. CASE q.cursor = NoCursor
  <2>1. w.seen = list /\ w.base = q.answer.all
    <3>1. ~(seen # <<>> /\ q.cursor.id = seen[Len(seen)])
      <4>1. seen # <<>> => seen[Len(seen)] \in Ids
        BY <1>1
      <4> QED
        BY <1>1, <1>3, <4>1 DEF NoCursor, RowsOK
    <3> QED
      BY <1>3, <3>1 DEF Walked
  <2>2. ~q.cursor.prev
    BY <1>3 DEF NoCursor
  <2>3. GoesOn(q)
    BY <2>2 DEF ScanRequests
  <2>4. After(q, q.answer.all) = q.answer.all
    BY <1>3 DEF After
  <2> QED
    BY <2>1, <2>3, <2>4 DEF GoesOn
<1>4. CASE q.cursor # NoCursor
  <2>1. /\ walk.on /\ ~q.cursor.prev /\ seen # <<>> /\ q.cursor.id = seen[Len(seen)]
        /\ walk.base \subseteq q.answer.all
        /\ w = [walk EXCEPT !.seen = @ \o list]
    BY <1>4 DEF Walked, NoWalk
  <2>2. w.seen = seen \o list /\ w.base = walk.base
    BY <1>1, <2>1 DEF Walks
  <2>3. Rises(seen) /\ Covers(seen, walk.base, page.next) /\ GoesOn(q)
    BY <2>1 DEF ScanRequests
  <2> HIDE DEF seen, list
  <2>4. /\ seen[Len(seen)] \in Ids
        /\ ToSet(seen \o list) = ToSet(seen) \cup ToSet(list)
        /\ list # <<>> => /\ seen \o list # <<>>
                         /\ (seen \o list)[Len(seen \o list)] = list[Len(list)]
    BY <1>1, <2>1, JoinedList
  <2>5. \A k \in DOMAIN list : Precedes(Down, seen[Len(seen)], list[k])
    <3>1. \A k \in DOMAIN list : list[k] \in ToSet(list)
      BY DEF ToSet
    <3> QED
      BY <1>4, <2>1, <2>3, <3>1 DEF GoesOn, After, list
  <2>6. Rises(seen \o list)
    BY <1>1, <2>1, <2>3, <2>5, RisesOn DEF GoesOn, list
  <2>7. Covers(seen \o list, walk.base, q.answer.next)
    <3> SUFFICES ASSUME NEW id \in walk.base, id \notin ToSet(seen), id \notin ToSet(list)
                 PROVE  /\ seen \o list # <<>> /\ q.answer.next # NoCursor
                        /\ Precedes(Down, (seen \o list)[Len(seen \o list)], id)
      BY <2>4 DEF Covers
    <3>1. Precedes(Down, seen[Len(seen)], id)
      BY <2>3 DEF Covers
    <3>2. id \in After(q, q.answer.all)
      BY <2>1, <3>1 DEF After
    <3>3. list # <<>> /\ q.answer.next # NoCursor /\ Precedes(Down, list[Len(list)], id)
      BY <2>3, <3>2 DEF GoesOn, Covers, list
    <3> QED
      BY <2>4, <3>3
  <2> QED
    BY <2>2, <2>6, <2>7
<1> QED
  BY <1>3, <1>4

\* A request is sent for the page of a cursor, as the fields say.
LEMMA LoadedIsScan ==
    ASSUME TypeInv, order = "DESC", NEW c \in Cursors(Ids)
    PROVE  Request(c, search, order) \in ScanRequests
<1>1. Request(c, search, order) \in Requests(Ids)
  BY FirstPage DEF TypeInv
<1> QED
  BY <1>1 DEF Request, ScanRequests, IsRead

LEMMA WalkStart == ListInit => WalkInv
<1> SUFFICES ASSUME ListInit, kind = "scans" PROVE WalkInv
  BY DEF WalkInv
<1>1. TypeInv
  BY TypeStart
<1>2. order = "DESC" /\ NoNulls /\ search = FALSE /\ ~walk.on
      /\ pending = <<Request(NoCursor, search, order)>>
  BY DEF ListInit, NoNulls, Ids, NoWalk
<1> DEFINE r == Request(NoCursor, search, order)
<1>3. r \in ScanRequests
  BY <1>1, <1>2, FirstPage, LoadedIsScan
<1> HIDE DEF r
<1>4. <<r>> \in Seq(ScanRequests)
  BY <1>3
<1> QED
  BY <1>2, <1>4 DEF WalkInv, r

LEMMA WalkKept == TypeInv /\ WalkInv /\ [ListNext]_listVars => WalkInv'
<1> SUFFICES ASSUME TypeInv, WalkInv, [ListNext]_listVars, kind' = "scans" PROVE WalkInv'
  BY DEF WalkInv
<1>0. kind = "scans"
  BY DEF ListNext, ServerStep, ViewStep, RequestStep, InsertRow, UpdateNetwork, GoNext, GoPrev,
         TypeSearch, ChooseOrder, PressFilter, PressSearch, ReadCursorRow, FindAll,
         ResponseArrives, RequestFails, listVars
<1> DEFINE R == ScanRequests
<1>1. /\ RowsOK /\ order = "DESC" /\ NoNulls /\ pending \in Seq(R)
      /\ walk.on => Rises(walk.seen) /\ Covers(walk.seen, walk.base, page.next)
      /\ walk \in Walks(Ids) /\ cursor \in Cursors(Ids)
      /\ page.next \in Cursors(Ids) /\ page.prev \in Cursors(Ids)
  BY <1>0 DEF WalkInv, TypeInv, Pages, NextCursors
<1>2. \A c \in Cursors(Ids) : Load(c) => pending' \in Seq(R)
  <2> SUFFICES ASSUME NEW c \in Cursors(Ids), Load(c) PROVE pending' \in Seq(R)
    OBVIOUS
  <2> DEFINE r == Request(c, search, order)
  <2>1. r \in R
    BY <1>1, LoadedIsScan
  <2> HIDE DEF r, R
  <2> QED
    BY <1>1, <2>1, QueueKeeps DEF Load, r
<1> HIDE DEF R
<1>3. CASE ServerStep
  <2>1. /\ ScanRequests \subseteq ScanRequests'
        /\ \A x, y \in Ids : Precedes(Down, x, y)' <=> Precedes(Down, x, y)
        /\ NoNulls'
    BY <1>0, <1>1, <1>3, ScanRequestsStay
  <2>2. UNCHANGED <<kind, view, pending, listPast>>
    BY <1>3 DEF ServerStep, InsertRow, UpdateNetwork
  <2>3. pending' \in Seq(ScanRequests')
    BY <1>1, <2>1, <2>2, SeqMonotonic DEF R
  <2>4. walk' = walk /\ page' = page /\ order' = order
    BY <2>2 DEF view, listPast
  <2>5. walk.seen \in Seq(Ids) /\ walk.base \subseteq Ids
    BY <1>1 DEF Walks
  <2>6. walk.on => Rises(walk.seen)'
    BY <1>1, <2>1, <2>4, <2>5 DEF Rises
  <2>7. walk.on => Covers(walk.seen, walk.base, page.next)'
    BY <1>1, <2>1, <2>4, <2>5 DEF Covers
  <2> QED
    BY <1>1, <2>1, <2>3, <2>4, <2>6, <2>7 DEF WalkInv
<1>4. ASSUME rows' = rows, order' = order, pending' \in Seq(R)
      PROVE  order' = "DESC" /\ NoNulls' /\ pending' \in Seq(ScanRequests')
  <2>1. NoNulls'
    BY <1>1, <1>4 DEF NoNulls, Ids
  <2>2. ScanRequests' = ScanRequests
    BY <1>4 DEF ScanRequests, IsRead, GoesOn, Rises, Covers, After, Precedes, Ids
  <2> QED
    BY <1>1, <1>4, <2>1, <2>2 DEF R
<1>5. ASSUME rows' = rows, order' = order, pending' \in Seq(R), walk' = walk, page' = page
      PROVE  WalkInv'
  <2>1. walk.on => Rises(walk.seen)' /\ Covers(walk.seen, walk.base, page.next)'
    BY <1>1, <1>5 DEF Rises, Covers, Precedes
  <2> QED
    BY <1>4, <1>5, <2>1 DEF WalkInv
<1>6. CASE GoNext
  BY <1>1, <1>2, <1>5, <1>6 DEF GoNext, listPast
<1>7. CASE GoPrev
  BY <1>1, <1>2, <1>5, <1>7 DEF GoPrev
<1>8. CASE TypeSearch
  BY <1>1, <1>5, <1>8 DEF TypeSearch
<1>9. CASE ChooseOrder \/ PressSearch
  BY <1>0, <1>9 DEF ChooseOrder, PressSearch
<1>10. CASE PressFilter
  BY <1>1, <1>2, <1>5, <1>10 DEF PressFilter, view, listPast
<1>11. ASSUME NEW k \in DOMAIN pending, RequestStep(k) PROVE WalkInv'
  <2>1. pending[k] \in R
    BY <1>1, QueueKeeps
  <2>2. /\ pending[k] \in Requests(Ids)
        /\ pending[k].order = "DESC" /\ IsRead(pending[k])
    BY <2>1 DEF R, ScanRequests
  <2>3. CASE ReadCursorRow(k)
    <3>1. ReadOf(pending[k]) \in R
      <4>1. ReadOf(pending[k]) \in Requests(Ids)
        BY <2>3, RequestSteps
      <4>2. /\ ReadOf(pending[k]).order = "DESC" /\ ReadOf(pending[k]).at = "found"
            /\ ReadOf(pending[k]).cursor = pending[k].cursor
        BY <2>2 DEF ReadOf, Requests
      <4>3. IsRead(ReadOf(pending[k]))
        <5>1. pending[k].cursor # NoCursor => pending[k].cursor.id \in Ids
          BY <2>2, CursorIsTyped DEF Requests
        <5>2. ReadOf(pending[k]).found =
                 IF pending[k].cursor.id \in DOMAIN rows THEN rows[pending[k].cursor.id].val
                 ELSE Missing
          BY <2>2 DEF ReadOf, Requests
        <5> QED
          BY <4>2, <5>1, <5>2 DEF IsRead, Ids
      <4> QED
        BY <4>1, <4>2, <4>3 DEF R, ScanRequests
    <3>2. pending' \in Seq(R)
      <4>1. pending' = [pending EXCEPT ![k] = ReadOf(pending[k])]
        BY <2>3, RequestSteps
      <4> QED
        BY <1>1, <3>1, <4>1, QueueKeeps
    <3> QED
      BY <1>5, <2>3, <3>2 DEF ReadCursorRow, view, listPast
  <2>4. CASE FindAll(k)
    <3>1. AnsweredOf(pending[k]) \in R
      <4>1. AnsweredOf(pending[k]) \in Requests(Ids) /\ pending[k].at = "found"
        BY <2>4, RequestSteps DEF FindAll
      <4>2. /\ AnsweredOf(pending[k]).order = "DESC"
            /\ AnsweredOf(pending[k]).cursor = pending[k].cursor
            /\ AnsweredOf(pending[k]).found = pending[k].found
        BY <2>2 DEF AnsweredOf, Requests
      <4>3. IsRead(AnsweredOf(pending[k]))
        BY <2>2, <4>1, <4>2 DEF IsRead
      <4>4. ~pending[k].cursor.prev => GoesOn(AnsweredOf(pending[k]))
        BY <1>0, <1>1, <2>2, <4>1, AnswerGoesOn
      <4> QED
        BY <4>1, <4>2, <4>3, <4>4 DEF R, ScanRequests
    <3>2. pending' \in Seq(R)
      <4>1. pending' = [pending EXCEPT ![k] = AnsweredOf(pending[k])]
        BY <2>4, RequestSteps
      <4> QED
        BY <1>1, <3>1, <4>1, QueueKeeps
    <3> QED
      BY <1>5, <2>4, <3>2 DEF FindAll, view, listPast
  <2>5. CASE ResponseArrives(k)
    <3>1. pending' \in Seq(R) /\ rows' = rows /\ order' = order
      BY <1>1, <2>5, QueueKeeps DEF ResponseArrives
    <3>2. walk' = Walked(pending[k]) /\ page'.next = pending[k].answer.next
      BY <2>5 DEF ResponseArrives
    <3>3. Walked(pending[k]).on =>
             /\ Rises(Walked(pending[k]).seen)
             /\ Covers(Walked(pending[k]).seen, Walked(pending[k]).base, pending[k].answer.next)
      BY <1>0, <1>1, <2>1, <2>5, WalkedMissesNothing DEF ResponseArrives, R
    <3> DEFINE w == Walked(pending[k])
    <3>4. walk' = w /\ (w.on => Rises(w.seen) /\ Covers(w.seen, w.base, page'.next))
      BY <3>2, <3>3
    <3> HIDE DEF w
    <3>5. (walk.on => Rises(walk.seen) /\ Covers(walk.seen, walk.base, page.next))'
      BY <3>1, <3>4 DEF Rises, Covers, Precedes
    <3> QED
      BY <1>4, <3>1, <3>5 DEF WalkInv
  <2>6. CASE RequestFails(k)
    <3>1. pending' \in Seq(R)
      BY <1>1, <2>6, QueueKeeps DEF RequestFails
    <3> QED
      BY <1>5, <2>6, <3>1 DEF RequestFails, listPast
  <2> QED
    BY <1>11, <2>3, <2>4, <2>5, <2>6 DEF RequestStep
<1>12. CASE UNCHANGED listVars
  BY <1>1, <1>5, <1>12 DEF listVars, view, listPast
<1> QED
  BY <1>3, <1>6, <1>7, <1>8, <1>9, <1>10, <1>11, <1>12 DEF ListNext, ViewStep

\* Rows that come in the order of the list are told apart.
LEMMA RisingIsCounted ==
    ASSUME RowsOK, NEW s \in Seq(Ids), Rises(s)
    PROVE  Cardinality(ToSet(s)) = Len(s)
<1> DEFINE n == Len(s)
           f == [k \in 1 .. n |-> s[k]]
<1>1. n \in Nat /\ DOMAIN s = 1 .. n /\ \A k \in 1 .. n : s[k] \in Ids /\ f[k] = s[k]
  OBVIOUS
<1>2. ToSet(s) = {s[k] : k \in 1 .. n}
  BY <1>1 DEF ToSet
<1>3. \A j, k \in 1 .. n : s[j] = s[k] => j = k
  <2> SUFFICES ASSUME NEW j \in 1 .. n, NEW k \in 1 .. n, s[j] = s[k], j < k PROVE FALSE
    BY <1>1
  <2> QED
    BY <1>1, PrecedesIsOrder DEF Rises
<1>4. f \in Bijection(1 .. n, ToSet(s))
  BY <1>1, <1>2, <1>3 DEF Bijection, Injection, Surjection, IsInjective
<1> QED
  BY <1>1, <1>4, FS_CountingElements DEF ExistsBijection

\* Who walks through the scans with Next sees none twice and, of those that were there at the
\* beginning, misses none, while others are uploaded and answers come late or never.
THEOREM WalkMissesNothingHolds == ListSpec => []WalkMissesNothing
<1>1. ListInit => TypeInv /\ WalkInv
  BY TypeStart, WalkStart
<1>2. TypeInv /\ WalkInv /\ [ListNext]_listVars => (TypeInv /\ WalkInv)'
  BY TypeKept, WalkKept
<1>3. TypeInv /\ WalkInv => WalkMissesNothing
  <2> SUFFICES ASSUME TypeInv, WalkInv, kind = "scans", walk.on PROVE WalkMissesNothing
    BY DEF WalkMissesNothing
  <2>1. /\ RowsOK /\ walk.seen \in Seq(Ids)
        /\ Rises(walk.seen) /\ Covers(walk.seen, walk.base, page.next)
    BY DEF TypeInv, WalkInv, Walks
  <2>2. Cardinality(ToSet(walk.seen)) = Len(walk.seen)
    BY <2>1, RisingIsCounted
  <2>3. \A x, y : Precedes(Request(NoCursor, walk.search, "DESC"), x, y)
                  <=> Precedes(Down, x, y)
    BY DEF Down, Request, Precedes, Effective, NoCursor, IdComes
  <2> QED
    BY <2>1, <2>2, <2>3 DEF WalkMissesNothing, Covers
<1> QED
  BY <1>1, <1>2, <1>3, PTL DEF ListSpec

-----------------------------------------------------------------------------
(* Whole pages *)

\* The cursors of a list whose fields were not touched: after the last row of a page that
\* others follow, or before the first row of one that others precede.
CursorFits(c) ==
    \/ c = NoCursor
    \/ \E m \in Nat \ {0} :
          /\ m * PerPage < Len(All)
          /\ c.id = All[IF c.prev THEN m * PerPage + 1 ELSE m * PerPage]
WholePage(p) ==
    \E n \in Nat :
        LET first == n * PerPage
            last == first + Len(p.list)
        IN  /\ last <= Len(All)
            /\ \A k \in 1 .. Len(p.list) : p.list[k] = All[first + k]
            /\ Len(p.list) = PerPage \/ last = Len(All)
            /\ p.next # NoCursor <=> last < Len(All)
            /\ p.prev # NoCursor <=> n > 0
            /\ p.total = Len(All)
PageFits(p) == WholePage(p) /\ CursorFits(p.next) /\ CursorFits(p.prev)
Fitting ==
    {q \in Requests(Ids) :
        /\ q.search = FALSE /\ q.order = "DESC" /\ CursorFits(q.cursor) /\ IsRead(q)
        /\ q.at = "answered" => PageFits(q.answer)}

\* Nothing goes back before Previous is pressed, and the fields are as they were loaded until
\* one is touched; and while nothing is touched, whatever is in flight fits the list.
Forward == {q \in Requests(Ids) : ~q.cursor.prev}
Untouched == updates = 0 /\ edits = 0 /\ (NoNulls \/ ~wentBack)
PageInv ==
    /\ edits = 0 => search = FALSE /\ order = "DESC"
    /\ ~wentBack => ~cursor.prev /\ pending \in Seq(Forward)
    /\ Untouched =>
          /\ CursorFits(cursor) /\ pending \in Seq(Fitting)
          /\ CursorFits(page.next) /\ CursorFits(page.prev)
          /\ page # NoAnswer => WholePage(page)

LEMMA PagesOf ==
    ASSUME NEW m \in Nat, NEW P \in Nat \ {0}
    PROVE  m * P \in Nat /\ m <= m * P /\ (m + 1) * P = m * P + P
<1>1. m * P \in Nat /\ (m + 1) * P = m * P + P
  OBVIOUS
<1>2. m * P = m + m * (P - 1) /\ m * (P - 1) \in Nat
  OBVIOUS
<1> QED
  BY <1>1, <1>2

\* A page whose rows, cursors and total are those of the m-th page of the list fits it, and so
\* do its cursors.
LEMMA PageAtFits ==
    ASSUME RowsOK, NEW a \in Pages(Ids), NEW m \in Nat,
           m * PerPage < Len(All) \/ m = 0,
           Len(a.list) = IF Len(All) - m * PerPage > PerPage THEN PerPage
                         ELSE Len(All) - m * PerPage,
           \A k \in 1 .. Len(a.list) : a.list[k] = All[m * PerPage + k],
           a.total = Len(All),
           a.next = IF m * PerPage + PerPage < Len(All)
                    THEN [id |-> a.list[Len(a.list)], prev |-> FALSE] ELSE NoCursor,
           a.prev = IF m > 0 THEN [id |-> a.list[1], prev |-> TRUE] ELSE NoCursor
    PROVE  PageFits(a)
<1> DEFINE N == Len(All)
           p == m * PerPage
           n == Len(a.list)
<1>1. /\ N \in Nat /\ PerPage \in Nat \ {0} /\ p \in Nat /\ n \in Nat
      /\ All \in [1 .. N -> Ids] /\ \A id \in Ids : id \in Nat
      /\ (m + 1) * PerPage = p + PerPage
  <2>1. a.list \in Seq(Ids)
    BY DEF Pages
  <2>2. PerPage \in Nat \ {0} /\ \A id \in Ids : id \in Nat
    BY ListConstants DEF RowsOK
  <2>3. p \in Nat /\ (m + 1) * PerPage = p + PerPage
    BY <2>2, PagesOf
  <2>4. N \in Nat /\ All \in [1 .. N -> Ids]
    BY AllIsList
  <2>5. n \in Nat
    BY <2>1
  <2> HIDE DEF N, p, n
  <2> QED
    BY <2>2, <2>3, <2>4, <2>5
<1>0. (m = 0 => p = 0) /\ (p < N \/ m = 0)
  BY ListConstants
<1>2. /\ n = IF N - p > PerPage THEN PerPage ELSE N - p
      /\ \A k \in 1 .. n : a.list[k] = All[p + k]
      /\ a.total = N
      /\ a.next = IF p + PerPage < N THEN [id |-> a.list[n], prev |-> FALSE] ELSE NoCursor
      /\ a.prev = IF m > 0 THEN [id |-> a.list[1], prev |-> TRUE] ELSE NoCursor
  OBVIOUS
<1> DEFINE next == (m + 1) * PerPage
<1> HIDE DEF N, p, n, next
<1>3. p + n <= N /\ (n = PerPage \/ p + n = N) /\ (p + PerPage < N <=> p + n < N)
  BY <1>0, <1>1, <1>2
<1>4. ASSUME p + PerPage < N
      PROVE  a.list[n] = All[next] /\ a.list[n] # -1
  <2>1. n = PerPage /\ n \in 1 .. n /\ p + n \in 1 .. N
    BY <1>1, <1>2, <1>4
  <2>2. a.list[n] = All[p + n] /\ All[p + n] \in Ids
    BY <1>1, <1>2, <2>1
  <2>3. next = p + n
    BY <1>1, <2>1 DEF next
  <2> QED
    BY <1>1, <2>2, <2>3
<1>5. ASSUME m > 0
      PROVE  a.list[1] = All[p + 1] /\ a.list[1] # -1 /\ p < N
  <2>1. p < N
    BY <1>0, <1>5
  <2>2. 1 \in 1 .. n /\ p + 1 \in 1 .. N
    BY <1>1, <1>2, <2>1
  <2>3. a.list[1] = All[p + 1] /\ All[p + 1] \in Ids
    BY <1>1, <1>2, <2>2
  <2> QED
    BY <1>1, <2>1, <2>3
<1>6. a.next # NoCursor <=> p + n < N
  <2>1. CASE p + PerPage < N
    <3>1. a.next.id # NoCursor.id
      BY <1>2, <1>4, <2>1 DEF NoCursor
    <3> QED
      BY <1>3, <2>1, <3>1
  <2> QED
    BY <1>2, <1>3, <2>1
<1>7. a.prev # NoCursor <=> m > 0
  BY <1>1, <1>2, <1>5 DEF NoCursor
<1>8. WholePage(a)
  BY <1>1, <1>2, <1>3, <1>6, <1>7 DEF WholePage, N, p, n
<1>9. CursorFits(a.next)
  <2>1. CASE p + PerPage < N
    <3>1. a.next = [id |-> a.list[n], prev |-> FALSE]
      BY <1>2, <2>1
    <3>2. a.next.id = All[next] /\ a.next.prev = FALSE
      BY <1>4, <2>1, <3>1
    <3>3. m + 1 \in Nat \ {0} /\ next < N
      BY <1>1, <2>1 DEF next
    <3>4. a.next.id = All[IF a.next.prev THEN next + 1 ELSE next]
      BY <3>2
    <3> QED
      BY <3>3, <3>4 DEF CursorFits, N, next
  <2> QED
    BY <1>2, <2>1 DEF CursorFits
<1>10. CursorFits(a.prev)
  <2>1. CASE m > 0
    <3>1. a.prev = [id |-> a.list[1], prev |-> TRUE]
      BY <1>2, <2>1
    <3>2. a.prev.id = All[p + 1] /\ a.prev.prev = TRUE /\ p < N /\ m \in Nat \ {0}
      BY <1>5, <2>1, <3>1
    <3>3. a.prev.id = All[IF a.prev.prev THEN p + 1 ELSE p]
      BY <3>2
    <3> QED
      BY <3>2, <3>3 DEF CursorFits, N, p
  <2> QED
    BY <1>2, <2>1 DEF CursorFits
<1> QED
  BY <1>8, <1>9, <1>10 DEF PageFits

\* What an answer shows, told by what is found.
LEMMA AnswerShows ==
    ASSUME RowsOK, NEW q \in Requests(Ids), q.search = FALSE
    PROVE  LET a == Answer(q)
               F == Found(q)
           IN  /\ a \in Pages(Ids)
               /\ a.total = Len(All)
               /\ Len(F) \in Nat /\ F = InOrder(q, {id \in Ids : Kept(q, id)})
               /\ Len(F) = Cardinality({id \in Ids : Kept(q, id)})
               /\ Len(a.list) = IF Len(F) > PerPage THEN PerPage ELSE Len(F)
               /\ \A k \in 1 .. Len(a.list) :
                     a.list[k] = F[IF q.cursor.prev THEN Len(a.list) - k + 1 ELSE k]
               /\ a.next = IF a.list # <<>> /\ (q.cursor.prev \/ Len(F) > PerPage)
                           THEN [id |-> a.list[Len(a.list)], prev |-> FALSE] ELSE NoCursor
               /\ a.prev = IF a.list # <<>> /\ (IF q.cursor.prev THEN Len(F) > PerPage
                                                ELSE q.cursor # NoCursor)
                           THEN [id |-> a.list[1], prev |-> TRUE] ELSE NoCursor
<1>1. q.cursor.prev \in BOOLEAN
  BY CursorIsTyped DEF Requests
<1>2. Matching(q.search) = Ids
  BY DEF Matching, Ids
<1>3. Candidates(q) = {id \in Ids : Kept(q, id)}
  BY <1>2 DEF Candidates
<1>4. Answer(q).total = Len(All)
  BY <1>2, AllIsList DEF Answer, AnswerOf
<1>5. /\ Found(q) = InOrder(q, Candidates(q)) /\ Len(Found(q)) = Cardinality(Candidates(q))
      /\ Len(Found(q)) \in Nat
  BY FoundIsList
<1> DEFINE a == Answer(q)
           F == Found(q)
<1>6. a.next = IF a.list # <<>> /\ (q.cursor.prev \/ Len(F) > PerPage)
               THEN [id |-> a.list[Len(a.list)], prev |-> FALSE] ELSE NoCursor
  BY DEF Answer, AnswerOf
<1>7. a.prev = IF a.list # <<>> /\ (IF q.cursor.prev THEN Len(F) > PerPage
                                    ELSE q.cursor # NoCursor)
               THEN [id |-> a.list[1], prev |-> TRUE] ELSE NoCursor
  BY DEF Answer, AnswerOf
<1>8. a \in Pages(Ids)
  BY AnswerIsPage
<1>9. /\ Len(a.list) = IF Len(F) > PerPage THEN PerPage ELSE Len(F)
      /\ \A k \in 1 .. Len(a.list) :
            a.list[k] = F[IF q.cursor.prev THEN Len(a.list) - k + 1 ELSE k]
  BY <1>1, AnswerList
<1> HIDE DEF a, F
<1> QED
  BY <1>3, <1>4, <1>5, <1>6, <1>7, <1>8, <1>9 DEF a, F

\* The rows that come after, in the same order.
LEMMA NextPageFits ==
    ASSUME RowsOK, NEW q \in Requests(Ids), q.search = FALSE, q.order = "DESC",
           q.at = "found", IsRead(q), CursorFits(q.cursor), ~q.cursor.prev
    PROVE  PageFits(Answer(q))
<1> DEFINE N == Len(All)
           T == {id \in Ids : Kept(q, id)}
           a == Answer(q)
           F == Found(q)
<1>1. /\ N \in Nat /\ N = Cardinality(Ids) /\ All \in [1 .. N -> Ids]
      /\ \A j, k \in 1 .. N : j < k <=> Precedes(Down, All[j], All[k])
      /\ PerPage \in Nat \ {0}
  BY AllIsList, ListConstants
<1>2. T = After(q, Ids)
  BY KeptIsAfter
<1>3. PICK m \in Nat :
         IF m = 0 THEN q.cursor = NoCursor
         ELSE /\ q.cursor # NoCursor /\ m * PerPage < N /\ q.cursor.id = All[m * PerPage]
  <2>1. CASE q.cursor = NoCursor
    BY <2>1
  <2>2. CASE q.cursor # NoCursor
    BY <2>2 DEF CursorFits
  <2> QED
    BY <2>1, <2>2
<1> DEFINE p == m * PerPage
<1>4. p \in Nat /\ (m = 0 => p = 0) /\ (m # 0 => p \in 1 .. N /\ p < N)
  <2>1. p \in Nat /\ m <= p
    BY <1>1, PagesOf
  <2>2. m = 0 => p = 0
    BY <1>1
  <2>3. m # 0 => p < N
    BY <1>3
  <2> HIDE DEF p
  <2> QED
    BY <1>1, <2>1, <2>2, <2>3
<1>5. m # 0 => q.cursor # NoCursor /\ q.cursor.id = All[p]
  BY <1>3
<1>6. m = 0 => q.cursor = NoCursor
  BY <1>3
<1> HIDE DEF p, N, T
<1>7. p \in 0 .. Cardinality(Ids)
  BY <1>1, <1>4
<1>8. \A k \in 1 .. N : All[k] \in T <=> p < k
  <2> SUFFICES ASSUME NEW k \in 1 .. N PROVE All[k] \in T <=> p < k
    OBVIOUS
  <2>1. All[k] \in Ids
    BY <1>1
  <2>2. CASE m = 0
    BY <1>2, <1>4, <1>6, <2>1, <2>2 DEF After
  <2>3. CASE m # 0
    BY <1>1, <1>2, <1>4, <1>5, <2>1, <2>3 DEF After
  <2> QED
    BY <2>2, <2>3
<1>9. /\ Cardinality(T) = N - p
      /\ InOrder(q, T) = [k \in 1 .. N - p |-> All[p + k]]
  <2>1. \A x, y \in Ids : Precedes(q, x, y) <=> Precedes(Down, x, y)
    BY DownOrder
  <2>2. T \subseteq Ids
    BY DEF T
  <2>3. SameOrder(q) /\ IsRest(T, p)
    BY <1>1, <1>8, <2>1 DEF SameOrder, IsRest
  <2> QED
    BY <1>1, <1>7, <2>2, <2>3, InOrderFrom
<1>10. /\ a \in Pages(Ids) /\ a.total = N /\ Len(F) = N - p
       /\ F = [k \in 1 .. N - p |-> All[p + k]]
       /\ Len(a.list) = IF Len(F) > PerPage THEN PerPage ELSE Len(F)
       /\ \A k \in 1 .. Len(a.list) : a.list[k] = F[k]
       /\ a.next = IF a.list # <<>> /\ Len(F) > PerPage
                   THEN [id |-> a.list[Len(a.list)], prev |-> FALSE] ELSE NoCursor
       /\ a.prev = IF a.list # <<>> /\ q.cursor # NoCursor
                   THEN [id |-> a.list[1], prev |-> TRUE] ELSE NoCursor
  BY <1>9, AnswerShows DEF N, T
<1> HIDE DEF a, F
<1>11. Len(a.list) \in Nat /\ (a.list # <<>> <=> Len(a.list) # 0)
  <2>1. a.list \in Seq(Ids)
    BY <1>10 DEF Pages
  <2> QED
    BY <2>1
<1>12. Len(a.list) = IF N - p > PerPage THEN PerPage ELSE N - p
  BY <1>10
<1>13. \A k \in 1 .. Len(a.list) : a.list[k] = All[p + k]
  <2> SUFFICES ASSUME NEW k \in 1 .. Len(a.list) PROVE a.list[k] = All[p + k]
    OBVIOUS
  <2>1. k \in 1 .. N - p
    BY <1>1, <1>4, <1>11, <1>12
  <2> QED
    BY <1>10, <2>1
<1>14. a.next = IF p + PerPage < N THEN [id |-> a.list[Len(a.list)], prev |-> FALSE]
                ELSE NoCursor
  <2>1. (a.list # <<>> /\ Len(F) > PerPage) <=> p + PerPage < N
    BY <1>1, <1>4, <1>10, <1>11, <1>12
  <2> QED
    BY <1>10, <2>1
<1>15. a.prev = IF m > 0 THEN [id |-> a.list[1], prev |-> TRUE] ELSE NoCursor
  <2>1. (a.list # <<>> /\ q.cursor # NoCursor) <=> m > 0
    BY <1>1, <1>4, <1>5, <1>6, <1>11, <1>12
  <2> QED
    BY <1>10, <2>1
<1>16. p < N \/ m = 0
  BY <1>4
<1> HIDE DEF NoCursor
<1> QED
  BY <1>10, <1>12, <1>13, <1>14, <1>15, <1>16, PageAtFits DEF p, N, a

\* The rows that come before, in the opposite order and put back into the list's.  A row
\* without a value comes last both ways, so there are to be none.
LEMMA BackOrder ==
    ASSUME RowsOK, NoNulls, NEW q \in Requests(Ids), q.order = "DESC", q.cursor.prev
    PROVE  /\ \A x, y \in Ids : Precedes(q, x, y) <=> Precedes(Down, y, x)
           /\ q.at # "sent" /\ IsRead(q) =>
                 \A id \in Ids : Kept(q, id) <=> Precedes(Down, id, q.cursor.id)
<1>1. \A x \in Ids : x \in Nat /\ rows[x].val \in Values /\ rows[x].val # Null
  BY DEF RowsOK, NoNulls, Values, Null
<1>2. /\ Effective(q) = "ASC" /\ Effective(Down) = "DESC"
      /\ \A x, y : (IdComes(q, x, y) <=> x > y) /\ (IdComes(Down, x, y) <=> x < y)
  BY DEF Effective, Flip, IdComes, Down, Request, NoCursor
<1>3. \A x, y \in Ids : Precedes(q, x, y) <=> Precedes(Down, y, x)
  BY <1>1, <1>2 DEF Precedes, Comes, Values
<1>4. ASSUME q.at # "sent", IsRead(q), NEW id \in Ids
      PROVE  Kept(q, id) <=> Precedes(Down, id, q.cursor.id)
  <2> DEFINE c == q.cursor.id
  <2>1. q.cursor # NoCursor
    BY DEF NoCursor
  <2>2. c \in Ids /\ q.found = rows[c].val /\ q.found \notin {Null, Missing}
    BY <1>1, <1>4, <2>1, CursorIsTyped DEF Requests, IsRead, Values, Missing, Null
  <2> HIDE DEF c
  <2>3. Kept(q, id) <=> Precedes(q, c, id)
    BY <1>1, <1>2, <2>1, <2>2 DEF Kept, Precedes, Comes, Values, c
  <2> QED
    BY <1>3, <2>2, <2>3 DEF c
<1> QED
  BY <1>3, <1>4

LEMMA PrevPageFits ==
    ASSUME RowsOK, NoNulls, NEW q \in Requests(Ids), q.search = FALSE, q.order = "DESC",
           q.at = "found", IsRead(q), CursorFits(q.cursor), q.cursor.prev
    PROVE  PageFits(Answer(q))
<1> DEFINE N == Len(All)
           T == {id \in Ids : Kept(q, id)}
           a == Answer(q)
           F == Found(q)
<1>1. /\ N \in Nat /\ N = Cardinality(Ids) /\ All \in [1 .. N -> Ids]
      /\ \A j, k \in 1 .. N : j < k <=> Precedes(Down, All[j], All[k])
      /\ PerPage \in Nat \ {0}
  BY AllIsList, ListConstants
<1>2. PICK m \in Nat : m * PerPage + PerPage < N /\ q.cursor.id = All[m * PerPage + PerPage + 1]
  <2>1. q.cursor # NoCursor
    BY DEF NoCursor
  <2>2. PICK k \in Nat \ {0} : k * PerPage < N /\ q.cursor.id = All[k * PerPage + 1]
    BY <2>1 DEF CursorFits
  <2>3. k - 1 \in Nat /\ ((k - 1) + 1) * PerPage = (k - 1) * PerPage + PerPage
    BY <1>1, <2>2, PagesOf
  <2>4. (k - 1) + 1 = k
    BY <2>2
  <2> QED
    BY <2>2, <2>3, <2>4
<1> DEFINE first == m * PerPage
           p == first + PerPage
<1>3. first \in Nat /\ (m > 0 <=> first > 0) /\ p < N /\ q.cursor.id = All[p + 1]
  <2>1. first \in Nat /\ m <= first
    BY <1>1, PagesOf
  <2>2. m = 0 => first = 0
    BY <1>1
  <2>3. p < N /\ q.cursor.id = All[p + 1]
    BY <1>2
  <2> HIDE DEF first
  <2> QED
    BY <2>1, <2>2, <2>3
<1> HIDE DEF first, N, T
<1>4. p \in 0 .. Cardinality(Ids) /\ p + 1 \in 1 .. N
  BY <1>1, <1>3
<1> HIDE DEF p
<1>5. \A k \in 1 .. N : All[k] \in T <=> k <= p
  <2> SUFFICES ASSUME NEW k \in 1 .. N PROVE All[k] \in T <=> k <= p
    OBVIOUS
  <2>1. All[k] \in T <=> Precedes(Down, All[k], All[p + 1])
    BY <1>1, <1>3, BackOrder DEF T
  <2>2. Precedes(Down, All[k], All[p + 1]) <=> k < p + 1
    BY <1>1, <1>4
  <2> QED
    BY <1>1, <1>4, <2>1, <2>2
<1>6. /\ Cardinality(T) = p
      /\ InOrder(q, T) = [k \in 1 .. p |-> All[p + 1 - k]]
  <2>1. \A x, y \in Ids : Precedes(q, x, y) <=> Precedes(Down, y, x)
    BY BackOrder
  <2>2. T \subseteq Ids
    BY DEF T
  <2>3. BackToFront(q) /\ IsFirst(T, p)
    BY <1>1, <1>5, <2>1 DEF BackToFront, IsFirst
  <2> QED
    BY <1>4, <2>2, <2>3, InOrderBack
<1>7. /\ a \in Pages(Ids) /\ a.total = N /\ Len(F) = p
      /\ F = [k \in 1 .. p |-> All[p + 1 - k]]
      /\ Len(a.list) = IF Len(F) > PerPage THEN PerPage ELSE Len(F)
      /\ \A k \in 1 .. Len(a.list) : a.list[k] = F[Len(a.list) - k + 1]
      /\ a.next = IF a.list # <<>>
                  THEN [id |-> a.list[Len(a.list)], prev |-> FALSE] ELSE NoCursor
      /\ a.prev = IF a.list # <<>> /\ Len(F) > PerPage
                  THEN [id |-> a.list[1], prev |-> TRUE] ELSE NoCursor
  BY <1>6, AnswerShows DEF N, T
<1> HIDE DEF a, F
<1>8. Len(a.list) = PerPage /\ a.list # <<>>
  BY <1>1, <1>3, <1>7 DEF p
<1>9. Len(a.list) = IF N - first > PerPage THEN PerPage ELSE N - first
  BY <1>1, <1>3, <1>8 DEF p
<1>10. \A k \in 1 .. Len(a.list) : a.list[k] = All[first + k]
  <2> SUFFICES ASSUME NEW k \in 1 .. PerPage PROVE a.list[k] = All[first + k]
    BY <1>8
  <2>1. a.list[k] = F[PerPage - k + 1]
    BY <1>7, <1>8
  <2>2. PerPage - k + 1 \in 1 .. p /\ p + 1 - (PerPage - k + 1) = first + k
    BY <1>1, <1>3 DEF p
  <2> QED
    BY <1>7, <2>1, <2>2
<1>11. a.next = IF first + PerPage < N THEN [id |-> a.list[Len(a.list)], prev |-> FALSE]
                ELSE NoCursor
  BY <1>3, <1>7, <1>8 DEF p
<1>12. a.prev = IF m > 0 THEN [id |-> a.list[1], prev |-> TRUE] ELSE NoCursor
  <2>1. Len(F) > PerPage <=> m > 0
    BY <1>1, <1>3, <1>7 DEF p
  <2> QED
    BY <1>7, <1>8, <2>1
<1>13. first < N
  BY <1>1, <1>3 DEF p
<1> HIDE DEF NoCursor
<1> QED
  BY <1>7, <1>9, <1>10, <1>11, <1>12, <1>13, PageAtFits DEF first, N, a

\* An answer shows a whole page, whichever way it was asked for.
LEMMA AnswerFits ==
    ASSUME RowsOK, NEW q \in Fitting, q.at = "found", NoNulls \/ ~q.cursor.prev
    PROVE  AnsweredOf(q) \in Requests(Ids) => AnsweredOf(q) \in Fitting
<1>1. /\ q \in Requests(Ids) /\ q.search = FALSE /\ q.order = "DESC"
      /\ CursorFits(q.cursor) /\ IsRead(q)
  BY DEF Fitting
<1>2. PageFits(Answer(q))
  BY <1>1, NextPageFits, PrevPageFits
<1>3. /\ AnsweredOf(q).search = FALSE /\ AnsweredOf(q).order = "DESC"
      /\ AnsweredOf(q).cursor = q.cursor /\ AnsweredOf(q).found = q.found
      /\ AnsweredOf(q).answer = Answer(q) /\ AnsweredOf(q).at = "answered"
  BY <1>1 DEF AnsweredOf, Requests
<1>4. IsRead(AnsweredOf(q))
  BY <1>1, <1>3 DEF IsRead
<1> QED
  BY <1>1, <1>2, <1>3, <1>4 DEF Fitting

LEMMA ReadFits ==
    ASSUME RowsOK, NEW q \in Fitting, q.at = "sent", ReadOf(q) \in Requests(Ids)
    PROVE  ReadOf(q) \in Fitting
<1>1. /\ q \in Requests(Ids) /\ q.search = FALSE /\ q.order = "DESC"
      /\ CursorFits(q.cursor)
  BY DEF Fitting
<1>2. /\ ReadOf(q).search = FALSE /\ ReadOf(q).order = "DESC"
      /\ ReadOf(q).cursor = q.cursor /\ ReadOf(q).at = "found"
      /\ ReadOf(q).found = IF q.cursor.id \in DOMAIN rows THEN rows[q.cursor.id].val
                           ELSE Missing
  BY <1>1 DEF ReadOf, Requests
<1>3. q.cursor # NoCursor => q.cursor.id \in Ids
  BY <1>1, CursorIsTyped DEF Requests
<1>4. IsRead(ReadOf(q))
  BY <1>2, <1>3 DEF IsRead, Ids
<1> QED
  BY <1>1, <1>2, <1>4 DEF Fitting

\* A request that is loaded with the fields untouched, for a cursor that fits.
LEMMA LoadFits ==
    ASSUME NEW c \in Cursors(Ids), CursorFits(c)
    PROVE  Request(c, FALSE, "DESC") \in Fitting
<1>1. Request(c, FALSE, "DESC") \in Requests(Ids)
  BY FirstPage
<1> QED
  BY <1>1 DEF Fitting, Request, IsRead

\* The view as it is loaded.
LEMMA FirstFits ==
    /\ NoCursor \in Cursors(Ids) /\ CursorFits(NoCursor) /\ ~NoCursor.prev
    /\ NoAnswer.next = NoCursor /\ NoAnswer.prev = NoCursor
    /\ <<Request(NoCursor, FALSE, "DESC")>> \in Seq(Fitting)
    /\ <<Request(NoCursor, FALSE, "DESC")>> \in Seq(Forward)
<1>1. /\ NoCursor \in Cursors(Ids) /\ CursorFits(NoCursor) /\ ~NoCursor.prev
      /\ NoAnswer.next = NoCursor /\ NoAnswer.prev = NoCursor
  BY DEF Cursors, CursorFits, NoAnswer, NoCursor
<1> DEFINE r == Request(NoCursor, FALSE, "DESC")
<1>2. r \in Fitting
  BY <1>1, LoadFits
<1>3. r \in Forward
  <2>1. r \in Requests(Ids) /\ r.cursor = NoCursor
    BY <1>2 DEF Fitting, Request
  <2> QED
    BY <1>1, <2>1 DEF Forward
<1> HIDE DEF r
<1>4. <<r>> \in Seq(Fitting) /\ <<r>> \in Seq(Forward)
  BY <1>2, <1>3
<1> QED
  BY <1>1, <1>4 DEF r

LEMMA PageStart == ListInit => PageInv
BY FirstFits DEF ListInit, PageInv

\* Steps that do not change the table leave what fits it as it is.
LEMMA FittingStays ==
    ASSUME rows' = rows
    PROVE  /\ Fitting' = Fitting /\ Forward' = Forward /\ All' = All
           /\ NoNulls' <=> NoNulls
<1>1. Ids' = Ids
  BY DEF Ids
<1>2. All' = All
  BY <1>1 DEF All, InOrder, Before, Precedes
<1>3. Fitting' = Fitting
  BY <1>1, <1>2 DEF Fitting, CursorFits, IsRead, PageFits, WholePage
<1> QED
  BY <1>1, <1>2, <1>3 DEF Forward, NoNulls

LEMMA PageKept == TypeInv /\ PageInv /\ [ListNext]_listVars => PageInv'
<1> SUFFICES ASSUME TypeInv, PageInv, [ListNext]_listVars PROVE PageInv'
  OBVIOUS
<1>1. /\ RowsOK /\ cursor \in Cursors(Ids) /\ page \in Pages(Ids)
      /\ page.next \in Cursors(Ids) /\ page.prev \in Cursors(Ids)
      /\ ~page.next.prev /\ search \in BOOLEAN /\ order \in {"ASC", "DESC"}
      /\ pending \in Seq(Requests(Ids))
      /\ updates \in Nat /\ edits \in Nat
  BY ListConstants DEF TypeInv, Pages, NextCursors
<1> DEFINE F == Fitting
           W == Forward
<1>2. /\ edits = 0 => search = FALSE /\ order = "DESC"
      /\ ~wentBack => ~cursor.prev /\ pending \in Seq(W)
      /\ Untouched => /\ CursorFits(cursor) /\ pending \in Seq(F)
                      /\ CursorFits(page.next) /\ CursorFits(page.prev)
                      /\ page # NoAnswer => WholePage(page)
  BY DEF PageInv
<1> HIDE DEF F, W
<1>3. CASE ServerStep
  <2>1. updates' # 0
    BY <1>1, <1>3 DEF ServerStep, InsertRow, UpdateNetwork
  <2>2. UNCHANGED <<kind, view, pending, listPast>>
    BY <1>3 DEF ServerStep, InsertRow, UpdateNetwork
  <2>3. Ids \subseteq Ids'
    BY <1>3, RowsGrow
  <2>4. Forward \subseteq Forward'
    BY <2>3, PagesGrow DEF Forward
  <2>5. Seq(Forward) \subseteq Seq(Forward')
    BY <2>4, SeqMonotonic
  <2> QED
    BY <1>2, <2>1, <2>2, <2>5 DEF PageInv, Untouched, view, listPast, W
<1>4. ASSUME rows' = rows, edits' = 0 => search' = FALSE /\ order' = "DESC",
             ~wentBack' => ~cursor'.prev /\ pending' \in Seq(W),
             Untouched' => /\ CursorFits(cursor') /\ pending' \in Seq(F)
                           /\ CursorFits(page'.next) /\ CursorFits(page'.prev)
                           /\ page' # NoAnswer => WholePage(page')
      PROVE  PageInv'
  <2>1. Fitting' = Fitting /\ Forward' = Forward /\ All' = All
    BY <1>4, FittingStays
  <2>2. /\ CursorFits(cursor') => CursorFits(cursor)'
        /\ CursorFits(page'.next) => CursorFits(page.next)'
        /\ CursorFits(page'.prev) => CursorFits(page.prev)'
    BY <2>1 DEF CursorFits
  <2>3. WholePage(page') => WholePage(page)'
    BY <2>1 DEF WholePage
  <2> QED
    BY <1>4, <2>1, <2>2, <2>3 DEF PageInv, F, W
<1>5. ASSUME rows' = rows, updates' = updates, edits' = edits, wentBack => wentBack'
      PROVE  Untouched' => Untouched
  <2>1. NoNulls' <=> NoNulls
    BY <1>5, FittingStays
  <2> QED
    BY <1>5, <2>1 DEF Untouched
<1>6. ASSUME NEW c \in Cursors(Ids), Load(c)
      PROVE  /\ ~wentBack /\ ~c.prev => pending' \in Seq(W)
             /\ Untouched /\ CursorFits(c) => pending' \in Seq(F)
  <2> DEFINE r == Request(c, search, order)
  <2>1. pending' = Append(pending, r)
    BY <1>6 DEF Load
  <2>2. ~c.prev => r \in W
    <3>1. r \in Requests(Ids) /\ r.cursor = c
      BY <1>1, FirstPage DEF Request
    <3> QED
      BY <3>1 DEF W, Forward
  <2>3. Untouched /\ CursorFits(c) => r \in F
    BY <1>2, LoadFits DEF F, Untouched
  <2> HIDE DEF r
  <2> QED
    BY <1>2, <2>1, <2>2, <2>3, QueueKeeps
<1>7. CASE GoNext
  <2>1. /\ Load(page.next) /\ cursor' = page.next
        /\ UNCHANGED <<rows, page, search, order, edits, wentBack, updates>>
    BY <1>7 DEF GoNext, listPast
  <2> QED
    BY <1>1, <1>2, <1>4, <1>5, <1>6, <2>1
<1>8. CASE GoPrev
  <2>1. /\ Load(page.prev) /\ cursor' = page.prev /\ wentBack' = TRUE
        /\ UNCHANGED <<rows, page, search, order, edits, updates>>
    BY <1>8 DEF GoPrev
  <2> QED
    BY <1>1, <1>2, <1>4, <1>5, <1>6, <2>1
<1>9. CASE TypeSearch \/ ChooseOrder
  <2>1. edits' # 0 /\ UNCHANGED <<rows, cursor, page, pending, wentBack>>
    BY <1>1, <1>9 DEF TypeSearch, ChooseOrder
  <2>2. ~Untouched'
    BY <2>1 DEF Untouched
  <2> QED
    BY <1>2, <1>4, <2>1, <2>2
<1>10. CASE PressFilter
  <2>1. Load(cursor) /\ UNCHANGED <<rows, cursor, page, search, order, edits, wentBack, updates>>
    BY <1>10 DEF PressFilter, view, listPast
  <2> QED
    BY <1>1, <1>2, <1>4, <1>5, <1>6, <2>1
<1>11. CASE PressSearch
  <2>1. /\ rows' = rows /\ cursor' = NoCursor /\ page' = NoAnswer
        /\ search' = FALSE /\ order' = "DESC"
        /\ pending' = <<Request(NoCursor, FALSE, "DESC")>>
    BY <1>11 DEF PressSearch
  <2> QED
    BY <1>4, <2>1, FirstFits DEF F, W
<1>12. ASSUME NEW k \in DOMAIN pending, RequestStep(k) PROVE PageInv'
  <2> DEFINE q == pending[k]
  <2>1. /\ q \in Requests(Ids)
        /\ ~wentBack => q \in W
        /\ Untouched => q \in F /\ (NoNulls \/ ~q.cursor.prev)
    <3>1. q \in Requests(Ids)
      BY <1>1, QueueKeeps
    <3>2. ~wentBack => q \in W
      BY <1>2, QueueKeeps
    <3>3. Untouched => q \in F
      BY <1>2, QueueKeeps
    <3> QED
      BY <3>1, <3>2, <3>3 DEF Untouched, W, Forward
  <2>2. CASE ReadCursorRow(k)
    <3>1. /\ q.at = "sent"
          /\ UNCHANGED <<rows, cursor, page, search, order, edits, wentBack, updates>>
      BY <2>2 DEF ReadCursorRow, view, listPast
    <3>2. ReadOf(q) \in Requests(Ids) /\ pending' = [pending EXCEPT ![k] = ReadOf(q)]
      BY <2>2, RequestSteps
    <3>3. ~wentBack => ReadOf(q) \in W
      <4>1. ReadOf(q).cursor = q.cursor
        BY <2>1 DEF ReadOf, Requests
      <4> QED
        BY <2>1, <3>2, <4>1 DEF W, Forward
    <3>4. Untouched => ReadOf(q) \in F
      BY <1>1, <2>1, <3>1, <3>2, ReadFits DEF F
    <3>5. /\ ~wentBack => pending' \in Seq(W)
          /\ Untouched => pending' \in Seq(F)
      BY <1>2, <3>2, <3>3, <3>4, QueueKeeps
    <3> QED
      BY <1>2, <1>4, <1>5, <3>1, <3>5
  <2>3. CASE FindAll(k)
    <3>1. /\ q.at = "found"
          /\ UNCHANGED <<rows, cursor, page, search, order, edits, wentBack, updates>>
      BY <2>3 DEF FindAll, view, listPast
    <3>2. AnsweredOf(q) \in Requests(Ids) /\ pending' = [pending EXCEPT ![k] = AnsweredOf(q)]
      BY <2>3, RequestSteps
    <3>3. ~wentBack => AnsweredOf(q) \in W
      <4>1. AnsweredOf(q).cursor = q.cursor
        BY <2>1 DEF AnsweredOf, Requests
      <4> QED
        BY <2>1, <3>2, <4>1 DEF W, Forward
    <3>4. Untouched => AnsweredOf(q) \in F
      BY <1>1, <2>1, <3>1, <3>2, AnswerFits DEF F
    <3>5. /\ ~wentBack => pending' \in Seq(W)
          /\ Untouched => pending' \in Seq(F)
      BY <1>2, <3>2, <3>3, <3>4, QueueKeeps
    <3> QED
      BY <1>2, <1>4, <1>5, <3>1, <3>5
  <2>4. CASE ResponseArrives(k)
    <3>1. /\ q.at = "answered" /\ page' = q.answer /\ pending' = RemoveAt(pending, k)
          /\ UNCHANGED <<rows, cursor, search, order, edits, wentBack, updates>>
      BY <2>4 DEF ResponseArrives
    <3>2. /\ ~wentBack => pending' \in Seq(W)
          /\ Untouched => pending' \in Seq(F)
      BY <1>2, <3>1, QueueKeeps
    <3>3. Untouched => /\ CursorFits(page'.next) /\ CursorFits(page'.prev)
                       /\ WholePage(page')
      BY <2>1, <3>1 DEF F, Fitting, PageFits
    <3> QED
      BY <1>2, <1>4, <1>5, <3>1, <3>2, <3>3
  <2>5. CASE RequestFails(k)
    <3>1. /\ pending' = RemoveAt(pending, k)
          /\ UNCHANGED <<rows, cursor, page, search, order, edits, wentBack, updates>>
      BY <2>5 DEF RequestFails, listPast
    <3>2. /\ ~wentBack => pending' \in Seq(W)
          /\ Untouched => pending' \in Seq(F)
      BY <1>2, <3>1, QueueKeeps
    <3> QED
      BY <1>2, <1>4, <1>5, <3>1, <3>2
  <2> QED
    BY <1>12, <2>2, <2>3, <2>4, <2>5 DEF RequestStep
<1>13. CASE UNCHANGED listVars
  <2>1. UNCHANGED <<rows, cursor, page, search, order, pending, edits, wentBack, updates>>
    BY <1>13 DEF listVars, view, listPast
  <2> QED
    BY <1>2, <1>4, <1>5, <2>1
<1> QED
  BY <1>3, <1>7, <1>8, <1>9, <1>10, <1>11, <1>12, <1>13 DEF ListNext, ViewStep

\* The same page, as the property tells it.
LEMMA WholePageIsWhole ==
    ASSUME RowsOK, search = FALSE, order = "DESC", NEW p \in Pages(Ids), WholePage(p)
    PROVE  IsWhole(p)
<1>1. WholeList = All
  <2>1. Matching(search) = Ids
    BY DEF Matching, Ids
  <2> QED
    BY <2>1 DEF WholeList, All, Down
<1> DEFINE N == Len(All)
           l == Len(p.list)
<1>2. N \in Nat /\ All \in Seq(Ids) /\ PerPage \in Nat \ {0}
  BY AllIsList, ListConstants
<1>3. p.list \in Seq(Ids)
  BY DEF Pages
<1>4. PICK n \in Nat :
         LET first == n * PerPage
             last == first + Len(p.list)
         IN  /\ last <= Len(All)
             /\ \A k \in 1 .. Len(p.list) : p.list[k] = All[first + k]
             /\ Len(p.list) = PerPage \/ last = Len(All)
             /\ p.next # NoCursor <=> last < Len(All)
             /\ p.prev # NoCursor <=> n > 0
             /\ p.total = Len(All)
  BY DEF WholePage
<1> DEFINE first == n * PerPage
           last == first + l
<1>5. /\ last <= N /\ \A k \in 1 .. l : p.list[k] = All[first + k]
      /\ l = PerPage \/ last = N
      /\ p.next # NoCursor <=> last < N
      /\ p.prev # NoCursor <=> n > 0
      /\ p.total = N
  BY <1>4
<1>6. first \in Nat /\ n <= first /\ l \in Nat
  BY <1>2, <1>3, PagesOf
<1>7. p.list = SubSeq(All, first + 1, last)
  <2> DEFINE sub == SubSeq(All, first + 1, last)
  <2> HIDE DEF first
  <2>1. sub \in Seq(Ids) /\ Len(sub) = l
    BY <1>2, <1>5, <1>6
  <2>2. \A k \in 1 .. l : sub[k] = All[first + k]
    BY <1>2, <1>5, <1>6
  <2> HIDE DEF sub, l
  <2>3. \A k \in 1 .. l : p.list[k] = sub[k]
    BY <1>5, <2>2
  <2>4. Len(p.list) = l
    BY DEF l
  <2> QED
    BY <1>3, <2>1, <2>3, <2>4, SeqEqual DEF sub
<1>8. n \in 0 .. N
  <2> HIDE DEF first, l, N
  <2> QED
    BY <1>2, <1>5, <1>6
<1> QED
  BY <1>1, <1>5, <1>7, <1>8 DEF IsWhole

\* While neither the table nor the fields change, the view shows a whole page of its list,
\* whatever is pressed, fails or comes late; except that rows without a value cannot be walked
\* backwards.
THEOREM PageIsWholeHolds == ListSpec => []PageIsWhole
<1>1. ListInit => TypeInv /\ PageInv
  BY TypeStart, PageStart
<1>2. TypeInv /\ PageInv /\ [ListNext]_listVars => (TypeInv /\ PageInv)'
  BY TypeKept, PageKept
<1>3. TypeInv /\ PageInv => PageIsWhole
  <2> SUFFICES ASSUME TypeInv, PageInv, page # NoAnswer, updates = 0, edits = 0,
                      NoNulls \/ ~wentBack
               PROVE  IsWhole(page)
    BY DEF PageIsWhole
  <2>1. RowsOK /\ page \in Pages(Ids)
    BY DEF TypeInv
  <2>2. search = FALSE /\ order = "DESC" /\ WholePage(page)
    BY DEF PageInv, Untouched
  <2> QED
    BY <2>1, <2>2, WholePageIsWhole
<1> QED
  BY <1>1, <1>2, <1>3, PTL DEF ListSpec
=============================================================================
