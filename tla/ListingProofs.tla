----------------------------- MODULE ListingProofs -----------------------------
(****************************************************************************)
(* A client that walks the pages of the listing to the end has read every   *)
(* transaction that was there when it began, for pages of any size and      *)
(* tables of any length, and each total it is told was the number of rows   *)
(* at some moment of its request.                                           *)
(*                                                                          *)
(* The argument counts the newer rows of a row that has not been read: new  *)
(* rows can only add to them, and they always fill the pages the client has *)
(* behind it, so that the row is still on a page ahead.                     *)
(*                                                                          *)
(* Rows it reads twice are paid for by new ones, from the same invariant.   *)
(****************************************************************************)
EXTENDS Listing, FiniteSetTheorems, TLAPS

--------------------------------------------------------------------------------
\* Rows and positions

\* Rows with positions of their own from a to before b.
Placed(T, f, a, b) ==
    /\ \A x \in T : f[x] \in a .. b - 1
    /\ \A x, y \in T : x # y => f[x] # f[y]

\* They are no more than there are positions.
LEMMA FitsIn ==
    ASSUME NEW T, NEW a \in Int, NEW b \in Int, a <= b, NEW f, Placed(T, f, a, b)
    PROVE  Cardinality(T) \in Nat /\ Cardinality(T) <= b - a
<1> DEFINE c == b - 1
           g == [x \in T |-> f[x]]
<1>1. g \in Injection(T, a .. c)
  BY DEF Placed, Injection, IsInjective
<1>2. IsFiniteSet(a .. c) /\ Cardinality(a .. c) = b - a
  <2>1. c \in Int /\ (IF a > c THEN 0 ELSE c - a + 1) = b - a
    OBVIOUS
  <2> HIDE DEF c
  <2>2. QED
    BY <2>1, FS_Interval
<1>3. IsFiniteSet(T) /\ Cardinality(T) <= Cardinality(a .. c)
  <2> HIDE DEF g, c
  <2>1. QED
    BY <1>1, <1>2, FS_Injection
<1>4. QED
  BY <1>2, <1>3, FS_CardinalityType

Parts(S, A, B) == S = A \cup B /\ A \cap B = {}

\* Two disjoint parts of a finite set add up.
LEMMA PartsAdd ==
    ASSUME NEW S, IsFiniteSet(S), NEW A, NEW B, Parts(S, A, B)
    PROVE  /\ IsFiniteSet(A) /\ IsFiniteSet(B)
           /\ Cardinality(A) \in Nat /\ Cardinality(B) \in Nat
           /\ Cardinality(S) = Cardinality(A) + Cardinality(B)
<1>1. IsFiniteSet(A) /\ IsFiniteSet(B)
  <2>1. A \in SUBSET S /\ B \in SUBSET S
    BY DEF Parts
  <2>2. QED
    BY <2>1, FS_Subset
<1>2. Cardinality(A \cap B) = 0
  BY FS_EmptySet DEF Parts
<1>3. Cardinality(A) \in Nat /\ Cardinality(B) \in Nat
  BY <1>1, FS_CardinalityType
<1>4. Cardinality(A \cup B) = Cardinality(A) + Cardinality(B) - Cardinality(A \cap B)
  BY <1>1, FS_Union
<1>5. QED
  BY <1>1, <1>2, <1>3, <1>4 DEF Parts

\* The rows before a row in the order of the listing.
Newer(S, r) == {q \in S : q.createdAt > r.createdAt}

\* Stamps are numbers.
Rows(S) == IsFiniteSet(S) /\ \A r \in S : r.createdAt \in Nat

\* A row that shares its stamp with no other is where its newer rows put it.
LEMMA RankIsNewer ==
    ASSUME NEW S, Rows(S), NEW pos \in Orders(S), NEW r \in S, Unshared(S, r)
    PROVE  pos[r] = Cardinality(Newer(S, r)) /\ pos[r] < Cardinality(S)
<1> DEFINE N == Newer(S, r)
           O == S \ N
           n == Cardinality(S)
<1>1. IsFiniteSet(S) /\ n \in Nat
  BY FS_CardinalityType DEF Rows
<1>2. \A q \in S : pos[q] \in 0 .. n - 1
  BY DEF Orders
<1>3. \A p, q \in S : p # q => pos[p] # pos[q]
  BY DEF Orders
<1>4. \A p, q \in S : p.createdAt > q.createdAt => pos[p] < pos[q]
  BY DEF Orders
<1>5. /\ Cardinality(S) = Cardinality(N) + Cardinality(O)
      /\ Cardinality(N) \in Nat /\ Cardinality(O) \in Nat
  <2>1. Parts(S, N, O)
    BY DEF Parts, Newer
  <2> HIDE DEF N, O
  <2>2. QED
    BY <1>1, <2>1, PartsAdd
<1>6. Cardinality(N) <= pos[r]
  <2>1. \A q \in N : q \in S /\ pos[q] \in 0 .. pos[r] - 1
    BY <1>2, <1>4 DEF Newer
  <2>2. Placed(N, pos, 0, pos[r])
    BY <1>3, <2>1 DEF Placed
  <2>3. pos[r] \in Int /\ 0 <= pos[r]
    BY <1>2
  <2> HIDE DEF N
  <2>4. QED
    BY <2>2, <2>3, FitsIn
<1>7. Cardinality(O) <= n - pos[r]
  <2>1. \A q \in O : q \in S /\ pos[q] \in pos[r] .. n - 1
    <3>1. ASSUME NEW q \in O PROVE q \in S /\ pos[q] >= pos[r]
      <4>1. q \in S /\ ~(q.createdAt > r.createdAt)
        BY <3>1 DEF Newer
      <4>2. q = r \/ r.createdAt > q.createdAt
        BY <4>1 DEF Rows, Unshared
      <4>3. QED
        BY <1>2, <1>4, <4>1, <4>2
    <3>2. QED
      BY <1>2, <3>1
  <2>2. Placed(O, pos, pos[r], n)
    BY <1>3, <2>1 DEF Placed
  <2>3. pos[r] \in Int /\ n \in Int /\ pos[r] <= n
    BY <1>1, <1>2
  <2> HIDE DEF O, n
  <2>4. QED
    BY <2>2, <2>3, FitsIn
<1>8. pos[r] \in Int /\ pos[r] <= n - 1
  BY <1>1, <1>2
<1> HIDE DEF N, O
<1>9. pos[r] = Cardinality(N) /\ pos[r] < n
  BY <1>1, <1>5, <1>6, <1>7, <1>8
<1>10. QED
  BY <1>9 DEF N

--------------------------------------------------------------------------------
\* A page and what it tells

\* The rows before a page and those after it.
BeforePage(S, pos, offset)      == {q \in S : pos[q] < offset}
AfterPage(S, pos, offset, size) == {q \in S : pos[q] >= offset + size}

\* A page divides the rows in three.
LEMMA PageDivides ==
    ASSUME NEW S, Rows(S), NEW pos \in Orders(S), NEW offset \in Nat, NEW size \in Nat
    PROVE  LET A == BeforePage(S, pos, offset)
               C == OnPage(S, pos, offset, size)
               B == AfterPage(S, pos, offset, size)
           IN  /\ Cardinality(A) \in Nat /\ Cardinality(B) \in Nat
               /\ Cardinality(C) \in Nat /\ Cardinality(S) \in Nat
               /\ Cardinality(S) = Cardinality(A) + Cardinality(C) + Cardinality(B)
               /\ Cardinality(A) <= offset
               /\ offset <= Cardinality(S) => Cardinality(A) = offset
               /\ offset + size <= Cardinality(S) =>
                    Cardinality(B) <= Cardinality(S) - (offset + size)
<1> DEFINE A == BeforePage(S, pos, offset)
           C == OnPage(S, pos, offset, size)
           B == AfterPage(S, pos, offset, size)
           CB == C \cup B
           n == Cardinality(S)
<1>1. IsFiniteSet(S) /\ n \in Nat
  BY FS_CardinalityType DEF Rows
<1>2. \A q \in S : pos[q] \in 0 .. n - 1
  BY DEF Orders
<1>3. \A p, q \in S : p # q => pos[p] # pos[q]
  BY DEF Orders
<1>4. Parts(S, A, CB) /\ Parts(CB, C, B)
  BY <1>2 DEF Parts, BeforePage, OnPage, AfterPage
<1>5. /\ IsFiniteSet(CB) /\ Cardinality(S) = Cardinality(A) + Cardinality(CB)
      /\ Cardinality(A) \in Nat /\ Cardinality(CB) \in Nat
  <2> HIDE DEF A, CB
  <2>1. QED
    BY <1>1, <1>4, PartsAdd
<1>6. /\ Cardinality(CB) = Cardinality(C) + Cardinality(B)
      /\ Cardinality(C) \in Nat /\ Cardinality(B) \in Nat
  <2> HIDE DEF C, B, CB
  <2>1. QED
    BY <1>4, <1>5, PartsAdd
<1>7. Cardinality(A) <= offset
  <2>1. \A q \in A : q \in S /\ pos[q] \in 0 .. offset - 1
    BY <1>2 DEF BeforePage
  <2>2. Placed(A, pos, 0, offset)
    BY <1>3, <2>1 DEF Placed
  <2> HIDE DEF A
  <2>3. QED
    BY <2>2, FitsIn
<1>8. ASSUME offset <= n PROVE Cardinality(CB) <= n - offset
  <2>1. \A q \in CB : q \in S /\ pos[q] \in offset .. n - 1
    BY <1>1, <1>2 DEF OnPage, AfterPage
  <2>2. Placed(CB, pos, offset, n)
    BY <1>3, <2>1 DEF Placed
  <2> HIDE DEF CB, n
  <2>3. QED
    BY <1>1, <1>8, <2>2, FitsIn
<1>9. ASSUME offset + size <= n PROVE Cardinality(B) <= n - (offset + size)
  <2> DEFINE from == offset + size
  <2>1. \A q \in B : q \in S /\ pos[q] \in from .. n - 1
    BY <1>1, <1>2 DEF AfterPage
  <2>2. Placed(B, pos, from, n)
    BY <1>3, <2>1 DEF Placed
  <2>3. from \in Int /\ from <= n
    BY <1>9
  <2> HIDE DEF B, n, from
  <2>4. Cardinality(B) <= n - from
    BY <1>1, <2>2, <2>3, FitsIn
  <2>5. QED
    BY <2>4 DEF from
<1> HIDE DEF A, B, C, CB, n
<1>10. /\ Cardinality(S) = Cardinality(A) + Cardinality(C) + Cardinality(B)
       /\ offset <= n => Cardinality(A) = offset
  BY <1>1, <1>5, <1>6, <1>7, <1>8 DEF n
<1>11. QED
  BY <1>1, <1>5, <1>6, <1>7, <1>9, <1>10 DEF A, B, C, n

\* A page with rows after it is full.
LEMMA FullBefore ==
    ASSUME NEW S, Rows(S), NEW pos \in Orders(S), NEW offset \in Nat, NEW size \in Nat,
           NEW r \in S, pos[r] >= offset + size
    PROVE  Cardinality(OnPage(S, pos, offset, size)) >= size
<1>1. pos[r] \in Nat /\ pos[r] <= Cardinality(S) - 1 /\ Cardinality(S) \in Nat
  BY FS_CardinalityType DEF Orders, Rows
<1> DEFINE A == BeforePage(S, pos, offset)
           C == OnPage(S, pos, offset, size)
           B == AfterPage(S, pos, offset, size)
           n == Cardinality(S)
<1>2. /\ Cardinality(A) \in Nat /\ Cardinality(B) \in Nat /\ Cardinality(C) \in Nat
      /\ n = Cardinality(A) + Cardinality(C) + Cardinality(B)
      /\ Cardinality(A) <= offset
      /\ offset + size <= n => Cardinality(B) <= n - (offset + size)
  BY PageDivides
<1> HIDE DEF A, B, C
<1>3. Cardinality(C) >= size
  BY <1>1, <1>2
<1>4. QED
  BY <1>3 DEF C

\* What a partial page tells of the total is right.
LEMMA PartialPageTells ==
    ASSUME NEW S, Rows(S), NEW pos \in Orders(S), NEW offset \in Nat, NEW size \in Nat,
           NEW C, C = OnPage(S, pos, offset, size), TellsTotal(C, offset, size)
    PROVE  TotalTold(C, offset, size) = Cardinality(S)
<1> DEFINE A == BeforePage(S, pos, offset)
           B == AfterPage(S, pos, offset, size)
<1>1. B = {}
  <2>1. ~ \E r \in S : pos[r] >= offset + size
    <3> SUFFICES ASSUME NEW r \in S, pos[r] >= offset + size PROVE FALSE
      OBVIOUS
    <3>1. Cardinality(C) >= size
      BY FullBefore
    <3>2. Cardinality(C) \in Nat
      BY PageDivides
    <3>3. QED
      BY <3>1, <3>2 DEF TellsTotal
  <2>2. QED
    BY <2>1 DEF AfterPage
<1>2. Cardinality(B) = 0
  BY <1>1, FS_EmptySet
<1>3. offset <= Cardinality(S)
  <2>1. CASE offset = 0
    BY <2>1, PageDivides
  <2>2. CASE offset # 0
    <3>1. PICK r \in S : offset <= pos[r]
      BY <2>2 DEF TellsTotal, OnPage
    <3>2. pos[r] <= Cardinality(S) - 1 /\ pos[r] \in Nat /\ Cardinality(S) \in Nat
      BY FS_CardinalityType DEF Orders, Rows
    <3>3. QED
      BY <3>1, <3>2
  <2>3. QED
    BY <2>1, <2>2
<1>4. /\ Cardinality(S) = Cardinality(A) + Cardinality(C) + Cardinality(B)
      /\ Cardinality(A) = offset /\ Cardinality(C) \in Nat
  BY <1>3, PageDivides
<1>5. QED
  BY <1>2, <1>4 DEF TotalTold

--------------------------------------------------------------------------------
\* What is behind and ahead of a client

\* Each row of O that is not in Z has n newer rows at least.
Behind(S, O, Z, n) ==
    \A r \in O : Unshared(S, r) /\ r \notin Z => Cardinality(Newer(S, r)) >= n

LEMMA NewerFinite ==
    ASSUME NEW S, Rows(S), NEW r
    PROVE  IsFiniteSet(Newer(S, r)) /\ Cardinality(Newer(S, r)) \in Nat
<1>1. Newer(S, r) \in SUBSET S /\ IsFiniteSet(S)
  BY DEF Newer, Rows
<1>2. IsFiniteSet(Newer(S, r))
  BY <1>1, FS_Subset
<1>3. QED
  BY <1>2, FS_CardinalityType

\* More rows, and more rows read, leave it so.
LEMMA BehindGrows ==
    ASSUME NEW S, NEW T, S \subseteq T, Rows(T), NEW O, NEW Z, NEW Y, Z \subseteq Y,
           NEW n \in Nat, NEW m \in Nat, m <= n, Behind(S, O, Z, n)
    PROVE  Behind(T, O, Y, m)
<1> SUFFICES ASSUME NEW r \in O, Unshared(T, r), r \notin Y
             PROVE  Cardinality(Newer(T, r)) >= m
  BY DEF Behind
<1>1. Unshared(S, r) /\ r \notin Z
  BY DEF Unshared
<1>2. Cardinality(Newer(S, r)) >= n
  BY <1>1 DEF Behind
<1>3. Rows(S)
  BY FS_Subset DEF Rows
<1>4. Newer(S, r) \in SUBSET Newer(T, r)
  BY DEF Newer
<1>5. Cardinality(Newer(S, r)) <= Cardinality(Newer(T, r))
  BY <1>4, NewerFinite, FS_Subset
<1>6. Cardinality(Newer(S, r)) \in Nat /\ Cardinality(Newer(T, r)) \in Nat
  BY <1>3, NewerFinite
<1>7. QED
  BY <1>2, <1>5, <1>6

\* What is not on the page read is a page further.
LEMMA PageMoves ==
    ASSUME NEW S, Rows(S), NEW pos \in Orders(S), NEW offset \in Nat, NEW size \in Nat,
           NEW O, O \subseteq S, NEW Z, Behind(S, O, Z, offset)
    PROVE  Behind(S, O, Z \cup OnPage(S, pos, offset, size), offset + size)
<1> SUFFICES ASSUME NEW r \in O, Unshared(S, r),
                    r \notin Z \cup OnPage(S, pos, offset, size)
             PROVE  Cardinality(Newer(S, r)) >= offset + size
  BY DEF Behind
<1>1. pos[r] = Cardinality(Newer(S, r))
  BY RankIsNewer
<1>2. Cardinality(Newer(S, r)) >= offset /\ Cardinality(Newer(S, r)) \in Nat
  BY NewerFinite DEF Behind
<1>3. ~(offset <= pos[r] /\ pos[r] < offset + size)
  BY DEF OnPage
<1>4. QED
  BY <1>1, <1>2, <1>3

\* A row that has not been read is counted, beyond those in front of it.
LEMMA TotalBeyond ==
    ASSUME NEW S, Rows(S), NEW O, O \subseteq S, NEW Z, NEW n \in Nat,
           Behind(S, O, Z, n), NEW r \in O, Unshared(S, r), r \notin Z
    PROVE  Cardinality(S) > n
<1>1. Newer(S, r) \in SUBSET S /\ r \in S /\ r \notin Newer(S, r) /\ IsFiniteSet(S)
  BY DEF Newer, Rows
<1>2. /\ Cardinality(Newer(S, r)) <= Cardinality(S)
      /\ Cardinality(S) = Cardinality(Newer(S, r)) => S = Newer(S, r)
  BY <1>1, FS_Subset
<1>3. Cardinality(S) \in Nat /\ Cardinality(Newer(S, r)) \in Nat
  BY <1>1, NewerFinite, FS_CardinalityType
<1>4. Cardinality(Newer(S, r)) >= n
  BY DEF Behind
<1>5. QED
  BY <1>1, <1>2, <1>3, <1>4

\* The next page begins where this one ends.
LEMMA NextOffset ==
    ASSUME NEW page \in Nat, NEW size \in Nat
    PROVE  /\ Offset(page, size) \in Nat
           /\ Offset(page + 1, size) = Offset(page, size) + size
           /\ Offset(0, size) = 0
  BY SMT DEF Offset

--------------------------------------------------------------------------------
\* The inductive invariant

\* The rows the walk owes its client.
Owed == WithFilters(old, ask.filter)

\* What is owed and not read is on no page behind the one asked for; nor, once
\* that page is read, on it; and then the total says that there are more.
Ahead ==
    /\ stage # "over" => Behind(Selected, Owed, seen, offsetOf(ask))
    /\ stage \in {"count", "answered"} =>
         Behind(Selected, Owed, seen \cup content, offsetOf(ask) + ask.size)
    /\ stage = "answered" =>
         \A r \in Owed : Unshared(Selected, r) /\ r \notin seen \cup content =>
           total > offsetOf(ask) + ask.size

\* Rows are only added while a request is served.
Counted ==
    stage \in {"findAll", "count", "answered"} => arrived <= Cardinality(Selected)

\* A page is made of what the filters let through.
Filtered ==
    stage \in {"count", "answered"} =>
      ~Raises(ask.filter) /\ \A r \in content : Passes(ask.filter, r)

IInv ==
    /\ TypeOK
    /\ IsFiniteSet(rows)
    /\ Ahead
    /\ WalkComplete
    /\ Counted
    /\ TotalCurrent
    /\ Filtered

\* Every filtered set of rows has the shape the lemmas ask for.
LEMMA FilteredRows ==
    ASSUME NEW R, R \subseteq Row, IsFiniteSet(R), NEW f
    PROVE  /\ Rows(WithFilters(R, f)) /\ WithFilters(R, f) \subseteq R
           /\ IsFiniteSet(WithFilters(R, f))
           /\ Cardinality(WithFilters(R, f)) \in Nat
<1>1. WithFilters(R, f) \in SUBSET R
  BY DEF WithFilters
<1>2. IsFiniteSet(WithFilters(R, f))
  BY <1>1, FS_Subset
<1>3. \A r \in WithFilters(R, f) : r.createdAt \in Nat
  BY <1>1 DEF Row
<1>4. QED
  BY <1>1, <1>2, <1>3, FS_CardinalityType DEF Rows

\* What is known of the rows in every state.
LEMMA Selection ==
    ASSUME IInv
    PROVE  /\ Rows(Selected) /\ Selected \subseteq rows /\ Owed \subseteq Selected
           /\ IsFiniteSet(Selected) /\ Cardinality(Selected) \in Nat
           /\ ask.page \in Nat /\ ask.size \in Nat /\ offsetOf(ask) \in Nat
<1>1. rows \subseteq Row /\ IsFiniteSet(rows) /\ old \subseteq rows
  BY DEF IInv, TypeOK
<1>2. Owed \subseteq Selected
  BY <1>1 DEF Owed, Selected, WithFilters
<1>3. ask.page \in Nat /\ ask.size \in Nat
  BY DEF IInv, TypeOK
<1>4. QED
  BY <1>1, <1>2, <1>3, FilteredRows, NextOffset DEF Selected, offsetOf

\* Rows may be added at any time.
LEMMA Grown ==
    ASSUME IInv, UNCHANGED walkVars, rows \subseteq rows', rows' \subseteq Row,
           IsFiniteSet(rows'), now' \in Nat, draft' \in [Writers -> Nat]
    PROVE  IInv'
<1> USE DEF walkVars
<1>1. TypeOK'
  BY DEF IInv, TypeOK
<1>2. /\ Selected \subseteq Selected' /\ Rows(Selected') /\ Owed' = Owed
      /\ IsFiniteSet(Selected') /\ Cardinality(Selected') \in Nat
      /\ offsetOf(ask)' = offsetOf(ask) /\ offsetOf(ask) \in Nat
      /\ offsetOf(ask) + ask.size \in Nat
  <2>1. Selected \subseteq Selected'
    BY DEF Selected, WithFilters
  <2>2. Selected' = WithFilters(rows', ask.filter)
    BY DEF Selected
  <2>3. QED
    BY <2>1, <2>2, FilteredRows, Selection DEF Owed, offsetOf
<1>3. \A r : Unshared(Selected', r) => Unshared(Selected, r)
  BY <1>2 DEF Unshared
<1>4. Ahead'
  <2>1. (stage # "over" => Behind(Selected, Owed, seen, offsetOf(ask)))'
    BY <1>2, BehindGrows DEF IInv, Ahead
  <2>2. (stage \in {"count", "answered"} =>
           Behind(Selected, Owed, seen \cup content, offsetOf(ask) + ask.size))'
    BY <1>2, BehindGrows DEF IInv, Ahead
  <2>3. QED
    BY <1>2, <1>3, <2>1, <2>2 DEF IInv, Ahead
<1>5. WalkComplete'
  BY <1>2, <1>3 DEF IInv, WalkComplete, Owed
<1>6. Cardinality(Selected) <= Cardinality(Selected') /\ Cardinality(Selected) \in Nat
  BY <1>2, Selection, FS_Subset
<1>7. Counted' /\ TotalCurrent'
  <2>1. total \in Nat /\ arrived \in Nat
    BY DEF IInv, TypeOK
  <2>2. QED
    BY <1>2, <1>6, <2>1 DEF IInv, Counted, TotalCurrent
<1>8. Filtered'
  BY DEF IInv, Filtered
<1>9. QED
  BY <1>1, <1>4, <1>5, <1>7, <1>8 DEF IInv

LEMMA WriteStep ==
    ASSUME IInv, Write PROVE IInv'
<1> USE DEF IInv, TypeOK
<1>1. CASE \E w \in Writers : Stamp(w)
  <2>1. rows' = rows /\ now' \in Nat /\ draft' \in [Writers -> Nat]
    BY <1>1 DEF Stamp
  <2>2. QED
    BY <2>1, Grown DEF Write
<1>2. CASE \E w \in Writers, r \in Row : Commit(w, r)
  <2>1. PICK w \in Writers, r \in Row : Commit(w, r)
    BY <1>2
  <2>2. rows' = rows \cup {r} /\ now' = now /\ draft' \in [Writers -> Nat]
    BY <2>1 DEF Commit
  <2>3. IsFiniteSet(rows')
    BY <2>2, FS_AddElement
  <2>4. QED
    BY <2>2, <2>3, Grown DEF Write
<1>3. CASE \E W \in SUBSET Writers : Abandon(W)
  <2>1. rows' = rows /\ now' \in Nat /\ draft' \in [Writers -> Nat]
    BY <1>3 DEF Abandon
  <2>2. QED
    BY <2>1, Grown DEF Write
<1>4. QED
  <2>1. ASSUME NEW w \in Writers, NEW r, Commit(w, r) PROVE r \in Row
    BY <2>1 DEF Commit
  <2>2. QED
    BY <1>1, <1>2, <1>3, <2>1 DEF Write

--------------------------------------------------------------------------------
\* The steps of a request and of its client; none touches the table.

\* A read step keeps the invariant if it keeps what is about the walk.
LEMMA ReadFrame ==
    ASSUME IInv, UNCHANGED feedVars, TypeOK', Ahead', WalkComplete', Counted',
           TotalCurrent', Filtered'
    PROVE  IInv'
  BY DEF IInv, feedVars

\* The request ends without an answer.
LEMMA ClosedStep ==
    ASSUME IInv, stage # "over", Close("failed"), UNCHANGED <<feedVars, ask, seen, taken, old>>
    PROVE  IInv'
<1>1. TypeOK'
  BY DEF IInv, TypeOK, Close, Stages, feedVars
<1>2. Selected' = Selected /\ Owed' = Owed /\ offsetOf(ask)' = offsetOf(ask)
  BY DEF Selected, Owed, offsetOf, feedVars
<1>3. Ahead'
  BY <1>2 DEF IInv, Ahead, Close
<1>4. WalkComplete' /\ Counted' /\ TotalCurrent' /\ Filtered'
  BY DEF WalkComplete, Counted, TotalCurrent, Filtered, Close
<1>5. QED
  BY <1>1, <1>3, <1>4, ReadFrame

LEMMA RefuseStep ==
    ASSUME IInv, Refuse \/ Fail PROVE IInv'
  BY ClosedStep DEF Refuse, Fail

LEMMA FindAllStep ==
    ASSUME IInv, FindAll PROVE IInv'
<1> DEFINE offset == offsetOf(ask)
<1>1. PICK pos \in Orders(Selected) : content' = OnPage(Selected, pos, offset, ask.size)
  BY DEF FindAll
<1>2. /\ stage = "findAll" /\ UNCHANGED <<feedVars, ask, seen, taken, old, arrived>>
      /\ \/ /\ TellsTotal(content', offset, ask.size)
            /\ stage' = "answered" /\ total' = TotalTold(content', offset, ask.size)
         \/ stage' = "count" /\ total' = total
  BY DEF FindAll
<1>3. Selected' = Selected /\ Owed' = Owed /\ offsetOf(ask)' = offset
  BY <1>2 DEF Selected, Owed, offsetOf, feedVars
<1>4. stage' = "answered" => total' = Cardinality(Selected)
  <2> HIDE DEF offset
  <2>1. offset \in Nat
    BY Selection DEF offset
  <2>2. QED
    BY <1>1, <1>2, <2>1, Selection, PartialPageTells
<1>5. TypeOK'
  <2>1. content' \subseteq rows
    BY <1>1, Selection DEF OnPage
  <2>2. total' \in Nat
    BY <1>2, <1>4, Selection DEF IInv, TypeOK
  <2>3. QED
    BY <1>2, <2>1, <2>2 DEF IInv, TypeOK, Stages, feedVars
<1>6. Behind(Selected, Owed, seen, offset)
  BY <1>2 DEF IInv, Ahead
<1>7. Behind(Selected, Owed, seen \cup content', offset + ask.size)
  BY <1>1, <1>6, Selection, PageMoves
<1>8. Ahead'
  <2>1. ASSUME stage' = "answered", NEW r \in Owed, Unshared(Selected, r),
               r \notin seen \cup content'
        PROVE  total' > offset + ask.size
    <3> DEFINE n == offset + ask.size
               Z == seen \cup content'
    <3>1. n \in Nat
      BY Selection
    <3> HIDE DEF n, Z
    <3>2. Cardinality(Selected) > n
      BY <1>7, <2>1, <3>1, Selection, TotalBeyond DEF n, Z
    <3>3. QED
      BY <1>4, <2>1, <3>2 DEF n
  <2>2. QED
    BY <1>2, <1>3, <1>6, <1>7, <2>1 DEF Ahead
<1>9. WalkComplete'
  BY <1>2 DEF WalkComplete
<1>10. Counted' /\ TotalCurrent'
  BY <1>2, <1>3, <1>4, Selection DEF IInv, Counted, TotalCurrent
<1>11. Filtered'
  <2>1. ~Raises(ask.filter)
    BY DEF FindAll, Refused
  <2>2. \A r \in content' : Passes(ask.filter, r)
    BY <1>1 DEF OnPage, Selected, WithFilters
  <2>3. QED
    BY <1>2, <2>1, <2>2 DEF Filtered
<1>12. QED
  BY <1>2, <1>5, <1>8, <1>9, <1>10, <1>11, ReadFrame

LEMMA CountStep ==
    ASSUME IInv, Count PROVE IInv'
<1>1. /\ stage = "count" /\ stage' = "answered" /\ total' = Cardinality(Selected)
      /\ UNCHANGED <<feedVars, ask, content, seen, taken, old, arrived>>
  BY DEF Count
<1>2. Selected' = Selected /\ Owed' = Owed /\ offsetOf(ask)' = offsetOf(ask)
  BY <1>1 DEF Selected, Owed, offsetOf, feedVars
<1>3. TypeOK'
  BY <1>1, Selection DEF IInv, TypeOK, Stages, feedVars
<1>4. Ahead'
  <2> DEFINE n == offsetOf(ask) + ask.size
             Z == seen \cup content
  <2>1. n \in Nat
    BY Selection
  <2>2. Behind(Selected, Owed, Z, n)
    BY <1>1 DEF IInv, Ahead
  <2>3. ASSUME NEW r \in Owed, Unshared(Selected, r), r \notin Z
        PROVE  Cardinality(Selected) > n
    <3> HIDE DEF n, Z
    <3>1. QED
      BY <2>1, <2>2, <2>3, Selection, TotalBeyond
  <2>4. QED
    BY <1>1, <1>2, <2>2, <2>3 DEF IInv, Ahead
<1>5. WalkComplete' /\ Filtered'
  BY <1>1 DEF IInv, WalkComplete, Filtered
<1>6. Counted' /\ TotalCurrent'
  BY <1>1, <1>2, Selection DEF IInv, Counted, TotalCurrent
<1>7. QED
  BY <1>1, <1>3, <1>4, <1>5, <1>6, ReadFrame

--------------------------------------------------------------------------------

\* A request leaves the client for a page that nothing owed is in front of.
LEMMA RequestStep ==
    ASSUME IInv, NEW a, Request(a), UNCHANGED feedVars,
           a.page \in Nat, a.size \in Nat,
           \/ a.filter \in Filters \cup {NoFilter}
           \/ a.filter = [NoFilter EXCEPT !.fromDate = a.filter.fromDate],
           seen' \subseteq rows, taken' \in Nat, old' \subseteq rows,
           Behind(WithFilters(rows, a.filter), WithFilters(old', a.filter), seen',
                  Offset(a.page, a.size))
    PROVE  IInv'
<1>1. /\ ask' = a /\ stage' = "findAll" /\ content' = {} /\ total' = 0
      /\ arrived' = Cardinality(WithFilters(rows, a.filter))
  BY DEF Request
<1>2. /\ Selected' = WithFilters(rows, a.filter) /\ Owed' = WithFilters(old', a.filter)
      /\ offsetOf(ask)' = Offset(a.page, a.size)
  BY <1>1 DEF Selected, Owed, offsetOf, feedVars
<1>3. Cardinality(Selected') \in Nat
  BY <1>2, FilteredRows DEF IInv, TypeOK
<1>4. TypeOK'
  BY <1>1, <1>2, <1>3 DEF IInv, TypeOK, Stages, feedVars
<1>5. Ahead'
  BY <1>1, <1>2 DEF Ahead
<1>6. WalkComplete' /\ TotalCurrent' /\ Filtered'
  BY <1>1 DEF WalkComplete, TotalCurrent, Filtered
<1>7. Counted'
  BY <1>1, <1>2, <1>3 DEF Counted
<1>8. QED
  BY <1>4, <1>5, <1>6, <1>7, ReadFrame

LEMMA BeginStep ==
    ASSUME IInv, NEW a, Begin(a), a.page = 0, a.size \in Nat,
           \/ a.filter \in Filters \cup {NoFilter}
           \/ a.filter = [NoFilter EXCEPT !.fromDate = a.filter.fromDate]
    PROVE  IInv'
<1>1. Request(a) /\ seen' = {} /\ taken' = 0 /\ old' = rows /\ UNCHANGED feedVars
  BY DEF Begin
<1>2. Offset(a.page, a.size) = 0
  BY NextOffset
<1>3. Behind(WithFilters(rows, a.filter), WithFilters(rows, a.filter), {}, 0)
  BY FilteredRows, NewerFinite DEF IInv, TypeOK, Behind
<1>4. QED
  BY <1>1, <1>2, <1>3, RequestStep

LEMMA BeginWalkStep ==
    ASSUME IInv, BeginWalk \/ Poll PROVE IInv'
<1>1. CASE BeginWalk
  <2>1. PICK size \in Sizes, f \in Filters :
          Begin([page |-> 0, size |-> size, filter |-> f])
    BY <1>1 DEF BeginWalk
  <2> DEFINE a == [page |-> 0, size |-> size, filter |-> f]
  <2>2. a.page = 0 /\ a.size \in Nat /\ a.filter \in Filters \cup {NoFilter}
    BY ListingAssumption
  <2> HIDE DEF a
  <2>3. Begin(a)
    BY <2>1 DEF a
  <2>4. QED
    BY <2>2, <2>3, BeginStep
<1>2. CASE Poll
  <2>1. PICK size \in Sizes : Begin(GetUpstreamTransactions(now, size))
    BY <1>2 DEF Poll
  <2> DEFINE a == GetUpstreamTransactions(now, size)
             f == [NoFilter EXCEPT !.fromDate = now]
  <2>2. a.page = 0 /\ a.size \in Nat /\ a.filter = f
    BY ListingAssumption DEF GetUpstreamTransactions
  <2>3. f.fromDate = now
    BY DEF NoFilter
  <2>4. a.filter = [NoFilter EXCEPT !.fromDate = a.filter.fromDate]
    BY <2>2, <2>3
  <2> HIDE DEF a, f
  <2>5. Begin(a)
    BY <2>1 DEF a
  <2>6. QED
    BY <2>2, <2>4, <2>5, BeginStep
<1>3. QED
  BY <1>1, <1>2

LEMMA RetryStep ==
    ASSUME IInv, Retry PROVE IInv'
<1>1. Request(ask) /\ UNCHANGED <<feedVars, seen, taken, old>> /\ stage = "failed"
  BY DEF Retry
<1>2. Behind(Selected, Owed, seen, offsetOf(ask))
  BY <1>1 DEF IInv, Ahead
<1>3. QED
  BY <1>1, <1>2, RequestStep DEF IInv, TypeOK, Selected, Owed, offsetOf

LEMMA ReceiveStep ==
    ASSUME IInv, Receive PROVE IInv'
<1>1. /\ stage = "answered" /\ seen' = seen \cup content
      /\ taken' = taken + Cardinality(content) /\ UNCHANGED <<feedVars, old>>
  BY DEF Receive
<1>2. seen' \subseteq rows /\ taken' \in Nat /\ old' \subseteq rows
  <2>1. content \in SUBSET rows
    BY DEF IInv, TypeOK
  <2>2. IsFiniteSet(content)
    BY <2>1, FS_Subset DEF IInv
  <2>3. Cardinality(content) \in Nat
    BY <2>2, FS_CardinalityType
  <2>4. QED
    BY <1>1, <2>3 DEF IInv, TypeOK
<1>3. Offset(ask.page + 1, ask.size) = offsetOf(ask) + ask.size
  BY Selection, NextOffset DEF offsetOf
<1>4. CASE IsLast
  <2>1. Close("over") /\ ask' = ask
    BY <1>4 DEF Receive
  <2>2. Selected' = Selected /\ Owed' = Owed
    BY <1>1, <2>1 DEF Selected, Owed, feedVars
  <2>3. total <= offsetOf(ask) + ask.size
    BY <1>3, <1>4 DEF IsLast
  <2>4. total \in Nat /\ offsetOf(ask) + ask.size \in Nat
    BY Selection DEF IInv, TypeOK
  <2>5. \A r \in Owed : Unshared(Selected, r) => r \in seen'
    BY <1>1, <2>3, <2>4 DEF IInv, Ahead
  <2>6. WalkComplete'
    BY <2>2, <2>5 DEF WalkComplete, Owed
  <2>7. TypeOK'
    BY <1>1, <1>2, <2>1 DEF IInv, TypeOK, Close, Stages, feedVars
  <2>8. Ahead' /\ Counted' /\ TotalCurrent' /\ Filtered'
    BY <2>1 DEF Ahead, Counted, TotalCurrent, Filtered, Close
  <2>9. QED
    BY <1>1, <2>6, <2>7, <2>8, ReadFrame
<1>5. CASE ~IsLast
  <2> DEFINE a == [ask EXCEPT !.page = ask.page + 1]
  <2>1. Request(a)
    BY <1>5 DEF Receive
  <2>2. a.page = ask.page + 1 /\ a.size = ask.size /\ a.filter = ask.filter
    OBVIOUS
  <2>3. Behind(Selected, Owed, seen', offsetOf(ask) + ask.size)
    BY <1>1 DEF IInv, Ahead
  <2> HIDE DEF a
  <2>4. Behind(WithFilters(rows, a.filter), WithFilters(old', a.filter), seen',
               Offset(a.page, a.size))
    BY <1>1, <1>3, <2>2, <2>3 DEF Selected, Owed
  <2>5. a.page \in Nat /\ a.size \in Nat
    BY <2>2, Selection
  <2>6. QED
    BY <1>1, <1>2, <2>1, <2>2, <2>4, <2>5, RequestStep DEF IInv, TypeOK
<1>6. QED
  BY <1>4, <1>5

--------------------------------------------------------------------------------

LEMMA Inductive ==
    ASSUME IInv, [Next]_vars PROVE IInv'
<1>1. CASE UNCHANGED vars
  BY <1>1, Grown DEF vars, feedVars, IInv, TypeOK
<1>2. QED
  BY <1>1, WriteStep, BeginWalkStep, RetryStep, ReceiveStep, RefuseStep, FindAllStep,
     CountStep
  DEF Next, Read

LEMMA InitInv == Init => IInv
<1> SUFFICES ASSUME Init PROVE IInv
  OBVIOUS
<1>1. TypeOK
  BY DEF Init, FeedInit, TypeOK, Stages
<1>2. WalkComplete
  BY DEF Init, WalkComplete, WithFilters
<1>3. IsFiniteSet(rows)
  BY FS_EmptySet DEF Init, FeedInit
<1>4. QED
  BY <1>1, <1>2, <1>3 DEF Init, IInv, Ahead, Counted, TotalCurrent, Filtered

\* Every reachable state satisfies the inductive invariant.
THEOREM ListingInvariance == Spec => []IInv
<1>1. QED
  BY InitInv, Inductive, PTL DEF Spec

\* Requests, pages and what the client has are well typed.
THEOREM ListingTypeCorrect == Spec => []TypeOK
<1>1. IInv => TypeOK
  BY DEF IInv
<1>2. QED
  BY <1>1, ListingInvariance, PTL

\* A walk that ended has missed nothing, whatever was committed meanwhile.
THEOREM WalksAreComplete == Spec => []WalkComplete
<1>1. IInv => WalkComplete
  BY DEF IInv
<1>2. QED
  BY <1>1, ListingInvariance, PTL

\* The total in an answer was the number of rows while it was made.
THEOREM TotalsAreCurrent == Spec => []TotalCurrent
<1>1. IInv => TotalCurrent
  BY DEF IInv
<1>2. QED
  BY <1>1, ListingInvariance, PTL

\* No answer lists what the client had asked to leave out.
THEOREM AnswersAreAsAsked == Spec => []ListedAsAsked
<1>1. IInv => ListedAsAsked
  BY DEF IInv, Filtered, Raises, Passes, ListedAsAsked
<1>2. QED
  BY <1>1, ListingInvariance, PTL

--------------------------------------------------------------------------------
\* Repetitions are paid for.  The rows in front of the end of the page just
\* read are those that were read and new ones, since an old row that was not
\* read is never in front; and there are as many of them as rows were taken,
\* at least.

\* Of the t rows taken all but those in Z are repetitions: no more than rows in N.
Repaid(Z, t, N) == t - Cardinality(Z) <= Cardinality(N)

\* A page holds no more rows than were asked for.
LEMMA PageFits ==
    ASSUME NEW S, Rows(S), NEW pos \in Orders(S), NEW offset \in Nat, NEW size \in Nat,
           NEW C, C = OnPage(S, pos, offset, size)
    PROVE  Cardinality(C) \in Nat /\ Cardinality(C) <= size
<1> DEFINE end == offset + size
<1>1. \A q \in C : q \in S /\ pos[q] \in offset .. end - 1
  <2>1. \A q \in S : pos[q] \in Int
    BY DEF Orders
  <2>2. QED
    BY <2>1 DEF OnPage
<1>2. Placed(C, pos, offset, end)
  BY <1>1 DEF Placed, Orders
<1>3. end \in Int /\ offset <= end /\ end - offset = size
  OBVIOUS
<1> HIDE DEF end
<1>4. QED
  BY <1>2, <1>3, FitsIn

\* What is in front of a page has been read or is new, and stays so on it.
LEMMA PageRepaid ==
    ASSUME NEW S, Rows(S), NEW pos \in Orders(S), NEW offset \in Nat, NEW size \in Nat,
           NEW O, O \subseteq S, NEW N, IsFiniteSet(N), S \subseteq O \cup N,
           NEW Z, IsFiniteSet(Z), Behind(S, O, Z, offset),
           \A r \in S : Unshared(S, r),
           NEW t \in Nat, t <= offset, Repaid(Z, t, N),
           NEW C, C = OnPage(S, pos, offset, size)
    PROVE  Repaid(Z \cup C, t + Cardinality(C), N)
<1> DEFINE A == BeforePage(S, pos, offset)
           AC == A \cup C
           ZC == Z \cup C
           Rest == ZC \cup N
<1>1. /\ Cardinality(A) \in Nat /\ Cardinality(C) \in Nat /\ Cardinality(S) \in Nat
      /\ offset <= Cardinality(S) => Cardinality(A) = offset
  BY PageDivides
<1>2. IsFiniteSet(S) /\ A \in SUBSET S /\ C \in SUBSET S
  BY DEF Rows, BeforePage, OnPage
<1>3. IsFiniteSet(A) /\ IsFiniteSet(C)
  BY <1>2, FS_Subset
<1>4. CASE offset <= Cardinality(S)
  <2>1. ASSUME NEW r \in A PROVE r \in Rest
    <3>1. r \in S /\ pos[r] < offset
      BY DEF BeforePage
    <3>2. pos[r] = Cardinality(Newer(S, r)) /\ Cardinality(Newer(S, r)) \in Nat
      BY <3>1, RankIsNewer, NewerFinite
    <3>3. r \in O => r \in Z
      BY <3>1, <3>2 DEF Behind
    <3>4. QED
      BY <3>1, <3>3
  <2>2. AC \in SUBSET Rest
    BY <2>1
  <2>3. Parts(AC, A, C)
    <3>1. \A q \in S : pos[q] \in Int
      BY DEF Orders
    <3>2. A \cap C = {}
      BY <3>1 DEF BeforePage, OnPage
    <3>3. QED
      BY <3>2 DEF Parts
  <2> HIDE DEF A, AC, ZC, Rest
  <2>4. IsFiniteSet(AC)
    BY <1>3, FS_Union DEF AC
  <2>5. Cardinality(AC) = Cardinality(A) + Cardinality(C)
    BY <2>3, <2>4, PartsAdd
  <2>6. IsFiniteSet(ZC) /\ Cardinality(ZC) \in Nat
    BY <1>3, FS_Union, FS_CardinalityType DEF ZC
  <2>7. Cardinality(N) \in Nat
    BY FS_CardinalityType
  <2>8. IsFiniteSet(Rest) /\ Cardinality(Rest) <= Cardinality(ZC) + Cardinality(N)
    <3>1. /\ IsFiniteSet(Rest)
          /\ Cardinality(Rest) = Cardinality(ZC) + Cardinality(N) - Cardinality(ZC \cap N)
      BY <2>6, FS_Union DEF Rest
    <3>2. ZC \cap N \in SUBSET N
      OBVIOUS
    <3>3. Cardinality(ZC \cap N) \in Nat
      BY <3>2, FS_Subset, FS_CardinalityType
    <3>4. QED
      BY <2>6, <2>7, <3>1, <3>3
  <2>9. Cardinality(AC) <= Cardinality(Rest) /\ Cardinality(Rest) \in Nat
    BY <2>2, <2>8, FS_Subset, FS_CardinalityType
  <2>10. (t + Cardinality(C)) - Cardinality(ZC) <= Cardinality(N)
    BY <1>1, <1>4, <2>5, <2>6, <2>7, <2>8, <2>9
  <2>11. Repaid(ZC, t + Cardinality(C), N)
    BY <2>10 DEF Repaid
  <2>12. QED
    BY <2>11 DEF ZC
<1>5. CASE ~(offset <= Cardinality(S))
  <2>1. \A q \in S : pos[q] \in Int /\ pos[q] < Cardinality(S)
    BY <1>1 DEF Orders
  <2>2. C = {}
    BY <1>1, <1>5, <2>1 DEF OnPage
  <2>3. Cardinality(C) = 0 /\ Z \cup C = Z
    BY <2>2, FS_EmptySet
  <2>4. t + Cardinality(C) = t
    BY <2>3
  <2>5. QED
    BY <2>3, <2>4
<1>6. QED
  BY <1>4, <1>5

--------------------------------------------------------------------------------
\* The inductive invariant

\* No two rows of the list share a stamp.
NoTies == \A r \in Selected : Unshared(Selected, r)

New == rows \ old

\* No more rows were taken than there are in front of the page asked for, and
\* repetitions are paid for, with the page that was read and without.
Pace ==
    /\ stage # "over" => taken <= offsetOf(ask)
    /\ stage \in {"count", "answered"} =>
         Cardinality(content) \in Nat /\ Cardinality(content) <= ask.size

Paid ==
    NoTies =>
      /\ Repaid(seen, taken, New)
      /\ stage \in {"count", "answered"} =>
           Repaid(seen \cup content, taken + Cardinality(content), New)

RInv == IInv /\ Pace /\ Paid

\* More new rows only pay for more.
LEMMA RepaidGrows ==
    ASSUME NEW Z, IsFiniteSet(Z), NEW t \in Nat, NEW N, NEW M, N \in SUBSET M,
           IsFiniteSet(M), Repaid(Z, t, N)
    PROVE  Repaid(Z, t, M)
<1>1. Cardinality(N) <= Cardinality(M) /\ IsFiniteSet(N)
  BY FS_Subset
<1>2. Cardinality(N) \in Nat /\ Cardinality(M) \in Nat /\ Cardinality(Z) \in Nat
  BY <1>1, FS_CardinalityType
<1>3. QED
  BY <1>1, <1>2 DEF Repaid

\* The sets of a walk are finite.
LEMMA WalkFinite ==
    ASSUME IInv
    PROVE  /\ IsFiniteSet(New) /\ IsFiniteSet(seen) /\ IsFiniteSet(content)
           /\ IsFiniteSet(seen \cup content) /\ Cardinality(content) \in Nat
           /\ taken \in Nat
<1>1. New \in SUBSET rows /\ seen \in SUBSET rows /\ content \in SUBSET rows
      /\ IsFiniteSet(rows) /\ taken \in Nat /\ seen \cup content \in SUBSET rows
  BY DEF IInv, TypeOK, New
<1>2. IsFiniteSet(New) /\ IsFiniteSet(seen) /\ IsFiniteSet(content)
      /\ IsFiniteSet(seen \cup content)
  BY <1>1, FS_Subset
<1>3. QED
  BY <1>1, <1>2, FS_CardinalityType

\* Transfers leave the walk as it is.
LEMMA GrownPaid ==
    ASSUME RInv, IInv', UNCHANGED walkVars, rows \subseteq rows'
    PROVE  RInv'
<1> USE DEF walkVars
<1>1. Pace'
  BY DEF RInv, Pace, offsetOf
<1>2. NoTies' => NoTies
  BY DEF NoTies, Selected, WithFilters, Unshared
<1>3. New \in SUBSET New' /\ IsFiniteSet(New')
  <2>1. New \in SUBSET New'
    BY DEF New
  <2>2. New' \in SUBSET rows' /\ IsFiniteSet(rows')
    BY DEF New, IInv
  <2>3. QED
    BY <2>1, <2>2, FS_Subset
<1>4. ASSUME NoTies' PROVE Repaid(seen, taken, New')
  <2>1. Repaid(seen, taken, New)
    BY <1>2, <1>4 DEF RInv, Paid
  <2>2. QED
    BY <1>3, <2>1, WalkFinite, RepaidGrows DEF RInv
<1>5. ASSUME NoTies', stage \in {"count", "answered"}
      PROVE  Repaid(seen \cup content, taken + Cardinality(content), New')
  <2> DEFINE Z == seen \cup content
             t == taken + Cardinality(content)
  <2>1. Repaid(Z, t, New)
    BY <1>2, <1>5 DEF RInv, Paid
  <2>2. IsFiniteSet(Z) /\ t \in Nat
    BY WalkFinite DEF RInv
  <2> HIDE DEF Z, t
  <2>3. Repaid(Z, t, New')
    BY <1>3, <2>1, <2>2, RepaidGrows
  <2>4. QED
    BY <2>3 DEF Z, t
<1>6. Paid'
  BY <1>4, <1>5 DEF Paid
<1>7. QED
  BY <1>1, <1>6 DEF RInv

\* A page is read.
LEMMA FindAllPaid ==
    ASSUME RInv, IInv', FindAll PROVE RInv'
<1> DEFINE offset == offsetOf(ask)
<1>1. PICK pos \in Orders(Selected) : content' = OnPage(Selected, pos, offset, ask.size)
  BY DEF FindAll
<1>2. stage = "findAll" /\ UNCHANGED <<feedVars, ask, seen, taken, old>>
  BY DEF FindAll
<1>3. Selected' = Selected /\ New' = New /\ offsetOf(ask)' = offset
  BY <1>2 DEF Selected, New, offsetOf, feedVars
<1>4. /\ Rows(Selected) /\ Owed \subseteq Selected /\ offset \in Nat /\ ask.size \in Nat
      /\ Selected \subseteq Owed \cup New
  BY Selection DEF RInv, Selected, Owed, New, WithFilters
<1>5. taken <= offset /\ Behind(Selected, Owed, seen, offset)
  BY <1>2 DEF RInv, Pace, IInv, Ahead
<1> HIDE DEF offset
<1>6. Pace'
  BY <1>1, <1>2, <1>3, <1>4, <1>5, PageFits DEF Pace
<1>7. ASSUME NoTies
      PROVE  /\ Repaid(seen, taken, New)
             /\ Repaid(seen \cup content', taken + Cardinality(content'), New)
  <2>1. Repaid(seen, taken, New) /\ \A r \in Selected : Unshared(Selected, r)
    BY <1>7 DEF RInv, Paid, NoTies
  <2>2. IsFiniteSet(New) /\ IsFiniteSet(seen) /\ taken \in Nat
    BY WalkFinite DEF RInv
  <2>3. QED
    BY <1>1, <1>4, <1>5, <2>1, <2>2, PageRepaid
<1>8. Paid'
  BY <1>2, <1>3, <1>7 DEF Paid, NoTies
<1>9. QED
  BY <1>6, <1>8 DEF RInv

\* The client has the page and goes on to the next, or is done.
LEMMA ReceivePaid ==
    ASSUME RInv, IInv', Receive PROVE RInv'
<1>1. /\ stage = "answered" /\ seen' = seen \cup content
      /\ taken' = taken + Cardinality(content) /\ UNCHANGED <<feedVars, old>>
  BY DEF Receive
<1> DEFINE a == [ask EXCEPT !.page = ask.page + 1]
<1>2. /\ a.page = ask.page + 1 /\ a.size = ask.size /\ a.filter = ask.filter
      /\ \/ stage' = "over" /\ ask' = ask
         \/ stage' = "findAll" /\ ask' = a
  BY DEF Receive, Close, Request
<1> HIDE DEF a
<1>3. ask'.filter = ask.filter /\ stage' \notin {"count", "answered"}
  BY <1>2
<1>4. Selected' = Selected /\ New' = New
  BY <1>1, <1>3 DEF Selected, New, feedVars
<1>5. Paid'
  BY <1>1, <1>3, <1>4 DEF RInv, Paid, NoTies
<1>6. Pace'
  <2>1. CASE stage' = "over"
    BY <2>1 DEF Pace
  <2>2. CASE stage' = "findAll"
    <3>1. ask'.page = ask.page + 1 /\ ask'.size = ask.size
      BY <1>2, <2>2
    <3>2. Offset(ask.page + 1, ask.size) = offsetOf(ask) + ask.size
      BY Selection, NextOffset DEF RInv, offsetOf
    <3>3. offsetOf(ask)' = offsetOf(ask) + ask.size
      BY <3>1, <3>2 DEF offsetOf
    <3>4. taken + Cardinality(content) <= offsetOf(ask) + ask.size
      <4>1. taken <= offsetOf(ask) /\ Cardinality(content) \in Nat
            /\ Cardinality(content) <= ask.size
        BY <1>1 DEF RInv, Pace
      <4>2. taken \in Nat /\ offsetOf(ask) \in Nat /\ ask.size \in Nat
        BY Selection, WalkFinite DEF RInv
      <4>3. QED
        BY <4>1, <4>2
    <3>5. QED
      BY <1>1, <2>2, <3>3, <3>4 DEF Pace
  <2>3. QED
    BY <1>2, <2>1, <2>2
<1>7. QED
  BY <1>5, <1>6 DEF RInv

\* The other steps read nothing.
LEMMA OthersPaid ==
    ASSUME RInv, IInv', Count \/ Refuse \/ Fail \/ Retry PROVE RInv'
<1>1. /\ UNCHANGED <<feedVars, ask, seen, taken, old>> /\ stage # "over"
      /\ stage' \in {"count", "answered"} =>
           stage \in {"count", "answered"} /\ content' = content
  BY DEF Count, Refuse, Fail, Retry, Close, Request
<1>2. Selected' = Selected /\ New' = New /\ offsetOf(ask)' = offsetOf(ask)
  BY <1>1 DEF Selected, New, offsetOf, feedVars
<1>3. Pace' /\ Paid'
  BY <1>1, <1>2 DEF RInv, Pace, Paid, NoTies
<1>4. QED
  BY <1>3 DEF RInv

LEMMA BeginPaid ==
    ASSUME RInv, IInv', BeginWalk \/ Poll PROVE RInv'
<1>1. PICK a : Begin(a) /\ a.page = 0 /\ a.size \in Nat
  <2>1. ASSUME NEW size \in Sizes, NEW f PROVE
          LET a == [page |-> 0, size |-> size, filter |-> f]
          IN  a.page = 0 /\ a.size \in Nat
    BY ListingAssumption
  <2>2. QED
    BY <2>1 DEF BeginWalk, Poll, GetUpstreamTransactions
<1>2. /\ ask' = a /\ stage' = "findAll" /\ seen' = {} /\ taken' = 0 /\ old' = rows'
  BY <1>1 DEF Begin, Request, feedVars
<1>3. offsetOf(ask)' = 0
  BY <1>1, <1>2, NextOffset DEF offsetOf
<1>4. Repaid({}, 0, New')
  <2>1. New' = {}
    BY <1>2 DEF New
  <2>2. QED
    BY <2>1, FS_EmptySet DEF Repaid
<1>5. Pace' /\ Paid'
  BY <1>2, <1>3, <1>4 DEF Pace, Paid
<1>6. QED
  BY <1>5 DEF RInv

LEMMA PaidStep ==
    ASSUME RInv, [Next]_vars PROVE RInv'
<1>1. IInv'
  BY Inductive DEF RInv
<1>2. CASE Write
  <2>1. UNCHANGED walkVars /\ rows \subseteq rows'
    BY <1>2 DEF Write, Stamp, Commit, Abandon
  <2>2. QED
    BY <1>1, <2>1, GrownPaid
<1>3. CASE UNCHANGED vars
  BY <1>1, <1>3, GrownPaid DEF vars, feedVars
<1>4. CASE Read
  BY <1>1, <1>4, FindAllPaid, ReceivePaid, OthersPaid, BeginPaid DEF Read
<1>5. QED
  BY <1>2, <1>3, <1>4 DEF Next

LEMMA PaidInit == Init => RInv
<1> SUFFICES ASSUME Init PROVE RInv
  OBVIOUS
<1>1. taken = 0 /\ seen = {} /\ New = {} /\ stage = "over"
  BY DEF Init, FeedInit, New
<1>2. Repaid({}, 0, {})
  BY FS_EmptySet DEF Repaid
<1>3. QED
  BY <1>1, <1>2, InitInv DEF RInv, Pace, Paid

\* However many rows are committed while a client walks the pages, it reads no
\* more rows twice than were committed.
THEOREM RepeatsArePaidFor == Spec => []RepeatsBounded
<1>1. RInv => RepeatsBounded
  BY DEF RInv, Paid, NoTies, Repaid, New, RepeatsBounded
<1>2. QED
  BY <1>1, PaidInit, PaidStep, PTL DEF Spec

================================================================================
