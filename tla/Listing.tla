------------------------------- MODULE Listing -------------------------------
(****************************************************************************)
(* GET /api/transactions/ : the list of transactions with its filters, read *)
(* page after page by a client while transfers are committed.               *)
(*                                                                          *)
(* A page is cut by offset out of the rows ordered by descending createdAt. *)
(* Rows of one instant come in any order, anew for every query.  The total  *)
(* is taken from a partial page or counted in a statement of its own, which *)
(* other transactions come before.                                          *)
(*                                                                          *)
(* A client asks for page 0, 1, 2, ... of one size until a page says it is  *)
(* the last (a walk), and asks again for a page it was refused, or gives    *)
(* up.  The ingestor asks for one page of what was created from some day on *)
(* (a poll).  Walks only read, so that one at a time shows all they see.    *)
(****************************************************************************)
EXTENDS Feed

CONSTANTS
    Sizes,       \* page sizes asked for
    Filters,     \* filters asked for
    Null,        \* a request parameter that is missing or blank
    LastInstant  \* bound: the clock

\* What a row says beside its id and stamp, and what can be asked of it.
\* Dates are instants here.
ASSUME ListingAssumption ==
    /\ Sizes \subseteq Nat
    /\ \A d \in Details : DOMAIN d = {"source", "destination", "originId"}
    /\ \A f \in Filters : DOMAIN f = {"sourceAccNumber", "destAccNumber",
                                      "originId", "fromDate", "toDate"}

VARIABLES
    stage,      \* what the request in service, or the client, does next
    ask,        \* the request: [page, size, filter]
    content,    \* the rows of the page
    total,      \* the number of rows it says there are
    seen,       \* the rows the client has received in this walk
    taken,      \* how many it has received, repetitions included
    old,        \* history: the rows that were there when the walk began
    arrived     \* history: how many rows there were to list when it arrived

walkVars == <<stage, ask, content, total, seen, taken, old, arrived>>
vars     == <<feedVars, walkVars>>

Stages == {"findAll", "count", "answered", "failed", "over"}

--------------------------------------------------------------------------------
\* TransactionSpecification.withFilters

\* A bug to rule out: a parameter bound under another name is never there.
RaisesWithoutSource(f) == f.destAccNumber # Null \/ f.fromDate # Null

\* The entity has no attribute source_account_id, destination_account_id or
\* transactionDate: naming one of them throws.
Raises(f) == f.sourceAccNumber # Null \/ f.destAccNumber # Null \/ f.fromDate # Null

\* What is left of the predicates when none throws; toDate has none, because
\* the condition on it tests fromDate.
Passes(f, r) == f.originId # Null => r.detail.originId = f.originId

\* The rows of S that a filter lets through.
WithFilters(S, f) == {r \in S : Passes(f, r)}

--------------------------------------------------------------------------------
\* One page of the ordered rows

\* A bug to rule out: the rows come unsorted.
AnyOrder(S) ==
    {pos \in [S -> 0 .. Cardinality(S) - 1] : \A q, r \in S : q # r => pos[q] # pos[r]}

\* ORDER BY createdAt DESC: the positions the rows of S may be given.
Orders(S) ==
    {pos \in [S -> 0 .. Cardinality(S) - 1] :
       \A q, r \in S : /\ q # r => pos[q] # pos[r]
                       /\ q.createdAt > r.createdAt => pos[q] < pos[r]}

\* A bug to rule out: the page number is taken for the offset.
OffsetByPage(page, size) == page

Offset(page, size) == page * size

\* The rows on a page, given their positions.
OnPage(S, pos, offset, size) ==
    {r \in S : offset <= pos[r] /\ pos[r] < offset + size}

\* A partial page tells the total, unless it is empty and not the first.
TellsTotal(C, offset, size) ==
    Cardinality(C) < size /\ (offset = 0 \/ C # {})

\* Bugs to rule out: the total is that of the page, and pages count from one.
TotalOfPage(C, offset, size)    == Cardinality(C)
TotalFromOne(C, offset, size)   == offset - size + Cardinality(C)

TotalTold(C, offset, size) == offset + Cardinality(C)

--------------------------------------------------------------------------------
\* The request and its answer

Selected == WithFilters(rows, ask.filter)

offsetOf(a) == Offset(a.page, a.size)

\* The request leaves the client.
Request(a) ==
    /\ ask' = a
    /\ stage' = "findAll"
    /\ arrived' = Cardinality(WithFilters(rows, a.filter))
    /\ content' = {} /\ total' = 0

\* The client has no answer, or is done with it.
Close(s) == stage' = s /\ content' = {} /\ total' = 0 /\ arrived' = 0

\* PageRequest.of refuses a size below one, withFilters may throw; both are
\* exceptions that only the fallback handler catches.
Refused == ask.size < 1 \/ Raises(ask.filter)

Refuse ==
    /\ stage = "findAll" /\ Refused
    /\ Close("failed")
    /\ UNCHANGED <<feedVars, ask, seen, taken, old>>

\* transactionRepo.findAll, first statement.
FindAll ==
    /\ stage = "findAll" /\ ~Refused
    /\ \E pos \in Orders(Selected) :
         content' = OnPage(Selected, pos, offsetOf(ask), ask.size)
    /\ IF TellsTotal(content', offsetOf(ask), ask.size)
       THEN stage' = "answered"
            /\ total' = TotalTold(content', offsetOf(ask), ask.size)
       ELSE stage' = "count" /\ UNCHANGED total
    /\ UNCHANGED <<feedVars, ask, seen, taken, old, arrived>>

\* Second statement, where the page does not tell.
Count ==
    /\ stage = "count"
    /\ total' = Cardinality(Selected)
    /\ stage' = "answered"
    /\ UNCHANGED <<feedVars, ask, content, seen, taken, old, arrived>>

\* A statement fails, or the answer does not reach the client in time.
Fail ==
    /\ stage \in {"findAll", "count", "answered"}
    /\ Close("failed")
    /\ UNCHANGED <<feedVars, ask, seen, taken, old>>

--------------------------------------------------------------------------------
\* Clients

\* No request is being served.
Free == stage \in {"failed", "over"}

\* GetUpstreamTransactions: one page from the day of the cursor on.  The id it
\* sends as afterId is no parameter of the ledger's.
NoFilter == [sourceAccNumber |-> Null, destAccNumber |-> Null,
             originId |-> Null, fromDate |-> Null, toDate |-> Null]

GetUpstreamTransactions(lastSeen, limit) ==
    [page |-> 0, size |-> limit, filter |-> [NoFilter EXCEPT !.fromDate = lastSeen]]

Begin(a) ==
    /\ Free
    /\ Request(a)
    /\ seen' = {} /\ taken' = 0 /\ old' = rows
    /\ UNCHANGED feedVars

BeginWalk ==
    \E size \in Sizes, f \in Filters :
      Begin([page |-> 0, size |-> size, filter |-> f])

Poll == \E size \in Sizes : Begin(GetUpstreamTransactions(now, size))

\* PageImpl.isLast: the next page is not below ceil(total / size).
IsLast == total <= Offset(ask.page + 1, ask.size)

\* A client that takes an OK answer and goes on to the next page, as long as the
\* answer does not say that it was the last.
Receive ==
    /\ stage = "answered"
    /\ seen' = seen \cup content
    /\ taken' = taken + Cardinality(content)
    /\ IF IsLast
       THEN Close("over") /\ UNCHANGED ask
       ELSE Request([ask EXCEPT !.page = @ + 1])
    /\ UNCHANGED <<feedVars, old>>

Retry ==
    /\ stage = "failed"
    /\ Request(ask)
    /\ UNCHANGED <<feedVars, seen, taken, old>>

--------------------------------------------------------------------------------

Init ==
    /\ FeedInit
    /\ stage = "over"
    /\ ask = [page |-> 0, size |-> 1, filter |-> NoFilter]
    /\ content = {} /\ total = 0
    /\ seen = {} /\ taken = 0 /\ old = {} /\ arrived = 0

\* Transfers, as LedgerRefinement shows the ledger to make them.
Write ==
    /\ \/ \E w \in Writers :
            \/ Stamp(w)
            \/ \E id \in Ids, d \in Details :
                 Commit(w, [id |-> id, createdAt |-> draft[w], detail |-> d])
       \/ \E W \in SUBSET Writers : Abandon(W)
    /\ now' <= LastInstant
    /\ UNCHANGED walkVars

Read ==
    \/ BeginWalk \/ Poll \/ Retry \/ Receive
    \/ Refuse \/ FindAll \/ Count \/ Fail

Next == Write \/ Read

Spec == Init /\ [][Next]_vars

--------------------------------------------------------------------------------
\* Correctness

TypeOK ==
    /\ now \in Nat /\ draft \in [Writers -> Nat] /\ rows \subseteq Row
    /\ stage \in Stages
    /\ ask.page \in Nat /\ ask.size \in Nat
    /\ \/ ask.filter \in Filters \cup {NoFilter}
       \/ ask.filter = [NoFilter EXCEPT !.fromDate = ask.filter.fromDate]
    /\ content \subseteq rows /\ total \in Nat
    /\ seen \subseteq rows /\ taken \in Nat
    /\ old \subseteq rows /\ arrived \in Nat

\* No other row of S has the stamp of r.
Unshared(S, r) == \A q \in S : q.createdAt = r.createdAt => q = r

\* A walk that ended saw every row that was there when it began, however many
\* rows were committed before, behind and between those it had read, and
\* however often it was refused a page.  Rows that share their createdAt with
\* another are excepted: nothing fixes their order from page to page.
WalkComplete ==
    stage = "over" =>
      \A r \in WithFilters(old, ask.filter) : Unshared(Selected, r) => r \in seen

\* What a walk reads twice it does because rows were committed meanwhile: no
\* more repetitions than new rows, and none in a table that stays as it is.
RepeatsBounded ==
    (\A r \in Selected : Unshared(Selected, r)) =>
      taken - Cardinality(seen) <= Cardinality(rows \ old)

\* The total of an answer, told by a partial page or counted in a second
\* statement, is a number of rows there were while the request was served.
TotalCurrent ==
    stage = "answered" =>
      arrived <= total /\ total <= Cardinality(Selected)

\* An answer lists nothing that the client had asked to leave out by an
\* account, an origin or a first day, although three of these filters name
\* attributes that do not exist.  (A last day alone is not looked at.)
ListedAsAsked ==
    stage = "answered" =>
      \A r \in content :
        /\ ask.filter.sourceAccNumber \in {Null, r.detail.source}
        /\ ask.filter.destAccNumber \in {Null, r.detail.destination}
        /\ ask.filter.originId \in {Null, r.detail.originId}
        /\ ask.filter.fromDate # Null => r.createdAt >= ask.filter.fromDate

================================================================================
