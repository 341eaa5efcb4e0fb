--------------------------- MODULE LedgerRefinement ---------------------------
(****************************************************************************)
(* How the tables of Ledger implement the register and journal of Journal   *)
(* the balances of BalanceSheet and the table of Feed.                      *)
(****************************************************************************)
EXTENDS Ledger

\* The register and the journal, read off the tables.
Registered(a) == [id |-> a.id, number |-> a.number]
Posted(t)     == [id |-> t.id, from |-> t.source, to |-> t.destination,
                  amount |-> t.amount]

Register == {Registered(a) : a \in accounts}
Entries  == {Posted(t) : t \in txns}

RegisterAndJournal == INSTANCE Journal WITH opened <- Register, entries <- Entries

\* The balance the aggregate query gives for each stored account.
BalanceOf(number) ==
    CalculateNetBalance(txns, {a.id : a \in AccountsNumbered(number)})

BookBalances == [n \in {a.number : a \in accounts} |-> BalanceOf(n)]

Sheet == INSTANCE BalanceSheet WITH balance <- BookBalances

\* Whatever requests, failures and crashes do, the ledger opens an account
\* number at most once, posts an entry only between open accounts, and never
\* changes what is posted ("Immutable financial transactions", README.md:35).
ImplementsJournal == RegisterAndJournal!Spec

\* The query answers what a ledger that keeps a running balance per account
\* would: opening is at zero, a committed transfer moves its amount at once,
\* no other step changes any balance.
ImplementsBalanceSheet == Sheet!Spec

\* The transaction table as its readers see it grow: a transfer is a draft from
\* the stamp its entity gets until its INSERT.
FeedRow(t) == [id |-> t.id, createdAt |-> t.createdAt, detail |-> Null]
FeedRows   == {FeedRow(t) : t \in txns}

Drafts ==
    [w \in Workers |->
       IF pc[w] \in {"saveTransaction", "insertTransaction"} THEN loc[w].stamp ELSE 0]

Growth == INSTANCE Feed WITH Writers <- Workers, Ids <- Nat, Details <- {Null},
                             draft <- Drafts, rows <- FeedRows

\* To a reader of the table the ledger is a Feed: every row appears once, with
\* the stamp its transfer was given while it was handled, whatever became
\* visible in between, and a transfer that fails or is cut off by a restart
\* may be dropped but is never stamped anew.
ImplementsFeed == Growth!FeedSpec

================================================================================
