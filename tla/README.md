# A formal model of ledger-auditor

This directory holds TLA+ models of the program in this repository, the TLC
configurations that model-check them on small instances, and proofs of their
most important properties that TLAPS checks for every instance. `PROJECT.json`
relates every definition to the source lines it models, every property to the
run that checks it, and lists the hazards the properties are for.

Paths below are relative to `src/`; `ledger/…` abbreviates
`ledger/src/main/java/com/example/ledger`.

## 1. The system

### Ledger (`ledger/…`, Java, Spring Boot, Postgres)

*State.* Three tables: `users` (id, email, name), `accounts` (id, number,
owner), `transaction` (id, source, destination, amount, createdAt), and a
sequence per table that ids come from. Balances are not stored; one aggregate
query (`TransactionRepo.calculateNetBalance`) computes them. Between requests
the service keeps nothing.

*Operations.* POST a user, PATCH a user's name, POST an account, POST a
transaction; read a user's or an account's balance; read a user, a transaction,
and the list of transactions with filters and pages, newest first.

*Interaction.* Every client (the seeder, the ingestor) goes through HTTP. Each
request runs on a thread of its own. No service method is `@Transactional`: every repository
call commits by itself, and other requests come between any two.

*What is hard.* Check-then-insert over two transactions (e-mail, account
number); read-modify-write of a user; accounts looked up before the transaction
that names them is inserted; ids drawn before rows commit and rows that commit
in another order; two queries behind one balance; statements that fail, or that
commit although the acknowledgement is lost; restarts. For readers: `createdAt`
is stamped before the row commits, so that rows appear behind newer ones; pages
are cut by offset from a table that grows; a page and its total are two
statements.

*Correct means:* a number names one account; an id names one row and a row never
changes (a user's name apart); every entry has both its accounts; what an answer
claims is so; balances are those of a double-entry book and are current; a
client that reads all pages has missed nothing that was there when it began.

### Data seeder (`data-seeder/`, Go)

*State.* Per run: the profile and instance it is at; a random generator with a
fixed seed; per instance: a balance for every account kept on the seeder's side,
the one-time rules that are settled, installments and refunds to come. Nothing
is stored between runs but what the ledger holds.

*Operations.* `SeedData` reads the configuration, clears the database if told to
(`ClearDB`), and for each instance creates a user, accounts, an external account
and the transactions of `generateTransactions`: month by month, draw the firings
of the rules, sort by date, post each with the reactive transfers it triggers,
then the installments and refunds that fall due.

*Interaction.* Sequential POSTs to the ledger with a timeout of ten seconds; the
first failure ends the run.

*What is hard.* A POST that failed may be stored, now or later, during another
run; a new run starts on the database an earlier one left; the seeder's own
balances have to keep step with the ledger's; lists filtered in place while they
are walked; draws repeated every month; dates that overflow a month.

*Correct means:* no database is seeded twice; success means that everything was created;
settled accounts stand at zero; entries are in the order of their dates; one-time
events happen once; installments and refunds are neither lost nor doubled; and it
comes to an end.

### Ingestor (`ingestor-go/`, Go)

A read-only mirror of the ledger's transactions in SQLite: an HTTP API, a
repository, a poll cursor and a client of the ledger's listing. As committed it
does nothing with them (section 5). What it says of the protocol is the request
it would poll with (`GetUpstreamTransactions`) and how its HTTP client fails. *Hard:* following `createdAt` in a table whose rows become visible out of
that order; a cursor that is not stored; inserts that are repeated.

### AI service, deployment

`ai/` is a skeleton around one call of a language model and keeps no state.
`docker-compose.yml`, `pg-init/` and `scripts/` start the parts.

## 2. The modules

| module | models | checked by |
|---|---|---|
| `Balance` | the aggregate query, as a pure operator | through `Ledger` |
| `Ledger` | the writing handlers and balance reads, one action per repository call | `MCLedger`, `LedgerProofs`, `BalanceProofs` |
| `Journal` | abstract: a register of numbers and an append-only journal | refinement |
| `BalanceSheet` | abstract: a balance per account, moved by transfers | refinement |
| `Feed` | abstract: the transaction table as readers see it grow | refinement, and in `Listing` |
| `LedgerRefinement` | how the tables read as a journal, a balance sheet and a feed | `MCLedger`, `LedgerRefinementProofs` |
| `LedgerHistory` | `Ledger` with history variables: which answers are current | `MCLedgerHistory`, `HistoryProofs` |
| `Listing` | the listing, page by page, and its clients, over `Feed` | `MCListing`, `ListingProofs` |
| `SeedPlan` | the seeder's pure part: calendar, draws, sort, amounts, installments | through `SeedGenerator` |
| `SeedGenerator` | `generateTransactions`, one action per POST | `MCSeedGenerator`, `SeedGeneratorProofs` |
| `SeedRun` | runs of the seeder on one database | `MCSeedRun`, `SeedRunProofs` |
| `Seeding` | abstract: one load, and its success | refinement |

The `MC…` modules only give constants their values. `FiniteSums` holds lemmas about
sums over finite sets that several proof modules cite.

### Ledger

A *worker* is a thread of the servlet container. `pc[w]` names the repository
call its request makes next, `req[w]` is the request, `loc[w]` what the handler
has loaded, `reply[w]` and `net[w]` what it will answer. Each repository call is
an action named after it (`ExistsByEmail`, `SaveUser`, `InsertUser`, …); `save()`
of a new entity is two, because the id is drawn from the sequence before the
INSERT commits. `Fail` makes any statement throw; `Committed` lets a statement
commit and its acknowledgement get lost, after which the fallback handler
answers INTERNAL_ERROR; `Crash` restarts the process. The requests of `Requests`
include those with missing JSON fields that the controllers let through.

Left out, because nothing the ledger decides depends on them: passwords, account
types, origin ids, notes, the createdAt of users and accounts.

`Principals` says whether the security context may hold a principal.
`SecurityConfig` wants an authenticated one and disables every way to become
one, so with the code as committed every request ends in `FORBIDDEN`
(`Principals = {FALSE}`). The runs take a deployment that authenticates
(`{TRUE}`), and `ledger_liveness` either.

### Listing

`Feed` says what the ledger promises its readers: a transfer is stamped with the
clock, its row becomes visible at any later time or never, rows stay, ids are
unique, two rows may carry one stamp. `Ledger` implements it (`ImplementsFeed`),
so `Listing` takes `Feed`'s actions for its writers instead of all of `Ledger`.

A request is `ask` (page, size, filter) and goes through `FindAll` and, where the
page does not tell the total, `Count`, each one statement; commits come between.
`Orders` are the orders `ORDER BY createdAt DESC` allows: rows of one instant in
any order, another one in every query. `Refuse` is what the fallback handler
answers when the page size is below one or a filter names an attribute the
entity does not have (`Raises`: account filters and `fromDate`); `Fail` is a
failing statement or an answer the client does not get within its timeout. A
client walks the pages until one says it is the last, asks again for a page it
was refused or gives up (`BeginWalk`, `Receive`, `Retry`); `Poll` is the
ingestor's request. `seen`, `taken`, `old` and `arrived` are history. Paging by
Spring Data (offset and limit, when the total is counted, when a page is the
last) and the walking client are not part of the repository and are marked
external: the repository has no client that goes on to a next page or asks again.

Days are instants in `Listing`; `fromDate` without `toDate` would throw a second
time (`TransactionSpecification.java:47`), which makes no difference since the
attribute before it throws already.

### Seeder

`SeedGenerator` keeps the ledger as the sequence of entries stored, each with
the rule, date and earlier entry it comes from; these are never sent and serve the
properties. A POST succeeds (`Posted`), or fails with the entry stored or not
(`NotPosted`) and ends the run. What the generator of random numbers returns is
any value it may: sets of draws in `SeedPlan`. Percentages are whole numbers, as all
in `seed-config.yaml` are, where the configuration's type is `float64`; and no rule
names "external", the seeder's counter-party, as its own account (`RuleTyped`). Loops that append
what passes a test are `Kept`; the insertion sort is stated by its outcome, the
stable order (`Precedes`, `Nth`), which the proofs can use. Months are given by the day number
of their first day, and a day past a month's end falls into the next, as Go's
`time.Date` has it.

`SeedRun` is coarser within an instance and wider around it: rows carry the run
that posted them, a POST is refused when the e-mail or number is there, one that
failed may be stored at once, never, or by `Land` at any later time. The
transactions of an instance are any number up to a bound. `ClearDB` truncates a
table that does not exist (`transactions` for `transaction`) and so always fails
if it is asked for. Run numbers are not stored; they are there for the
properties. Account numbers repeat from run to run because the generator is
seeded alike; two slots of one run may draw the same number.

The seeder's paths lack the trailing slash of the controllers' mappings and its
requests carry no credentials; `SeedRun` models a ledger that accepts them.

## 3. Runs

| run | question | instance |
|---|---|---|
| `ledger_registry` | concurrent registrations, ids, numbers, sums per user; what a user's balance and a taken e-mail do guarantee | 2 workers, 1 e-mail, 2 numbers; 2 users, 2 accounts, 1 transfer, 1 read of a user's balance |
| `ledger_transfers` | concurrent transfers; refinement of the three abstractions | 2 workers, 2 numbers, 2 amounts; 2 accounts, 2 transfers |
| `ledger_liveness` | is every request answered? | every operation once, with and without a principal |
| `ledger_answers` | are account balances and renames linearizable? | 2 renames, 2 accounts, 1 transfer, reads |
| `user_balance_torn` | violated: is a user's computed balance current? | 2 accounts, 1 transfer, 1 read |
| `user_balance_reported` | violated: is the balance *sent* for a user current? | the same |
| `duplicate_email` | violated: does an e-mail name one user? | 2 registrations |
| `listing_walk` | pages, totals and filters while transfers are committed | 2 writers, 3 rows, page sizes 0 to 2, 4 filters, 3 instants |
| `seeder_transactions` | all rule types over a date range; does each step bring it closer to its end, and does it end? | 5 profiles, 3 months |
| `purchase_charged_twice` | violated: is a purchase in installments charged once? | the same |
| `seeder_balances_drift` | violated: do the seeder's balances track the ledger's? | the same |
| `seeder_reruns` | runs after failed and successful runs; is all one load? | 2 instances, 3 numbers, 4 runs, 2 transactions each |

*Bounds.* `Quota` bounds the accepted requests per writing operation; reads are
unbounded. Two workers suffice for every race in the code, each of which is
between two requests; two numbers give transfers between accounts, to the same
account, and from or to one that does not exist. `MCFirstDay` has months of 9, 8
and 9 days, and the range begins and ends inside a month, so that three months show
the first, a middle and the last, overflow of a day and refunds that wait a
month. The second month lacks the day on which installments are due, so that one
overflows into the third and is posted there. The profiles are: a card settled in full beside reactive rules; purchases
in installments on a card that is settled; refunds and a one-time event; a rule
without an amount; and installments whose number is zero, which panics.
`SampleBound` caps the normal distribution at 2 firings a month. `Half`
stands for 2^31 and lies above every amount in these profiles. Four runs are
enough for a late row of one run to land in a later one after a success. In
`listing_walk` three rows make walks of up to three pages of one row, with a
row committed before, behind and between what was read; size 0 is refused; three
instants give equal stamps and a row that appears behind two others. The
symmetry of workers and of row ids is used in safety runs only.

*Deadlock* is checked in the ledger's and the listing's runs: a request can
always arrive. The seeder stops when it is done or has failed, so its configurations say
`CHECK_DEADLOCK FALSE`.

*Fairness.* `FairSpec` has weak fairness of each worker's `Step`: a thread that
holds a request is scheduled and its calls return or throw (the connection pool
and the driver have timeouts). Nothing is owed by clients, failures or crashes.
The request is answered by a response or dropped by a restart. `SeedGenerator`
has weak fairness of `Next`: it is one sequential program whose POSTs return or
time out after ten seconds, so it goes on as long as it can. Under it
`Terminates`. Walks of the listing owe nothing: a client may give up, and while
rows keep arriving a walk need not end.

### Where code and documents disagree

* Two concurrent registrations of one e-mail are both stored
  (`UserService.java:39`; no unique constraint in `User.java`), although a taken
  e-mail is to be refused. What holds is `TakenEmailRefused`: an e-mail taken
  before the request arrived is refused, so two users with one e-mail come of
  overlapping requests only.
* A user's balance is computed in two queries (`TransactionService.java:69`) and
  may be a value it never had. What holds is `UserReadCurrentUnlessOpened`: only
  an account opened for the user between the two queries does this, transfers
  never do.
* The balance sent for a user is always 10 (`UserMapper.java:45`).
* A purchase on an account with installments is posted in full and in
  installments (`datagen.go:390`), where the configuration says it is split.

* The seeder's balance of an account "tracks the running ledger balance"
  (`datagen.go:113`), but it departs from it in two ways. An opening balance is put
  in the seeder's map and never posted (`datagen.go:133`): the ledger's account
  starts at zero. Every profile of `seed-config.yaml` has accounts with such a
  balance; none of those is settled. And installments and refunds move it the other way
  (`datagen.go:506,548`), which is what `seeder_balances_drift` shows, on accounts
  that open at zero. `BalancesFollowLedger` says by how much it departs, and that
  nothing else makes it depart. `SettledInFull` rests on settled accounts opening
  at zero, as they do in `seed-config.yaml` and in the profiles of the run.

Further oddities, found while modelling, which no run shows: a credit account is said
to count what is owed as positive (`datagen.go:115`), and is booked with it negative
(`datagen-helpers.go:44`, which settling takes into account); in the first
month rules may fire before the start date (`datagen.go:224`; `RulesInSeason`
allows it); a one-time rule may fire after the end of the range, up to the end of
its last month (`datagen.go:317`; `RulesInSeason` allows that too); reactive rules fire on debits as well (`datagen.go:412`); the
remainder of a purchase is dropped from its installments (`PartsFallShort` bounds
it); `toDate` alone is ignored, and every request with `fromDate` or an account
filter, the ingestor's among them, is answered INTERNAL_ERROR
(`TransactionSpecification.java:25,30,40`); `GET /api/transactions/{id}` names
its path variable `id` and its parameter `txnID` (`TransactionController.java:56`),
so it cannot be bound; rows that share their `createdAt` may be missed by a walk,
since nothing fixes their order (`WalkComplete` excepts them); the ingestor reads
the total from `total`, which Spring calls `totalElements`
(`external-dto.go:40`).

## 4. Proofs

`FiniteSums` is what the proofs about money rest on. The library's induction
theorems take a predicate and cannot be instantiated by the provers, so
`NatInduct` and `FiniteInduct` state induction with a *set* of numbers, or of
subsets, in its place, from well-foundedness of `<`. From them: a sum over a
finite set depends on the values there alone (`SumCongruence`), is an integer,
grows by what one element adds (`SumAdd`), splits over disjoint sets
(`SumUnion`), and of equal values is their number times one (`SumConst`).

### Ledger

`LedgerProofs`, for any workers, e-mails, names, numbers, amounts and quota,
with failures and crashes: `TypeCorrect`, `NumbersUnique`, `IdsAreUnique`,
`EntriesAreBacked`, `AnswersAreTrue`. None of these is inductive alone. `IInv`
adds what a request knows at each step: `OpFitsStep` (which operation, which
fields are present), `UserLoaded` and `AccountsLoaded` (what was loaded earlier
is still in the tables, because rows are never removed and only a user's name
changes), and for ids `OwnIds` and `IdsDrawn` (an id drawn but not yet inserted
is below its sequence, in no row and in nobody else's hands). Uniqueness of
numbers rests on the column's constraint, not on the check.

`BalanceProofs`: `MoneyConserved` (`DoubleEntry`) and `UserBalancesAddUp`
(`UserIsSumOfAccounts`). The sums of the aggregate query are cut up by account
and by row; each row counts once where it comes from and once where it goes to,
and both ends are accounts (`EntriesBacked`), so over all accounts they cancel.
`BInv` adds that the tables are finite.

`LedgerRefinementProofs`: `Ledger` implements its three abstractions. An INSERT
of an account is `Journal`'s `Open`, one of a transaction is `Post`, every other
step a stutter; the guards are what `IInv` gives. For `BalanceSheet` the same two
steps open an account at zero (no row names an id that was just drawn) and move
one amount between two accounts (`RowMoves`, by what a row changes in the sums).
For `Feed`, `ToEntity` is `Stamp`, the INSERT of a transaction is `Commit`, and
failures and crashes abandon drafts; `StampsSet` adds to `IInv` that a transfer
on its way to the INSERT has a stamp.

`HistoryProofs`: `AccountReadsLinearizable`, `RenamesTakeEffect`,
`UserReadsLinearizableUnlessOpened` and `TakenEmailsRefused`. `BookTrue`
says that the running balances kept as history are those the query would return
now, `Reading` what a request has read when it is about to answer: the single
id it asks about still belongs to the number it was asked for, and the value it
took was in the window of the request when it took it; a window only grows.
`ReadingUser` is the same for a user: the ids that the first query returned are
still accounts of the user, and if they are all of them, the second query's
value is the sum of the running balances over them (`BooksAddUp`, `TruthOfUser`)
and so in the window. The hypothesis that no account was opened is needed at the
answer only, and serves earlier states because accounts are never removed.
`Registering`: a registration past the check for its e-mail has a moment in its
window at which the e-mail was free.

### Listing

`ListingProofs`, for any writers, rows, filters, page sizes and clock:
`ListingTypeCorrect`, `WalksAreComplete`, `TotalsAreCurrent`, `AnswersAreAsAsked`,
`RepeatsArePaidFor`. The argument counts: a row that the walk owes (`Behind`) and
has not read has at least as many newer rows as the client has positions behind
it, because the rows on a page it has received are all newer or read, and new
rows can only add to them. So the row is still on a page ahead, and when a page
says it is the last, there is none ahead. The total is right because a page that
is not full either ends the table at the moment of its statement
(`PartialPageTells`) or is counted, and rows never vanish. For repetitions: the
rows in front of the end of the page just read have been read or are new, since
an old row that was not read is never in front; and there are at least as many of
them as rows were taken, since no page is longer than asked for (`Pace`). What
was taken beyond the rows read is therefore at most the number of new rows
(`Paid`).

### Seeder

`SeedGeneratorProofs`, for any profiles, any range and any calendar whose months
follow one another, whatever is drawn and whichever POST fails:

* `SeedTypes`: `TypeOK`. `TypeInv` adds that a reactive rule waits only while
  there is an entry that triggered it. Below it lie lemmas about the pure part:
  what `Kept` keeps and in which order (`KeptLemma`), that `SortFirings` is a
  permutation in the order of `Precedes` (`SortLemma`, from `Ranks`: the elements
  of a finite set in a strict order have all numbers of predecessors from 0 up),
  that months do not overlap (`OneMonth`) and what a rule may draw (`DatesLemma`,
  `OneTimeLemma`).
* `RulesPostedInDateOrder`, `OneTimeRulesFireOnce`, `RulesKeepToSeason`
  (`InDateOrder`, `OneTimeOnce`, `RulesInSeason`), from one invariant. `PlanInv`
  is about the firings of the month: in it and in the range, in order once
  sorted, one at most for a one-time or monthly rule. `OrderInv` relates them to
  the ledger: every entry of a rule comes before every firing still to be posted
  (`EntriesBehind`), a one-time rule with an entry is settled and has no firing
  (`OneTimeSettled`), and no monthly rule with a firing ahead has an entry in
  this month or a later one (`MonthlyBehind`).
* `RefundsAreBacked` (`RefundsBacked`). `RefundsOpen`: each refund that may come
  names an entry of a rule with its amount, account and date, and no refund for
  the same purchase and rule is in the ledger or in another place of the list.
  `DelistedLemma` says what the filtering in place leaves.
* `InstallmentsAreKept` (`InstallmentsKept`). `InstallmentsDated`: what is to
  come is due in the current month or later, and what the walk has passed after
  it; `CausesBack`: an entry names an earlier one, so that a new purchase has no
  parts yet; then counting, by a bijection between the positions of the list
  before and after one is cut out.

* `BalancesFollow` (`BalancesFollowLedger`). The property allows two lengths of
  the ledger after a failed POST and may choose one for each account; `BooksInv`
  has one length for all accounts (`BooksAt`) and writes each account's balance as
  its opening balance, which the ledger never gets, plus one number (`Tracked`): sums over what goes to it, what
  leaves it, and its installments and refunds. Every handler that posts appends
  one entry and changes `balances` by what that entry adds to `Tracked`; the
  posted amount is cut to 32 bits and the booked one is not, so they agree only
  while amounts fit. `ListsFit` says this of the installments and refunds in
  waiting: a part is no larger than its purchase. `FiringsPostable`: a rule that
  only attaches to others is never fired by itself.
* `SettlesInFull` (`SettledInFull`). A settling rule reads the seeder's balance,
  which `BooksInv` makes the ledger's and the opening balance for an account
  without installments and refunds; the payment adds its negation. `SettledInv`
  says of every such entry that both came to zero with it, which later entries do
  not change: the ledger's alone is zero if the account opened at zero.
* `PartsMakeUpPurchases` (`PartsFallShort`). `PartsEqual`: every part of a
  purchase, posted or to come, is the quotient of its amount and the number of
  parts. There are that many of them (`InstallmentsKept`), so together they are
  the purchase less the remainder.

* `AmountsStayFit` and `AmountsFitUnsettled` (`AmountsFit`). `TriggerFits` says
  that the amount that triggers reactive rules fits; a rule's own amount lies
  between its bounds, and a percentage of what fits fits (`PercentFits`). What is
  left is what a settling rule pays, which is what has run up: `DebtsFit`. Under
  `AmountsInRange`, `[]DebtsFit` gives `[]AmountsFit`, and so whatever is proved
  under the latter; a profile without settling rules needs no premise about the
  behaviour.
* `SeederMovesForward` (`StepsForward`): every step descends lexicographically in
  what is left of the range, of the month's phases, of the list being walked and
  of the reactive rules waiting. The lists are cut under the index that walks
  them, and filled again for later months, so this needs the index to stay within
  the list (`Walked`). It is the safety half of `Terminates`: no behaviour of the
  seeder has infinitely many steps. That a step can always be taken until the end
  is left to TLC.
* `InsertionSorts` ties `SortFirings`, which is stated by its outcome, to the loop
  of `sortFirings`: each exchange of neighbours the code makes leaves the stable
  order as it is, and when the code has no exchange left to make the sequence is
  that order. `SortUnique` says there is only one, from `RanksInTurn`.

Some of these have a hypothesis about the configuration, which the code does not
check and the profiles of `seeder_transactions` satisfy (`ProfilesAsExpected`,
evaluated in that run), as `seed-config.yaml` does.

| hypothesis | of | without it |
|---|---|---|
| `DelaysForward`: no refund delay is negative | `RefundsAreBacked` | a refund is dated before its purchase |
| `InstallmentDaysForward`: no installment day before the first of the month | `InstallmentsAreKept` | an installment may be due in a month that is over when it is scheduled, and is never posted |
| `DirectionsGiven`: a rule without a transfer says credit or debit | `BalancesFollow`, `SettlesInFull` | the rule is posted as a debit (`datagen.go:366`) and booked as a credit (`datagen-helpers.go:44`) |
| `SettlingPaysIn`: a settling rule pays into the account it settles | `SettlesInFull` | what settles one account moves money on another |
| `SettledOpenAtZero`: a settled account has no opening balance | `SettlesInFull` | the opening balance is paid off although the ledger never got it |
| `AmountsNotNegative`: no minimum below zero | `PartsMakeUpPurchases` | Go's division rounds towards zero, so parts of a negative amount come to more than it |
| `AmountsInRange`: a rule's bounds fit in 32 bits, percentages are between 0 and 100 | `AmountsStayFit`, `AmountsFitUnsettled` | an amount is cut off when it is first posted |
| `[]AmountsFit`: no amount leaves 32 bits | `BalancesFollow`, `SettlesInFull`, `PartsMakeUpPurchases` | `int64` is cut to `int32` where it is posted (`datagen.go:377`) and not where it is booked |

`AmountsFit` is about a behaviour, not about the configuration: a settled amount is
what has run up, and no bound on the rules' own amounts bounds it, since the number
of purchases between two settlements is drawn. It is therefore a premise
`[]AmountsFit` of the theorems and an invariant of `seeder_transactions`;
`AmountsStayFit` reduces it to the one place where it is not the configuration's
to guarantee, the debt of an account at the moment it is settled.

`SeedRunProofs`, for any number of instances, accounts, runs and transactions
and any draw of account numbers: `TypeCorrect`, `NeverSeededTwice`,
`CompletionIsWhole`, and `LoadsOnce`: `SeedRun` implements `Seeding`. The
argument of `Gated`: the first user's e-mail is the same in every run, so the run
that created it is the only one that ever gets past that POST, and only a run
past it posts transactions. A row whose POST failed may land later, but it was
posted by a run that was stopped: if that run was past the gate no other will be.
`Progress` says what the present run has created; rows never vanish since
`ClearDB` fails. For the refinement `NoneLate` is needed too: a transaction given
up on stops its run, so none is left to land once a run has reported success.

### Assumptions, and what is only model-checked

The proofs assume the named `ASSUME`s of the modules, which TLC evaluates in the
runs: `LedgerAssumption`, `ListingAssumption`, `SeedRunAssumption`,
`SeedPlanAssumption` (a calendar of successive months that covers the range) and
`ProfilesAssumption` (profiles are of the types the configuration is parsed into,
rules name accounts of their profile, an account settled is one of them, and the
calendar goes on as far as installments do). The first step of each proof that
needs them takes them by name.

*Only model-checked:* `Answered` and `Terminates`, which are liveness and rest on
ENABLED, out of TLAPS' reach (`StepsForward`, the part of `Terminates` that is
not, is proved); and that `DebtsFit` holds, which no property of the code makes
true: it does for amounts small enough for the range, as in the profiles of the
run. Every other property of a passing run is stated by a theorem. The mutants and the runs that expect a violation are TLC's by
nature.

## 5. Not modelled

* The two detail reads: they change no state and relate nothing.
* The ingestor beyond its poll. `main` returns after `setupRoutes` without
  serving (`main.go:31`), and with it the goroutine of `StartIngestor`, which is
  empty. `NewDB` gets an empty URI; `EnsureTableAndIndex` is called by nobody, its
  SQL does not parse and its columns (`created_at`) are not those of the queries
  (`createdAt`), so every statement of `db.go` fails. `poller.go` declares
  functions without bodies, so package `ingestion` does not build.
  `SetPollCursor` stores nothing, `JsonWriter` drops the status it is given, the
  worker pool, reconciler and configuration are empty. There is no reachable
  behaviour left that a model could be faithful to.
* The AI service, a request to a language model without state; the deployment
  files; the logger and the demo runner.
* Of the seeder: reading the YAML file; descriptions, categories as such, origin
  ids; `write_to_db`, which nothing reads.

## 6. Plan

Done: `Balance`, `Ledger`, its abstractions, history and proofs; `Feed`, `Listing`
and their proofs; `SeedPlan`, `SeedGenerator`, `SeedRun`, `Seeding` and the proofs
about them. What is left:

1. The pages of `Listing` as a partition of the rows at rest: that a walk during
   which nothing is committed reads every row once, in the order asked for.
2. A bound on the debt of a settled account, in terms of the rules, the bound on
   their draws and the length of the range, that would discharge `[]DebtsFit`.
3. The ingestor's poller as a second client of `Listing`, once it has a body: what
   a cursor that follows `createdAt` misses is what `Feed` lets appear behind it.
