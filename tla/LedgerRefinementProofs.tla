------------------------ MODULE LedgerRefinementProofs ------------------------
(****************************************************************************)
(* Ledger implements its abstractions, whatever requests race, fail or are  *)
(* cut off by a crash.  Journal: account numbers are opened once and never  *)
(* closed, entries are posted between open accounts, and nothing posted     *)
(* ever changes.  BalanceSheet: the aggregate query answers a running       *)
(* balance.  Feed: a transfer is stamped once, before its row is committed, *)
(* and the row carries that stamp.                                          *)
(****************************************************************************)
EXTENDS LedgerRefinement, BalanceProofs

--------------------------------------------------------------------------------
\* The register and the journal

LEMMA JournalInit == Init => RegisterAndJournal!Init
  BY DEF Init, RegisterAndJournal!Init, Register, Entries

\* Committing an account opens its number.
LEMMA InsertOpens ==
    ASSUME IInv, NEW w \in Workers, InsertAccount(w)
    PROVE  [RegisterAndJournal!Next]_(RegisterAndJournal!vars)
<1>1. txns' = txns
  BY DEF InsertAccount
<1>2. Entries' = Entries
  BY <1>1 DEF Entries
<1>3. CASE accounts' = accounts
  BY <1>2, <1>3 DEF Register, RegisterAndJournal!vars
<1>4. CASE accounts' # accounts
  <2> DEFINE row == [id |-> loc[w].id, number |-> req[w].number, user |-> loc[w].user.id]
             o   == Registered(row)
  <2>1. accounts' = accounts \cup {row} /\ NumberConstraint(req[w].number)
    BY <1>4 DEF InsertAccount
  <2>2. Register' = Register \cup {o}
    <3> HIDE DEF row
    <3>1. QED
      BY <2>1 DEF Register
  <2>3. loc[w].id \in Nat /\ req[w].number \in Numbers
    BY <2>1 DEF IInv, TypeOK, Local, Request, NumberConstraint
  <2>4. o \in RegisterAndJournal!Registration
    BY <2>3 DEF RegisterAndJournal!Registration, Registered
  <2>5. \A a \in accounts : a.id # loc[w].id /\ a.number # req[w].number
    BY <2>1 DEF IInv, OwnIds, OwnId, InsertAccount, NumberConstraint
  <2>6. \A p \in Register : p.id # o.id /\ p.number # o.number
    BY <2>5 DEF Register, Registered
  <2>7. RegisterAndJournal!Open(o)
    BY <1>2, <2>2, <2>4, <2>6 DEF RegisterAndJournal!Open
  <2>8. o \in Register'
    BY <2>2
  <2>9. QED
    BY <2>7, <2>8 DEF RegisterAndJournal!Next
<1>5. QED
  BY <1>3, <1>4

\* Committing a transaction posts its entry.
LEMMA InsertPosts ==
    ASSUME IInv, NEW w \in Workers, InsertTransaction(w)
    PROVE  [RegisterAndJournal!Next]_(RegisterAndJournal!vars)
<1> DEFINE e == Posted(EntityOf(w))
<1>1. Register' = Register
  BY DEF InsertTransaction, Register
<1>2. txns' = txns \cup {EntityOf(w)}
  BY DEF InsertTransaction
<1>3. Entries' = Entries \cup {e}
  BY <1>2 DEF Entries
<1>4. loc[w].source \in accounts /\ loc[w].destination \in accounts
  BY DEF IInv, Handling, AccountsLoaded, AccountsNumbered, InsertTransaction,
         CreateTransactionSteps
<1>5. e \in RegisterAndJournal!Entry
  <2>1. loc[w].id \in Nat /\ loc[w].source.id \in Nat /\ loc[w].destination.id \in Nat
    BY <1>4 DEF IInv, TypeOK, Local, AccountRow
  <2>2. req[w].amount \in Amounts
    BY DEF IInv, TypeOK, Request, Handling, OpFitsStep, InsertTransaction
  <2>3. QED
    BY <2>1, <2>2 DEF RegisterAndJournal!Entry, Posted, EntityOf
<1>6. e.from \in RegisterAndJournal!Opened /\ e.to \in RegisterAndJournal!Opened
  <2>1. /\ e.from = Registered(loc[w].source).id
        /\ e.to = Registered(loc[w].destination).id
    BY DEF Posted, EntityOf, Registered
  <2>2. Registered(loc[w].source) \in Register /\ Registered(loc[w].destination) \in Register
    BY <1>4 DEF Register
  <2>3. QED
    BY <2>1, <2>2 DEF RegisterAndJournal!Opened
<1>7. \A t \in txns : t.id # loc[w].id
  BY DEF IInv, OwnIds, OwnId, InsertTransaction
<1>8. \A f \in Entries : f.id # e.id
  BY <1>7 DEF Entries, Posted, EntityOf
<1>9. RegisterAndJournal!Post(e)
  BY <1>1, <1>3, <1>5, <1>6, <1>8 DEF RegisterAndJournal!Post
<1>10. e \in Entries'
  BY <1>3
<1>11. QED
  BY <1>9, <1>10 DEF RegisterAndJournal!Next

LEMMA JournalStep ==
    ASSUME IInv, [Next]_vars
    PROVE  [RegisterAndJournal!Next]_(RegisterAndJournal!vars)
<1>1. CASE accounts' = accounts /\ txns' = txns
  BY <1>1 DEF Register, Entries, RegisterAndJournal!vars
<1>2. CASE \E w \in Workers : InsertAccount(w) \/ InsertTransaction(w)
  BY <1>2, InsertOpens, InsertPosts
<1>3. QED
  BY <1>1, <1>2, AccountsKept, TxnsKept DEF Next, Act, Crash, vars, db

\* The ledger's tables implement the register and the append-only journal.
THEOREM LedgerImplementsJournal == Spec => ImplementsJournal
<1>1. Init => RegisterAndJournal!Init
  BY JournalInit
<1>2. IInv /\ [Next]_vars => [RegisterAndJournal!Next]_(RegisterAndJournal!vars)
  BY JournalStep
<1>3. QED
  BY <1>1, <1>2, Invariance, PTL DEF Spec, RegisterAndJournal!Spec, ImplementsJournal

--------------------------------------------------------------------------------
\* The balance sheet

\* A stored account is the only one of its number.
LEMMA NumberNames ==
    ASSUME UniqueNumbers, NEW a \in accounts
    PROVE  /\ AccountsNumbered(a.number) = {a}
           /\ {b.id : b \in AccountsNumbered(a.number)} = {a.id}
           /\ BalanceOf(a.number) = CalculateNetBalance(txns, {a.id})
<1>1. AccountsNumbered(a.number) = {a}
  BY DEF UniqueNumbers, AccountsNumbered
<1>2. {b.id : b \in AccountsNumbered(a.number)} = {a.id}
  BY <1>1
<1>3. BalanceOf(a.number) = CalculateNetBalance(txns, {a.id})
  BY <1>2 DEF BalanceOf
<1>4. QED
  BY <1>1, <1>2, <1>3

NumbersOpen == {a.number : a \in accounts}

LEMMA SheetInit == Init => Sheet!Init
<1> SUFFICES ASSUME Init PROVE Sheet!Init
  OBVIOUS
<1>1. {a.number : a \in accounts} = {}
  BY DEF Init
<1>2. QED
  BY <1>1 DEF Sheet!Init, BookBalances

\* Nothing happens to the balances while both tables stay as they are.
LEMMA SheetKept ==
    ASSUME accounts' = accounts, txns' = txns
    PROVE  BookBalances' = BookBalances
  BY DEF BookBalances, BalanceOf, AccountsNumbered

\* Committing an account opens its number at zero: no row can have either end
\* at an id that was not in the table.
LEMMA AccountOpens ==
    ASSUME BInv, BInv', NEW w \in Workers, InsertAccount(w),
           NEW row, row = [id |-> loc[w].id, number |-> req[w].number, user |-> loc[w].user.id],
           accounts' = accounts \cup {row}, accounts' # accounts
    PROVE  Sheet!Open(row.number) /\ row.number \in Numbers
<1>1. txns' = txns /\ row \in accounts' /\ row \notin accounts
  BY DEF InsertAccount
<1>2. row.number \in Numbers
  BY <1>1, AccountIsNew
<1>3. \A a \in accounts : a.number # row.number /\ a.id # row.id
  BY <1>1, AccountIsNew
<1>4. \A a \in accounts : BalanceOf(a.number)' = BalanceOf(a.number)
  <2>1. ASSUME NEW a \in accounts PROVE BalanceOf(a.number)' = BalanceOf(a.number)
    <3>1. AccountsNumbered(a.number)' = AccountsNumbered(a.number)
      BY <1>3 DEF AccountsNumbered
    <3>2. QED
      BY <1>1, <3>1 DEF BalanceOf
  <2>2. QED
    BY <2>1
<1>5. BalanceOf(row.number)' = 0
  <2>1. {b.id : b \in AccountsNumbered(row.number)'} = {row.id}
    BY <1>1, <1>3 DEF AccountsNumbered
  <2>2. BalanceOf(row.number)' = CalculateNetBalance(txns, {row.id})
    BY <1>1, <2>1 DEF BalanceOf
  <2>3. QED
    BY <1>1, <2>2, AccountIsNew
<1>6. NumbersOpen' = NumbersOpen \cup {row.number} /\ row.number \notin NumbersOpen
  BY <1>3 DEF NumbersOpen
<1>7. BookBalances = [n \in NumbersOpen |-> BalanceOf(n)]
      /\ BookBalances' = [n \in NumbersOpen' |-> BalanceOf(n)']
  BY DEF BookBalances, NumbersOpen
<1>8. DOMAIN BookBalances = NumbersOpen /\ \A n \in NumbersOpen : BookBalances[n] = BalanceOf(n)
  BY <1>7
<1>9. \A n \in NumbersOpen : BalanceOf(n)' = BookBalances[n]
  BY <1>4, <1>8 DEF NumbersOpen
<1>10. BookBalances' = [n \in NumbersOpen \cup {row.number} |->
                          IF n = row.number THEN 0 ELSE BookBalances[n]]
  BY <1>5, <1>6, <1>7, <1>9
<1>11. QED
  BY <1>2, <1>6, <1>8, <1>10 DEF Sheet!Open, Sheet!OpenAccounts

\* Committing a transaction moves its amount.
LEMMA RowMoves ==
    ASSUME BInv, NEW w \in Workers, InsertTransaction(w), txns' = txns \cup {EntityOf(w)}
    PROVE  \E from, to \in DOMAIN BookBalances, amount \in Amounts :
             Sheet!Transfer(from, to, amount)
<1> DEFINE e == EntityOf(w)
           s == loc[w].source
           d == loc[w].destination
           from == s.number
           to == d.number
<1>1. accounts' = accounts /\ pc[w] = "insertTransaction"
  BY DEF InsertTransaction
<1>2. s \in accounts /\ d \in accounts
  BY <1>1, EntryBuilt
<1>3. e.source = s.id /\ e.destination = d.id
  BY DEF EntityOf
<1>4. e.amount \in Amounts /\ e.amount \in Int
  BY <1>1, EntryBuilt
<1>5. e \notin txns
  BY <1>1, EntryBuilt
<1> HIDE DEF e, s, d
<1>6. ASSUME NEW a \in accounts
      PROVE  BalanceOf(a.number)' = BalanceOf(a.number) + Change(e, {a.id})
  <2>1. /\ {b.id : b \in AccountsNumbered(a.number)} = {a.id}
        /\ BalanceOf(a.number) = CalculateNetBalance(txns, {a.id})
    BY NumberNames DEF BInv, IInv
  <2>2. AccountsNumbered(a.number)' = AccountsNumbered(a.number)
    BY <1>1 DEF AccountsNumbered
  <2>3. BalanceOf(a.number)' = CalculateNetBalance(txns', {a.id})
    BY <2>1, <2>2 DEF BalanceOf
  <2>4. CalculateNetBalance(txns', {a.id}) = CalculateNetBalance(txns \cup {e}, {a.id})
    BY DEF e
  <2>5. CalculateNetBalance(txns \cup {e}, {a.id})
          = CalculateNetBalance(txns, {a.id}) + Change(e, {a.id})
    BY <1>4, <1>5, TxnsSummable, NetOverRows
  <2>6. QED
    BY <2>1, <2>3, <2>4, <2>5
<1>7. ASSUME NEW a \in accounts
      PROVE  /\ Change(e, {a.id}) = (IF a.number = to THEN e.amount ELSE 0)
                                      - (IF a.number = from THEN e.amount ELSE 0)
             /\ BalanceOf(a.number) \in Int
  <2>1. (d.id = a.id <=> a.number = to) /\ (s.id = a.id <=> a.number = from)
    BY <1>2 DEF BInv, IInv, UniqueNumbers, IdsUnique
  <2>2. BalanceOf(a.number) \in Int
    <3>1. BalanceOf(a.number) = CalculateNetBalance(txns, {a.id})
      BY NumberNames DEF BInv, IInv
    <3>2. CalculateNetBalance(txns, {a.id}) \in Int
      BY NetIs, TxnsSummable
    <3>3. QED
      BY <3>1, <3>2
  <2>3. QED
    BY <1>3, <2>1, <2>2 DEF Change
<1>8. BookBalances = [n \in NumbersOpen |-> BalanceOf(n)]
      /\ BookBalances' = [n \in NumbersOpen |-> BalanceOf(n)']
  BY <1>1 DEF BookBalances, NumbersOpen
<1>9. from \in NumbersOpen /\ to \in NumbersOpen
  BY <1>2 DEF NumbersOpen
<1>10. \A n \in NumbersOpen :
         /\ BalanceOf(n) \in Int
         /\ BalanceOf(n)' = BalanceOf(n) + ((IF n = to THEN e.amount ELSE 0)
                                             - (IF n = from THEN e.amount ELSE 0))
  BY <1>6, <1>7 DEF NumbersOpen
<1> HIDE DEF from, to
<1>11. BookBalances' = [[BookBalances EXCEPT ![from] = @ - e.amount]
                          EXCEPT ![to] = @ + e.amount]
  BY <1>4, <1>8, <1>9, <1>10
<1>12. DOMAIN BookBalances = NumbersOpen
  BY <1>8
<1>13. Sheet!Transfer(from, to, e.amount)
  BY <1>11 DEF Sheet!Transfer
<1>14. QED
  BY <1>4, <1>9, <1>12, <1>13

LEMMA SheetStep ==
    ASSUME BInv, BInv', [Next]_vars PROVE [Sheet!Next]_BookBalances
<1>1. CASE UNCHANGED vars
  BY <1>1, SheetKept DEF vars
<1>2. CASE Crash
  BY <1>2, SheetKept DEF Crash, db
<1>3. ASSUME NEW w \in Workers, Act(w) PROVE [Sheet!Next]_BookBalances
  <2>1. CASE InsertAccount(w)
    <3>1. txns' = txns
      BY <2>1 DEF InsertAccount
    <3>2. CASE accounts' = accounts
      BY <3>1, <3>2, SheetKept
    <3>3. CASE accounts' # accounts
      BY <1>3, <3>3, AccountsStep, AccountOpens DEF Sheet!Next
    <3>4. QED
      BY <3>2, <3>3
  <2>2. CASE InsertTransaction(w)
    BY <2>2, RowMoves DEF InsertTransaction, Sheet!Next, Sheet!OpenAccounts
  <2>3. CASE ~InsertAccount(w) /\ ~InsertTransaction(w)
    BY <1>3, <2>3, AccountsKept, TxnsKept, SheetKept
  <2>4. QED
    BY <2>1, <2>2, <2>3
<1>4. QED
  BY <1>1, <1>2, <1>3 DEF Next, Act

\* Ledger implements BalanceSheet: what the aggregate query answers for each
\* account is a running balance that opens at zero and that nothing but a
\* committed transfer changes, at both its ends at once.
THEOREM LedgerImplementsBalanceSheet == Spec => ImplementsBalanceSheet
<1>1. Init => Sheet!Init
  BY SheetInit
<1>2. BInv /\ BInv' /\ [Next]_vars => [Sheet!Next]_BookBalances
  BY SheetStep
<1>3. QED
  BY <1>1, <1>2, BInvHolds, PTL DEF Spec, ImplementsBalanceSheet, Sheet!Spec

--------------------------------------------------------------------------------
\* The feed

\* The steps at which a transfer has its stamp.
Stamped == {"saveTransaction", "insertTransaction"}

\* A stamp is never zero, which is how Feed knows that there is one.
StampsSet ==
    /\ now >= 1
    /\ \A w \in Workers : pc[w] \in Stamped => loc[w].stamp >= 1

\* The stamp of a transfer that gets one.
ToEntityStamps(w) ==
    /\ pc[w] = "toEntity" /\ pc'[w] = "saveTransaction"
    /\ now' \in {now, now + 1}
    /\ loc'[w].stamp = now'

\* A request comes to its INSERT by way of toEntity and save alone.
LEMMA StampedReached ==
    ASSUME TypeOK, NEW w \in Workers, Act(w)
    PROVE  /\ pc'[w] = "saveTransaction" => ToEntityStamps(w)
           /\ now' # now => pc'[w] = "saveTransaction"
<1> USE DEF TypeOK, Goto, Reply, Committed
<1>1. CASE Begin(w)
  BY <1>1 DEF Begin, Entry
<1>2. CASE FindUser(w)
  BY <1>2 DEF FindUser, AfterFindUser
<1>3. CASE CreateUser(w)
  BY <1>3 DEF CreateUser, ExistsByEmail, SaveUser, InsertUser
<1>4. CASE UpdateUser(w)
  BY <1>4 DEF UpdateUser, MergeUser
<1>5. CASE CreateAccount(w)
  BY <1>5 DEF CreateAccount, ExistsByAccountNumber, SaveAccount, InsertAccount
<1>6. CASE ToEntity(w)
  BY <1>6 DEF ToEntity, ToEntityStamps, Local
<1>7. CASE CreateTransaction(w) /\ ~ToEntity(w)
  BY <1>7 DEF CreateTransaction, FindSource, FindDestination,
              SaveTransaction, InsertTransaction, NoAccountNumbered
<1>8. CASE GetBalance(w)
  BY <1>8 DEF GetBalance, FindAllByUserId, FindAccount, Sum, NoAccountNumbered
<1>9. CASE Respond(w)
  BY <1>9 DEF Respond
<1>10. CASE Fail(w)
  BY <1>10 DEF Fail
<1>11. QED
  BY <1>1, <1>2, <1>3, <1>4, <1>5, <1>6, <1>7, <1>8, <1>9, <1>10 DEF Act, Step

\* save() draws an id and leaves the stamp as it is.
LEMMA SaveKeepsStamp ==
    ASSUME TypeOK, NEW w \in Workers, SaveTransaction(w)
    PROVE  loc'[w].stamp = loc[w].stamp /\ pc[w] = "saveTransaction"
  BY DEF TypeOK, SaveTransaction, Persist, Local

LEMMA StampsStep ==
    ASSUME IInv, StampsSet, [Next]_vars
    PROVE  StampsSet'
<1> USE DEF StampsSet
<1>1. TypeOK
  BY DEF IInv
<1>2. ASSUME NEW w \in Workers, Act(w) PROVE StampsSet'
  <2>1. now' >= 1
    BY <1>1, <1>2, StampedReached DEF TypeOK, ToEntityStamps
  <2>2. pc'[w] \in Stamped => loc'[w].stamp >= 1
    BY <1>1, <1>2, <2>1, StampedReached, InsertReached, SaveKeepsStamp
    DEF ToEntityStamps, Stamped
  <2>3. \A v \in Workers \ {w} : pc'[v] \in Stamped => loc'[v].stamp >= 1
    BY <1>1, <1>2, Frame
  <2>4. QED
    BY <2>1, <2>2, <2>3
<1>3. CASE Crash
  BY <1>3 DEF Crash, Stamped
<1>4. CASE UNCHANGED vars
  BY <1>4 DEF vars
<1>5. QED
  BY <1>2, <1>3, <1>4 DEF Next, Act

--------------------------------------------------------------------------------

\* The drafts of the other workers stay as they are.
LEMMA DraftsFrame ==
    ASSUME TypeOK, NEW w \in Workers, Act(w)
    PROVE  Drafts' = [Drafts EXCEPT ![w] = Drafts'[w]]
<1>1. \A v \in Workers \ {w} : pc'[v] = pc[v] /\ loc'[v] = loc[v]
  BY Frame
<1>2. QED
  BY <1>1 DEF Drafts

LEMMA ToEntityIsStamp ==
    ASSUME IInv, NEW w \in Workers, Act(w), ToEntityStamps(w), FeedRows' = FeedRows
    PROVE  Growth!Stamp(w)
<1>1. Drafts[w] = 0 /\ Drafts'[w] = now'
  BY DEF ToEntityStamps, Drafts
<1>2. Drafts' = [Drafts EXCEPT ![w] = now']
  BY <1>1, DraftsFrame DEF IInv
<1>3. QED
  BY <1>1, <1>2 DEF Growth!Stamp, ToEntityStamps

LEMMA InsertIsCommit ==
    ASSUME IInv, StampsSet, NEW w \in Workers, InsertTransaction(w)
    PROVE  Growth!FeedNext
<1> DEFINE r == FeedRow(EntityOf(w))
<1>1. TypeOK /\ Act(w) /\ pc[w] = "insertTransaction" /\ now' = now
  BY DEF IInv, InsertTransaction, Act, Step, CreateTransaction
<1>2. pc'[w] = "respond"
  BY <1>1, AnswerKnown DEF InsertTransaction
<1>3. loc[w].id \in Nat /\ loc[w].stamp \in Nat /\ loc[w].stamp >= 1
  BY <1>1 DEF TypeOK, Local, StampsSet, Stamped
<1>4. Drafts[w] = loc[w].stamp /\ Drafts'[w] = 0
  BY <1>1, <1>2 DEF Drafts
<1>5. Drafts' = [Drafts EXCEPT ![w] = 0]
  BY <1>1, <1>4, DraftsFrame
<1>6. r = [id |-> loc[w].id, createdAt |-> loc[w].stamp, detail |-> Null]
  BY DEF FeedRow, EntityOf
<1>7. r \in Growth!Row /\ r.createdAt = Drafts[w] /\ r.id = loc[w].id
  BY <1>3, <1>4, <1>6 DEF Growth!Row
<1>8. FeedRows' = FeedRows \cup {r}
  <2> DEFINE e == EntityOf(w)
  <2>1. txns' = txns \cup {e}
    BY DEF InsertTransaction
  <2> HIDE DEF e
  <2>2. FeedRows' = FeedRows \cup {FeedRow(e)}
    BY <2>1 DEF FeedRows
  <2>3. QED
    BY <2>2 DEF e
<1>9. \A t \in txns : t.id # loc[w].id
  BY DEF IInv, OwnIds, OwnId, InsertTransaction
<1>10. \A q \in FeedRows : q.id # r.id
  BY <1>7, <1>9 DEF FeedRows, FeedRow
<1> HIDE DEF r
<1>11. Growth!Commit(w, r)
  BY <1>1, <1>3, <1>4, <1>5, <1>7, <1>8, <1>10 DEF Growth!Commit
<1>12. r \in FeedRows'
  BY <1>8
<1>13. QED
  BY <1>11, <1>12 DEF Growth!FeedNext

\* Every other step of a request leaves its draft, or drops it.
LEMMA OtherIsAbandon ==
    ASSUME IInv, NEW w \in Workers, Act(w), pc'[w] # "saveTransaction",
           ~InsertTransaction(w)
    PROVE  [Growth!FeedNext]_(Growth!feedVars)
<1>1. TypeOK
  BY DEF IInv
<1>2. now' = now /\ FeedRows' = FeedRows
  BY <1>1, StampedReached, TxnsKept DEF FeedRows
<1>3. Drafts' = [Drafts EXCEPT ![w] = Drafts'[w]]
  BY <1>1, DraftsFrame
<1>4. CASE pc'[w] = "insertTransaction"
  <2>1. Drafts'[w] = Drafts[w]
    BY <1>1, <1>4, InsertReached, SaveKeepsStamp DEF Drafts
  <2>2. Drafts' = Drafts
    BY <1>3, <2>1 DEF Drafts
  <2>3. QED
    BY <1>2, <2>2 DEF Growth!feedVars
<1>5. CASE pc'[w] # "insertTransaction"
  <2>1. Drafts'[w] = 0
    BY <1>5 DEF Drafts
  <2>2. Drafts' = [v \in Workers |-> IF v \in {w} THEN 0 ELSE Drafts[v]]
    BY <1>3, <2>1 DEF Drafts
  <2>3. Growth!Abandon({w})
    BY <1>2, <2>2 DEF Growth!Abandon
  <2>4. QED
    BY <2>3 DEF Growth!FeedNext
<1>6. QED
  BY <1>4, <1>5

LEMMA CrashAbandons ==
    ASSUME Crash
    PROVE  Growth!FeedNext
<1>1. now' = now /\ FeedRows' = FeedRows
  BY DEF Crash, db, FeedRows
<1>2. Drafts' = [v \in Workers |-> IF v \in Workers THEN 0 ELSE Drafts[v]]
  BY DEF Crash, Drafts
<1>3. Growth!Abandon(Workers)
  BY <1>1, <1>2 DEF Growth!Abandon
<1>4. QED
  BY <1>3 DEF Growth!FeedNext

LEMMA FeedStep ==
    ASSUME IInv, StampsSet, [Next]_vars
    PROVE  [Growth!FeedNext]_(Growth!feedVars)
<1>1. ASSUME NEW w \in Workers, Act(w)
      PROVE  [Growth!FeedNext]_(Growth!feedVars)
  <2>1. CASE InsertTransaction(w)
    BY <2>1, InsertIsCommit
  <2>2. CASE pc'[w] = "saveTransaction" /\ ~InsertTransaction(w)
    <3>1. ToEntityStamps(w) /\ FeedRows' = FeedRows
      BY <1>1, <2>2, StampedReached, TxnsKept DEF IInv, FeedRows
    <3>2. Growth!Stamp(w)
      BY <1>1, <3>1, ToEntityIsStamp
    <3>3. QED
      BY <3>2 DEF Growth!FeedNext
  <2>3. QED
    BY <1>1, <2>1, <2>2, OtherIsAbandon
<1>2. CASE UNCHANGED vars
  BY <1>2 DEF vars, Drafts, FeedRows, Growth!feedVars
<1>3. QED
  BY <1>1, <1>2, CrashAbandons DEF Next, Act

--------------------------------------------------------------------------------

\* The table of transactions grows as a Feed: what Listing assumes of it.
THEOREM LedgerImplementsFeed == Spec => ImplementsFeed
<1>1. Init => Growth!FeedInit
  BY DEF Init, Growth!FeedInit, Drafts, FeedRows
<1>2. Init => StampsSet
  BY DEF Init, StampsSet, Stamped
<1>3. IInv /\ StampsSet /\ [Next]_vars => StampsSet'
  BY StampsStep
<1>4. Spec => []StampsSet
  BY <1>2, <1>3, Invariance, PTL DEF Spec
<1>5. IInv /\ StampsSet /\ [Next]_vars => [Growth!FeedNext]_(Growth!feedVars)
  BY FeedStep
<1>6. QED
  BY <1>1, <1>4, <1>5, Invariance, PTL DEF Spec, Growth!FeedSpec, ImplementsFeed

================================================================================
