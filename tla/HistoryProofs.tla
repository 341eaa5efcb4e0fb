----------------------------- MODULE HistoryProofs -----------------------------
(****************************************************************************)
(* What the answers of Ledger say about the time of the request: an account *)
(* balance is one the account had, and a rename took effect, at some moment *)
(* between the request and its answer, whatever is committed in between and *)
(* whatever is retried, fails or restarts.                                  *)
(****************************************************************************)
EXTENDS LedgerHistory, BalanceProofs

\* The running balances are those the aggregate query gives.
BookTrue ==
    /\ book \in [Numbers -> Int]
    /\ \A a \in accounts : book[a.number] = CalculateNetBalance(txns, {a.id})
    /\ \A n \in Numbers : AccountsNumbered(n) = {} => book[n] = 0

\* What a request has read when it is about to answer, or answers.
Reading(w) ==
    /\ pc[w] = "calculateNetBalance" /\ req[w].op # "getUserBalance" =>
         /\ req[w].op = "getAccountBalance"
         /\ loc[w].source \in AccountsNumbered(req[w].number)
         /\ loc[w].ids = {loc[w].source.id}
    /\ pc[w] = "mergeUser" => loc[w].user.name \in seen[w]
    /\ Answer("getAccountBalance", w) => net[w] \in seen[w]
    /\ Answer("updateUser", w) => req[w].name \in seen[w]

\* What a registration past its check has seen, and a read of a user's balance
\* has read.
Registering(w) ==
    /\ pc[w] \in {"saveUser", "insertUser"} => FALSE \in seen[w]
    /\ req[w].op = "createUser" /\ reply[w].code = "CREATED" => FALSE \in seen[w]

ReadingUser(w) ==
    /\ pc[w] # "respond" => net[w] = 0
    /\ pc[w] \in {"idle", "findUser", "findAllByUserId"} => loc[w].ids = {}
    /\ req[w].op = "getUserBalance" /\ (pc[w] = "calculateNetBalance" \/ reply[w].code = "OK")
         => loc[w].ids \subseteq IdsOf(req[w].user)
    /\ Answer("getUserBalance", w) /\ loc[w].ids = IdsOf(req[w].user)
         => net[w] \in seen[w]

HInv == BInv /\ BookTrue /\ \A w \in Workers : Reading(w) /\ Registering(w) /\ ReadingUser(w)

--------------------------------------------------------------------------------
\* The running balances

LEMMA BookSame ==
    ASSUME BookTrue, txns' = txns, Record PROVE book' = book
<1>1. txns' \ txns = {}
  OBVIOUS
<1>2. book' = [n \in Numbers |-> book[n] + SumAmount({}) - SumAmount({})]
  <2>1. ASSUME NEW n \in Numbers
        PROVE  /\ SumAmount({t \in txns' \ txns : NumberOf(t.destination) = n}) = SumAmount({})
               /\ SumAmount({t \in txns' \ txns : NumberOf(t.source) = n}) = SumAmount({})
    <3>1. /\ {t \in txns' \ txns : NumberOf(t.destination) = n} = {}
          /\ {t \in txns' \ txns : NumberOf(t.source) = n} = {}
      BY <1>1
    <3>2. QED
      BY <3>1
  <2>2. QED
    BY <2>1 DEF Record, Posted
<1>3. QED
  BY <1>2, SumAmountEmpty DEF BookTrue

LEMMA BookOpens ==
    ASSUME BInv, BInv', BookTrue, Record, txns' = txns,
           NEW row, accounts' = accounts \cup {row}
    PROVE  BookTrue'
<1>1. book' = book
  BY BookSame
<1>2. CASE row \in accounts
  <2>1. accounts' = accounts
    BY <1>2
  <2>2. QED
    BY <1>1, <2>1 DEF BookTrue, AccountsNumbered
<1>3. CASE row \notin accounts
  <2>1. /\ row.number \in Numbers
        /\ \A a \in accounts : a.number # row.number /\ a.id # row.id
        /\ CalculateNetBalance(txns, {row.id}) = 0
    BY <1>3, AccountIsNew
  <2>2. book[row.number] = 0
    BY <2>1 DEF BookTrue, AccountsNumbered
  <2>3. \A a \in accounts' : book'[a.number] = CalculateNetBalance(txns', {a.id})
    BY <1>1, <2>1, <2>2 DEF BookTrue
  <2>4. \A n \in Numbers : AccountsNumbered(n)' = {} => book'[n] = 0
    BY <1>1 DEF BookTrue, AccountsNumbered
  <2>5. QED
    BY <1>1, <2>3, <2>4 DEF BookTrue
<1>4. QED
  BY <1>2, <1>3

\* The number of a stored account, by its id.
LEMMA NumberById ==
    ASSUME IdsUnique, NEW a \in accounts PROVE NumberOf(a.id) = a.number
<1>1. \A b \in accounts : b.id = a.id => b = a
  BY DEF IdsUnique
<1>2. (CHOOSE b \in accounts : b.id = a.id) = a
  BY <1>1
<1>3. QED
  BY <1>2 DEF NumberOf

LEMMA BookPosts ==
    ASSUME BInv, BookTrue, Record, NEW w \in Workers, InsertTransaction(w),
           txns' = txns \cup {EntityOf(w)}
    PROVE  BookTrue'
<1> DEFINE e == EntityOf(w)
           s == loc[w].source
           d == loc[w].destination
<1>1. accounts' = accounts /\ pc[w] = "insertTransaction"
  BY DEF InsertTransaction
<1>2. /\ s \in accounts /\ d \in accounts /\ e.source = s.id /\ e.destination = d.id
      /\ e.amount \in Int /\ e \notin txns
  BY <1>1, EntryBuilt
<1>3. txns' = txns \cup {e} /\ txns' \ txns = {e}
  BY <1>2
<1> HIDE DEF e, s, d
<1>4. NumberOf(e.destination) = d.number /\ NumberOf(e.source) = s.number
  BY <1>2, NumberById DEF BInv, IInv
<1> DEFINE in(n) == IF n = d.number THEN e.amount ELSE 0
           out(n) == IF n = s.number THEN e.amount ELSE 0
<1>5. ASSUME NEW n \in Numbers
      PROVE  book'[n] = book[n] + in(n) - out(n)
  <2> DEFINE To == {t \in txns' \ txns : NumberOf(t.destination) = n}
             From == {t \in txns' \ txns : NumberOf(t.source) = n}
  <2>1. SumAmount(To) = in(n)
    <3>1. To = IF n = d.number THEN {e} ELSE {}
      BY <1>3, <1>4
    <3>2. SumAmount(To) = IF n = d.number THEN SumAmount({e}) ELSE SumAmount({})
      BY <3>1
    <3>3. QED
      BY <1>2, <3>2, SumAmountOne, SumAmountEmpty
  <2>2. SumAmount(From) = out(n)
    <3>1. From = IF n = s.number THEN {e} ELSE {}
      BY <1>3, <1>4
    <3>2. SumAmount(From) = IF n = s.number THEN SumAmount({e}) ELSE SumAmount({})
      BY <3>1
    <3>3. QED
      BY <1>2, <3>2, SumAmountOne, SumAmountEmpty
  <2>3. book'[n] = book[n] + SumAmount(To) - SumAmount(From)
    BY DEF Record, Posted
  <2> HIDE DEF To, From, in, out
  <2>4. QED
    BY <2>1, <2>2, <2>3
<1>6. \A n \in Numbers : in(n) \in Int /\ out(n) \in Int /\ book[n] \in Int
  BY <1>2 DEF BookTrue
<1>7. book' \in [Numbers -> Int]
  <2>1. book' = [n \in Numbers |-> book'[n]]
    BY DEF Record, Posted
  <2> HIDE DEF in, out
  <2>2. \A n \in Numbers : book'[n] \in Int
    BY <1>5, <1>6
  <2>3. QED
    BY <2>1, <2>2
<1>8. ASSUME NEW a \in accounts
      PROVE  book'[a.number] = CalculateNetBalance(txns', {a.id})
  <2>1. a.number \in Numbers
    BY DEF BInv, IInv, TypeOK, AccountRow
  <2>2. (d.id = a.id <=> a.number = d.number) /\ (s.id = a.id <=> a.number = s.number)
    BY <1>2 DEF BInv, IInv, UniqueNumbers, IdsUnique
  <2>3. Change(e, {a.id}) = in(a.number) - out(a.number)
    BY <1>2, <2>2 DEF Change
  <2>4. CalculateNetBalance(txns \cup {e}, {a.id})
          = CalculateNetBalance(txns, {a.id}) + Change(e, {a.id})
    BY <1>2, TxnsSummable, NetOverRows
  <2>5. book[a.number] = CalculateNetBalance(txns, {a.id})
    BY DEF BookTrue
  <2>6. book'[a.number] = book[a.number] + in(a.number) - out(a.number)
    BY <1>5, <2>1
  <2> HIDE DEF in, out
  <2>7. book'[a.number] = CalculateNetBalance(txns \cup {e}, {a.id})
    BY <1>6, <2>1, <2>3, <2>4, <2>5, <2>6
  <2>8. QED
    BY <1>3, <2>7
<1>9. ASSUME NEW n \in Numbers, AccountsNumbered(n) = {} PROVE book'[n] = 0
  <2>1. n # d.number /\ n # s.number
    BY <1>2, <1>9 DEF AccountsNumbered
  <2>2. book[n] = 0
    BY <1>9 DEF BookTrue
  <2>3. QED
    BY <1>5, <2>1, <2>2
<1>10. QED
  BY <1>1, <1>7, <1>8, <1>9 DEF BookTrue, AccountsNumbered

LEMMA BookStep ==
    ASSUME BInv, BInv', BookTrue, Next, Record PROVE BookTrue'
<1>1. ASSUME accounts' = accounts, txns' = txns PROVE BookTrue'
  <2>1. book' = book
    BY <1>1, BookSame
  <2>2. QED
    BY <1>1, <2>1 DEF BookTrue, AccountsNumbered
<1>2. CASE Crash
  BY <1>1, <1>2 DEF Crash, db
<1>3. ASSUME NEW w \in Workers, Act(w) PROVE BookTrue'
  <2>1. CASE txns' = txns
    BY <1>1, <1>3, <2>1, AccountsStep, BookOpens
  <2>2. CASE txns' # txns
    BY <1>3, <2>2, TxnsStep, BookPosts
  <2>3. QED
    BY <2>1, <2>2
<1>4. QED
  BY <1>2, <1>3 DEF Next, Act

--------------------------------------------------------------------------------
\* What a request has read

\* Another request's balance is not touched.
LEMMA NetFrame ==
    ASSUME TypeOK, NEW w \in Workers, Act(w), NEW v \in Workers \ {w}
    PROVE  net'[v] = net[v]
  BY DEF TypeOK, Act, Step, Begin, FindUser, CreateUser, ExistsByEmail, SaveUser,
         InsertUser, UpdateUser, MergeUser, CreateAccount, ExistsByAccountNumber,
         SaveAccount, InsertAccount, CreateTransaction, FindSource, FindDestination,
         ToEntity, SaveTransaction, InsertTransaction, GetBalance, FindAllByUserId,
         FindAccount, Sum, Respond, Fail

\* How a request comes to the step that answers it, and which steps answer OK.
LEMMA AnswerReached ==
    ASSUME TypeOK, NEW w \in Workers, Known(w), Act(w)
    PROVE  /\ pc'[w] = "mergeUser" => FindUser(w)
           /\ pc'[w] = "calculateNetBalance" => FindAllByUserId(w) \/ FindAccount(w)
           /\ reply'[w].code = "OK" => MergeUser(w) \/ FindAllByUserId(w) \/ Sum(w)
<1> USE DEF TypeOK, Goto, Reply, Committed, Known, OpFitsStep
<1>1. CASE Begin(w)
  BY <1>1 DEF Begin, Entry
<1>2. CASE FindUser(w)
  BY <1>2 DEF FindUser, AfterFindUser
<1>3. CASE CreateUser(w)
  BY <1>3 DEF CreateUser, ExistsByEmail, SaveUser, InsertUser
<1>4. CASE UpdateUser(w)
  BY <1>4 DEF UpdateUser, MergeUser
<1>5. CASE CreateAccount(w)
  BY <1>5 DEF CreateAccount, ExistsByAccountNumber, SaveAccount, InsertAccount
<1>6. CASE CreateTransaction(w)
  BY <1>6 DEF CreateTransaction, FindSource, FindDestination, ToEntity,
              SaveTransaction, InsertTransaction, NoAccountNumbered
<1>7. CASE GetBalance(w)
  <2>1. CASE FindAllByUserId(w)
    <3>1. pc'[w] # "mergeUser"
      BY <2>1 DEF FindAllByUserId
    <3>2. QED
      BY <2>1, <3>1
  <2>2. CASE FindAccount(w)
    <3>1. \/ pc'[w] = "calculateNetBalance" /\ reply'[w].code = "NONE"
          \/ pc'[w] = "respond" /\ reply'[w].code = "ACCOUNT_NOT_FOUND"
      <4> HIDE DEF TypeOK, Reply, Goto, Known, OpFitsStep
      <4>1. \/ Goto(w, "calculateNetBalance")
            \/ Reply(w, "ACCOUNT_NOT_FOUND", 0)
        BY <2>2 DEF FindAccount, NoAccountNumbered
      <4>2. pc[w] = "findAccount" /\ reply[w].code = "NONE"
        BY <2>2 DEF FindAccount, Known, OpFitsStep
      <4>3. QED
        BY <4>1, <4>2 DEF TypeOK, Goto, Reply
    <3>2. QED
      BY <2>2, <3>1
  <2>3. CASE Sum(w)
    <3>1. pc'[w] = "respond"
      BY <2>3 DEF Sum
    <3>2. QED
      BY <2>3, <3>1
  <2>4. QED
    BY <1>7, <2>1, <2>2, <2>3 DEF GetBalance
<1>8. CASE Respond(w)
  BY <1>8 DEF Respond, NoReply
<1>9. CASE Fail(w)
  BY <1>9 DEF Fail, Statements
<1>10. QED
  BY <1>1, <1>2, <1>3, <1>4, <1>5, <1>6, <1>7, <1>8, <1>9 DEF Act, Step

\* What a request's subject has been stays observed until it is answered, and
\* so is what it is after a step.
LEMMA SeenGrows ==
    ASSUME Record, NEW v \in Workers, pc[v] # "idle", pc'[v] # "idle"
    PROVE  seen[v] \subseteq seen'[v] /\ Truth(req[v])' \in seen'[v]
  BY DEF Record, Observed

LEMMA ReadingOfOthers ==
    ASSUME HInv, NEW w \in Workers, Act(w), Record, NEW v \in Workers \ {w}
    PROVE  Reading(v)'
<1>1. /\ pc'[v] = pc[v] /\ reply'[v] = reply[v] /\ net'[v] = net[v]
      /\ req'[v] = req[v] /\ loc'[v] = loc[v]
  BY Frame, NetFrame DEF HInv, BInv, IInv
<1>2. accounts \subseteq accounts'
  BY RowsStay DEF HInv, BInv, IInv
<1>3. Reading(v) /\ OpFitsStep(v)
  BY DEF HInv, BInv, IInv, Handling
<1>4. pc[v] # "idle" => seen[v] \subseteq seen'[v]
  BY <1>1, SeenGrows
<1>5. reply[v].code = "OK" => pc[v] # "idle"
  BY <1>3 DEF OpFitsStep
<1>6. QED
  BY <1>1, <1>2, <1>3, <1>4, <1>5 DEF Reading, Answer, AccountsNumbered

\* The steps by which a request's own reading comes about.

LEMMA FindUserReads ==
    ASSUME HInv, Record, NEW w \in Workers, FindUser(w), pc'[w] = "mergeUser"
    PROVE  loc'[w].user.name \in seen'[w]
<1> USE DEF HInv, BInv, IInv, TypeOK
<1>1. PICK u \in users : u.id = req[w].user /\ loc' = [loc EXCEPT ![w].user = u]
  BY DEF FindUser, Reply
<1>2. /\ req'[w] = req[w] /\ users' = users /\ loc'[w].user = u
      /\ pc[w] = "findUser"
  BY <1>1 DEF FindUser, request, db, Local
<1>3. req[w].op = "updateUser"
  <2>1. pc'[w] = AfterFindUser(req[w].op)
    BY <1>1, <1>2 DEF FindUser, Goto, Reply
  <2>2. QED
    BY <2>1 DEF AfterFindUser
<1>4. (CHOOSE v \in users : v.id = req[w].user) = u
  BY <1>1 DEF IdsUnique
<1>5. Truth(req[w])' = u.name
  BY <1>1, <1>2, <1>3, <1>4 DEF Truth
<1>6. QED
  BY <1>2, <1>5, SeenGrows

LEMMA MergeUserTakesEffect ==
    ASSUME HInv, Record, NEW w \in Workers, MergeUser(w), pc'[w] # "idle"
    PROVE  req'[w].name \in seen'[w]
<1> USE DEF HInv, BInv, IInv
<1>1. /\ pc[w] = "mergeUser" /\ req' = req
      /\ req[w].op = "updateUser"
      /\ loc[w].user \in UserRow /\ loc[w].user.id = req[w].user
      /\ \E u \in users : u.id = loc[w].user.id
  BY DEF MergeUser, request, Handling, OpFitsStep, UserLoaded
<1>2. CASE RenamedUser(w) = loc[w].user
  <2>1. loc[w].user.name = req[w].name
    BY <1>1, <1>2 DEF RenamedUser, UserRow
  <2>2. loc[w].user.name \in seen[w]
    BY <1>1 DEF Reading
  <2>3. QED
    BY <1>1, <2>1, <2>2, SeenGrows
<1>3. CASE RenamedUser(w) # loc[w].user
  <2>1. users' = {IF u.id = req[w].user THEN RenamedUser(w) ELSE u : u \in users}
    BY <1>1, <1>3 DEF MergeUser
  <2>2. RenamedUser(w).id = req[w].user /\ RenamedUser(w).name = req[w].name
    BY <1>1 DEF RenamedUser, UserRow
  <2>3. RenamedUser(w) \in users'
    BY <1>1, <2>1
  <2>4. \A v \in users' : v.id = req[w].user => v = RenamedUser(w)
    BY <2>1
  <2>5. (CHOOSE v \in users' : v.id = req[w].user) = RenamedUser(w)
    BY <2>2, <2>3, <2>4
  <2>6. Truth(req[w])' = req[w].name
    BY <1>1, <2>2, <2>3, <2>5 DEF Truth
  <2>7. QED
    BY <1>1, <2>6, SeenGrows
<1>4. QED
  BY <1>2, <1>3

LEMMA SumReads ==
    ASSUME HInv, BookTrue', Record, NEW w \in Workers, Sum(w),
           req'[w].op = "getAccountBalance", pc'[w] # "idle"
    PROVE  net'[w] \in seen'[w]
<1> USE DEF HInv, BInv, IInv
<1>1. /\ pc[w] = "calculateNetBalance" /\ req' = req
      /\ accounts' = accounts /\ txns' = txns
      /\ net'[w] = CalculateNetBalance(txns, loc[w].ids)
  BY DEF Sum, request, db, TypeOK
<1>2. /\ loc[w].source \in accounts /\ loc[w].source.number = req[w].number
      /\ loc[w].ids = {loc[w].source.id}
  BY <1>1 DEF Reading, AccountsNumbered
<1>3. book'[req[w].number] = CalculateNetBalance(txns', {loc[w].source.id})
  BY <1>1, <1>2 DEF BookTrue
<1>4. Truth(req[w])' = book'[req[w].number]
  BY <1>1 DEF Truth
<1>5. net'[w] = Truth(req[w])'
  BY <1>1, <1>2, <1>3, <1>4
<1>6. QED
  BY <1>1, <1>5, SeenGrows

LEMMA FindAccountReads ==
    ASSUME HInv, NEW w \in Workers, FindAccount(w), pc'[w] = "calculateNetBalance"
    PROVE  /\ req'[w].op = "getAccountBalance"
           /\ loc'[w].source \in AccountsNumbered(req[w].number)'
           /\ loc'[w].ids = {loc'[w].source.id}
<1> USE DEF HInv, BInv, IInv, TypeOK
<1>1. /\ pc[w] = "findAccount" /\ req' = req /\ accounts' = accounts
  BY DEF FindAccount, request, db
<1>2. req[w].op = "getAccountBalance"
  BY <1>1 DEF Handling, OpFitsStep
<1>3. PICK a \in AccountsNumbered(req[w].number) :
        loc' = [loc EXCEPT ![w].source = a, ![w].ids = {a.id}]
  BY DEF FindAccount, NoAccountNumbered, Reply
<1>4. loc'[w].source = a /\ loc'[w].ids = {a.id}
  BY <1>3 DEF Local
<1>5. QED
  BY <1>1, <1>2, <1>3, <1>4 DEF AccountsNumbered

LEMMA ReadingOfActor ==
    ASSUME HInv, BInv', BookTrue', NEW w \in Workers, Act(w), Record PROVE Reading(w)'
<1> USE DEF HInv
<1>1. TypeOK /\ Known(w) /\ OpFitsStep(w)'
  BY DEF BInv, IInv, Handling, Known
<1>2. ASSUME pc'[w] = "calculateNetBalance", req'[w].op # "getUserBalance"
      PROVE  /\ req'[w].op = "getAccountBalance"
             /\ loc'[w].source \in AccountsNumbered(req[w].number)'
             /\ loc'[w].ids = {loc'[w].source.id}
  <2>1. ~FindAllByUserId(w)
    BY <1>1, <1>2 DEF FindAllByUserId, request, Known, OpFitsStep
  <2>2. FindAccount(w)
    BY <1>1, <1>2, <2>1, AnswerReached
  <2>3. QED
    BY <1>2, <2>2, FindAccountReads
<1>3. ASSUME pc'[w] = "mergeUser" PROVE loc'[w].user.name \in seen'[w]
  BY <1>1, <1>3, AnswerReached, FindUserReads
<1>4. ASSUME reply'[w].code = "OK", req'[w].op \in {"getAccountBalance", "updateUser"}
      PROVE  /\ req'[w].op = "getAccountBalance" => net'[w] \in seen'[w]
             /\ req'[w].op = "updateUser" => req'[w].name \in seen'[w]
  <2>1. pc'[w] # "idle"
    BY <1>1, <1>4 DEF OpFitsStep
  <2>2. CASE MergeUser(w)
    <3>1. req'[w].op = "updateUser"
      BY <1>1, <2>2 DEF MergeUser, request, Known, OpFitsStep
    <3>2. QED
      BY <2>1, <2>2, <3>1, MergeUserTakesEffect
  <2>3. CASE FindAllByUserId(w)
    BY <1>1, <1>4, <2>3 DEF FindAllByUserId, request, Known, OpFitsStep
  <2>4. CASE Sum(w)
    <3>1. req'[w].op = "getAccountBalance"
      BY <1>4, <2>4 DEF Sum, request, Reading
    <3>2. QED
      BY <2>1, <2>4, <3>1, SumReads
  <2>5. QED
    BY <1>1, <1>4, <2>2, <2>3, <2>4, AnswerReached
<1>5. QED
  BY <1>2, <1>3, <1>4 DEF Reading, Answer

--------------------------------------------------------------------------------
\* What a registration has seen

\* How a registration comes past its check, and which steps answer CREATED.
LEMMA RegistrationReached ==
    ASSUME TypeOK, NEW w \in Workers, Known(w), Act(w)
    PROVE  /\ pc'[w] = "saveUser" => ExistsByEmail(w)
           /\ pc'[w] = "insertUser" => SaveUser(w)
           /\ reply'[w].code = "CREATED" =>
                InsertUser(w) \/ InsertAccount(w) \/ InsertTransaction(w)
<1> USE DEF TypeOK, Goto, Reply, Committed, Known, OpFitsStep
<1>1. CASE Begin(w)
  BY <1>1 DEF Begin, Entry
<1>2. CASE FindUser(w)
  BY <1>2 DEF FindUser, AfterFindUser
<1>3. CASE CreateUser(w)
  BY <1>3 DEF CreateUser, ExistsByEmail, SaveUser, InsertUser
<1>4. CASE UpdateUser(w)
  BY <1>4 DEF UpdateUser, MergeUser
<1>5. CASE CreateAccount(w)
  BY <1>5 DEF CreateAccount, ExistsByAccountNumber, SaveAccount, InsertAccount
<1>6. CASE CreateTransaction(w)
  BY <1>6 DEF CreateTransaction, FindSource, FindDestination, ToEntity,
              SaveTransaction, InsertTransaction, NoAccountNumbered
<1>7. CASE GetBalance(w)
  <2>1. CASE FindAllByUserId(w)
    <3>1. \/ Goto(w, "calculateNetBalance")
          \/ Reply(w, "OK", req[w].user)
      <4> HIDE DEF TypeOK, Reply, Goto, Known, OpFitsStep
      <4>1. QED
        BY <2>1 DEF FindAllByUserId
    <3>2. QED
      BY <2>1, <3>1 DEF FindAllByUserId
  <2>2. CASE FindAccount(w)
    <3>1. \/ Goto(w, "calculateNetBalance")
          \/ Reply(w, "ACCOUNT_NOT_FOUND", 0)
      <4> HIDE DEF TypeOK, Reply, Goto, Known, OpFitsStep
      <4>1. QED
        BY <2>2 DEF FindAccount, NoAccountNumbered
    <3>2. QED
      BY <2>2, <3>1 DEF FindAccount
  <2>3. CASE Sum(w)
    BY <2>3 DEF Sum
  <2>4. QED
    BY <1>7, <2>1, <2>2, <2>3 DEF GetBalance
<1>8. CASE Respond(w)
  BY <1>8 DEF Respond, NoReply
<1>9. CASE Fail(w)
  BY <1>9 DEF Fail, Statements
<1>10. QED
  BY <1>1, <1>2, <1>3, <1>4, <1>5, <1>6, <1>7, <1>8, <1>9 DEF Act, Step

LEMMA RegisteringOfOthers ==
    ASSUME HInv, NEW w \in Workers, Act(w), Record, NEW v \in Workers \ {w}
    PROVE  Registering(v)'
<1>1. pc'[v] = pc[v] /\ reply'[v] = reply[v] /\ req'[v] = req[v]
  BY Frame DEF HInv, BInv, IInv
<1>2. Registering(v) /\ OpFitsStep(v)
  BY DEF HInv, BInv, IInv, Handling
<1>3. pc[v] # "idle" => seen[v] \subseteq seen'[v]
  BY <1>1, SeenGrows
<1>4. reply[v].code = "CREATED" => pc[v] # "idle"
  BY <1>2 DEF OpFitsStep
<1>5. QED
  BY <1>1, <1>2, <1>3, <1>4 DEF Registering

LEMMA RegisteringOfActor ==
    ASSUME HInv, BInv', NEW w \in Workers, Act(w), Record PROVE Registering(w)'
<1>1. TypeOK /\ Known(w) /\ OpFitsStep(w)'
  BY DEF HInv, BInv, IInv, Handling, Known
<1>2. ASSUME pc'[w] = "saveUser" PROVE FALSE \in seen'[w]
  <2>1. ExistsByEmail(w)
    BY <1>1, <1>2, RegistrationReached
  <2>2. /\ pc[w] = "existsByEmail" /\ req' = req /\ users' = users
        /\ \A u \in users : u.email # req[w].email
    BY <1>1, <1>2, <2>1 DEF ExistsByEmail, request, db, Reply, TypeOK
  <2>3. req[w].op = "createUser"
    BY <1>1, <2>2 DEF Known, OpFitsStep, CreateUserSteps
  <2>4. Truth(req[w])' = (\E u \in users' : u.email = req'[w].email)
    BY <2>2, <2>3 DEF Truth
  <2>5. ~ \E u \in users' : u.email = req'[w].email
    BY <2>2
  <2>6. Truth(req[w])' = FALSE
    BY <2>4, <2>5
  <2>7. QED
    BY <1>2, <2>2, <2>6, SeenGrows
<1>3. ASSUME pc'[w] = "insertUser" PROVE FALSE \in seen'[w]
  <2>1. pc[w] = "saveUser"
    BY <1>1, <1>3, RegistrationReached DEF SaveUser
  <2>2. QED
    BY <1>3, <2>1, SeenGrows DEF HInv, Registering
<1>4. ASSUME req'[w].op = "createUser", reply'[w].code = "CREATED" PROVE FALSE \in seen'[w]
  <2>1. InsertUser(w)
    <3>1. \/ InsertUser(w)
          \/ /\ pc[w] \in {"insertAccount", "insertTransaction"} /\ req' = req
    BY <1>1, <1>4, RegistrationReached DEF InsertAccount, InsertTransaction, request
    <3>2. QED
      BY <1>1, <1>4, <3>1
         DEF Known, OpFitsStep, CreateAccountSteps, CreateTransactionSteps
  <2>2. pc[w] = "insertUser" /\ pc'[w] # "idle"
    BY <1>1, <1>4, <2>1 DEF InsertUser, OpFitsStep
  <2>3. QED
    BY <2>2, SeenGrows DEF HInv, Registering
<1>5. QED
  BY <1>2, <1>3, <1>4 DEF Registering

--------------------------------------------------------------------------------
\* What a read of a user's balance has read

\* The running balances of some accounts add up to what the aggregate query
\* gives for their ids.
LEMMA BooksAddUp ==
    ASSUME NEW R, Summable(R), NEW A, IsFiniteSet(A), NEW f,
           \A a \in A : f[a] = CalculateNetBalance(R, {a.id}),
           \A a, c \in A : a.id = c.id => a = c,
           NEW I, I = {a.id : a \in A}
    PROVE  SumFunctionOnSet(f, A) = CalculateNetBalance(R, I)
<1> DEFINE ids == [B \in SUBSET A |-> {a.id : a \in B}]
           F == {B \in SUBSET A : CalculateNetBalance(R, ids[B]) = SumFunctionOnSet(f, B)}
<1>1. ASSUME NEW a \in A PROVE f[a] \in Int
  <2>1. CalculateNetBalance(R, {a.id}) \in Int
    BY NetIs
  <2>2. QED
    BY <2>1
<1>2. ids[{}] = {} /\ ids[A] = I
  <2>1. {} \in SUBSET A /\ A \in SUBSET A
    OBVIOUS
  <2>2. ids[{}] = {}
    BY <2>1
  <2>3. ids[A] = {a.id : a \in A}
    BY <2>1
  <2>4. QED
    BY <2>2, <2>3
<1>3. {} \in F
  <2>1. CalculateNetBalance(R, {}) = 0
    BY NetUntouched
  <2>2. QED
    BY <1>2, <2>1, SumEmpty
<1>4. ASSUME NEW B \in SUBSET A, NEW a \in A, B \in F PROVE B \cup {a} \in F
  <2>1. CASE a \in B
    <3>1. B \cup {a} = B
      BY <2>1
    <3>2. QED
      BY <1>4, <3>1
  <2>2. CASE a \notin B
    <3>1. ids[B \cup {a}] = ids[B] \cup {a.id} /\ ids[B] \cap {a.id} = {}
      BY <2>2
    <3>2. B \cup {a} \in SUBSET A /\ CalculateNetBalance(R, ids[B]) = SumFunctionOnSet(f, B)
      BY <1>4
    <3> HIDE DEF ids
    <3>3. CalculateNetBalance(R, ids[B] \cup {a.id})
            = CalculateNetBalance(R, ids[B]) + CalculateNetBalance(R, {a.id})
      BY <3>1, NetOverAccounts
    <3>4. SumFunctionOnSet(f, B \cup {a}) = SumFunctionOnSet(f, B) + f[a]
      BY <1>1, <2>2, FS_Subset, SumAdd
    <3>5. QED
      BY <3>1, <3>2, <3>3, <3>4
  <2>3. QED
    BY <2>1, <2>2
<1>5. A \in F
  <2> HIDE DEF F
  <2>1. QED
    BY <1>3, <1>4, FiniteInduct
<1>6. QED
  BY <1>2, <1>5

\* In the next state: what a user's balance is there.
LEMMA TruthOfUser ==
    ASSUME BInv', BookTrue', NEW w \in Workers, req'[w].op = "getUserBalance"
    PROVE  Truth(req[w])' = CalculateNetBalance(txns, IdsOf(req[w].user))'
<1> DEFINE A == {b \in accounts' : b.user = req'[w].user}
           f == [a \in A |-> book'[a.number]]
           I == {a.id : a \in A}
<1>1. IsFiniteSet(A)
  BY FS_Subset DEF BInv, TablesFinite
<1>2. Summable(txns')
  BY LedgerAssumption DEF BInv, IInv, TypeOK, TxnRow, TablesFinite, Summable
<1>3. \A a \in A : f[a] = CalculateNetBalance(txns', {a.id})
  BY DEF BookTrue
<1>4. \A a, c \in A : a.id = c.id => a = c
  BY DEF BInv, IInv, IdsUnique
<1>5. Truth(req[w])' = SumFunctionOnSet(f, A)
  BY DEF Truth, SumFunction
<1>6. CalculateNetBalance(txns, IdsOf(req[w].user))' = CalculateNetBalance(txns', I)
  BY DEF IdsOf, CalculateNetBalance
<1>7. I = {a.id : a \in A}
  OBVIOUS
<1> HIDE DEF A, f, I
<1>8. SumFunctionOnSet(f, A) = CalculateNetBalance(txns', I)
  BY <1>1, <1>2, <1>3, <1>4, <1>7, BooksAddUp
<1>9. QED
  BY <1>5, <1>6, <1>8

LEMMA ReadingUserOfOthers ==
    ASSUME HInv, NEW w \in Workers, Act(w), Record, NEW v \in Workers \ {w}
    PROVE  ReadingUser(v)'
<1>1. /\ pc'[v] = pc[v] /\ reply'[v] = reply[v] /\ net'[v] = net[v]
      /\ req'[v] = req[v] /\ loc'[v] = loc[v]
  BY Frame, NetFrame DEF HInv, BInv, IInv
<1>2. IdsOf(req[v].user) \subseteq IdsOf(req[v].user)'
  <2>1. accounts \subseteq accounts'
    BY RowsStay DEF HInv, BInv, IInv
  <2>2. QED
    BY <1>1, <2>1 DEF IdsOf
<1>3. ReadingUser(v) /\ OpFitsStep(v)
  BY DEF HInv, BInv, IInv, Handling
<1>4. pc[v] # "idle" => seen[v] \subseteq seen'[v]
  BY <1>1, SeenGrows
<1>5. reply[v].code = "OK" => pc[v] # "idle"
  BY <1>3 DEF OpFitsStep
<1>6. ASSUME Answer("getUserBalance", v)', loc'[v].ids = IdsOf(req[v].user)'
      PROVE  net'[v] \in seen'[v]
  <2>1. Answer("getUserBalance", v)
    BY <1>1, <1>6 DEF Answer
  <2>2. loc[v].ids = IdsOf(req[v].user)
    BY <1>1, <1>2, <1>3, <1>6, <2>1 DEF ReadingUser, Answer
  <2>3. QED
    BY <1>1, <1>3, <1>4, <1>5, <2>1, <2>2 DEF ReadingUser, Answer
<1>7. QED
  BY <1>1, <1>2, <1>3, <1>6 DEF ReadingUser

\* What is computed before the answer, and by which steps the ids are read.
LEMMA UserReadReached ==
    ASSUME TypeOK, NEW w \in Workers, Known(w), Act(w), ReadingUser(w)
    PROVE  /\ pc'[w] # "respond" => net'[w] = 0
           /\ pc'[w] \in {"idle", "findUser", "findAllByUserId"} => loc'[w].ids = {}
<1> USE DEF TypeOK, Goto, Reply, Committed, Known, OpFitsStep, ReadingUser
<1>1. CASE Begin(w)
  BY <1>1 DEF Begin, Entry
<1>2. CASE FindUser(w)
  <2>1. net' = net /\ pc[w] = "findUser"
    BY <1>2 DEF FindUser
  <2>2. loc'[w].ids = loc[w].ids
    <3> HIDE DEF Reply, Goto, Known, OpFitsStep, ReadingUser
    <3>1. QED
      BY <1>2 DEF FindUser, Local
  <2>3. QED
    BY <2>1, <2>2
<1>3. CASE CreateUser(w)
  BY <1>3 DEF CreateUser, ExistsByEmail, SaveUser, InsertUser
<1>4. CASE UpdateUser(w)
  BY <1>4 DEF UpdateUser, MergeUser
<1>5. CASE CreateAccount(w)
  BY <1>5 DEF CreateAccount, ExistsByAccountNumber, SaveAccount, InsertAccount
<1>6. CASE CreateTransaction(w)
  BY <1>6 DEF CreateTransaction, FindSource, FindDestination, ToEntity,
              SaveTransaction, InsertTransaction, NoAccountNumbered
<1>7. CASE GetBalance(w)
  <2>1. CASE Sum(w)
    BY <2>1 DEF Sum
  <2>2. CASE FindAllByUserId(w) \/ FindAccount(w)
    <3>1. /\ net' = net /\ net[w] = 0
          /\ pc'[w] \in {"calculateNetBalance", "respond"}
      <4>1. net' = net /\ pc[w] \in {"findAllByUserId", "findAccount"}
        BY <2>2 DEF FindAllByUserId, FindAccount
      <4>2. \/ Goto(w, "calculateNetBalance")
            \/ \E code, id : Reply(w, code, id)
        <5> HIDE DEF TypeOK, Reply, Goto, Known, OpFitsStep, ReadingUser
        <5>1. QED
          BY <2>2 DEF FindAllByUserId, FindAccount, NoAccountNumbered
      <4>3. QED
        BY <4>1, <4>2
    <3>2. QED
      BY <3>1
  <2>3. QED
    BY <1>7, <2>1, <2>2 DEF GetBalance
<1>8. CASE Respond(w)
  BY <1>8 DEF Respond, NoReply, NoLocal
<1>9. CASE Fail(w)
  BY <1>9 DEF Fail, Statements
<1>10. QED
  BY <1>1, <1>2, <1>3, <1>4, <1>5, <1>6, <1>7, <1>8, <1>9 DEF Act, Step

\* The first query of a read of a user's balance: the accounts the user has, or,
\* of a user that has none, the answer.
LEMMA FindAllReads ==
    ASSUME HInv, BInv', BookTrue', Record, NEW w \in Workers, FindAllByUserId(w)
    PROVE  /\ loc'[w].ids = IdsOf(req[w].user)'
           /\ reply'[w].code = "OK" => net'[w] \in seen'[w]
<1> USE DEF HInv, BInv, IInv, TypeOK
<1>1. /\ pc[w] = "findAllByUserId" /\ req' = req /\ accounts' = accounts
      /\ txns' = txns /\ net' = net /\ loc[w].ids = {} /\ net[w] = 0
  BY DEF FindAllByUserId, request, db, ReadingUser
<1>2. IdsOf(req[w].user)' = IdsOf(req[w].user)
  BY <1>1 DEF IdsOf
<1>3. loc'[w].ids = IdsOf(req[w].user)
  <2>1. CASE IdsOf(req[w].user) = {}
    BY <1>1, <2>1 DEF FindAllByUserId, IdsOf
  <2>2. CASE IdsOf(req[w].user) # {}
    <3>1. loc' = [loc EXCEPT ![w].ids = IdsOf(req[w].user)]
      <4> HIDE DEF HInv, BInv, IInv, TypeOK
      <4>1. QED
        BY <2>2 DEF FindAllByUserId, IdsOf
    <3>2. w \in DOMAIN loc /\ loc[w] \in Local
      OBVIOUS
    <3>3. loc'[w].ids = IdsOf(req[w].user)
      BY <3>1, <3>2 DEF Local
    <3>4. QED
      BY <3>3
  <2>3. QED
    BY <2>1, <2>2
<1>4. ASSUME reply'[w].code = "OK" PROVE net'[w] \in seen'[w]
  <2>1. IdsOf(req[w].user) = {} /\ pc'[w] = "respond"
    <3>1. reply[w].code = "NONE"
      BY <1>1 DEF Handling, OpFitsStep
    <3>2. ~Goto(w, "calculateNetBalance")
      BY <1>4, <3>1 DEF Goto
    <3>3. IdsOf(req[w].user) = {} /\ Reply(w, "OK", req[w].user)
      BY <3>2 DEF FindAllByUserId, IdsOf
    <3>4. QED
      BY <3>3 DEF Reply
  <2>2. req'[w].op = "getUserBalance"
    BY <1>1 DEF Handling, OpFitsStep
  <2>3. Truth(req[w])' = CalculateNetBalance(txns, IdsOf(req[w].user))'
    BY <2>2, TruthOfUser
  <2>4. CalculateNetBalance(txns, IdsOf(req[w].user))' = CalculateNetBalance(txns, {})
    BY <1>1, <1>2, <2>1 DEF CalculateNetBalance
  <2>5. CalculateNetBalance(txns, {}) = 0
    BY NetUntouched
  <2>6. QED
    BY <1>1, <2>1, <2>3, <2>4, <2>5, SeenGrows
<1>5. QED
  BY <1>2, <1>3, <1>4

\* The second: the rows of these accounts, summed up.
LEMMA SumReadsUser ==
    ASSUME HInv, BInv', BookTrue', Record, NEW w \in Workers, Sum(w),
           req'[w].op = "getUserBalance"
    PROVE  /\ loc'[w].ids \subseteq IdsOf(req[w].user)'
           /\ loc'[w].ids = IdsOf(req[w].user)' => net'[w] \in seen'[w]
<1> USE DEF HInv, BInv, IInv, TypeOK
<1>1. /\ pc[w] = "calculateNetBalance" /\ pc'[w] = "respond" /\ req' = req
      /\ accounts' = accounts /\ txns' = txns /\ loc' = loc
      /\ net'[w] = CalculateNetBalance(txns, loc[w].ids)
  BY DEF Sum, request, db, Reply
<1>2. IdsOf(req[w].user)' = IdsOf(req[w].user)
  BY <1>1 DEF IdsOf
<1>3. loc[w].ids \subseteq IdsOf(req[w].user)
  BY <1>1 DEF ReadingUser
<1>4. Truth(req[w])' = CalculateNetBalance(txns, IdsOf(req[w].user))'
  BY TruthOfUser
<1>5. CalculateNetBalance(txns, IdsOf(req[w].user))'
        = CalculateNetBalance(txns, IdsOf(req[w].user))
  BY <1>1, <1>2 DEF CalculateNetBalance
<1>6. QED
  BY <1>1, <1>2, <1>3, <1>4, <1>5, SeenGrows

LEMMA ReadingUserOfActor ==
    ASSUME HInv, BInv', BookTrue', NEW w \in Workers, Act(w), Record
    PROVE  ReadingUser(w)'
<1>1. TypeOK /\ Known(w) /\ OpFitsStep(w)' /\ ReadingUser(w)
  BY DEF HInv, BInv, IInv, Handling, Known
<1>2. ASSUME req'[w].op = "getUserBalance",
             pc'[w] = "calculateNetBalance" \/ reply'[w].code = "OK"
      PROVE  FindAllByUserId(w) \/ Sum(w)
  <2>1. MergeUser(w) \/ FindAccount(w) \/ FindAllByUserId(w) \/ Sum(w)
    BY <1>1, <1>2, AnswerReached
  <2>2. ~MergeUser(w) /\ ~FindAccount(w)
    BY <1>1, <1>2 DEF MergeUser, FindAccount, request, Known, OpFitsStep
  <2>3. QED
    BY <2>1, <2>2
<1>3. CASE FindAllByUserId(w)
  BY <1>1, <1>3, FindAllReads, UserReadReached DEF ReadingUser, Answer
<1>4. CASE Sum(w)
  BY <1>1, <1>4, SumReadsUser, UserReadReached DEF ReadingUser, Answer
<1>5. CASE ~FindAllByUserId(w) /\ ~Sum(w)
  BY <1>1, <1>2, <1>5, UserReadReached DEF ReadingUser, Answer
<1>6. QED
  BY <1>3, <1>4, <1>5

--------------------------------------------------------------------------------
\* The inductive invariant, and the theorems.

LEMMA HInductive ==
    ASSUME HInv, [HNext]_hvars PROVE HInv'
<1>1. CASE UNCHANGED hvars
  <2>1. BInv'
    BY <1>1, Inductive, FiniteStep DEF HInv, BInv, hvars
  <2>2. BookTrue'
    BY <1>1 DEF hvars, vars, HInv, BookTrue, AccountsNumbered, CalculateNetBalance
  <2>3. \A w \in Workers : Reading(w)' /\ Registering(w)' /\ ReadingUser(w)'
    BY <1>1 DEF hvars, vars, HInv, Reading, Registering, ReadingUser, Answer, IdsOf,
       AccountsNumbered
  <2>4. QED
    BY <2>1, <2>2, <2>3 DEF HInv
<1>2. CASE Next /\ Record
  <2>1. BInv'
    BY <1>2, Inductive, FiniteStep DEF HInv, BInv
  <2>2. BookTrue'
    BY <1>2, <2>1, BookStep DEF HInv
  <2>3. ASSUME Crash, NEW v \in Workers
        PROVE  Reading(v)' /\ Registering(v)' /\ ReadingUser(v)'
    BY <2>3 DEF Crash, Reading, Registering, ReadingUser, Answer, NoReply, NoLocal
  <2>4. ASSUME NEW w \in Workers, Act(w), NEW v \in Workers
        PROVE  Reading(v)' /\ Registering(v)' /\ ReadingUser(v)'
    BY <1>2, <2>1, <2>2, <2>4, ReadingOfActor, ReadingOfOthers, RegisteringOfActor,
       RegisteringOfOthers, ReadingUserOfActor, ReadingUserOfOthers
  <2>5. \A v \in Workers : Reading(v)' /\ Registering(v)' /\ ReadingUser(v)'
    BY <1>2, <2>3, <2>4 DEF Next, Act
  <2>6. QED
    BY <2>1, <2>2, <2>5 DEF HInv
<1>3. QED
  BY <1>1, <1>2 DEF HNext

LEMMA HInitInv == HInit => HInv
<1> SUFFICES ASSUME HInit PROVE HInv
  OBVIOUS
<1>1. BInv
  BY InitInv, FS_EmptySet DEF HInit, Init, BInv, TablesFinite
<1>2. BookTrue
  BY DEF HInit, Init, BookTrue
<1>3. \A w \in Workers : Reading(w) /\ Registering(w) /\ ReadingUser(w)
  BY DEF HInit, Init, Reading, Registering, ReadingUser, Answer, NoReply, NoLocal
<1>4. QED
  BY <1>1, <1>2, <1>3 DEF HInv

\* Every reachable state satisfies it.
THEOREM HInvHolds == HSpec => []HInv
<1>1. HInit => HInv
  BY HInitInv
<1>2. HInv /\ [HNext]_hvars => HInv'
  BY HInductive
<1>3. QED
  BY <1>1, <1>2, PTL DEF HSpec

\* The balance of an account that is answered is one the account had between
\* the request and its answer, for any number of concurrent transfers.
THEOREM AccountReadsLinearizable == HSpec => []AccountReadCurrent
<1>1. HInv => AccountReadCurrent
  BY DEF HInv, Reading, AccountReadCurrent
<1>2. QED
  BY <1>1, HInvHolds, PTL

\* A rename answered OK was the user's name at some moment of the request, for
\* any number of renames of the same user at the same time.
THEOREM RenamesTakeEffect == HSpec => []RenameTookEffect
<1>1. HInv => RenameTookEffect
  BY DEF HInv, Reading, RenameTookEffect
<1>2. QED
  BY <1>1, HInvHolds, PTL

\* The balance of a user that is answered is one the user had between the
\* request and its answer, for any number of transfers committed between the
\* two queries, unless an account was opened for the user in between.
THEOREM UserReadsLinearizableUnlessOpened == HSpec => []UserReadCurrentUnlessOpened
<1>1. HInv => UserReadCurrentUnlessOpened
  BY DEF HInv, ReadingUser, UserReadCurrentUnlessOpened
<1>2. QED
  BY <1>1, HInvHolds, PTL

\* No registration is accepted whose e-mail was taken during all of its
\* request, however many registrations overlap with it.
THEOREM TakenEmailsRefused == HSpec => []TakenEmailRefused
<1>1. HInv => TakenEmailRefused
  BY DEF HInv, Registering, TakenEmailRefused
<1>2. QED
  BY <1>1, HInvHolds, PTL

================================================================================
