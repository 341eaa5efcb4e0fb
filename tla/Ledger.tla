-------------------------------- MODULE Ledger --------------------------------
(****************************************************************************)
(* The core ledger: the Spring Boot service of src/ledger and the Postgres  *)
(* tables it keeps.                                                         *)
(*                                                                          *)
(* The service is stateless between requests.  Each request runs on a       *)
(* thread of the servlet container (a worker here); no service method is    *)
(* @Transactional, so every repository call is a transaction of its own and *)
(* requests interleave between any two calls.  There is one action per      *)
(* repository call, plus the entity construction that stamps and numbers a  *)
(* row before it is committed.                                              *)
(*                                                                          *)
(* Rows are never deleted by the service.  Passwords, account types, origin *)
(* ids, notes and the createdAt of users and accounts are left out: nothing *)
(* the ledger decides depends on them.                                      *)
(****************************************************************************)
EXTENDS Balance, FiniteSets

CONSTANTS
    Workers,     \* request threads of the servlet container
    Emails,      \* e-mail addresses clients register with
    Names,       \* user names
    Numbers,     \* account numbers
    Amounts,     \* transfer amounts (any sign: nothing validates them)
    Null,        \* an absent JSON field, or an entity not loaded
    Principals,  \* may the security context hold a principal? see Begin
    Quota        \* bound: accepted requests per writing operation; a reading
                 \* operation is unbounded, or off when its quota is 0

WriteOps == {"createUser", "updateUser", "createAccount", "createTransaction"}
ReadOps  == {"getUserBalance", "getAccountBalance"}
Ops      == WriteOps \cup ReadOps
Tables   == {"users", "accounts", "transaction"}

ASSUME LedgerAssumption ==
    /\ Amounts \subseteq Int
    /\ Null \notin Int \cup Emails \cup Names \cup Numbers
    /\ Principals \subseteq BOOLEAN
    /\ Quota \in [Ops -> Nat]

VARIABLES
    users,     \* table users: rows [id, email, name]
    accounts,  \* table accounts: rows [id, number, user]
    txns,      \* table transaction: [id, source, destination, amount, createdAt]
    seq,       \* the last id each table's sequence has handed out
    now,       \* the wall clock Instant.now() reads
    issued,    \* requests accepted so far, per operation
    pc,        \* the next step of each worker's request
    req,       \* the request each worker is serving
    loc,       \* what its handler has loaded or built so far
    reply,     \* the response it is about to send: an ErrorCode or OK, CREATED
    net        \* the balance its service call computed

db      == <<users, accounts, txns>>
request == <<issued, req>>
vars    == <<users, accounts, txns, seq, now, issued, pc, req, loc, reply, net>>

--------------------------------------------------------------------------------
\* Requests and rows

UserRow    == [id: Nat, email: Emails, name: Names \cup {Null}]
AccountRow == [id: Nat, number: Numbers, user: Nat]
TxnRow     == [id: Nat, source: Nat, destination: Nat,
               amount: Amounts, createdAt: Nat]

Request == [op: Ops, user: Nat \cup {Null}, email: Emails \cup {Null},
            name: Names \cup {Null}, number: Numbers \cup {Null},
            source: Numbers \cup {Null}, destination: Numbers \cup {Null},
            amount: Amounts \cup {Null}]

UserRequest(op, u, e, n) ==
    [op |-> op, user |-> u, email |-> e, name |-> n, number |-> Null,
     source |-> Null, destination |-> Null, amount |-> Null]

AccountRequest(op, u, n) ==
    [op |-> op, user |-> u, email |-> Null, name |-> Null, number |-> n,
     source |-> Null, destination |-> Null, amount |-> Null]

TransferRequest(s, d, a) ==
    [op |-> "createTransaction", user |-> Null, email |-> Null, name |-> Null,
     number |-> Null, source |-> s, destination |-> d, amount |-> a]

NoRequest == AccountRequest("getAccountBalance", Null, Null)

Local == [user: UserRow \cup {Null},
          source: AccountRow \cup {Null}, destination: AccountRow \cup {Null},
          id: Nat, stamp: Nat, ids: SUBSET Nat]

NoLocal == [user |-> Null, source |-> Null, destination |-> Null,
            id |-> 0, stamp |-> 0, ids |-> {}]

NoReply == [code |-> "NONE", id |-> 0]

Codes == {"NONE", "OK", "CREATED", "USER_NOT_FOUND", "USER_ALREADY_EXISTS",
          "ACCOUNT_NOT_FOUND", "ACCOUNT_ALREADY_EXISTS", "FORBIDDEN",
          "VALIDATION_ERROR", "INTERNAL_ERROR"}

\* User ids a client can name: those handed out, and one that is not.
UserRefs == 1 .. (seq["users"] + 1)

\* The requests a client can send.  A JSON field may be missing (Null) wherever
\* the controller does not reject it before the service sees it; a missing
\* account number of a transfer is one that no account has.
CreateUserRequests ==
    {UserRequest("createUser", Null, e, n) : e \in Emails \cup {Null}, n \in Names}

UpdateUserRequests ==
    {UserRequest("updateUser", u, Null, n) : u \in UserRefs, n \in Names \cup {Null}}

CreateAccountRequests ==
    {AccountRequest("createAccount", u, n) :
       u \in UserRefs \cup {Null}, n \in Numbers \cup {Null}}

CreateTransactionRequests ==
    {TransferRequest(s, d, a) :
       s \in Numbers, d \in Numbers, a \in Amounts \cup {Null}}

UserBalanceRequests == {AccountRequest("getUserBalance", u, Null) : u \in UserRefs}

AccountBalanceRequests == {AccountRequest("getAccountBalance", Null, n) : n \in Numbers}

Requests == UNION {CreateUserRequests, UpdateUserRequests, CreateAccountRequests,
                   CreateTransactionRequests, UserBalanceRequests,
                   AccountBalanceRequests}

Init ==
    /\ users = {} /\ accounts = {} /\ txns = {}
    /\ seq = [t \in Tables |-> 0]
    /\ now = 1
    /\ issued = [op \in Ops |-> 0]
    /\ pc = [w \in Workers |-> "idle"]
    /\ req = [w \in Workers |-> NoRequest]
    /\ loc = [w \in Workers |-> NoLocal]
    /\ reply = [w \in Workers |-> NoReply]
    /\ net = [w \in Workers |-> 0]

--------------------------------------------------------------------------------
\* How a worker's request moves on

Goto(w, label) ==
    /\ pc' = [pc EXCEPT ![w] = label]
    /\ UNCHANGED reply

Reply(w, code, id) ==
    /\ pc' = [pc EXCEPT ![w] = "respond"]
    /\ reply' = [reply EXCEPT ![w] = [code |-> code, id |-> id]]

\* A statement that is committed is answered, unless the connection breaks
\* before its acknowledgement arrives: then the row is there and the fallback
\* handler reports INTERNAL_ERROR.
Committed(w, code, id) == Reply(w, code, id) \/ Reply(w, "INTERNAL_ERROR", 0)

\* The first call each handler makes.
Entry(op) ==
    CASE op = "createUser"        -> "existsByEmail"
      [] op = "createTransaction" -> "findSource"
      [] op = "getAccountBalance" -> "findAccount"
      [] OTHER                    -> "findUser"

\* A request arrives at an idle worker.  The filter chain wants an
\* authenticated principal for every path but the health check, and disables
\* every way to become one; bean validation runs for createUser alone.
Begin(w) ==
    /\ pc[w] = "idle"
    /\ \E principal \in Principals, r \in Requests :
         /\ issued[r.op] < Quota[r.op]
         /\ req' = [req EXCEPT ![w] = r]
         /\ IF ~principal
            THEN Reply(w, "FORBIDDEN", 0) /\ UNCHANGED issued
            ELSE IF r.op = "createUser" /\ r.email = Null
            THEN Reply(w, "VALIDATION_ERROR", 0) /\ UNCHANGED issued
            ELSE /\ Goto(w, Entry(r.op))
                 /\ issued' = IF r.op \in WriteOps
                              THEN [issued EXCEPT ![r.op] = @ + 1]
                              ELSE issued
    /\ UNCHANGED <<db, seq, now, loc, net>>

\* The response leaves and the thread takes the next request.
Respond(w) ==
    /\ pc[w] = "respond"
    /\ pc' = [pc EXCEPT ![w] = "idle"]
    /\ req' = [req EXCEPT ![w] = NoRequest]
    /\ loc' = [loc EXCEPT ![w] = NoLocal]
    /\ reply' = [reply EXCEPT ![w] = NoReply]
    /\ net' = [net EXCEPT ![w] = 0]
    /\ UNCHANGED <<db, seq, now, issued>>

--------------------------------------------------------------------------------
\* Ids: each entity has a sequence, and an id is drawn from it when save()
\* persists the entity, before the INSERT that commits the row.

NextIdReused(table) == seq[table] + (IF seq[table] = 0 THEN 1 ELSE 0)

NextId(table) == seq[table] + 1

\* save() on a new entity: the id is drawn, the row is not yet there.
Persist(w, table) ==
    /\ loc' = [loc EXCEPT ![w].id = NextId(table)]
    /\ seq' = [seq EXCEPT ![table] = NextId(table)]

--------------------------------------------------------------------------------
\* POST /api/users/ and PATCH /api/users/{userID}

\* A bug to rule out: the answer of existsByEmail is not looked at.
ExistsByEmailIgnored(w) ==
    /\ pc[w] = "existsByEmail"
    /\ Goto(w, "saveUser")
    /\ UNCHANGED <<db, seq, now, request, loc, net>>

ExistsByEmail(w) ==
    /\ pc[w] = "existsByEmail"
    /\ IF \E u \in users : u.email = req[w].email
       THEN Reply(w, "USER_ALREADY_EXISTS", 0)
       ELSE Goto(w, "saveUser")
    /\ UNCHANGED <<db, seq, now, request, loc, net>>

SaveUser(w) ==
    /\ pc[w] = "saveUser"
    /\ Persist(w, "users")
    /\ Goto(w, "insertUser")
    /\ UNCHANGED <<db, now, request, net>>

\* The e-mail column has no unique constraint: the INSERT cannot be refused.
InsertUser(w) ==
    /\ pc[w] = "insertUser"
    /\ users' = users \cup {[id |-> loc[w].id, email |-> req[w].email,
                             name |-> req[w].name]}
    /\ Committed(w, "CREATED", loc[w].id)
    /\ UNCHANGED <<accounts, txns, seq, now, request, loc, net>>

AfterFindUser(op) ==
    CASE op = "updateUser"    -> "mergeUser"
      [] op = "createAccount" -> "existsByNumber"
      [] OTHER                -> "findAllByUserId"

\* A bug to rule out: an Optional that is not there falls through.
FindUserFallingThrough(w) ==
    /\ pc[w] = "findUser"
    /\ \E u \in users :
         /\ u.id = req[w].user
         /\ loc' = [loc EXCEPT ![w].user = u]
         /\ Goto(w, AfterFindUser(req[w].op))
    /\ UNCHANGED <<db, seq, now, request, net>>

\* UserService.getUser, and the findById of updateUser.
FindUser(w) ==
    /\ pc[w] = "findUser"
    /\ \/ /\ req[w].user = Null
          /\ Reply(w, "INTERNAL_ERROR", 0)
          /\ UNCHANGED loc
       \/ /\ req[w].user # Null
          /\ \A u \in users : u.id # req[w].user
          /\ Reply(w, "USER_NOT_FOUND", 0)
          /\ UNCHANGED loc
       \/ \E u \in users :
            /\ u.id = req[w].user
            /\ loc' = [loc EXCEPT ![w].user = u]
            /\ Goto(w, AfterFindUser(req[w].op))
    /\ UNCHANGED <<db, seq, now, request, net>>

\* A bug to rule out: the row is written back as it was loaded.
LoadedRow(w) == loc[w].user

\* The managed entity after setName: a whole row, as loaded but for the name.
RenamedUser(w) == [loc[w].user EXCEPT !.name = req[w].name]

\* save() on a managed entity: the flush writes the row only if setName made
\* it differ from what findById loaded.
MergeUser(w) ==
    /\ pc[w] = "mergeUser"
    /\ users' = IF RenamedUser(w) = loc[w].user
                THEN users
                ELSE {IF u.id = loc[w].user.id THEN RenamedUser(w) ELSE u :
                        u \in users}
    /\ Committed(w, "OK", 0)
    /\ UNCHANGED <<accounts, txns, seq, now, request, loc, net>>

--------------------------------------------------------------------------------
\* POST /api/accounts/

ExistsByAccountNumber(w) ==
    /\ pc[w] = "existsByNumber"
    /\ IF \E a \in accounts : a.number = req[w].number
       THEN Reply(w, "ACCOUNT_ALREADY_EXISTS", 0)
       ELSE Goto(w, "saveAccount")
    /\ UNCHANGED <<db, seq, now, request, loc, net>>

SaveAccount(w) ==
    /\ pc[w] = "saveAccount"
    /\ Persist(w, "accounts")
    /\ Goto(w, "insertAccount")
    /\ UNCHANGED <<db, now, request, net>>

\* Bugs to rule out: the column is created without one of its constraints.
NotNullOnly(number) == number # Null

UniqueOnly(number) == \A a \in accounts : a.number # number

\* The constraints of column account_number: not null and unique.
NumberConstraint(number) ==
    /\ number # Null
    /\ \A a \in accounts : a.number # number

\* A violated constraint is a DataIntegrityViolationException, which only the
\* fallback handler catches.
InsertAccount(w) ==
    /\ pc[w] = "insertAccount"
    /\ \/ /\ NumberConstraint(req[w].number)
          /\ accounts' = accounts \cup {[id |-> loc[w].id,
                                         number |-> req[w].number,
                                         user |-> loc[w].user.id]}
          /\ Committed(w, "CREATED", loc[w].id)
       \/ /\ ~NumberConstraint(req[w].number)
          /\ Reply(w, "INTERNAL_ERROR", 0)
          /\ UNCHANGED accounts
    /\ UNCHANGED <<users, txns, seq, now, request, loc, net>>

--------------------------------------------------------------------------------
\* POST /api/transactions/

\* AccountService.getAccountByNumber: the rows it may return, and the
\* ACCOUNT_NOT_FOUND (which mapStatus sends as a 500) when there is none.
AccountsNumbered(number) == {a \in accounts : a.number = number}

NoAccountNumbered(w, number) ==
    /\ AccountsNumbered(number) = {}
    /\ Reply(w, "ACCOUNT_NOT_FOUND", 0)
    /\ UNCHANGED loc

FindSource(w) ==
    /\ pc[w] = "findSource"
    /\ \/ NoAccountNumbered(w, req[w].source)
       \/ \E a \in AccountsNumbered(req[w].source) :
            /\ loc' = [loc EXCEPT ![w].source = a]
            /\ Goto(w, "findDestination")
    /\ UNCHANGED <<db, seq, now, request, net>>

\* A bug to rule out: a destination that is not found is left to the database,
\* whose destination_account_id column has no NOT NULL constraint.
FindDestinationUnchecked(w) ==
    /\ pc[w] = "findDestination"
    /\ loc' = [loc EXCEPT ![w].destination =
                  IF AccountsNumbered(req[w].destination) = {}
                  THEN [id |-> 0, number |-> req[w].destination, user |-> 0]
                  ELSE CHOOSE a \in AccountsNumbered(req[w].destination) : TRUE]
    /\ Goto(w, "toEntity")
    /\ UNCHANGED <<db, seq, now, request, net>>

FindDestination(w) ==
    /\ pc[w] = "findDestination"
    /\ \/ NoAccountNumbered(w, req[w].destination)
       \/ \E a \in AccountsNumbered(req[w].destination) :
            /\ loc' = [loc EXCEPT ![w].destination = a]
            /\ Goto(w, "toEntity")
    /\ UNCHANGED <<db, seq, now, request, net>>

\* TransactionMapper.toEntity: BigDecimal.valueOf(amt) unboxes, so a missing
\* amount is a NullPointerException; the constructor stamps Instant.now(),
\* which two requests may read as the same instant.
ToEntity(w) ==
    /\ pc[w] = "toEntity"
    /\ \/ /\ req[w].amount = Null
          /\ Reply(w, "INTERNAL_ERROR", 0)
          /\ UNCHANGED <<now, loc>>
       \/ /\ req[w].amount # Null
          /\ now' \in {now, now + 1}
          /\ loc' = [loc EXCEPT ![w].stamp = now']
          /\ Goto(w, "saveTransaction")
    /\ UNCHANGED <<db, seq, request, net>>

SaveTransaction(w) ==
    /\ pc[w] = "saveTransaction"
    /\ Persist(w, "transaction")
    /\ Goto(w, "insertTransaction")
    /\ UNCHANGED <<db, now, request, net>>

\* A bug to rule out: the mapper's two account parameters, of the same type,
\* are passed in the wrong order.
EntityWithEndsSwapped(w) ==
    [id |-> loc[w].id, source |-> loc[w].destination.id,
     destination |-> loc[w].source.id, amount |-> req[w].amount,
     createdAt |-> loc[w].stamp]

\* A bug to rule out: createdAt is set when the row is written.
EntityStampedLate(w) ==
    [id |-> loc[w].id, source |-> loc[w].source.id,
     destination |-> loc[w].destination.id, amount |-> req[w].amount,
     createdAt |-> now]

\* The entity the request has built, as the row its INSERT writes.
EntityOf(w) ==
    [id |-> loc[w].id, source |-> loc[w].source.id,
     destination |-> loc[w].destination.id, amount |-> req[w].amount,
     createdAt |-> loc[w].stamp]

InsertTransaction(w) ==
    /\ pc[w] = "insertTransaction"
    /\ txns' = txns \cup {EntityOf(w)}
    /\ Committed(w, "CREATED", loc[w].id)
    /\ UNCHANGED <<users, accounts, seq, now, request, loc, net>>

--------------------------------------------------------------------------------
\* GET /api/users/{userID}/balance and /api/accounts/{accNum}/balance

\* getBalanceForUser, first call: the ids of the user's accounts.  A user
\* without accounts has balance zero, and the transactions are not read.
FindAllByUserId(w) ==
    /\ pc[w] = "findAllByUserId"
    /\ LET ids == {a.id : a \in {b \in accounts : b.user = req[w].user}}
       IN  IF ids = {}
           THEN Reply(w, "OK", req[w].user) /\ UNCHANGED loc
           ELSE /\ loc' = [loc EXCEPT ![w].ids = ids]
                /\ Goto(w, "calculateNetBalance")
    /\ UNCHANGED <<db, seq, now, request, net>>

FindAccount(w) ==
    /\ pc[w] = "findAccount"
    /\ \/ NoAccountNumbered(w, req[w].number)
       \/ \E a \in AccountsNumbered(req[w].number) :
            /\ loc' = [loc EXCEPT ![w].source = a, ![w].ids = {a.id}]
            /\ Goto(w, "calculateNetBalance")
    /\ UNCHANGED <<db, seq, now, request, net>>

\* Second call: one aggregate query over those ids.
Sum(w) ==
    /\ pc[w] = "calculateNetBalance"
    /\ net' = [net EXCEPT ![w] = CalculateNetBalance(txns, loc[w].ids)]
    /\ Reply(w, "OK", IF req[w].op = "getUserBalance"
                      THEN req[w].user ELSE loc[w].source.id)
    /\ UNCHANGED <<db, seq, now, request, loc>>

\* The balance in the response body.  The account mapper copies the computed
\* one; the user mapper always writes 10.
Reported(w) == IF req[w].op = "getUserBalance" THEN 10 ELSE net[w]

--------------------------------------------------------------------------------
\* Failures

\* The steps that talk to the database.
Statements == {"existsByEmail", "saveUser", "insertUser", "findUser", "mergeUser",
               "existsByNumber", "saveAccount", "insertAccount", "findSource",
               "findDestination", "saveTransaction", "insertTransaction",
               "findAllByUserId", "findAccount", "calculateNetBalance"}

\* Any statement may throw (no connection, a timeout): nothing is written and
\* the fallback handler answers.
Fail(w) ==
    /\ pc[w] \in Statements
    /\ Reply(w, "INTERNAL_ERROR", 0)
    /\ UNCHANGED <<db, seq, now, request, loc, net>>

\* The process stops and is restarted: the requests in flight are gone, what
\* was committed stays.
Crash ==
    /\ \E w \in Workers : pc[w] # "idle"
    /\ pc' = [w \in Workers |-> "idle"]
    /\ req' = [w \in Workers |-> NoRequest]
    /\ loc' = [w \in Workers |-> NoLocal]
    /\ reply' = [w \in Workers |-> NoReply]
    /\ net' = [w \in Workers |-> 0]
    /\ UNCHANGED <<db, seq, now, issued>>

--------------------------------------------------------------------------------

CreateUser(w)        == ExistsByEmail(w) \/ SaveUser(w) \/ InsertUser(w)
UpdateUser(w)        == MergeUser(w)
CreateAccount(w)     == ExistsByAccountNumber(w) \/ SaveAccount(w) \/ InsertAccount(w)
CreateTransaction(w) == \/ FindSource(w) \/ FindDestination(w) \/ ToEntity(w)
                        \/ SaveTransaction(w) \/ InsertTransaction(w)
GetBalance(w)        == FindAllByUserId(w) \/ FindAccount(w) \/ Sum(w)

\* What the thread does of itself once it holds a request.
Step(w) ==
    \/ FindUser(w) \/ CreateUser(w) \/ UpdateUser(w) \/ CreateAccount(w)
    \/ CreateTransaction(w) \/ GetBalance(w) \/ Respond(w)

Next == (\E w \in Workers : Begin(w) \/ Step(w) \/ Fail(w)) \/ Crash

Spec == Init /\ [][Next]_vars

\* A thread that holds a request runs: the container schedules it and each
\* call returns or throws.  Clients, failures and crashes owe nothing.
FairSpec == Spec /\ \A w \in Workers : WF_vars(Step(w))

--------------------------------------------------------------------------------
\* Correctness

PCs == Statements \cup {"idle", "toEntity", "respond"}

\* Types of the tables, the sequences and the workers' state.  net holds sums,
\* whose type is Balance's concern: only its domain is stated.
TypeOK ==
    /\ users \subseteq UserRow
    /\ accounts \subseteq AccountRow
    /\ txns \subseteq TxnRow
    /\ seq \in [Tables -> Nat]
    /\ now \in Nat
    /\ issued \in [Ops -> Nat]
    /\ pc \in [Workers -> PCs]
    /\ req \in [Workers -> Request]
    /\ loc \in [Workers -> Local]
    /\ reply \in [Workers -> [code: Codes, id: Nat]]
    /\ DOMAIN net = Workers

\* An account number names one account, although createAccount checks for it
\* and inserts it in two transactions that other requests come between.
UniqueNumbers == \A a, b \in accounts : a.number = b.number => a = b

\* No two rows of a table ever share an id, although ids are drawn long
\* before the rows that carry them are committed, and in another order.
IdsUnique ==
    /\ \A r, s \in users : r.id = s.id => r = s
    /\ \A r, s \in accounts : r.id = s.id => r = s
    /\ \A r, s \in txns : r.id = s.id => r = s

\* Every account belongs to a stored user and both ends of every transaction
\* are stored accounts: the rows createAccount and createTransaction look up
\* in earlier transactions are still there when they commit.
EntriesBacked ==
    /\ \A a \in accounts : \E u \in users : u.id = a.user
    /\ \A t \in txns : \E s, d \in accounts : s.id = t.source /\ d.id = t.destination

\* An answer is true of the tables when it is sent: what was CREATED is
\* stored under the id returned, with the fields that were asked for, and a
\* refused account number is taken.
AnswerTrue(w) ==
    LET r == req[w]  id == reply[w].id  code == reply[w].code
    IN  /\ code = "CREATED" /\ r.op = "createUser" =>
             \E u \in users : u.id = id /\ u.email = r.email
        /\ code = "CREATED" /\ r.op = "createAccount" =>
             \E a \in accounts : a.id = id /\ a.number = r.number /\ a.user = r.user
        /\ code = "CREATED" /\ r.op = "createTransaction" =>
             \E t \in txns, s, d \in accounts :
               /\ t.id = id /\ t.amount = r.amount
               /\ s.id = t.source /\ s.number = r.source
               /\ d.id = t.destination /\ d.number = r.destination
        /\ code = "USER_ALREADY_EXISTS" => \E u \in users : u.email = r.email
        /\ code = "ACCOUNT_ALREADY_EXISTS" => AccountsNumbered(r.number) # {}

AnswersHold == \A w \in Workers : AnswerTrue(w)

\* Money is neither made nor lost: over all accounts the ledger nets to zero,
\* because each row counts once at each end and both ends are accounts.
DoubleEntry == CalculateNetBalance(txns, {a.id : a \in accounts}) = 0

\* What the ledger computes for a user is the sum of what it computes for
\* each account of the user, transfers between these accounts included.
UserIsSumOfAccounts ==
    \A u \in users :
      LET ids == {a.id : a \in {b \in accounts : b.user = u.id}}
      IN  CalculateNetBalance(txns, ids) =
            SumFunction([id \in ids |-> CalculateNetBalance(txns, {id})])

\* Every request a thread takes is answered (or dropped by a restart): no
\* path through a handler ends in a state with nothing to do.
Answered == \A w \in Workers : pc[w] # "idle" ~> pc[w] = "idle"

\* "User already exists for this email" (UserException.java:20): the e-mail
\* names one user.  createUser checks for it, but nothing enforces it.
EmailsUnique == \A u, v \in users : u.email = v.email => u = v

--------------------------------------------------------------------------------
\* Why the safety properties hold: what a request knows at each of its steps.
\* Together these conjuncts are inductive (LedgerProofs).

CreateUserSteps        == {"existsByEmail", "saveUser", "insertUser"}
CreateAccountSteps     == {"existsByNumber", "saveAccount", "insertAccount"}
CreateTransactionSteps == {"findSource", "findDestination", "toEntity",
                           "saveTransaction", "insertTransaction"}

\* The step a request is at tells its operation, and which of its fields have
\* been found present on the way there.
OpFitsStep(w) ==
    /\ pc[w] \in CreateUserSteps =>
         req[w].op = "createUser" /\ req[w].email # Null
    /\ pc[w] = "mergeUser" => req[w].op = "updateUser"
    /\ pc[w] \in CreateAccountSteps => req[w].op = "createAccount"
    /\ pc[w] \in CreateTransactionSteps => req[w].op = "createTransaction"
    /\ pc[w] \in {"saveTransaction", "insertTransaction"} => req[w].amount # Null
    /\ pc[w] = "findUser" =>
         req[w].op \in {"updateUser", "createAccount", "getUserBalance"}
    /\ pc[w] = "findAccount" => req[w].op = "getAccountBalance"
    /\ pc[w] = "findAllByUserId" =>
         req[w].op = "getUserBalance" /\ req[w].user # Null
    /\ pc[w] = "calculateNetBalance" /\ req[w].op = "getUserBalance" =>
         req[w].user # Null
    /\ pc[w] # "respond" => reply[w].code = "NONE"

\* A user loaded earlier is still stored, up to a rename.
UserLoaded(w) ==
    pc[w] \in CreateAccountSteps \cup {"mergeUser"} =>
      /\ loc[w].user \in UserRow
      /\ loc[w].user.id = req[w].user
      /\ \E u \in users : u.id = loc[w].user.id /\ u.email = loc[w].user.email

\* An account loaded earlier is still stored, as it was.
AccountsLoaded(w) ==
    /\ pc[w] \in CreateTransactionSteps \ {"findSource"} =>
         loc[w].source \in AccountsNumbered(req[w].source)
    /\ pc[w] \in CreateTransactionSteps \ {"findSource", "findDestination"} =>
         loc[w].destination \in AccountsNumbered(req[w].destination)
    /\ pc[w] = "calculateNetBalance" /\ req[w].op # "getUserBalance" =>
         loc[w].source \in accounts

\* The id a request is about to insert is its own: drawn, and in no row and no
\* other request's hands.
OwnId(w, step, table, rows) ==
    pc[w] = step =>
      /\ loc[w].id <= seq[table]
      /\ \A r \in rows : r.id # loc[w].id
      /\ \A v \in Workers \ {w} : pc[v] = step => loc[v].id # loc[w].id

OwnIds ==
    \A w \in Workers :
      /\ OwnId(w, "insertUser", "users", users)
      /\ OwnId(w, "insertAccount", "accounts", accounts)
      /\ OwnId(w, "insertTransaction", "transaction", txns)

\* Rows carry ids that were drawn.
IdsDrawn ==
    /\ \A r \in users : r.id <= seq["users"]
    /\ \A r \in accounts : r.id <= seq["accounts"]
    /\ \A r \in txns : r.id <= seq["transaction"]

Handling == \A w \in Workers : OpFitsStep(w) /\ UserLoaded(w) /\ AccountsLoaded(w)

IInv ==
    /\ TypeOK
    /\ Handling
    /\ OwnIds
    /\ IdsDrawn
    /\ IdsUnique
    /\ UniqueNumbers
    /\ EntriesBacked
    /\ AnswersHold

================================================================================
