----------------------------- MODULE LedgerProofs -----------------------------
(****************************************************************************)
(* TLAPS proofs about Ledger, for any number of workers, any e-mails,       *)
(* names, numbers and amounts, and any quota.                               *)
(****************************************************************************)
EXTENDS Ledger, TLAPS

\* What a client can send is a request; the fields a handler may rely on are
\* there.
LEMMA RequestsTyped ==
    ASSUME TypeOK, NEW r \in Requests
    PROVE  r \in Request
<1> USE DEF TypeOK, Request, UserRequest, AccountRequest, TransferRequest, UserRefs, Tables, Ops, WriteOps, ReadOps
<1>1. CASE r \in CreateUserRequests
  BY <1>1 DEF CreateUserRequests
<1>2. CASE r \in UpdateUserRequests
  BY <1>2 DEF UpdateUserRequests
<1>3. CASE r \in CreateAccountRequests
  BY <1>3 DEF CreateAccountRequests
<1>4. CASE r \in CreateTransactionRequests
  BY <1>4 DEF CreateTransactionRequests
<1>5. CASE r \in UserBalanceRequests
  BY <1>5 DEF UserBalanceRequests
<1>6. CASE r \in AccountBalanceRequests
  BY <1>6 DEF AccountBalanceRequests
<1>7. QED
  BY <1>1, <1>2, <1>3, <1>4, <1>5, <1>6 DEF Requests

\* Typing a worker's move to another step, with or without an answer.
LEMMA GotoTyped ==
    ASSUME TypeOK, NEW w \in Workers, NEW label \in PCs, Goto(w, label)
    PROVE  /\ pc' \in [Workers -> PCs]
           /\ reply' \in [Workers -> [code: Codes, id: Nat]]
  BY DEF TypeOK, Goto

LEMMA ReplyTyped ==
    ASSUME TypeOK, NEW w \in Workers, NEW code \in Codes, NEW id \in Nat,
           Reply(w, code, id)
    PROVE  /\ pc' \in [Workers -> PCs]
           /\ reply' \in [Workers -> [code: Codes, id: Nat]]
  BY DEF TypeOK, Reply, PCs

LEMMA CommittedTyped ==
    ASSUME TypeOK, NEW w \in Workers, NEW code \in Codes, NEW id \in Nat,
           Committed(w, code, id)
    PROVE  /\ pc' \in [Workers -> PCs]
           /\ reply' \in [Workers -> [code: Codes, id: Nat]]
  BY ReplyTyped DEF Committed, Codes

\* A handler's local state stays well typed when one of its fields is set.
LEMMA LocalTyped ==
    ASSUME NEW l \in Local
    PROVE  /\ \A u \in UserRow : [l EXCEPT !.user = u] \in Local
           /\ \A a \in AccountRow : [l EXCEPT !.source = a] \in Local
           /\ \A a \in AccountRow : [l EXCEPT !.destination = a] \in Local
           /\ \A n \in Nat : [l EXCEPT !.id = n] \in Local
           /\ \A n \in Nat : [l EXCEPT !.stamp = n] \in Local
           /\ \A s \in SUBSET Nat : [l EXCEPT !.ids = s] \in Local
<1>1. \A u \in UserRow : [l EXCEPT !.user = u] \in Local
  BY DEF Local
<1>2. \A a \in AccountRow : [l EXCEPT !.source = a] \in Local
  BY DEF Local
<1>3. \A a \in AccountRow : [l EXCEPT !.destination = a] \in Local
  BY DEF Local
<1>4. \A n \in Nat : [l EXCEPT !.id = n] \in Local
  BY DEF Local
<1>5. \A n \in Nat : [l EXCEPT !.stamp = n] \in Local
  BY DEF Local
<1>6. \A s \in SUBSET Nat : [l EXCEPT !.ids = s] \in Local
  BY DEF Local
<1>7. QED
  BY <1>1, <1>2, <1>3, <1>4, <1>5, <1>6

LEMMA PersistTyped ==
    ASSUME TypeOK, NEW w \in Workers, NEW table \in Tables, Persist(w, table)
    PROVE  loc' \in [Workers -> Local] /\ seq' \in [Tables -> Nat]
<1>1. NextId(table) \in Nat
  BY DEF TypeOK, NextId
<1>2. seq' \in [Tables -> Nat]
  BY <1>1 DEF TypeOK, Persist
<1>3. [loc[w] EXCEPT !.id = NextId(table)] \in Local
  BY <1>1, LocalTyped DEF TypeOK
<1>4. loc' = [loc EXCEPT ![w] = [loc[w] EXCEPT !.id = NextId(table)]]
  BY DEF Persist
<1>5. QED
  BY <1>2, <1>3, <1>4 DEF TypeOK

--------------------------------------------------------------------------------
\* Types.  A step takes well-typed states to well-typed states, given what a
\* request at each control point is known to have found (Handling).

LEMMA BeginTyped ==
    ASSUME TypeOK, NEW w \in Workers, Begin(w) PROVE TypeOK'
<1>1. PICK principal \in Principals, r \in Requests :
        /\ req' = [req EXCEPT ![w] = r]
        /\ IF ~principal
           THEN Reply(w, "FORBIDDEN", 0) /\ UNCHANGED issued
           ELSE IF r.op = "createUser" /\ r.email = Null
           THEN Reply(w, "VALIDATION_ERROR", 0) /\ UNCHANGED issued
           ELSE /\ Goto(w, Entry(r.op))
                /\ issued' = IF r.op \in WriteOps
                             THEN [issued EXCEPT ![r.op] = @ + 1]
                             ELSE issued
  BY DEF Begin
<1>2. r \in Request
  BY RequestsTyped
<1>3. issued' \in [Ops -> Nat] /\ req' \in [Workers -> Request]
  <2>1. issued' = issued \/ issued' = [issued EXCEPT ![r.op] = @ + 1]
    BY <1>1
  <2>2. r.op \in Ops
    BY <1>2 DEF Request
  <2>3. QED
    BY <1>1, <1>2, <2>1, <2>2 DEF TypeOK
<1>4. Entry(r.op) \in PCs
  BY DEF Entry, PCs, Statements
<1>5. /\ pc' \in [Workers -> PCs]
      /\ reply' \in [Workers -> [code: Codes, id: Nat]]
  BY <1>1, <1>4, GotoTyped, ReplyTyped DEF Codes
<1>6. QED
  BY <1>3, <1>5 DEF TypeOK, Begin, db

LEMMA RespondTyped ==
    ASSUME TypeOK, NEW w \in Workers, Respond(w) PROVE TypeOK'
<1>1. NoRequest \in Request /\ NoLocal \in Local
  BY DEF NoRequest, AccountRequest, Request, Ops, ReadOps, NoLocal, Local
<1>2. NoReply \in [code: Codes, id: Nat]
  BY DEF NoReply, Codes
<1>3. QED
  BY <1>1, <1>2 DEF TypeOK, Respond, PCs, db

LEMMA CreateUserTyped ==
    ASSUME TypeOK, NEW w \in Workers, OpFitsStep(w), CreateUser(w) PROVE TypeOK'
<1>1. CASE ExistsByEmail(w)
  <2>1. /\ pc' \in [Workers -> PCs]
        /\ reply' \in [Workers -> [code: Codes, id: Nat]]
    BY <1>1, GotoTyped, ReplyTyped DEF ExistsByEmail, PCs, Statements, Codes
  <2>2. QED
    BY <1>1, <2>1 DEF TypeOK, ExistsByEmail, db, request
<1>2. CASE SaveUser(w)
  <2>1. /\ pc' \in [Workers -> PCs]
        /\ reply' \in [Workers -> [code: Codes, id: Nat]]
    BY <1>2, GotoTyped DEF SaveUser, PCs, Statements
  <2>2. loc' \in [Workers -> Local] /\ seq' \in [Tables -> Nat]
    BY <1>2, PersistTyped DEF SaveUser, Tables
  <2>3. QED
    BY <1>2, <2>1, <2>2 DEF TypeOK, SaveUser, db, request
<1>3. CASE InsertUser(w)
  <2>1. loc[w].id \in Nat /\ req[w].email \in Emails /\ req[w].name \in Names \cup {Null}
    BY <1>3 DEF TypeOK, InsertUser, OpFitsStep, CreateUserSteps, Local, Request
  <2>2. [id |-> loc[w].id, email |-> req[w].email, name |-> req[w].name] \in UserRow
    BY <2>1 DEF UserRow
  <2>3. /\ pc' \in [Workers -> PCs]
        /\ reply' \in [Workers -> [code: Codes, id: Nat]]
    BY <1>3, <2>1, CommittedTyped DEF InsertUser, Codes
  <2>4. QED
    BY <1>3, <2>2, <2>3 DEF TypeOK, InsertUser, request
<1>4. QED
  BY <1>1, <1>2, <1>3 DEF CreateUser

LEMMA FindUserTyped ==
    ASSUME TypeOK, NEW w \in Workers, FindUser(w) PROVE TypeOK'
<1>1. CASE UNCHANGED loc
  <2>1. /\ pc' \in [Workers -> PCs]
        /\ reply' \in [Workers -> [code: Codes, id: Nat]]
    <3>1. AfterFindUser(req[w].op) \in PCs
      BY DEF AfterFindUser, PCs, Statements
    <3>2. QED
      BY <3>1, GotoTyped, ReplyTyped DEF FindUser, Codes
  <2>2. QED
    BY <1>1, <2>1 DEF TypeOK, FindUser, db, request
<1>2. CASE \E u \in users : /\ loc' = [loc EXCEPT ![w].user = u]
                            /\ Goto(w, AfterFindUser(req[w].op))
  <2>1. PICK u \in users : /\ loc' = [loc EXCEPT ![w].user = u]
                           /\ Goto(w, AfterFindUser(req[w].op))
    BY <1>2
  <2>2. AfterFindUser(req[w].op) \in PCs
    BY DEF AfterFindUser, PCs, Statements
  <2>3. /\ pc' \in [Workers -> PCs]
        /\ reply' \in [Workers -> [code: Codes, id: Nat]]
    BY <2>1, <2>2, GotoTyped
  <2>4. [loc[w] EXCEPT !.user = u] \in Local
    BY LocalTyped DEF TypeOK
  <2>5. loc' = [loc EXCEPT ![w] = [loc[w] EXCEPT !.user = u]]
    BY <2>1
  <2>6. loc' \in [Workers -> Local]
    BY <2>4, <2>5 DEF TypeOK
  <2>7. QED
    BY <2>3, <2>6 DEF TypeOK, FindUser, db, request
<1>3. QED
  BY <1>1, <1>2 DEF FindUser

LEMMA MergeUserTyped ==
    ASSUME TypeOK, NEW w \in Workers, UserLoaded(w), MergeUser(w) PROVE TypeOK'
<1>1. loc[w].user \in UserRow /\ req[w].name \in Names \cup {Null}
  BY DEF TypeOK, MergeUser, UserLoaded, Request
<1>2. RenamedUser(w) \in UserRow
  BY <1>1 DEF RenamedUser, UserRow
<1>3. users' \subseteq UserRow
  BY <1>2 DEF TypeOK, MergeUser
<1>4. /\ pc' \in [Workers -> PCs]
      /\ reply' \in [Workers -> [code: Codes, id: Nat]]
  BY CommittedTyped DEF MergeUser, Codes
<1>5. QED
  BY <1>3, <1>4 DEF TypeOK, MergeUser, request

LEMMA CreateAccountTyped ==
    ASSUME TypeOK, NEW w \in Workers, UserLoaded(w), CreateAccount(w) PROVE TypeOK'
<1>1. CASE ExistsByAccountNumber(w)
  <2>1. /\ pc' \in [Workers -> PCs]
        /\ reply' \in [Workers -> [code: Codes, id: Nat]]
    BY <1>1, GotoTyped, ReplyTyped DEF ExistsByAccountNumber, PCs, Statements, Codes
  <2>2. QED
    BY <1>1, <2>1 DEF TypeOK, ExistsByAccountNumber, db, request
<1>2. CASE SaveAccount(w)
  <2>1. /\ pc' \in [Workers -> PCs]
        /\ reply' \in [Workers -> [code: Codes, id: Nat]]
    BY <1>2, GotoTyped DEF SaveAccount, PCs, Statements
  <2>2. loc' \in [Workers -> Local] /\ seq' \in [Tables -> Nat]
    BY <1>2, PersistTyped DEF SaveAccount, Tables
  <2>3. QED
    BY <1>2, <2>1, <2>2 DEF TypeOK, SaveAccount, db, request
<1>3. CASE InsertAccount(w)
  <2>1. loc[w].id \in Nat /\ loc[w].user.id \in Nat
    BY <1>3 DEF TypeOK, InsertAccount, UserLoaded, CreateAccountSteps, Local, UserRow
  <2>2. NumberConstraint(req[w].number) =>
          [id |-> loc[w].id, number |-> req[w].number, user |-> loc[w].user.id] \in AccountRow
    <3>1. NumberConstraint(req[w].number) => req[w].number \in Numbers
      BY DEF TypeOK, Request, NumberConstraint
    <3>2. QED
      BY <2>1, <3>1 DEF AccountRow
  <2>3. accounts' \subseteq AccountRow
    BY <1>3, <2>2 DEF TypeOK, InsertAccount
  <2>4. /\ pc' \in [Workers -> PCs]
        /\ reply' \in [Workers -> [code: Codes, id: Nat]]
    BY <1>3, <2>1, CommittedTyped, ReplyTyped DEF InsertAccount, Codes
  <2>5. QED
    BY <1>3, <2>3, <2>4 DEF TypeOK, InsertAccount, request
<1>4. QED
  BY <1>1, <1>2, <1>3 DEF CreateAccount

\* A lookup by account number, by any of the three handlers that make one.
LEMMA NoAccountTyped ==
    ASSUME TypeOK, NEW w \in Workers, NEW number, NoAccountNumbered(w, number)
    PROVE  /\ pc' \in [Workers -> PCs]
           /\ reply' \in [Workers -> [code: Codes, id: Nat]]
           /\ loc' \in [Workers -> Local]
  BY ReplyTyped DEF TypeOK, NoAccountNumbered, Codes

LEMMA FindSourceTyped ==
    ASSUME TypeOK, NEW w \in Workers, FindSource(w) PROVE TypeOK'
<1>1. CASE NoAccountNumbered(w, req[w].source)
  BY <1>1, NoAccountTyped DEF TypeOK, FindSource, db, request
<1>2. CASE ~NoAccountNumbered(w, req[w].source)
  <2>1. PICK a \in AccountsNumbered(req[w].source) :
          loc' = [loc EXCEPT ![w].source = a] /\ Goto(w, "findDestination")
    BY <1>2 DEF FindSource
  <2>2. [loc[w] EXCEPT !.source = a] \in Local
    BY LocalTyped DEF TypeOK, AccountsNumbered
  <2>3. loc' = [loc EXCEPT ![w] = [loc[w] EXCEPT !.source = a]]
    BY <2>1
  <2>4. loc' \in [Workers -> Local]
    BY <2>2, <2>3 DEF TypeOK
  <2>5. /\ pc' \in [Workers -> PCs]
        /\ reply' \in [Workers -> [code: Codes, id: Nat]]
    BY <2>1, GotoTyped DEF PCs, Statements
  <2>6. QED
    BY <2>4, <2>5 DEF TypeOK, FindSource, db, request
<1>3. QED
  BY <1>1, <1>2

LEMMA FindDestinationTyped ==
    ASSUME TypeOK, NEW w \in Workers, FindDestination(w) PROVE TypeOK'
<1>1. CASE NoAccountNumbered(w, req[w].destination)
  BY <1>1, NoAccountTyped DEF TypeOK, FindDestination, db, request
<1>2. CASE ~NoAccountNumbered(w, req[w].destination)
  <2>1. PICK a \in AccountsNumbered(req[w].destination) :
          loc' = [loc EXCEPT ![w].destination = a] /\ Goto(w, "toEntity")
    BY <1>2 DEF FindDestination
  <2>2. [loc[w] EXCEPT !.destination = a] \in Local
    BY LocalTyped DEF TypeOK, AccountsNumbered
  <2>3. loc' = [loc EXCEPT ![w] = [loc[w] EXCEPT !.destination = a]]
    BY <2>1
  <2>4. loc' \in [Workers -> Local]
    BY <2>2, <2>3 DEF TypeOK
  <2>5. /\ pc' \in [Workers -> PCs]
        /\ reply' \in [Workers -> [code: Codes, id: Nat]]
    BY <2>1, GotoTyped DEF PCs
  <2>6. QED
    BY <2>4, <2>5 DEF TypeOK, FindDestination, db, request
<1>3. QED
  BY <1>1, <1>2

LEMMA CreateTransactionTyped ==
    ASSUME TypeOK, NEW w \in Workers, OpFitsStep(w), AccountsLoaded(w),
           CreateTransaction(w)
    PROVE  TypeOK'
<1>1. CASE ToEntity(w)
  <2>1. /\ pc' \in [Workers -> PCs]
        /\ reply' \in [Workers -> [code: Codes, id: Nat]]
    BY <1>1, GotoTyped, ReplyTyped DEF ToEntity, PCs, Statements, Codes
  <2>2. now' \in Nat
    BY <1>1 DEF TypeOK, ToEntity
  <2>3. [loc[w] EXCEPT !.stamp = now'] \in Local
    BY <2>2, LocalTyped DEF TypeOK
  <2>4. loc' = loc \/ loc' = [loc EXCEPT ![w] = [loc[w] EXCEPT !.stamp = now']]
    BY <1>1 DEF ToEntity
  <2>5. loc' \in [Workers -> Local]
    BY <2>3, <2>4 DEF TypeOK
  <2>6. QED
    BY <1>1, <2>1, <2>2, <2>5 DEF TypeOK, ToEntity, db, request
<1>2. CASE SaveTransaction(w)
  <2>1. /\ pc' \in [Workers -> PCs]
        /\ reply' \in [Workers -> [code: Codes, id: Nat]]
    BY <1>2, GotoTyped DEF SaveTransaction, PCs, Statements
  <2>2. loc' \in [Workers -> Local] /\ seq' \in [Tables -> Nat]
    BY <1>2, PersistTyped DEF SaveTransaction, Tables
  <2>3. QED
    BY <1>2, <2>1, <2>2 DEF TypeOK, SaveTransaction, db, request
<1>3. CASE InsertTransaction(w)
  <2>1. /\ loc[w].id \in Nat /\ loc[w].stamp \in Nat
        /\ loc[w].source \in accounts /\ loc[w].destination \in accounts
    BY <1>3 DEF TypeOK, InsertTransaction, AccountsLoaded, AccountsNumbered,
                CreateTransactionSteps, Local
  <2>2. req[w].amount \in Amounts
    BY <1>3 DEF TypeOK, InsertTransaction, OpFitsStep, Request
  <2>3. EntityOf(w) \in TxnRow
    BY <2>1, <2>2 DEF TypeOK, AccountRow, TxnRow, EntityOf
  <2>4. /\ pc' \in [Workers -> PCs]
        /\ reply' \in [Workers -> [code: Codes, id: Nat]]
    BY <1>3, <2>1, CommittedTyped DEF InsertTransaction, Codes
  <2>5. QED
    BY <1>3, <2>3, <2>4 DEF TypeOK, InsertTransaction, request
<1>4. QED
  BY <1>1, <1>2, <1>3, FindSourceTyped, FindDestinationTyped DEF CreateTransaction

LEMMA GetBalanceTyped ==
    ASSUME TypeOK, NEW w \in Workers, OpFitsStep(w), AccountsLoaded(w), GetBalance(w)
    PROVE  TypeOK'
<1>1. CASE FindAllByUserId(w)
  <2> DEFINE ids == {a.id : a \in {b \in accounts : b.user = req[w].user}}
  <2>1. req[w].user \in Nat /\ ids \in SUBSET Nat
    BY <1>1 DEF TypeOK, FindAllByUserId, OpFitsStep, Request, AccountRow
  <2>2. /\ pc' \in [Workers -> PCs]
        /\ reply' \in [Workers -> [code: Codes, id: Nat]]
    BY <1>1, <2>1, GotoTyped, ReplyTyped DEF FindAllByUserId, PCs, Statements, Codes
  <2>3. [loc[w] EXCEPT !.ids = ids] \in Local
    BY <2>1, LocalTyped DEF TypeOK
  <2>4. loc' = loc \/ loc' = [loc EXCEPT ![w] = [loc[w] EXCEPT !.ids = ids]]
    BY <1>1 DEF FindAllByUserId
  <2>5. loc' \in [Workers -> Local]
    BY <2>3, <2>4 DEF TypeOK
  <2>6. QED
    BY <1>1, <2>2, <2>5 DEF TypeOK, FindAllByUserId, db, request
<1>2. CASE FindAccount(w)
  <2>1. CASE NoAccountNumbered(w, req[w].number)
    BY <1>2, <2>1, NoAccountTyped DEF TypeOK, FindAccount, db, request
  <2>2. CASE ~NoAccountNumbered(w, req[w].number)
    <3>1. PICK a \in AccountsNumbered(req[w].number) :
            /\ loc' = [loc EXCEPT ![w].source = a, ![w].ids = {a.id}]
            /\ Goto(w, "calculateNetBalance")
      BY <1>2, <2>2 DEF FindAccount
    <3>2. a \in AccountRow /\ {a.id} \in SUBSET Nat
      BY DEF TypeOK, AccountsNumbered, AccountRow
    <3>3. [[loc[w] EXCEPT !.source = a] EXCEPT !.ids = {a.id}] \in Local
      BY <3>2, LocalTyped DEF TypeOK
    <3>4. loc' = [loc EXCEPT ![w] = [[loc[w] EXCEPT !.source = a] EXCEPT !.ids = {a.id}]]
      BY <3>1 DEF TypeOK
    <3>5. loc' \in [Workers -> Local]
      BY <3>3, <3>4 DEF TypeOK
    <3>6. /\ pc' \in [Workers -> PCs]
          /\ reply' \in [Workers -> [code: Codes, id: Nat]]
      BY <3>1, GotoTyped DEF PCs, Statements
    <3>7. QED
      BY <1>2, <3>5, <3>6 DEF TypeOK, FindAccount, db, request
  <2>3. QED
    BY <2>1, <2>2
<1>3. CASE Sum(w)
  <2>1. (IF req[w].op = "getUserBalance" THEN req[w].user ELSE loc[w].source.id) \in Nat
    BY <1>3 DEF TypeOK, Sum, OpFitsStep, AccountsLoaded, Request, AccountRow
  <2>2. /\ pc' \in [Workers -> PCs]
        /\ reply' \in [Workers -> [code: Codes, id: Nat]]
    BY <1>3, <2>1, ReplyTyped DEF Sum, Codes
  <2>3. DOMAIN net' = Workers
    BY <1>3 DEF TypeOK, Sum
  <2>4. QED
    BY <1>3, <2>2, <2>3 DEF TypeOK, Sum, db, request
<1>4. QED
  BY <1>1, <1>2, <1>3 DEF GetBalance

LEMMA FailTyped ==
    ASSUME TypeOK, NEW w \in Workers, Fail(w) PROVE TypeOK'
<1>1. /\ pc' \in [Workers -> PCs]
      /\ reply' \in [Workers -> [code: Codes, id: Nat]]
  BY ReplyTyped DEF Fail, Codes
<1>2. QED
  BY <1>1 DEF TypeOK, Fail, db, request

LEMMA CrashTyped ==
    ASSUME TypeOK, Crash PROVE TypeOK'
<1>1. NoRequest \in Request /\ NoLocal \in Local
  BY DEF NoRequest, AccountRequest, Request, Ops, ReadOps, NoLocal, Local
<1>2. NoReply \in [code: Codes, id: Nat]
  BY DEF NoReply, Codes
<1>3. QED
  BY <1>1, <1>2 DEF TypeOK, Crash, PCs, db

LEMMA TypeStep ==
    ASSUME TypeOK, Handling, [Next]_vars PROVE TypeOK'
<1>1. ASSUME NEW w \in Workers, Step(w) PROVE TypeOK'
  <2>1. OpFitsStep(w) /\ UserLoaded(w) /\ AccountsLoaded(w)
    BY DEF Handling
  <2>2. QED
    BY <1>1, <2>1, CreateUserTyped, FindUserTyped, MergeUserTyped, CreateAccountTyped,
       CreateTransactionTyped, GetBalanceTyped, RespondTyped
    DEF Step, UpdateUser
<1>2. CASE UNCHANGED vars
  BY <1>2 DEF TypeOK, vars
<1>3. QED
  BY <1>1, <1>2, BeginTyped, FailTyped, CrashTyped DEF Next

--------------------------------------------------------------------------------
\* What a step leaves alone.

Act(w) == Begin(w) \/ Step(w) \/ Fail(w)

\* The requests of the other workers.
LEMMA Frame ==
    ASSUME TypeOK, NEW w \in Workers, Act(w), NEW v \in Workers \ {w}
    PROVE  /\ pc'[v] = pc[v] /\ reply'[v] = reply[v]
           /\ req'[v] = req[v] /\ loc'[v] = loc[v]
<1> USE DEF TypeOK, Goto, Reply, Committed, request
<1>1. CASE Begin(w)
  BY <1>1 DEF Begin
<1>2. CASE FindUser(w)
  BY <1>2 DEF FindUser
<1>3. CASE CreateUser(w)
  BY <1>3 DEF CreateUser, ExistsByEmail, SaveUser, InsertUser, Persist
<1>4. CASE UpdateUser(w)
  BY <1>4 DEF UpdateUser, MergeUser
<1>5. CASE CreateAccount(w)
  BY <1>5 DEF CreateAccount, ExistsByAccountNumber, SaveAccount, InsertAccount, Persist
<1>6. CASE CreateTransaction(w)
  BY <1>6 DEF CreateTransaction, FindSource, FindDestination, ToEntity,
              SaveTransaction, InsertTransaction, Persist, NoAccountNumbered
<1>7. CASE GetBalance(w)
  BY <1>7 DEF GetBalance, FindAllByUserId, FindAccount, Sum, NoAccountNumbered
<1>8. CASE Respond(w)
  BY <1>8 DEF Respond
<1>9. CASE Fail(w)
  BY <1>9 DEF Fail
<1>10. QED
  BY <1>1, <1>2, <1>3, <1>4, <1>5, <1>6, <1>7, <1>8, <1>9 DEF Act, Step

\* The tables, but for the one action that writes each of them.
LEMMA UsersKept ==
    ASSUME NEW w \in Workers, Act(w), ~InsertUser(w), ~MergeUser(w)
    PROVE  users' = users
  BY DEF Act, Step, Begin, FindUser, CreateUser, ExistsByEmail, SaveUser, UpdateUser,
         CreateAccount, ExistsByAccountNumber, SaveAccount, InsertAccount,
         CreateTransaction, FindSource, FindDestination, ToEntity, SaveTransaction,
         InsertTransaction, GetBalance, FindAllByUserId, FindAccount, Sum,
         Respond, Fail, db

LEMMA AccountsKept ==
    ASSUME NEW w \in Workers, Act(w), ~InsertAccount(w)
    PROVE  accounts' = accounts
  BY DEF Act, Step, Begin, FindUser, CreateUser, ExistsByEmail, SaveUser, InsertUser,
         UpdateUser, MergeUser, CreateAccount, ExistsByAccountNumber, SaveAccount,
         CreateTransaction, FindSource, FindDestination, ToEntity, SaveTransaction,
         InsertTransaction, GetBalance, FindAllByUserId, FindAccount, Sum,
         Respond, Fail, db

LEMMA TxnsKept ==
    ASSUME NEW w \in Workers, Act(w), ~InsertTransaction(w)
    PROVE  txns' = txns
  BY DEF Act, Step, Begin, FindUser, CreateUser, ExistsByEmail, SaveUser, InsertUser,
         UpdateUser, MergeUser, CreateAccount, ExistsByAccountNumber, SaveAccount,
         InsertAccount, CreateTransaction, FindSource, FindDestination, ToEntity,
         SaveTransaction, GetBalance, FindAllByUserId, FindAccount, Sum,
         Respond, Fail, db

\* No step takes an account or a transaction away, and a user keeps its id and
\* its e-mail through any rename.
LEMMA RowsStay ==
    ASSUME TypeOK, Handling, IdsUnique, NEW w \in Workers, Act(w)
    PROVE  /\ accounts \subseteq accounts'
           /\ txns \subseteq txns'
           /\ \A u \in users : \E v \in users' : v.id = u.id /\ v.email = u.email
<1>1. accounts \subseteq accounts'
  BY AccountsKept DEF InsertAccount
<1>2. txns \subseteq txns'
  BY TxnsKept DEF InsertTransaction
<1>3. ASSUME NEW u \in users
      PROVE  \E v \in users' : v.id = u.id /\ v.email = u.email
  <2>1. CASE MergeUser(w)
    <3>1. /\ loc[w].user \in UserRow
          /\ \E v \in users : v.id = loc[w].user.id /\ v.email = loc[w].user.email
      BY <2>1 DEF Handling, UserLoaded, MergeUser
    <3>2. CASE u.id # loc[w].user.id
      BY <2>1, <3>2 DEF MergeUser
    <3>3. CASE u.id = loc[w].user.id
      <4>1. u.email = loc[w].user.email
        BY <3>1, <3>3 DEF IdsUnique
      <4>2. RenamedUser(w).id = u.id /\ RenamedUser(w).email = u.email
        BY <3>1, <3>3, <4>1 DEF RenamedUser, UserRow
      <4>3. u \in users' \/ RenamedUser(w) \in users'
        BY <2>1, <3>3 DEF MergeUser
      <4>4. QED
        BY <4>2, <4>3
    <3>4. QED
      BY <3>2, <3>3
  <2>2. CASE InsertUser(w)
    BY <2>2 DEF InsertUser
  <2>3. QED
    BY <2>1, <2>2, UsersKept
<1>4. QED
  BY <1>1, <1>2, <1>3

--------------------------------------------------------------------------------
\* What each request knows stays true: of the workers that do not move, because
\* rows stay; of the one that does, because the step has just found it.

Known(w) == OpFitsStep(w) /\ UserLoaded(w) /\ AccountsLoaded(w)

LEMMA KnownByOthers ==
    ASSUME TypeOK, Handling, IdsUnique, NEW w \in Workers, Act(w),
           NEW v \in Workers \ {w}
    PROVE  Known(v)'
<1>1. /\ pc'[v] = pc[v] /\ reply'[v] = reply[v]
      /\ req'[v] = req[v] /\ loc'[v] = loc[v]
  BY Frame
<1>2. Known(v)
  BY DEF Handling, Known
<1>3. OpFitsStep(v)'
  BY <1>1, <1>2 DEF Known, OpFitsStep
<1>4. UserLoaded(v)'
  BY <1>1, <1>2, RowsStay DEF Known, UserLoaded
<1>5. AccountsLoaded(v)'
  BY <1>1, <1>2, RowsStay DEF Known, AccountsLoaded, AccountsNumbered
<1>6. QED
  BY <1>3, <1>4, <1>5 DEF Known

\* An answer ends what a request must remember.
LEMMA AnswerKnown ==
    ASSUME TypeOK, NEW w \in Workers, NEW code, NEW id,
           Reply(w, code, id) \/ Committed(w, code, id)
    PROVE  Known(w)' /\ pc'[w] = "respond"
<1>1. pc'[w] = "respond"
  BY DEF TypeOK, Reply, Committed
<1>2. QED
  BY <1>1 DEF Known, OpFitsStep, UserLoaded, AccountsLoaded, CreateUserSteps,
              CreateAccountSteps, CreateTransactionSteps

LEMMA BeginKnown ==
    ASSUME TypeOK, NEW w \in Workers, Known(w), Begin(w) PROVE Known(w)'
<1>1. PICK r \in Requests :
        /\ req' = [req EXCEPT ![w] = r]
        /\ \/ Reply(w, "FORBIDDEN", 0)
           \/ Reply(w, "VALIDATION_ERROR", 0)
           \/ Goto(w, Entry(r.op)) /\ ~(r.op = "createUser" /\ r.email = Null)
  BY DEF Begin
<1>2. CASE Goto(w, Entry(r.op)) /\ ~(r.op = "createUser" /\ r.email = Null)
  <2>1. /\ pc'[w] = Entry(r.op) /\ req'[w] = r
        /\ reply'[w].code = "NONE"
    BY <1>1, <1>2 DEF TypeOK, Goto, Known, OpFitsStep, Begin
  <2>2. r.op \in Ops
    BY RequestsTyped DEF Request
  <2>3. QED
    BY <1>2, <2>1, <2>2 DEF Known, OpFitsStep, UserLoaded, AccountsLoaded, Entry, Ops,
       WriteOps, ReadOps, CreateUserSteps, CreateAccountSteps, CreateTransactionSteps
<1>3. QED
  BY <1>1, <1>2, AnswerKnown

LEMMA CreateUserKnown ==
    ASSUME TypeOK, NEW w \in Workers, Known(w), CreateUser(w) PROVE Known(w)'
<1>1. CASE Goto(w, "saveUser") /\ ExistsByEmail(w)
  <2>1. pc'[w] = "saveUser" /\ reply'[w] = reply[w] /\ req'[w] = req[w]
    BY <1>1 DEF TypeOK, Goto, ExistsByEmail, request
  <2>2. QED
    BY <1>1, <2>1 DEF Known, OpFitsStep, UserLoaded, AccountsLoaded, ExistsByEmail,
       CreateUserSteps, CreateAccountSteps, CreateTransactionSteps
<1>2. CASE SaveUser(w)
  <2>1. pc'[w] = "insertUser" /\ reply'[w] = reply[w] /\ req'[w] = req[w]
    BY <1>2 DEF TypeOK, Goto, SaveUser, request
  <2>2. QED
    BY <1>2, <2>1 DEF Known, OpFitsStep, UserLoaded, AccountsLoaded, SaveUser,
       CreateUserSteps, CreateAccountSteps, CreateTransactionSteps
<1>3. QED
  BY <1>1, <1>2, AnswerKnown DEF CreateUser, ExistsByEmail, InsertUser

LEMMA FindUserKnown ==
    ASSUME TypeOK, NEW w \in Workers, Known(w), FindUser(w) PROVE Known(w)'
<1>1. CASE \E u \in users : /\ u.id = req[w].user
                            /\ loc' = [loc EXCEPT ![w].user = u]
                            /\ Goto(w, AfterFindUser(req[w].op))
  <2>1. PICK u \in users : /\ u.id = req[w].user
                           /\ loc' = [loc EXCEPT ![w].user = u]
                           /\ Goto(w, AfterFindUser(req[w].op))
    BY <1>1
  <2>2. /\ pc'[w] = AfterFindUser(req[w].op) /\ reply'[w] = reply[w]
        /\ req'[w] = req[w] /\ users' = users
    BY <2>1 DEF TypeOK, Goto, FindUser, request, db
  <2>3. loc'[w].user = u
    BY <2>1 DEF TypeOK, Local
  <2>4. u \in UserRow /\ req[w].user # Null
    BY <2>1, LedgerAssumption DEF TypeOK, UserRow
  <2>5. req[w].op \in {"updateUser", "createAccount", "getUserBalance"} /\ reply[w].code = "NONE"
    BY DEF TypeOK, Known, OpFitsStep, FindUser, Request
  <2>6. OpFitsStep(w)'
    BY <2>2, <2>4, <2>5 DEF OpFitsStep, AfterFindUser, CreateUserSteps,
       CreateAccountSteps, CreateTransactionSteps
  <2>7. UserLoaded(w)'
    BY <2>1, <2>2, <2>3, <2>4 DEF UserLoaded
  <2>8. AccountsLoaded(w)'
    BY <2>2 DEF AccountsLoaded, AfterFindUser, CreateTransactionSteps
  <2>9. QED
    BY <2>6, <2>7, <2>8 DEF Known
<1>2. QED
  BY <1>1, AnswerKnown DEF FindUser

LEMMA CreateAccountKnown ==
    ASSUME TypeOK, NEW w \in Workers, Known(w), CreateAccount(w) PROVE Known(w)'
<1>1. CASE Goto(w, "saveAccount") /\ ExistsByAccountNumber(w)
  <2>1. /\ pc'[w] = "saveAccount" /\ reply'[w] = reply[w] /\ req'[w] = req[w]
        /\ users' = users /\ loc' = loc
    BY <1>1 DEF TypeOK, Goto, ExistsByAccountNumber, request, db
  <2>2. QED
    BY <1>1, <2>1 DEF Known, OpFitsStep, UserLoaded, AccountsLoaded,
       ExistsByAccountNumber, CreateUserSteps, CreateAccountSteps, CreateTransactionSteps
<1>2. CASE SaveAccount(w)
  <2>1. /\ pc'[w] = "insertAccount" /\ reply'[w] = reply[w] /\ req'[w] = req[w]
        /\ users' = users /\ loc'[w].user = loc[w].user
    BY <1>2 DEF TypeOK, Goto, SaveAccount, Persist, Local, request, db
  <2>2. QED
    BY <1>2, <2>1 DEF Known, OpFitsStep, UserLoaded, AccountsLoaded, SaveAccount,
       CreateUserSteps, CreateAccountSteps, CreateTransactionSteps
<1>3. QED
  BY <1>1, <1>2, AnswerKnown DEF CreateAccount, ExistsByAccountNumber, InsertAccount

LEMMA CreateTransactionKnown ==
    ASSUME TypeOK, NEW w \in Workers, Known(w), CreateTransaction(w) PROVE Known(w)'
<1> USE DEF CreateUserSteps, CreateAccountSteps, CreateTransactionSteps
<1>1. CASE FindSource(w) /\ ~NoAccountNumbered(w, req[w].source)
  <2>1. PICK a \in AccountsNumbered(req[w].source) :
          loc' = [loc EXCEPT ![w].source = a] /\ Goto(w, "findDestination")
    BY <1>1 DEF FindSource
  <2>2. /\ pc'[w] = "findDestination" /\ reply'[w] = reply[w]
        /\ req'[w] = req[w] /\ accounts' = accounts
    BY <1>1, <2>1 DEF TypeOK, Goto, FindSource, request, db
  <2>3. loc'[w].source = a
    BY <2>1 DEF TypeOK, Local
  <2>4. QED
    BY <1>1, <2>2, <2>3 DEF Known, OpFitsStep, UserLoaded, AccountsLoaded,
       AccountsNumbered, FindSource
<1>2. CASE FindDestination(w) /\ ~NoAccountNumbered(w, req[w].destination)
  <2>1. PICK a \in AccountsNumbered(req[w].destination) :
          loc' = [loc EXCEPT ![w].destination = a] /\ Goto(w, "toEntity")
    BY <1>2 DEF FindDestination
  <2>2. /\ pc'[w] = "toEntity" /\ reply'[w] = reply[w]
        /\ req'[w] = req[w] /\ accounts' = accounts
    BY <1>2, <2>1 DEF TypeOK, Goto, FindDestination, request, db
  <2>3. loc'[w].destination = a /\ loc'[w].source = loc[w].source
    BY <2>1 DEF TypeOK, Local
  <2>4. QED
    BY <1>2, <2>2, <2>3 DEF Known, OpFitsStep, UserLoaded, AccountsLoaded,
       AccountsNumbered, FindDestination
<1>3. CASE ToEntity(w) /\ ~Reply(w, "INTERNAL_ERROR", 0)
  <2>1. /\ pc'[w] = "saveTransaction" /\ reply'[w] = reply[w]
        /\ req'[w] = req[w] /\ accounts' = accounts /\ req[w].amount # Null
        /\ loc'[w].source = loc[w].source /\ loc'[w].destination = loc[w].destination
    BY <1>3 DEF TypeOK, Local, Goto, ToEntity, request, db
  <2>2. QED
    BY <1>3, <2>1 DEF Known, OpFitsStep, UserLoaded, AccountsLoaded,
       AccountsNumbered, ToEntity
<1>4. CASE SaveTransaction(w)
  <2>1. /\ pc'[w] = "insertTransaction" /\ reply'[w] = reply[w]
        /\ req'[w] = req[w] /\ accounts' = accounts
        /\ loc'[w].source = loc[w].source /\ loc'[w].destination = loc[w].destination
    BY <1>4 DEF TypeOK, Local, Goto, SaveTransaction, Persist, request, db
  <2>2. QED
    BY <1>4, <2>1 DEF Known, OpFitsStep, UserLoaded, AccountsLoaded,
       AccountsNumbered, SaveTransaction
<1>5. QED
  BY <1>1, <1>2, <1>3, <1>4, AnswerKnown
  DEF CreateTransaction, FindSource, FindDestination, NoAccountNumbered, InsertTransaction

LEMMA GetBalanceKnown ==
    ASSUME TypeOK, NEW w \in Workers, Known(w), GetBalance(w) PROVE Known(w)'
<1> USE DEF CreateUserSteps, CreateAccountSteps, CreateTransactionSteps
<1>1. CASE FindAllByUserId(w) /\ Goto(w, "calculateNetBalance")
  <2>1. /\ pc'[w] = "calculateNetBalance" /\ reply'[w] = reply[w]
        /\ req'[w] = req[w] /\ req[w].user # Null /\ req[w].op = "getUserBalance"
    BY <1>1 DEF TypeOK, Goto, FindAllByUserId, Known, OpFitsStep, request
  <2>2. QED
    BY <1>1, <2>1 DEF Known, OpFitsStep, UserLoaded, AccountsLoaded, FindAllByUserId
<1>2. CASE FindAccount(w) /\ ~NoAccountNumbered(w, req[w].number)
  <2>1. PICK a \in AccountsNumbered(req[w].number) :
          /\ loc' = [loc EXCEPT ![w].source = a, ![w].ids = {a.id}]
          /\ Goto(w, "calculateNetBalance")
    BY <1>2 DEF FindAccount
  <2>2. /\ pc'[w] = "calculateNetBalance" /\ reply'[w] = reply[w]
        /\ req'[w] = req[w] /\ accounts' = accounts
    BY <1>2, <2>1 DEF TypeOK, Goto, FindAccount, request, db
  <2>3. loc'[w].source = a
    BY <2>1 DEF TypeOK, Local
  <2>4. QED
    BY <1>2, <2>2, <2>3 DEF Known, OpFitsStep, UserLoaded, AccountsLoaded,
       AccountsNumbered, FindAccount
<1>3. CASE Sum(w)
  BY <1>3, AnswerKnown DEF Sum
<1>4. QED
  BY <1>1, <1>2, <1>3, AnswerKnown
  DEF GetBalance, FindAllByUserId, FindAccount, NoAccountNumbered

LEMMA IdleKnown ==
    ASSUME NEW w \in Workers, pc'[w] = "idle", reply'[w] = NoReply PROVE Known(w)'
  BY DEF Known, OpFitsStep, UserLoaded, AccountsLoaded, CreateUserSteps,
         CreateAccountSteps, CreateTransactionSteps, NoReply

LEMMA HandlingStep ==
    ASSUME TypeOK, Handling, IdsUnique, [Next]_vars PROVE Handling'
<1>1. ASSUME NEW w \in Workers, Act(w) PROVE Handling'
  <2>1. Known(w)
    BY DEF Handling, Known
  <2>2. Known(w)'
    <3>1. CASE Respond(w)
      BY <3>1, IdleKnown DEF TypeOK, Respond
    <3>2. CASE MergeUser(w)
      BY <3>2, AnswerKnown DEF MergeUser
    <3>3. CASE Fail(w)
      BY <3>3, AnswerKnown DEF Fail
    <3>4. QED
      BY <1>1, <2>1, <3>1, <3>2, <3>3, BeginKnown, CreateUserKnown, FindUserKnown,
         CreateAccountKnown, CreateTransactionKnown, GetBalanceKnown
      DEF Act, Step, UpdateUser
  <2>3. \A v \in Workers \ {w} : Known(v)'
    BY <1>1, KnownByOthers
  <2>4. QED
    BY <2>2, <2>3 DEF Handling, Known
<1>2. CASE Crash
  <2>1. \A w \in Workers : Known(w)'
    BY <1>2, IdleKnown DEF Crash
  <2>2. QED
    BY <2>1 DEF Handling, Known
<1>3. CASE UNCHANGED vars
  BY <1>3 DEF Handling, OpFitsStep, UserLoaded, AccountsLoaded, AccountsNumbered, vars
<1>4. QED
  BY <1>1, <1>2, <1>3 DEF Next, Act

--------------------------------------------------------------------------------
\* Ids.  Only the save of an entity brings a request to the step that inserts
\* it, and only that save draws from the entity's sequence.

LEMMA InsertReached ==
    ASSUME TypeOK, NEW w \in Workers, Act(w)
    PROVE  /\ pc'[w] = "insertUser" => SaveUser(w)
           /\ pc'[w] = "insertAccount" => SaveAccount(w)
           /\ pc'[w] = "insertTransaction" => SaveTransaction(w)
<1> USE DEF TypeOK, Goto, Reply, Committed
<1>1. CASE Begin(w)
  BY <1>1 DEF Begin, Entry
<1>2. CASE FindUser(w)
  BY <1>2 DEF FindUser, AfterFindUser
<1>3. CASE CreateUser(w)
  BY <1>3 DEF CreateUser, ExistsByEmail, SaveUser, InsertUser
<1>4. CASE UpdateUser(w)
  BY <1>4 DEF UpdateUser, MergeUser
<1>5. CASE CreateAccount(w)
  BY <1>5 DEF CreateAccount, ExistsByAccountNumber, SaveAccount, InsertAccount
<1>6. CASE CreateTransaction(w)
  BY <1>6 DEF CreateTransaction, FindSource, FindDestination, ToEntity,
              SaveTransaction, InsertTransaction, NoAccountNumbered
<1>7. CASE GetBalance(w)
  BY <1>7 DEF GetBalance, FindAllByUserId, FindAccount, Sum, NoAccountNumbered
<1>8. CASE Respond(w)
  BY <1>8 DEF Respond
<1>9. CASE Fail(w)
  BY <1>9 DEF Fail
<1>10. QED
  BY <1>1, <1>2, <1>3, <1>4, <1>5, <1>6, <1>7, <1>8, <1>9 DEF Act, Step

LEMMA SequenceKept ==
    ASSUME TypeOK, NEW w \in Workers, Act(w)
    PROVE  /\ ~SaveUser(w) => seq'["users"] = seq["users"]
           /\ ~SaveAccount(w) => seq'["accounts"] = seq["accounts"]
           /\ ~SaveTransaction(w) => seq'["transaction"] = seq["transaction"]
<1>1. CASE SaveUser(w) \/ SaveAccount(w) \/ SaveTransaction(w)
  BY <1>1 DEF TypeOK, Tables, SaveUser, SaveAccount, SaveTransaction, Persist
<1>2. CASE ~(SaveUser(w) \/ SaveAccount(w) \/ SaveTransaction(w))
  BY <1>2 DEF Act, Step, Begin, FindUser, CreateUser, ExistsByEmail, InsertUser,
         UpdateUser, MergeUser, CreateAccount, ExistsByAccountNumber, InsertAccount,
         CreateTransaction, FindSource, FindDestination, ToEntity,
         InsertTransaction, GetBalance, FindAllByUserId, FindAccount, Sum,
         Respond, Fail
<1>3. QED
  BY <1>1, <1>2

LEMMA UserIdsStep ==
    ASSUME IInv, NEW w \in Workers, Act(w)
    PROVE  /\ \A v \in Workers : OwnId(v, "insertUser", "users", users)'
           /\ \A r \in users' : r.id <= seq'["users"]
           /\ \A r, s \in users' : r.id = s.id => r = s
<1>1. \A v \in Workers \ {w} : pc'[v] = pc[v] /\ loc'[v] = loc[v]
  BY Frame DEF IInv
<1>2. /\ \A v \in Workers : OwnId(v, "insertUser", "users", users)
      /\ \A r \in users : r.id <= seq["users"]
      /\ \A r, s \in users : r.id = s.id => r = s
  BY DEF IInv, OwnIds, IdsDrawn, IdsUnique
<1>3. /\ seq["users"] \in Nat /\ \A v \in Workers : loc[v].id \in Nat
      /\ \A r \in users : r.id \in Nat
  BY DEF IInv, TypeOK, Tables, Local, UserRow
<1>4. CASE SaveUser(w)
  <2>1. /\ users' = users /\ seq'["users"] = seq["users"] + 1
        /\ loc'[w].id = seq["users"] + 1
    BY <1>4 DEF SaveUser, Persist, NextId, IInv, TypeOK, Tables, Local, db
  <2>2. QED
    BY <1>1, <1>2, <1>3, <2>1 DEF OwnId
<1>5. CASE InsertUser(w)
  <2>1. seq' = seq /\ pc'[w] = "respond"
    BY <1>5, AnswerKnown DEF InsertUser, IInv
  <2> DEFINE row == [id |-> loc[w].id, email |-> req[w].email, name |-> req[w].name]
  <2>2. users' = users \cup {row} /\ row.id = loc[w].id
    BY <1>5 DEF InsertUser
  <2> HIDE DEF row
  <2>3. pc[w] = "insertUser"
    BY <1>5 DEF InsertUser
  <2>4. QED
    BY <1>1, <1>2, <1>3, <2>1, <2>2, <2>3 DEF OwnId
<1>6. CASE MergeUser(w)
  <2>1. seq' = seq /\ pc'[w] = "respond"
    BY <1>6, AnswerKnown DEF MergeUser, IInv
  <2>2. RenamedUser(w).id = loc[w].user.id
    BY <1>6 DEF MergeUser, RenamedUser, UserLoaded, Handling, IInv, UserRow
  <2>3. \A r \in users' : \E u \in users :
          /\ r.id = u.id
          /\ r = u \/ (r = RenamedUser(w) /\ users' # users)
    BY <1>6, <2>2 DEF MergeUser
  <2>4. \A r, s \in users' : r.id = s.id => r = s
    BY <1>2, <1>6, <2>2 DEF MergeUser
  <2>5. QED
    BY <1>1, <1>2, <2>1, <2>3, <2>4 DEF OwnId
<1>7. CASE ~SaveUser(w) /\ ~InsertUser(w) /\ ~MergeUser(w)
  <2>1. users' = users /\ seq'["users"] = seq["users"] /\ pc'[w] # "insertUser"
    BY <1>7, UsersKept, SequenceKept, InsertReached DEF IInv
  <2>2. QED
    BY <1>1, <1>2, <2>1 DEF OwnId
<1>8. QED
  BY <1>4, <1>5, <1>6, <1>7

LEMMA AccountIdsStep ==
    ASSUME IInv, NEW w \in Workers, Act(w)
    PROVE  /\ \A v \in Workers : OwnId(v, "insertAccount", "accounts", accounts)'
           /\ \A r \in accounts' : r.id <= seq'["accounts"]
           /\ \A r, s \in accounts' : r.id = s.id => r = s
<1>1. \A v \in Workers \ {w} : pc'[v] = pc[v] /\ loc'[v] = loc[v]
  BY Frame DEF IInv
<1>2. /\ \A v \in Workers : OwnId(v, "insertAccount", "accounts", accounts)
      /\ \A r \in accounts : r.id <= seq["accounts"]
      /\ \A r, s \in accounts : r.id = s.id => r = s
  BY DEF IInv, OwnIds, IdsDrawn, IdsUnique
<1>3. /\ seq["accounts"] \in Nat /\ \A v \in Workers : loc[v].id \in Nat
      /\ \A r \in accounts : r.id \in Nat
  BY DEF IInv, TypeOK, Tables, Local, AccountRow
<1>4. CASE SaveAccount(w)
  <2>1. /\ accounts' = accounts /\ seq'["accounts"] = seq["accounts"] + 1
        /\ loc'[w].id = seq["accounts"] + 1
    BY <1>4 DEF SaveAccount, Persist, NextId, IInv, TypeOK, Tables, Local, db
  <2>2. QED
    BY <1>1, <1>2, <1>3, <2>1 DEF OwnId
<1>5. CASE InsertAccount(w)
  <2>1. seq' = seq /\ pc'[w] = "respond" /\ pc[w] = "insertAccount"
    BY <1>5, AnswerKnown DEF InsertAccount, IInv
  <2>2. PICK row : accounts' \subseteq accounts \cup {row} /\ row.id = loc[w].id
    BY <1>5 DEF InsertAccount
  <2>3. QED
    BY <1>1, <1>2, <1>3, <2>1, <2>2 DEF OwnId
<1>6. CASE ~SaveAccount(w) /\ ~InsertAccount(w)
  <2>1. /\ accounts' = accounts /\ seq'["accounts"] = seq["accounts"]
        /\ pc'[w] # "insertAccount"
    BY <1>6, AccountsKept, SequenceKept, InsertReached DEF IInv
  <2>2. QED
    BY <1>1, <1>2, <2>1 DEF OwnId
<1>7. QED
  BY <1>4, <1>5, <1>6

LEMMA TransactionIdsStep ==
    ASSUME IInv, NEW w \in Workers, Act(w)
    PROVE  /\ \A v \in Workers : OwnId(v, "insertTransaction", "transaction", txns)'
           /\ \A r \in txns' : r.id <= seq'["transaction"]
           /\ \A r, s \in txns' : r.id = s.id => r = s
<1>1. \A v \in Workers \ {w} : pc'[v] = pc[v] /\ loc'[v] = loc[v]
  BY Frame DEF IInv
<1>2. /\ \A v \in Workers : OwnId(v, "insertTransaction", "transaction", txns)
      /\ \A r \in txns : r.id <= seq["transaction"]
      /\ \A r, s \in txns : r.id = s.id => r = s
  BY DEF IInv, OwnIds, IdsDrawn, IdsUnique
<1>3. /\ seq["transaction"] \in Nat /\ \A v \in Workers : loc[v].id \in Nat
      /\ \A r \in txns : r.id \in Nat
  BY DEF IInv, TypeOK, Tables, Local, TxnRow
<1>4. CASE SaveTransaction(w)
  <2>1. /\ txns' = txns /\ seq'["transaction"] = seq["transaction"] + 1
        /\ loc'[w].id = seq["transaction"] + 1
    BY <1>4 DEF SaveTransaction, Persist, NextId, IInv, TypeOK, Tables, Local, db
  <2>2. QED
    BY <1>1, <1>2, <1>3, <2>1 DEF OwnId
<1>5. CASE InsertTransaction(w)
  <2>1. seq' = seq /\ pc'[w] = "respond" /\ pc[w] = "insertTransaction"
    BY <1>5, AnswerKnown DEF InsertTransaction, IInv
  <2>2. txns' = txns \cup {EntityOf(w)} /\ EntityOf(w).id = loc[w].id
    BY <1>5 DEF InsertTransaction, EntityOf
  <2>3. QED
    BY <1>1, <1>2, <1>3, <2>1, <2>2 DEF OwnId
<1>6. CASE ~SaveTransaction(w) /\ ~InsertTransaction(w)
  <2>1. /\ txns' = txns /\ seq'["transaction"] = seq["transaction"]
        /\ pc'[w] # "insertTransaction"
    BY <1>6, TxnsKept, SequenceKept, InsertReached DEF IInv
  <2>2. QED
    BY <1>1, <1>2, <2>1 DEF OwnId
<1>7. QED
  BY <1>4, <1>5, <1>6

\* Users are found by id, so ids tell them apart.
LEMMA IdsStep ==
    ASSUME IInv, [Next]_vars PROVE OwnIds' /\ IdsDrawn' /\ IdsUnique'
<1>1. ASSUME NEW w \in Workers, Act(w) PROVE OwnIds' /\ IdsDrawn' /\ IdsUnique'
  BY <1>1, UserIdsStep, AccountIdsStep, TransactionIdsStep DEF OwnIds, IdsDrawn, IdsUnique
<1>2. CASE Crash
  BY <1>2 DEF Crash, IInv, OwnIds, OwnId, IdsDrawn, IdsUnique, db
<1>3. CASE UNCHANGED vars
  BY <1>3 DEF IInv, OwnIds, OwnId, IdsDrawn, IdsUnique, vars
<1>4. QED
  BY <1>1, <1>2, <1>3 DEF Next, Act

--------------------------------------------------------------------------------
\* What is promised of the tables and of the answers.

LEMMA NumbersStep ==
    ASSUME UniqueNumbers, [Next]_vars PROVE UniqueNumbers'
<1>1. ASSUME NEW w \in Workers, InsertAccount(w) PROVE UniqueNumbers'
  BY <1>1 DEF UniqueNumbers, InsertAccount, NumberConstraint
<1>2. CASE UNCHANGED accounts
  BY <1>2 DEF UniqueNumbers
<1>3. QED
  BY <1>1, <1>2, AccountsKept DEF Next, Act, Crash, vars, db

LEMMA BackedStep ==
    ASSUME IInv, [Next]_vars PROVE EntriesBacked'
<1>1. ASSUME NEW w \in Workers, Act(w) PROVE EntriesBacked'
  <2>1. /\ accounts \subseteq accounts'
        /\ \A u \in users : \E v \in users' : v.id = u.id /\ v.email = u.email
    BY <1>1, RowsStay DEF IInv
  <2>2. ASSUME NEW a \in accounts' PROVE \E u \in users' : u.id = a.user
    <3>1. CASE a \in accounts
      BY <2>1, <3>1 DEF IInv, EntriesBacked
    <3>2. CASE a \notin accounts
      <4>1. InsertAccount(w) /\ a.user = loc[w].user.id
        BY <1>1, <3>2, AccountsKept DEF InsertAccount
      <4>2. \E u \in users : u.id = loc[w].user.id
        BY <4>1 DEF IInv, Handling, UserLoaded, InsertAccount, CreateAccountSteps
      <4>3. QED
        BY <2>1, <4>1, <4>2
    <3>3. QED
      BY <3>1, <3>2
  <2>3. ASSUME NEW t \in txns'
        PROVE  \E s, d \in accounts' : s.id = t.source /\ d.id = t.destination
    <3>1. CASE t \in txns
      BY <2>1, <3>1 DEF IInv, EntriesBacked
    <3>2. CASE t \notin txns
      <4>1. InsertTransaction(w) /\ t = EntityOf(w)
        BY <1>1, <3>2, TxnsKept DEF InsertTransaction
      <4>2. loc[w].source \in accounts /\ loc[w].destination \in accounts
        BY <4>1 DEF IInv, Handling, AccountsLoaded, AccountsNumbered, InsertTransaction,
           CreateTransactionSteps
      <4>3. QED
        BY <2>1, <4>1, <4>2 DEF EntityOf
    <3>3. QED
      BY <3>1, <3>2
  <2>4. QED
    BY <2>2, <2>3 DEF EntriesBacked
<1>2. CASE UNCHANGED db
  BY <1>2 DEF IInv, EntriesBacked, db
<1>3. QED
  BY <1>1, <1>2 DEF Next, Act, Crash, vars, db

LEMMA ReplySet ==
    ASSUME TypeOK, NEW w \in Workers, NEW code, NEW id, Reply(w, code, id)
    PROVE  reply'[w].code = code /\ reply'[w].id = id
  BY DEF TypeOK, Reply

\* Which steps give the answers that claim something of the tables.
LEMMA AnswerFrom ==
    ASSUME TypeOK, NEW w \in Workers, Known(w), Act(w)
    PROVE  /\ reply'[w].code = "CREATED" =>
                \/ pc[w] = "respond" /\ reply'[w] = reply[w]
                \/ /\ InsertUser(w) \/ InsertAccount(w) \/ InsertTransaction(w)
                   /\ reply'[w].id = loc[w].id
           /\ reply'[w].code = "USER_ALREADY_EXISTS" => ExistsByEmail(w)
           /\ reply'[w].code = "ACCOUNT_ALREADY_EXISTS" => ExistsByAccountNumber(w)
<1> USE DEF TypeOK, Goto, Reply, Committed, Known, OpFitsStep
<1>1. CASE Begin(w)
  BY <1>1 DEF Begin
<1>2. CASE FindUser(w)
  BY <1>2 DEF FindUser
<1>3. CASE CreateUser(w)
  BY <1>3 DEF CreateUser, ExistsByEmail, SaveUser, InsertUser
<1>4. CASE UpdateUser(w)
  BY <1>4 DEF UpdateUser, MergeUser
<1>5. CASE CreateAccount(w)
  BY <1>5 DEF CreateAccount, ExistsByAccountNumber, SaveAccount, InsertAccount
<1>6. CASE CreateTransaction(w)
  BY <1>6 DEF CreateTransaction, FindSource, FindDestination, ToEntity,
              SaveTransaction, InsertTransaction, NoAccountNumbered
<1>7. CASE GetBalance(w)
  <2> HIDE DEF TypeOK, Reply, Goto, Committed, Known, OpFitsStep
  <2>1. Goto(w, "calculateNetBalance") => reply' = reply
    BY DEF Goto
  <2>2. pc[w] # "respond" => reply[w].code = "NONE"
    BY DEF Known, OpFitsStep
  <2>3. CASE FindAllByUserId(w)
    <3>1. Reply(w, "OK", req[w].user) \/ Goto(w, "calculateNetBalance")
      BY <2>3 DEF FindAllByUserId
    <3>2. pc[w] # "respond"
      BY <2>3 DEF FindAllByUserId
    <3>3. reply'[w].code \in {"OK", "NONE"}
      BY <2>1, <2>2, <3>1, <3>2, ReplySet
    <3>4. QED
      BY <3>3
  <2>4. CASE FindAccount(w)
    <3>1. Reply(w, "ACCOUNT_NOT_FOUND", 0) \/ Goto(w, "calculateNetBalance")
      BY <2>4 DEF FindAccount, NoAccountNumbered
    <3>2. pc[w] # "respond"
      BY <2>4 DEF FindAccount
    <3>3. reply'[w].code \in {"ACCOUNT_NOT_FOUND", "NONE"}
      BY <2>1, <2>2, <3>1, <3>2, ReplySet
    <3>4. QED
      BY <3>3
  <2>5. CASE Sum(w)
    <3>1. reply'[w].code = "OK"
      BY <2>5, ReplySet DEF Sum
    <3>2. QED
      BY <3>1
  <2>6. QED
    BY <1>7, <2>3, <2>4, <2>5 DEF GetBalance
<1>8. CASE Respond(w)
  BY <1>8 DEF Respond, NoReply
<1>9. CASE Fail(w)
  BY <1>9 DEF Fail, Statements
<1>10. QED
  BY <1>1, <1>2, <1>3, <1>4, <1>5, <1>6, <1>7, <1>8, <1>9 DEF Act, Step

LEMMA AnswersStep ==
    ASSUME IInv, [Next]_vars PROVE AnswersHold'
<1>1. ASSUME NEW w \in Workers, Act(w) PROVE AnswersHold'
  <2>1. /\ accounts \subseteq accounts' /\ txns \subseteq txns'
        /\ \A u \in users : \E v \in users' : v.id = u.id /\ v.email = u.email
    BY <1>1, RowsStay DEF IInv
  <2>2. ASSUME NEW v \in Workers \ {w} PROVE AnswerTrue(v)'
    <3>1. reply'[v] = reply[v] /\ req'[v] = req[v]
      BY <1>1, Frame DEF IInv
    <3>2. AnswerTrue(v)
      BY DEF IInv, AnswersHold
    <3>3. QED
      BY <2>1, <3>1, <3>2 DEF AnswerTrue, AccountsNumbered
  <2>3. AnswerTrue(w)'
    <3>1. Known(w)
      BY DEF IInv, Handling, Known
    <3>2. CASE InsertUser(w)
      <4>1. /\ req'[w] = req[w] /\ req[w].op = "createUser"
            /\ [id |-> loc[w].id, email |-> req[w].email, name |-> req[w].name] \in users'
        BY <3>1, <3>2 DEF Known, OpFitsStep, InsertUser, CreateUserSteps, request
      <4>2. reply'[w] = [code |-> "CREATED", id |-> loc[w].id] \/ reply'[w].code = "INTERNAL_ERROR"
        BY <3>2 DEF InsertUser, Committed, Reply, IInv, TypeOK
      <4>3. QED
        BY <4>1, <4>2 DEF AnswerTrue
    <3>3. CASE InsertAccount(w)
      <4>1. req'[w] = req[w] /\ req[w].op = "createAccount" /\ loc[w].user.id = req[w].user
        BY <3>1, <3>3 DEF Known, OpFitsStep, UserLoaded, InsertAccount, CreateAccountSteps, request
      <4>2. \/ /\ reply'[w] = [code |-> "CREATED", id |-> loc[w].id]
               /\ [id |-> loc[w].id, number |-> req[w].number,
                   user |-> loc[w].user.id] \in accounts'
            \/ reply'[w].code = "INTERNAL_ERROR"
        BY <3>3 DEF InsertAccount, Committed, Reply, IInv, TypeOK
      <4>3. QED
        BY <4>1, <4>2 DEF AnswerTrue
    <3>4. CASE InsertTransaction(w)
      <4>1. /\ req'[w] = req[w] /\ req[w].op = "createTransaction"
            /\ EntityOf(w) \in txns' /\ accounts' = accounts
            /\ loc[w].source \in accounts /\ loc[w].source.number = req[w].source
            /\ loc[w].destination \in accounts
            /\ loc[w].destination.number = req[w].destination
        BY <3>1, <3>4 DEF Known, OpFitsStep, AccountsLoaded, AccountsNumbered,
           InsertTransaction, CreateTransactionSteps, request
      <4>2. reply'[w] = [code |-> "CREATED", id |-> loc[w].id] \/ reply'[w].code = "INTERNAL_ERROR"
        BY <3>4 DEF InsertTransaction, Committed, Reply, IInv, TypeOK
      <4>3. QED
        BY <4>1, <4>2 DEF AnswerTrue, EntityOf
    <3>5. CASE ExistsByEmail(w)
      <4>1. req'[w] = req[w] /\ users' = users
        BY <3>5 DEF ExistsByEmail, request, db
      <4>2. \/ reply'[w].code = "USER_ALREADY_EXISTS" /\ \E u \in users : u.email = req[w].email
            \/ reply'[w].code = "NONE"
        BY <3>1, <3>5 DEF ExistsByEmail, Goto, Reply, IInv, TypeOK, Known, OpFitsStep
      <4>3. QED
        BY <4>1, <4>2 DEF AnswerTrue
    <3>6. CASE ExistsByAccountNumber(w)
      <4>1. req'[w] = req[w] /\ accounts' = accounts
        BY <3>6 DEF ExistsByAccountNumber, request, db
      <4>2. \/ /\ reply'[w].code = "ACCOUNT_ALREADY_EXISTS"
               /\ \E a \in accounts : a.number = req[w].number
            \/ reply'[w].code = "NONE"
        BY <3>1, <3>6 DEF ExistsByAccountNumber, Goto, Reply, IInv, TypeOK, Known, OpFitsStep
      <4>3. QED
        BY <4>1, <4>2 DEF AnswerTrue, AccountsNumbered
    <3>7. CASE ~(\/ InsertUser(w) \/ InsertAccount(w) \/ InsertTransaction(w)
                \/ ExistsByEmail(w) \/ ExistsByAccountNumber(w))
      <4>1. pc[w] # "respond" \/ reply'[w].code = "NONE"
        BY <1>1 DEF IInv, TypeOK, Act, Step, Begin, FindUser, CreateUser, ExistsByEmail,
           SaveUser, InsertUser, UpdateUser, MergeUser, CreateAccount,
           ExistsByAccountNumber, SaveAccount, InsertAccount, CreateTransaction,
           FindSource, FindDestination, ToEntity, SaveTransaction, InsertTransaction,
           GetBalance, FindAllByUserId, FindAccount, Sum, Respond, Fail, Statements, NoReply
      <4>2. QED
        BY <1>1, <3>1, <3>7, <4>1, AnswerFrom DEF AnswerTrue, IInv
    <3>8. QED
      BY <3>2, <3>3, <3>4, <3>5, <3>6, <3>7
  <2>4. QED
    BY <2>2, <2>3 DEF AnswersHold
<1>2. CASE Crash
  BY <1>2 DEF Crash, AnswersHold, AnswerTrue, NoReply
<1>3. CASE UNCHANGED vars
  BY <1>3 DEF IInv, AnswersHold, AnswerTrue, AccountsNumbered, vars
<1>4. QED
  BY <1>1, <1>2, <1>3 DEF Next, Act

--------------------------------------------------------------------------------
\* The inductive invariant, and the theorems.

LEMMA Inductive ==
    ASSUME IInv, [Next]_vars PROVE IInv'
<1>1. TypeOK' /\ Handling'
  BY TypeStep, HandlingStep DEF IInv
<1>2. OwnIds' /\ IdsDrawn' /\ IdsUnique'
  BY IdsStep
<1>3. UniqueNumbers' /\ EntriesBacked' /\ AnswersHold'
  BY NumbersStep, BackedStep, AnswersStep DEF IInv
<1>4. QED
  BY <1>1, <1>2, <1>3 DEF IInv

LEMMA InitInv == Init => IInv
<1> SUFFICES ASSUME Init PROVE IInv
  OBVIOUS
<1>1. TypeOK
  <2>1. NoRequest \in Request /\ NoLocal \in Local
    BY DEF NoRequest, AccountRequest, Request, Ops, ReadOps, NoLocal, Local
  <2>2. NoReply \in [code: Codes, id: Nat]
    BY DEF NoReply, Codes
  <2>3. QED
    BY <2>1, <2>2 DEF Init, TypeOK, PCs
<1>2. Handling
  BY DEF Init, Handling, OpFitsStep, UserLoaded, AccountsLoaded, CreateUserSteps,
     CreateAccountSteps, CreateTransactionSteps, NoReply
<1>3. OwnIds /\ IdsDrawn /\ IdsUnique
  BY DEF Init, OwnIds, OwnId, IdsDrawn, IdsUnique
<1>4. UniqueNumbers /\ EntriesBacked /\ AnswersHold
  BY DEF Init, UniqueNumbers, EntriesBacked, AnswersHold, AnswerTrue, NoReply
<1>5. QED
  BY <1>1, <1>2, <1>3, <1>4 DEF IInv

\* Every reachable state satisfies the inductive invariant.
THEOREM Invariance == Spec => []IInv
<1>1. Init => IInv
  BY InitInv
<1>2. IInv /\ [Next]_vars => IInv'
  BY Inductive
<1>3. QED
  BY <1>1, <1>2, PTL DEF Spec

\* Tables, sequences, requests and answers keep their types: no handler stores
\* a null account number, or builds a row from an account it did not load.
THEOREM TypeCorrect == Spec => []TypeOK
<1>1. IInv => TypeOK
  BY DEF IInv
<1>2. QED
  BY <1>1, Invariance, PTL

\* One account per number, for any number of concurrent createAccount requests.
THEOREM NumbersUnique == Spec => []UniqueNumbers
<1>1. IInv => UniqueNumbers
  BY DEF IInv
<1>2. QED
  BY <1>1, Invariance, PTL

\* One row per id in each table, whatever order the rows are committed in.
THEOREM IdsAreUnique == Spec => []IdsUnique
<1>1. IInv => IdsUnique
  BY DEF IInv
<1>2. QED
  BY <1>1, Invariance, PTL

\* Accounts have owners and transactions have both their accounts.
THEOREM EntriesAreBacked == Spec => []EntriesBacked
<1>1. IInv => EntriesBacked
  BY DEF IInv
<1>2. QED
  BY <1>1, Invariance, PTL

\* What an answer claims of the tables is so.
THEOREM AnswersAreTrue == Spec => []AnswersHold
<1>1. IInv => AnswersHold
  BY DEF IInv
<1>2. QED
  BY <1>1, Invariance, PTL

================================================================================
