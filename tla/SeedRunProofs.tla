----------------------------- MODULE SeedRunProofs -----------------------------
(****************************************************************************)
(* Proofs about SeedRun, for any number of instances, accounts, runs and    *)
(* transactions: no database is seeded twice, and success is reported once, *)
(* by a run that has created everything.                                    *)
(****************************************************************************)
EXTENDS SeedRun, TLAPS

\* What a POST does, told by the run's next stage: the row is new and the run
\* goes on, or the run stops and the row may be stored, land later, or neither.
LEMMA PostOutcomes ==
    ASSUME NEW row, NEW s, NEW i, NEW k, Post(row, s, i, k)
    PROVE  /\ completed' = completed
           /\ rows \subseteq rows' /\ late \subseteq late'
           /\ rows' \subseteq rows \cup {row} /\ late' \subseteq late \cup {row}
           /\ \/ /\ ~Taken(row) /\ row \in rows'
                 /\ stage' = s /\ inst' = i /\ slot' = k
              \/ stage' = "off" /\ inst' = inst /\ slot' = slot
BY DEF Post, Answered, Failed, Goto, Stop

--------------------------------------------------------------------------------
\* Types

LEMMA NewRowTyped ==
    ASSUME TypeOK, NEW t \in Tables PROVE NewRow(t) \in Row
BY DEF TypeOK, NewRow, Row

LEMMA TypeInit == ASSUME SeedRunAssumption, Init PROVE TypeOK
BY DEF SeedRunAssumption, Init, TypeOK, Stages, Row

LEMMA PostTyped ==
    ASSUME TypeOK, NEW row \in Row,
           NEW s \in Stages, NEW i \in 1 .. Instances, NEW k \in Nat,
           Post(row, s, i, k), numbers' = numbers, run' = run
    PROVE  TypeOK'
<1>1. stage' \in Stages /\ inst' \in 1 .. Instances /\ slot' \in Nat
  BY PostOutcomes DEF TypeOK, Stages
<1>2. rows' \subseteq Row /\ late' \subseteq Row /\ completed' \subseteq Nat
  BY PostOutcomes DEF TypeOK
<1>. QED BY <1>1, <1>2 DEF TypeOK

LEMMA TypeStep ==
    ASSUME SeedRunAssumption, TypeOK, [Next]_vars PROVE TypeOK'
<1>. USE SeedRunAssumption
<1>1. CASE Start
  BY <1>1 DEF TypeOK, Start, Goto, Stages, SeedRunAssumption
<1>2. CASE ClearDB
  <2>1. /\ stage' \in Stages /\ inst' = inst /\ slot' \in {slot, 0}
        /\ rows' \subseteq rows /\ UNCHANGED <<numbers, run, late, completed>>
    BY <1>2 DEF ClearDB, Goto, Stop, Stages
  <2>. QED BY <2>1 DEF TypeOK
<1>3. CASE CreateUser
  <2>1. NewRow("users") \in Row
    BY NewRowTyped DEF Tables
  <2>2. Post(NewRow("users"), "account", inst, 1) /\ numbers' = numbers /\ run' = run
    BY <1>3 DEF CreateUser
  <2>. QED BY <2>1, <2>2, PostTyped DEF TypeOK, Stages
<1>4. CASE CreateAccount
  <2>1. NewRow("accounts") \in Row
    BY NewRowTyped DEF Tables
  <2>2. numbers' = numbers /\ run' = run
    BY <1>4 DEF CreateAccount
  <2>3. CASE Post(NewRow("accounts"), "account", inst, slot + 1)
    BY <2>1, <2>2, <2>3, PostTyped DEF TypeOK, Stages
  <2>4. CASE Post(NewRow("accounts"), "transactions", inst, 1)
    BY <2>1, <2>2, <2>4, PostTyped DEF TypeOK, Stages
  <2>. QED BY <1>4, <2>3, <2>4 DEF CreateAccount
<1>5. CASE CreateTransaction
  <2>1. NewRow("transaction") \in Row
    BY NewRowTyped DEF Tables
  <2>2. /\ Post(NewRow("transaction"), "transactions", inst, slot + 1)
        /\ numbers' = numbers /\ run' = run
    BY <1>5 DEF CreateTransaction
  <2>. QED BY <2>1, <2>2, PostTyped DEF TypeOK, Stages
<1>6. CASE EndInstance
  <2>1. /\ stage' \in Stages /\ slot' \in {slot, 0}
        /\ inst' = inst \/ (inst # Instances /\ inst' = inst + 1)
        /\ completed' \subseteq completed \cup {run}
        /\ UNCHANGED <<numbers, run, rows, late>>
    BY <1>6 DEF EndInstance, IsLast, Goto, Stop, Stages
  <2>2. inst' \in 1 .. Instances
    BY <2>1 DEF TypeOK, SeedRunAssumption
  <2>. QED BY <2>1, <2>2 DEF TypeOK
<1>7. CASE Land
  BY <1>7 DEF TypeOK, Land
<1>8. CASE UNCHANGED vars
  BY <1>8 DEF TypeOK, vars
<1>. QED BY <1>1, <1>2, <1>3, <1>4, <1>5, <1>6, <1>7, <1>8 DEF Next

--------------------------------------------------------------------------------
\* The gate

\* A row is added by a run that is past the gate if it is a transaction, or
\* moves from the requests still being handled to the table.
LEMMA RowAdded ==
    ASSUME Gated, NEW row,
           row.table = "transaction" => PastGate /\ row.run = run,
           rows \subseteq rows', completed' = completed,
           rows' \cup late' \subseteq rows \cup late \cup {row}
    PROVE  /\ FirstUser => FirstUser'
           /\ Transactions(rows' \cup late') # {} \/ completed' # {} => FirstUser'
           /\ PastGate => \A r \in Transactions(rows' \cup late') : r.run = run
           /\ \A r, s \in Transactions(rows' \cup late') : r.run = s.run
<1>1. FirstUser => FirstUser'
  BY DEF FirstUser
<1>2. \A r \in Transactions(rows' \cup late') :
        r \in Transactions(rows \cup late) \/ (PastGate /\ r.run = run)
  BY DEF Transactions
<1>3. PastGate => \A r \in Transactions(rows' \cup late') : r.run = run
  <2>1. PastGate => \A r \in Transactions(rows \cup late) : r.run = run
    BY DEF Gated
  <2>. QED BY <1>2, <2>1
<1>4. \A r, s \in Transactions(rows' \cup late') : r.run = s.run
  <2>1. CASE PastGate
    BY <1>3, <2>1
  <2>2. CASE ~PastGate
    BY <1>2, <2>2 DEF Gated
  <2>. QED BY <2>1, <2>2
<1>5. Transactions(rows' \cup late') # {} \/ completed' # {} => FirstUser
  BY <1>2 DEF Gated
<1>. QED BY <1>1, <1>3, <1>4, <1>5

\* The steps that post a row and keep the run where PastGate says it is.
LEMMA PostPastGate ==
    ASSUME Gated, PastGate, run' = run,
           NEW row, row.table = "transaction" => row.run = run,
           NEW s \in {"account", "transactions"}, NEW i, NEW k, Post(row, s, i, k)
    PROVE  Gated'
<1>1. /\ FirstUser => FirstUser'
      /\ Transactions(rows' \cup late') # {} \/ completed' # {} => FirstUser'
      /\ \A r \in Transactions(rows' \cup late') : r.run = run
      /\ \A r, t \in Transactions(rows' \cup late') : r.run = t.run
  BY RowAdded, PostOutcomes
<1>2. FirstUser' /\ completed' = {}
  BY <1>1, PostOutcomes DEF Gated
<1>3. stage' # "clear"
  BY PostOutcomes
<1>. QED BY <1>1, <1>2, <1>3 DEF Gated, Transactions

LEMMA GatedStep ==
    ASSUME SeedRunAssumption, TypeOK, Gated, [Next]_vars PROVE Gated'
<1>1. CASE Start
  <2>1. stage' = "clear" /\ inst' = 1 /\ UNCHANGED <<rows, late, completed>>
    BY <1>1 DEF Start, Goto
  <2>. QED BY <2>1 DEF Gated, PastGate, FirstUser, Transactions
<1>2. CASE ClearDB
  <2>1. /\ stage' = "user" \/ stage' = "off"
        /\ inst' = 1 /\ UNCHANGED <<rows, late, completed>>
    BY <1>2 DEF ClearDB, Goto, Stop, Truncated, Tables, Gated
  <2>. QED BY <2>1 DEF Gated, PastGate, FirstUser, Transactions
<1>3. CASE CreateUser
  <2>. DEFINE row == NewRow("users")
  <2>1. row.table = "users" /\ row.inst = inst /\ Post(row, "account", inst, 1)
        /\ stage = "user" /\ run' = run
    BY <1>3 DEF CreateUser, NewRow
  <2>. HIDE DEF row
  <2>2. CASE inst > 1
    BY <2>1, <2>2, PostPastGate DEF PastGate
  <2>3. CASE inst = 1
    <3>1. /\ FirstUser => FirstUser'
          /\ Transactions(rows' \cup late') # {} \/ completed' # {} => FirstUser'
          /\ \A r, s \in Transactions(rows' \cup late') : r.run = s.run
      BY <2>1, RowAdded, PostOutcomes
    <3>2. CASE stage' = "off"
      BY <3>1, <3>2 DEF Gated, PastGate, Transactions
    <3>3. CASE stage' # "off"
      <4>1. ~Taken(row) /\ row \in rows' /\ stage' = "account"
            /\ completed' = completed
        BY <2>1, <3>3, PostOutcomes
      <4>2. ~FirstUser
        BY <2>1, <2>3, <4>1 DEF Taken, FirstUser
      <4>3. completed' = {} /\ Transactions(rows \cup late) = {}
        BY <4>1, <4>2 DEF Gated
      <4>4. Transactions(rows' \cup late') = {}
        <5>1. rows' \cup late' \subseteq rows \cup late \cup {row}
          BY <2>1, PostOutcomes
        <5>. QED BY <2>1, <4>3, <5>1 DEF Transactions
      <4>5. FirstUser'
        BY <2>1, <2>3, <4>1 DEF FirstUser
      <4>. QED BY <4>1, <4>3, <4>4, <4>5 DEF Gated, Transactions
    <3>. QED BY <3>2, <3>3
  <2>. QED BY <2>2, <2>3 DEF TypeOK
<1>4. CASE CreateAccount
  <2>1. NewRow("accounts").table # "transaction"
    BY DEF NewRow
  <2>2. PastGate /\ run' = run
    BY <1>4 DEF CreateAccount, PastGate
  <2>3. \/ Post(NewRow("accounts"), "account", inst, slot + 1)
        \/ Post(NewRow("accounts"), "transactions", inst, 1)
    BY <1>4 DEF CreateAccount
  <2>. QED BY <2>1, <2>2, <2>3, PostPastGate
<1>5. CASE CreateTransaction
  <2>1. NewRow("transaction").run = run
    BY DEF NewRow
  <2>2. PastGate /\ run' = run
    BY <1>5 DEF CreateTransaction, PastGate
  <2>3. Post(NewRow("transaction"), "transactions", inst, slot + 1)
    BY <1>5 DEF CreateTransaction
  <2>. QED BY <2>1, <2>2, <2>3, PostPastGate
<1>6. CASE EndInstance
  <2>1. PastGate /\ UNCHANGED <<run, rows, late>>
    BY <1>6 DEF EndInstance, PastGate
  <2>2. FirstUser' /\ stage' # "clear"
        /\ (stage' \notin {"off"} => completed' = completed)
    BY <1>6, <2>1 DEF EndInstance, Goto, Stop, Gated, FirstUser
  <2>. QED BY <2>1, <2>2 DEF Gated, PastGate, Transactions
<1>7. CASE Land
  <2>1. PICK row \in late : late' = late \ {row} /\ (rows' = rows \/ rows' = rows \cup {row})
                            /\ UNCHANGED <<run, stage, inst, completed>>
    BY <1>7 DEF Land
  <2>2. Transactions(rows' \cup late') \subseteq Transactions(rows \cup late)
    BY <2>1 DEF Transactions
  <2>3. FirstUser => FirstUser'
    BY <2>1 DEF FirstUser
  <2>. QED BY <2>1, <2>2, <2>3 DEF Gated, PastGate, Transactions
<1>8. CASE UNCHANGED vars
  BY <1>8 DEF Gated, PastGate, FirstUser, Transactions, vars
<1>. QED BY <1>1, <1>2, <1>3, <1>4, <1>5, <1>6, <1>7, <1>8 DEF Next

--------------------------------------------------------------------------------
\* No transaction is left to land behind a run that may still report success, or
\* has: the first run to pass the gate finds none, and one given up on stops it.
LEMMA NoneLateStep ==
    ASSUME SeedRunAssumption, TypeOK, Gated, NoneLate, [Next]_vars
    PROVE  NoneLate'
<1>1. CASE Start \/ ClearDB
  <2>1. ~PastGate' /\ UNCHANGED <<late, completed>>
    <3>1. CASE Start
      BY <3>1 DEF Start, Goto, PastGate
    <3>2. CASE ClearDB
      <4>1. /\ stage' = "user" \/ stage' = "off"
            /\ inst' = inst /\ inst = 1 /\ UNCHANGED <<late, completed>>
        BY <3>2 DEF ClearDB, Goto, Stop, Gated
      <4>. QED BY <4>1 DEF PastGate
    <3>. QED BY <1>1, <3>1, <3>2
  <2>. QED BY <2>1 DEF NoneLate, Transactions
<1>2. CASE CreateUser
  <2>. DEFINE row == NewRow("users")
  <2>1. row.table = "users" /\ row.inst = inst /\ Post(row, "account", inst, 1)
        /\ stage = "user"
    BY <1>2 DEF CreateUser, NewRow
  <2>. HIDE DEF row
  <2>2. Transactions(late') = Transactions(late) /\ completed' = completed
    BY <2>1, PostOutcomes DEF Transactions
  <2>3. CASE PastGate \/ completed # {}
    BY <2>2, <2>3 DEF NoneLate, Transactions
  <2>4. CASE ~PastGate /\ completed = {}
    <3>1. inst = 1
      BY <2>1, <2>4 DEF PastGate, TypeOK
    <3>2. CASE stage' = "off"
      BY <2>2, <2>4, <3>2 DEF NoneLate, PastGate
    <3>3. CASE stage' # "off"
      <4>1. ~FirstUser
        BY <2>1, <3>1, <3>3, PostOutcomes DEF Taken, FirstUser
      <4>2. Transactions(late) = {}
        BY <4>1 DEF Gated, Transactions
      <4>. QED BY <2>2, <4>2 DEF NoneLate, Transactions
    <3>. QED BY <3>2, <3>3
  <2>. QED BY <2>3, <2>4
<1>3. CASE CreateAccount \/ CreateTransaction
  <2>1. PastGate /\ completed' = completed /\ completed = {}
    BY <1>3, PostOutcomes DEF CreateAccount, CreateTransaction, PastGate, Gated
  <2>2. stage' = "off" \/ late' = late
    BY <1>3 DEF CreateAccount, CreateTransaction, Post, Answered, Stop
  <2>. QED BY <2>1, <2>2 DEF NoneLate, PastGate, Transactions
<1>4. CASE EndInstance
  <2>1. PastGate /\ late' = late
    BY <1>4 DEF EndInstance, PastGate
  <2>. QED BY <2>1 DEF NoneLate, Transactions
<1>5. CASE Land \/ UNCHANGED vars
  <2>1. late' \subseteq late /\ UNCHANGED <<stage, inst, completed>>
    BY <1>5 DEF Land, vars
  <2>. QED BY <2>1 DEF NoneLate, PastGate, Transactions
<1>. QED BY <1>1, <1>2, <1>3, <1>4, <1>5 DEF Next

--------------------------------------------------------------------------------
\* What a run has created

\* Nothing is ever taken out of the tables: ClearDB fails.
LEMMA RowsStay ==
    ASSUME [Next]_vars PROVE rows \subseteq rows'
<1>1. CASE CreateUser \/ CreateTransaction
  BY <1>1, PostOutcomes DEF CreateUser, CreateTransaction
<1>2. CASE CreateAccount
  BY <1>2, PostOutcomes DEF CreateAccount
<1>3. CASE Start \/ EndInstance \/ Land \/ UNCHANGED vars
  BY <1>3 DEF Start, EndInstance, Land, vars
<1>4. CASE ClearDB
  BY <1>4 DEF ClearDB, Truncated, Tables
<1>. QED BY <1>1, <1>2, <1>3, <1>4 DEF Next

LEMMA StaysCreated ==
    ASSUME NEW S, NEW T, S \subseteq T, NEW i, NEW c
    PROVE  /\ HasUser(S, i, c) => HasUser(T, i, c)
           /\ \A k : HasAccount(S, i, k, c) => HasAccount(T, i, k, c)
           /\ Whole(S, i, c) => Whole(T, i, c)
BY DEF HasUser, HasAccount, Whole

\* Progress survives a step in which the run stays where it is.
LEMMA ProgressStays ==
    ASSUME Progress, rows \subseteq rows', UNCHANGED <<run, stage, inst, slot>>
    PROVE  Progress'
BY StaysCreated DEF Progress

LEMMA ProgressStep ==
    ASSUME SeedRunAssumption, TypeOK, Gated, Progress, [Next]_vars
    PROVE  Progress'
<1>. rows \subseteq rows'
  BY RowsStay
<1>1. CASE stage' \in {"off", "clear"}
  BY <1>1 DEF Progress
<1>2. CASE ClearDB /\ stage' \notin {"off", "clear"}
  <2>1. stage' = "user" /\ inst' = 1
    BY <1>2 DEF ClearDB, Goto, Stop, Gated
  <2>. QED BY <2>1 DEF Progress
<1>3. CASE CreateUser /\ stage' \notin {"off", "clear"}
  <2>. DEFINE row == NewRow("users")
  <2>1. /\ row \in rows' /\ stage' = "account" /\ inst' = inst /\ slot' = 1
        /\ stage = "user" /\ run' = run
    BY <1>3, PostOutcomes DEF CreateUser
  <2>2. row.table = "users" /\ row.inst = inst /\ row.run = run
    BY DEF NewRow
  <2>. HIDE DEF row
  <2>3. HasUser(rows', inst', run')
    BY <2>1, <2>2 DEF HasUser
  <2>4. \A i \in 1 .. inst' - 1 : Whole(rows', i, run')
    BY <2>1, StaysCreated DEF Progress
  <2>5. slot' \in 1 .. Accounts[inst'] + 1 /\ slot' - 1 = 0
    BY <2>1 DEF TypeOK, SeedRunAssumption
  <2>. QED BY <2>1, <2>3, <2>4, <2>5 DEF Progress
<1>4. CASE CreateAccount /\ stage' \notin {"off", "clear"}
  <2>. DEFINE row == NewRow("accounts")
  <2>1. /\ row \in rows' /\ inst' = inst /\ stage = "account" /\ run' = run
        /\ \/ slot <= Accounts[inst] /\ stage' = "account" /\ slot' = slot + 1
           \/ ~(slot <= Accounts[inst]) /\ stage' = "transactions"
    BY <1>4, PostOutcomes DEF CreateAccount
  <2>2. row.table = "accounts" /\ row.inst = inst /\ row.slot = slot /\ row.run = run
    BY DEF NewRow
  <2>. HIDE DEF row
  <2>3. HasAccount(rows', inst, slot, run)
    BY <2>1, <2>2 DEF HasAccount
  <2>4. /\ \A k \in 1 .. slot - 1 : HasAccount(rows', inst, k, run)
        /\ slot \in 1 .. Accounts[inst] + 1
    BY <2>1, StaysCreated DEF Progress
  <2>5. Accounts[inst] \in Nat /\ slot \in Nat
    BY DEF TypeOK, SeedRunAssumption
  <2>6. \A k \in 1 .. slot : HasAccount(rows', inst, k, run)
    <3>1. \A k \in 1 .. slot : k = slot \/ k \in 1 .. slot - 1
      BY <2>5
    <3>. QED BY <2>3, <2>4, <3>1
  <2>7. HasUser(rows', inst, run) /\ \A i \in 1 .. inst - 1 : Whole(rows', i, run)
    BY <2>1, StaysCreated DEF Progress
  <2>8. CASE stage' = "account"
    <3>1. slot' \in 1 .. Accounts[inst] + 1 /\ slot' - 1 = slot
      BY <2>1, <2>4, <2>5, <2>8
    <3>. QED BY <2>1, <2>6, <2>7, <2>8, <3>1 DEF Progress
  <2>9. CASE stage' = "transactions"
    <3>1. slot = Accounts[inst] + 1
      BY <2>1, <2>4, <2>5, <2>9
    <3>2. Whole(rows', inst, run)
      BY <2>6, <2>7, <3>1 DEF Whole
    <3>. QED BY <2>1, <2>7, <2>9, <3>2 DEF Progress
  <2>. QED BY <2>1, <2>8, <2>9
<1>5. CASE CreateTransaction /\ stage' \notin {"off", "clear"}
  <2>1. stage = "transactions" /\ stage' = "transactions" /\ inst' = inst /\ run' = run
    BY <1>5, PostOutcomes DEF CreateTransaction
  <2>2. /\ \A i \in 1 .. inst - 1 : Whole(rows', i, run)
        /\ HasUser(rows', inst, run) /\ Whole(rows', inst, run)
    BY <2>1, StaysCreated DEF Progress
  <2>. QED BY <2>1, <2>2 DEF Progress
<1>6. CASE EndInstance /\ stage' \notin {"off", "clear"}
  <2>1. stage = "transactions" /\ stage' = "user" /\ inst' = inst + 1 /\ run' = run
    BY <1>6 DEF EndInstance, Goto, Stop
  <2>2. \A i \in 1 .. inst : Whole(rows', i, run)
    <3>1. \A i \in 1 .. inst : i = inst \/ i \in 1 .. inst - 1
      BY DEF TypeOK
    <3>. QED BY <2>1, <3>1, StaysCreated DEF Progress
  <2>3. inst' - 1 = inst
    BY <2>1 DEF TypeOK
  <2>. QED BY <2>1, <2>2, <2>3 DEF Progress
<1>7. CASE Land \/ UNCHANGED vars
  <2>1. UNCHANGED <<run, stage, inst, slot>>
    BY <1>7 DEF Land, vars
  <2>. QED BY <2>1, ProgressStays
<1>8. CASE Start
  BY <1>1, <1>8 DEF Start, Goto
<1>. QED BY <1>1, <1>2, <1>3, <1>4, <1>5, <1>6, <1>7, <1>8 DEF Next

LEMMA CompletedStep ==
    ASSUME SeedRunAssumption, TypeOK, Gated, Progress, CompletedWhole, [Next]_vars
    PROVE  CompletedWhole'
<1>. rows \subseteq rows'
  BY RowsStay
<1>1. CASE completed' = completed
  BY <1>1, StaysCreated DEF CompletedWhole
<1>2. CASE completed' # completed
  <2>1. EndInstance
    <3>1. ~(CreateUser \/ CreateAccount \/ CreateTransaction)
      BY <1>2, PostOutcomes DEF CreateUser, CreateAccount, CreateTransaction
    <3>2. ~(Start \/ ClearDB \/ Land \/ UNCHANGED vars)
      BY <1>2 DEF Start, ClearDB, Land, Goto, Stop, vars
    <3>. QED BY <3>1, <3>2 DEF Next
  <2>2. /\ inst = Instances /\ completed' = completed \cup {run}
        /\ stage = "transactions"
    BY <1>2, <2>1 DEF EndInstance, IsLast, Goto, Stop
  <2>3. completed' = {run}
    BY <2>2 DEF Gated, PastGate
  <2>4. \A i \in 1 .. Instances : Whole(rows, i, run)
    <3>1. \A i \in 1 .. Instances : i = inst \/ i \in 1 .. inst - 1
      BY <2>2 DEF SeedRunAssumption
    <3>. QED BY <2>2, <3>1 DEF Progress
  <2>5. \A i \in 1 .. Instances : Whole(rows', i, run)
    BY <2>4, StaysCreated
  <2>. QED BY <2>3, <2>5 DEF CompletedWhole
<1>. QED BY <1>1, <1>2

--------------------------------------------------------------------------------

LEMMA IInvInit == ASSUME SeedRunAssumption, Init PROVE IInv
<1>1. TypeOK
  BY TypeInit
<1>2. Gated /\ NoneLate /\ Progress /\ CompletedWhole
  BY DEF Init, Gated, NoneLate, PastGate, Transactions, Progress, CompletedWhole
<1>. QED BY <1>1, <1>2 DEF IInv

LEMMA IInvStep == ASSUME SeedRunAssumption, IInv, [Next]_vars PROVE IInv'
BY TypeStep, GatedStep, NoneLateStep, ProgressStep, CompletedStep DEF IInv

\* The inductive invariant of the seeder's runs.
THEOREM Invariance == Spec => []IInv
<1>1. Init => IInv
  BY IInvInit, SeedRunAssumption
<1>2. IInv /\ [Next]_vars => IInv'
  BY IInvStep, SeedRunAssumption
<1>. QED BY <1>1, <1>2, PTL DEF Spec

\* Rows, requests still being handled and the run's position keep their types.
THEOREM TypeCorrect == Spec => []TypeOK
<1>1. IInv => TypeOK
  BY DEF IInv
<1>. QED BY <1>1, Invariance, PTL

\* startSeeding, run again and again on one database with requests of earlier
\* runs still landing, never mixes the transactions of two runs.
THEOREM NeverSeededTwice == Spec => []SeededOnce
<1>1. IInv => SeededOnce
  BY DEF IInv, Gated, Transactions, SeededOnce
<1>. QED BY <1>1, Invariance, PTL

\* At most one run reports success, and everything it was to create is there.
THEOREM CompletionIsWhole == Spec => []CompletedWhole
<1>1. IInv => CompletedWhole
  BY DEF IInv
<1>. QED BY <1>1, Invariance, PTL

--------------------------------------------------------------------------------
\* The runs implement Seeding

\* A transaction stored by a run that is past the gate, or landing before any
\* success, is a Load.
LEMMA StoredIsLoad ==
    ASSUME Gated, NEW row, rows' = rows \cup {row},
           completed = {}, completed' = {},
           row \in rows \cup late \/ (PastGate /\ row.run = run)
    PROVE  Loading!Next \/ Transactions(rows') = Transactions(rows)
<1>1. CASE row.table = "transaction"
  <2>1. row \in Transactions(rows') /\ Transactions(rows') = Transactions(rows) \cup {row}
    BY <1>1 DEF Transactions
  <2>2. \A s \in Transactions(rows) : s.run = row.run
    BY <1>1 DEF Gated, Transactions
  <2>3. Loading!Load(row)
    BY <2>1, <2>2 DEF Loading!Load
  <2>. QED BY <2>1, <2>3 DEF Loading!Next
<1>2. CASE row.table # "transaction"
  BY <1>2 DEF Transactions
<1>. QED BY <1>1, <1>2

\* A POST of a run past the gate.
LEMMA PostIsLoad ==
    ASSUME Gated, PastGate, NEW row, row.run = run,
           NEW s, NEW i, NEW k, Post(row, s, i, k)
    PROVE  [Loading!Next]_(Loading!vars)
<1>1. completed' = {} /\ completed = {}
  BY PostOutcomes DEF Gated
<1>2. rows' = rows \/ rows' = rows \cup {row}
  BY DEF Post, Answered, Failed
<1>3. Loading!Next \/ Transactions(rows') = Transactions(rows)
  BY <1>1, <1>2, StoredIsLoad
<1>. QED BY <1>1, <1>3 DEF Loading!vars, Transactions

LEMMA SeedingStep ==
    ASSUME IInv, [Next]_vars PROVE [Loading!Next]_(Loading!vars)
<1>. Gated /\ NoneLate
  BY DEF IInv
<1>1. CASE Start \/ ClearDB \/ UNCHANGED vars
  <2>1. UNCHANGED <<rows, completed>>
    BY <1>1 DEF Start, ClearDB, Goto, Stop, Truncated, Tables, vars
  <2>. QED BY <2>1 DEF Loading!vars, Transactions
<1>2. CASE CreateUser
  <2>1. NewRow("users").table = "users" /\ Post(NewRow("users"), "account", inst, 1)
    BY <1>2 DEF CreateUser, NewRow
  <2>2. Transactions(rows') = Transactions(rows) /\ completed' = completed
    BY <2>1, PostOutcomes DEF Transactions
  <2>. QED BY <2>2 DEF Loading!vars, Transactions
<1>3. CASE CreateAccount
  <2>1. PastGate /\ NewRow("accounts").run = run
    BY <1>3 DEF CreateAccount, PastGate, NewRow
  <2>. QED BY <1>3, <2>1, PostIsLoad DEF CreateAccount
<1>4. CASE CreateTransaction
  <2>1. PastGate /\ NewRow("transaction").run = run
    BY <1>4 DEF CreateTransaction, PastGate, NewRow
  <2>. QED BY <1>4, <2>1, PostIsLoad DEF CreateTransaction
<1>5. CASE EndInstance
  <2>1. PastGate /\ rows' = rows
    BY <1>5 DEF EndInstance, PastGate
  <2>2. completed' = completed \/ completed' = completed \cup {run}
    BY <1>5 DEF EndInstance, Goto, Stop
  <2>3. CASE completed' = completed
    BY <2>1, <2>3 DEF Loading!vars, Transactions
  <2>4. CASE completed' = completed \cup {run}
    <3>1. completed = {} /\ completed' = {run} /\ \A r \in Transactions(rows) : r.run = run
      BY <2>1, <2>4 DEF Gated, Transactions
    <3>2. Loading!Report(run)
      BY <2>1, <3>1 DEF Loading!Report, Transactions
    <3>. QED BY <3>1, <3>2 DEF Loading!Next
  <2>. QED BY <2>2, <2>3, <2>4
<1>6. CASE Land
  <2>1. PICK row \in late : (rows' = rows \/ rows' = rows \cup {row}) /\ completed' = completed
    BY <1>6 DEF Land
  <2>2. CASE completed = {}
    <3>1. Loading!Next \/ Transactions(rows') = Transactions(rows)
      BY <2>1, <2>2, StoredIsLoad
    <3>. QED BY <2>1, <3>1 DEF Loading!vars, Transactions
  <2>3. CASE completed # {}
    <3>1. row.table # "transaction"
      BY <2>3 DEF NoneLate, Transactions
    <3>2. Transactions(rows') = Transactions(rows)
      BY <2>1, <3>1 DEF Transactions
    <3>. QED BY <2>1, <3>2 DEF Loading!vars, Transactions
  <2>. QED BY <2>2, <2>3
<1>. QED BY <1>1, <1>2, <1>3, <1>4, <1>5, <1>6 DEF Next

\* Run again and again, with requests given up on landing late, the seeder loads
\* the transactions of one run, and none after it has reported success.
THEOREM LoadsOnce == Spec => ImplementsSeeding
<1>1. Init => Loading!Init
  BY DEF Init, Loading!Init, Transactions
<1>2. IInv /\ [Next]_vars => [Loading!Next]_(Loading!vars)
  BY SeedingStep
<1>. QED BY <1>1, <1>2, Invariance, PTL DEF Spec, ImplementsSeeding, Loading!Spec

================================================================================
