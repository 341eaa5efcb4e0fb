----------------------------- MODULE BalanceProofs -----------------------------
(****************************************************************************)
(* What the aggregate query returns: it is additive over the accounts it is *)
(* asked for and over the rows it reads, so that money is conserved and a   *)
(* user's balance is the sum of the balances of the user's accounts,        *)
(* whatever rows there are.                                                 *)
(****************************************************************************)
EXTENDS LedgerProofs, FiniteSums

\* Rows the query can add up.
Summable(R) == IsFiniteSet(R) /\ \A t \in R : t.amount \in Int

AmountsOf(R) == [t \in R |-> t.amount]

\* The amounts of some of the rows.
LEMMA SumOfPart ==
    ASSUME NEW U, Summable(U), NEW R, R \subseteq U
    PROVE  /\ SumAmount(R) = SumFunctionOnSet(AmountsOf(U), R)
           /\ Summable(R)
           /\ SumAmount(R) \in Int
<1>1. Summable(R)
  BY FS_Subset DEF Summable
<1>2. SumAmount(R) = SumFunctionOnSet(AmountsOf(R), R)
  BY DEF SumAmount, SumFunction, AmountsOf
<1>3. \A t \in R : AmountsOf(R)[t] = AmountsOf(U)[t] /\ AmountsOf(R)[t] \in Int
  BY <1>1 DEF AmountsOf, Summable
<1>4. SumFunctionOnSet(AmountsOf(R), R) = SumFunctionOnSet(AmountsOf(U), R)
  BY <1>1, <1>3, SumCongruence DEF Summable
<1>5. SumFunctionOnSet(AmountsOf(R), R) \in Int
  BY <1>1, <1>3, SumInt DEF Summable
<1>6. QED
  BY <1>1, <1>2, <1>4, <1>5

LEMMA SumAmountUnion ==
    ASSUME NEW U, Summable(U), NEW R, R \subseteq U, NEW S, S \subseteq U, R \cap S = {}
    PROVE  SumAmount(R \cup S) = SumAmount(R) + SumAmount(S)
<1>1. Summable(R) /\ Summable(S) /\ R \cup S \subseteq U
  BY SumOfPart
<1>2. \A t \in R \cup S : AmountsOf(U)[t] \in Int
  BY DEF Summable, AmountsOf
<1>3. SumFunctionOnSet(AmountsOf(U), R \cup S)
        = SumFunctionOnSet(AmountsOf(U), R) + SumFunctionOnSet(AmountsOf(U), S)
  BY <1>1, <1>2, SumUnion DEF Summable
<1>4. /\ SumAmount(R \cup S) = SumFunctionOnSet(AmountsOf(U), R \cup S)
      /\ SumAmount(R) = SumFunctionOnSet(AmountsOf(U), R)
      /\ SumAmount(S) = SumFunctionOnSet(AmountsOf(U), S)
  BY <1>1, SumOfPart
<1>5. QED
  BY <1>3, <1>4

LEMMA SumAmountEmpty == SumAmount({}) = 0
  BY SumEmpty DEF SumAmount, SumFunction

LEMMA SumAmountOne ==
    ASSUME NEW t, t.amount \in Int PROVE SumAmount({t}) = t.amount
<1> DEFINE f == [r \in {t} |-> r.amount]
<1>1. f[t] = t.amount /\ \A y \in {} \cup {t} : f[y] \in Int
  OBVIOUS
<1>2. SumAmount({t}) = SumFunctionOnSet(f, {t})
  BY DEF SumAmount, SumFunction
<1> HIDE DEF f
<1>3. SumFunctionOnSet(f, {} \cup {t}) = SumFunctionOnSet(f, {}) + f[t]
  BY <1>1, FS_EmptySet, SumAdd
<1>4. SumFunctionOnSet(f, {} \cup {t}) = SumFunctionOnSet(f, {t})
  OBVIOUS
<1>5. QED
  BY <1>1, <1>2, <1>3, <1>4, SumEmpty

--------------------------------------------------------------------------------
\* The net balance

Arriving(R, ids) == {t \in R : t.destination \in ids}
Leaving(R, ids)  == {t \in R : t.source \in ids}

LEMMA NetIs ==
    ASSUME NEW R, Summable(R), NEW ids
    PROVE  /\ CalculateNetBalance(R, ids)
                = SumAmount(Arriving(R, ids)) - SumAmount(Leaving(R, ids))
           /\ SumAmount(Arriving(R, ids)) \in Int /\ SumAmount(Leaving(R, ids)) \in Int
           /\ CalculateNetBalance(R, ids) \in Int
<1>1. Arriving(R, ids) \subseteq R /\ Leaving(R, ids) \subseteq R
  BY DEF Arriving, Leaving
<1>2. SumAmount(Arriving(R, ids)) \in Int /\ SumAmount(Leaving(R, ids)) \in Int
  BY <1>1, SumOfPart
<1>3. CalculateNetBalance(R, ids)
        = SumAmount(Arriving(R, ids)) - SumAmount(Leaving(R, ids))
  BY DEF CalculateNetBalance, Arriving, Leaving
<1>4. QED
  BY <1>2, <1>3

\* Asked for two lists of accounts with none in common, the query returns the
\* sum of what it returns for each, transfers between them included.
LEMMA NetOverAccounts ==
    ASSUME NEW R, Summable(R), NEW A, NEW B, A \cap B = {}
    PROVE  CalculateNetBalance(R, A \cup B)
             = CalculateNetBalance(R, A) + CalculateNetBalance(R, B)
<1>1. /\ Arriving(R, A) \subseteq R /\ Arriving(R, B) \subseteq R
      /\ Leaving(R, A) \subseteq R /\ Leaving(R, B) \subseteq R
      /\ Arriving(R, A) \cap Arriving(R, B) = {} /\ Leaving(R, A) \cap Leaving(R, B) = {}
  BY DEF Arriving, Leaving
<1>2. /\ Arriving(R, A \cup B) = Arriving(R, A) \cup Arriving(R, B)
      /\ Leaving(R, A \cup B) = Leaving(R, A) \cup Leaving(R, B)
  BY DEF Arriving, Leaving
<1>3. /\ SumAmount(Arriving(R, A \cup B)) = SumAmount(Arriving(R, A) \cup Arriving(R, B))
      /\ SumAmount(Leaving(R, A \cup B)) = SumAmount(Leaving(R, A) \cup Leaving(R, B))
  BY <1>2
<1>4. SumAmount(Arriving(R, A) \cup Arriving(R, B))
        = SumAmount(Arriving(R, A)) + SumAmount(Arriving(R, B))
  BY <1>1, SumAmountUnion
<1>5. SumAmount(Leaving(R, A) \cup Leaving(R, B))
        = SumAmount(Leaving(R, A)) + SumAmount(Leaving(R, B))
  BY <1>1, SumAmountUnion
<1>6. QED
  BY <1>3, <1>4, <1>5, NetIs

\* What one more row adds to the balance of some accounts.
Change(t, ids) ==
    (IF t.destination \in ids THEN t.amount ELSE 0) - (IF t.source \in ids THEN t.amount ELSE 0)

LEMMA NetOverRows ==
    ASSUME NEW R, Summable(R), NEW t, t.amount \in Int, t \notin R, NEW ids
    PROVE  /\ Summable(R \cup {t})
           /\ CalculateNetBalance(R \cup {t}, ids)
                = CalculateNetBalance(R, ids) + Change(t, ids)
<1> DEFINE U == R \cup {t}
<1>1. Summable(U)
  BY FS_AddElement DEF Summable
<1>2. ASSUME NEW P \in SUBSET R
      PROVE  SumAmount(P \cup {t}) = SumAmount(P) + t.amount
  <2>1. P \subseteq U /\ {t} \subseteq U /\ P \cap {t} = {}
    OBVIOUS
  <2> HIDE DEF U
  <2>2. SumAmount(P \cup {t}) = SumAmount(P) + SumAmount({t})
    BY <1>1, <2>1, SumAmountUnion
  <2>3. QED
    BY <2>2, SumAmountOne
<1>3. SumAmount(Arriving(U, ids))
        = SumAmount(Arriving(R, ids)) + (IF t.destination \in ids THEN t.amount ELSE 0)
  <2>1. CASE t.destination \in ids
    <3>1. Arriving(U, ids) = Arriving(R, ids) \cup {t}
      BY <2>1 DEF Arriving
    <3>2. Arriving(R, ids) \in SUBSET R
      BY DEF Arriving
    <3>3. SumAmount(Arriving(R, ids) \cup {t}) = SumAmount(Arriving(R, ids)) + t.amount
      BY <1>2, <3>2
    <3>4. QED
      BY <2>1, <3>1, <3>3
  <2>2. CASE t.destination \notin ids
    <3>1. Arriving(U, ids) = Arriving(R, ids)
      BY <2>2 DEF Arriving
    <3>2. SumAmount(Arriving(U, ids)) = SumAmount(Arriving(R, ids))
      BY <3>1
    <3>3. QED
      BY <2>2, <3>2, NetIs
  <2>3. QED
    BY <2>1, <2>2
<1>4. SumAmount(Leaving(U, ids))
        = SumAmount(Leaving(R, ids)) + (IF t.source \in ids THEN t.amount ELSE 0)
  <2>1. CASE t.source \in ids
    <3>1. Leaving(U, ids) = Leaving(R, ids) \cup {t}
      BY <2>1 DEF Leaving
    <3>2. Leaving(R, ids) \in SUBSET R
      BY DEF Leaving
    <3>3. SumAmount(Leaving(R, ids) \cup {t}) = SumAmount(Leaving(R, ids)) + t.amount
      BY <1>2, <3>2
    <3>4. QED
      BY <2>1, <3>1, <3>3
  <2>2. CASE t.source \notin ids
    <3>1. Leaving(U, ids) = Leaving(R, ids)
      BY <2>2 DEF Leaving
    <3>2. SumAmount(Leaving(U, ids)) = SumAmount(Leaving(R, ids))
      BY <3>1
    <3>3. QED
      BY <2>2, <3>2, NetIs
  <2>3. QED
    BY <2>1, <2>2
<1> HIDE DEF U
<1>5. CalculateNetBalance(U, ids) = CalculateNetBalance(R, ids) + Change(t, ids)
  BY <1>1, <1>3, <1>4, NetIs DEF Change
<1>6. QED
  BY <1>1, <1>5 DEF U

\* Accounts no row touches have balance zero.
LEMMA NetUntouched ==
    ASSUME NEW R, NEW ids, \A t \in R : t.source \notin ids /\ t.destination \notin ids
    PROVE  CalculateNetBalance(R, ids) = 0
<1>1. {t \in R : t.destination \in ids} = {} /\ {t \in R : t.source \in ids} = {}
  OBVIOUS
<1>2. /\ SumAmount({t \in R : t.destination \in ids}) = SumAmount({})
      /\ SumAmount({t \in R : t.source \in ids}) = SumAmount({})
  BY <1>1
<1>3. QED
  BY <1>2, SumAmountEmpty DEF CalculateNetBalance

\* Rows with both ends among the accounts cancel out.
LEMMA NetClosed ==
    ASSUME NEW R, Summable(R), NEW ids,
           \A t \in R : t.source \in ids /\ t.destination \in ids
    PROVE  CalculateNetBalance(R, ids) = 0
<1>1. Arriving(R, ids) = R /\ Leaving(R, ids) = R
  BY DEF Arriving, Leaving
<1>2. SumAmount(Arriving(R, ids)) = SumAmount(Leaving(R, ids))
  BY <1>1
<1>3. QED
  BY <1>2, NetIs

\* The balance of any accounts is the sum of their balances.
LEMMA NetIsSum ==
    ASSUME NEW R, Summable(R), NEW ids, IsFiniteSet(ids)
    PROVE  CalculateNetBalance(R, ids)
             = SumFunction([id \in ids |-> CalculateNetBalance(R, {id})])
<1> DEFINE f == [id \in ids |-> CalculateNetBalance(R, {id})]
           F == {A \in SUBSET ids : CalculateNetBalance(R, A) = SumFunctionOnSet(f, A)}
<1>1. \A id \in ids : f[id] = CalculateNetBalance(R, {id}) /\ f[id] \in Int
  BY NetIs
<1>2. SumFunction(f) = SumFunctionOnSet(f, ids)
  BY DEF SumFunction
<1> HIDE DEF f
<1>3. {} \in F
  <2>1. CalculateNetBalance(R, {}) = 0
    BY NetUntouched
  <2>2. QED
    BY <2>1, SumEmpty
<1>4. ASSUME NEW A \in SUBSET ids, NEW id \in ids, A \in F PROVE A \cup {id} \in F
  <2>1. CASE id \in A
    <3>1. A \cup {id} = A
      BY <2>1
    <3>2. QED
      BY <1>4, <3>1
  <2>2. CASE id \notin A
    <3>1. CalculateNetBalance(R, A \cup {id})
            = CalculateNetBalance(R, A) + CalculateNetBalance(R, {id})
      BY <2>2, NetOverAccounts
    <3>2. SumFunctionOnSet(f, A \cup {id}) = SumFunctionOnSet(f, A) + f[id]
      BY <1>1, <2>2, FS_Subset, SumAdd
    <3>3. CalculateNetBalance(R, A \cup {id}) = SumFunctionOnSet(f, A \cup {id})
      BY <1>1, <1>4, <3>1, <3>2
    <3>4. QED
      BY <3>3
  <2>3. QED
    BY <2>1, <2>2
<1>5. ids \in F
  <2> HIDE DEF F
  <2>1. QED
    BY <1>3, <1>4, FiniteInduct
<1>6. QED
  BY <1>2, <1>5 DEF f

--------------------------------------------------------------------------------
\* The ledger's tables

\* Both tables the query depends on are finite: a step adds one row at most.
TablesFinite == IsFiniteSet(accounts) /\ IsFiniteSet(txns)

BInv == IInv /\ TablesFinite

\* What a step does to these tables.
LEMMA AccountsStep ==
    ASSUME NEW w \in Workers, Act(w)
    PROVE  \/ accounts' = accounts
           \/ /\ InsertAccount(w)
              /\ accounts' = accounts \cup {[id |-> loc[w].id, number |-> req[w].number,
                                             user |-> loc[w].user.id]}
<1>1. CASE InsertAccount(w)
  BY <1>1 DEF InsertAccount
<1>2. QED
  BY <1>1, AccountsKept

LEMMA TxnsStep ==
    ASSUME NEW w \in Workers, Act(w)
    PROVE  \/ txns' = txns
           \/ /\ InsertTransaction(w)
              /\ txns' = txns \cup {EntityOf(w)}
<1>1. CASE InsertTransaction(w)
  BY <1>1 DEF InsertTransaction
<1>2. QED
  BY <1>1, TxnsKept

LEMMA FiniteStep ==
    ASSUME TablesFinite, [Next]_vars PROVE TablesFinite'
<1>1. CASE UNCHANGED vars
  BY <1>1 DEF TablesFinite, vars
<1>2. CASE Crash
  BY <1>2 DEF TablesFinite, Crash, db
<1>3. ASSUME NEW w \in Workers, Act(w) PROVE TablesFinite'
  <2>1. IsFiniteSet(accounts')
    BY <1>3, AccountsStep, FS_AddElement DEF TablesFinite
  <2>2. IsFiniteSet(txns')
    BY <1>3, TxnsStep, FS_AddElement DEF TablesFinite
  <2>3. QED
    BY <2>1, <2>2 DEF TablesFinite
<1>4. QED
  BY <1>1, <1>2, <1>3 DEF Next, Act

LEMMA BInvHolds == Spec => []BInv
<1>1. Init => BInv
  BY InitInv, FS_EmptySet DEF BInv, TablesFinite, Init
<1>2. BInv /\ [Next]_vars => BInv'
  BY Inductive, FiniteStep DEF BInv
<1>3. QED
  BY <1>1, <1>2, PTL DEF Spec

\* The ids of finitely many rows.
LEMMA IdsFinite ==
    ASSUME NEW R, IsFiniteSet(R) PROVE IsFiniteSet({a.id : a \in R})
<1> DEFINE ids == {a.id : a \in R}
           f == [a \in R |-> a.id]
<1>1. f \in Surjection(R, ids)
  BY DEF Surjection
<1>2. QED
  BY <1>1, FS_Surjection

LEMMA TxnsSummable == ASSUME BInv PROVE Summable(txns)
  BY LedgerAssumption DEF BInv, IInv, TypeOK, TxnRow, TablesFinite, Summable

\* What a request is about to post: a new row between two stored accounts.
LEMMA EntryBuilt ==
    ASSUME BInv, NEW w \in Workers, pc[w] = "insertTransaction",
           NEW e, e = EntityOf(w)
    PROVE  /\ loc[w].source \in accounts /\ loc[w].destination \in accounts
           /\ e.source = loc[w].source.id /\ e.destination = loc[w].destination.id
           /\ e.amount \in Amounts /\ e.amount \in Int
           /\ e \notin txns
<1>1. loc[w].source \in accounts /\ loc[w].destination \in accounts
  BY DEF BInv, IInv, Handling, AccountsLoaded, AccountsNumbered, CreateTransactionSteps
<1>2. /\ e.id = loc[w].id /\ e.amount = req[w].amount
      /\ e.source = loc[w].source.id /\ e.destination = loc[w].destination.id
  BY DEF EntityOf
<1>3. e.amount \in Amounts /\ e.amount \in Int
  <2>1. req[w].amount \in Amounts \cup {Null} /\ req[w].amount # Null
    BY DEF BInv, IInv, TypeOK, Request, Handling, OpFitsStep
  <2>2. QED
    BY <1>2, <2>1, LedgerAssumption
<1>4. e \notin txns
  BY <1>2 DEF BInv, IInv, OwnIds, OwnId
<1>5. QED
  BY <1>1, <1>2, <1>3, <1>4

\* An account that is new has a number and an id that no other has, and no row
\* touches it.
LEMMA AccountIsNew ==
    ASSUME BInv, BInv', NEW row, accounts' = accounts \cup {row}, row \notin accounts
    PROVE  /\ row.number \in Numbers
           /\ \A a \in accounts : a.number # row.number /\ a.id # row.id
           /\ CalculateNetBalance(txns, {row.id}) = 0
<1>1. row \in accounts'
  OBVIOUS
<1>2. row.number \in Numbers
  BY <1>1 DEF BInv, IInv, TypeOK, AccountRow
<1>3. \A a \in accounts : a.number # row.number /\ a.id # row.id
  BY <1>1 DEF BInv, IInv, UniqueNumbers, IdsUnique
<1>4. \A t \in txns : t.source \notin {row.id} /\ t.destination \notin {row.id}
  BY <1>3 DEF BInv, IInv, EntriesBacked
<1>5. QED
  BY <1>2, <1>3, <1>4, NetUntouched

\* Money is conserved: however transfers, registrations, failures and restarts
\* interleave, the balances of all accounts net to zero.
THEOREM MoneyConserved == Spec => []DoubleEntry
<1>1. ASSUME BInv PROVE DoubleEntry
  <2> DEFINE ids == {a.id : a \in accounts}
  <2>1. \A t \in txns : t.source \in ids /\ t.destination \in ids
    BY <1>1 DEF BInv, IInv, EntriesBacked
  <2> HIDE DEF ids
  <2>2. CalculateNetBalance(txns, ids) = 0
    BY <1>1, <2>1, TxnsSummable, NetClosed
  <2>3. QED
    BY <2>2 DEF DoubleEntry, ids
<1>2. QED
  BY <1>1, BInvHolds, PTL

\* The balance the ledger computes for a user is the sum of the balances it
\* computes for the user's accounts, in every reachable state.
THEOREM UserBalancesAddUp == Spec => []UserIsSumOfAccounts
<1>1. ASSUME BInv PROVE UserIsSumOfAccounts
  <2>1. ASSUME NEW u \in users
        PROVE  IsFiniteSet({a.id : a \in {b \in accounts : b.user = u.id}})
    <3>1. IsFiniteSet({b \in accounts : b.user = u.id})
      BY <1>1, FS_Subset DEF BInv, TablesFinite
    <3>2. QED
      BY <3>1, IdsFinite
  <2>2. QED
    BY <1>1, <2>1, TxnsSummable, NetIsSum DEF UserIsSumOfAccounts
<1>2. QED
  BY <1>1, BInvHolds, PTL

================================================================================
