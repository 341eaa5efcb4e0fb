------------------------------- MODULE Balance -------------------------------
(****************************************************************************)
(* The net balance the ledger reports: the one aggregate query of           *)
(* TransactionRepo, over a set of transaction rows.  A row is a record with *)
(* (at least) the fields source, destination (account ids) and amount.      *)
(****************************************************************************)
EXTENDS Integers, FiniteSetsExt

\* The amounts a set of rows adds up to (SQL SUM, with COALESCE(.., 0)).
SumAmount(rows) == SumFunction([t \in rows |-> t.amount])

\* A bug to rule out: a row between two of the listed accounts counts only as
\* money coming in, as if the query's two CASE arms excluded each other.
NetCountingInternalOnce(txns, ids) ==
    LET incoming == {t \in txns : t.destination \in ids}
    IN  SumAmount(incoming)
          - SumAmount({t \in txns \ incoming : t.source \in ids})

\* What arrived at the accounts in ids less what left them.  A row whose two
\* ends are both listed appears in both sums.
CalculateNetBalance(txns, ids) ==
    SumAmount({t \in txns : t.destination \in ids})
      - SumAmount({t \in txns : t.source \in ids})

==============================================================================
