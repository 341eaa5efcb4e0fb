------------------------------- MODULE MCLedger -------------------------------
(* Values of Ledger's constants for its small instances.                      *)
EXTENDS LedgerRefinement, TLC

CONSTANTS w1, w2

MCWorkers == {w1, w2}
Symmetry == Permutations(MCWorkers)

QuotaOf(cu, uu, ca, ct, ub, ab) ==
    [op \in Ops |-> CASE op = "createUser"        -> cu
                      [] op = "updateUser"        -> uu
                      [] op = "createAccount"     -> ca
                      [] op = "createTransaction" -> ct
                      [] op = "getUserBalance"    -> ub
                      [] op = "getAccountBalance" -> ab]

\* One user, two accounts and two transfers, with account reads.
TransferQuota == QuotaOf(1, 0, 2, 2, 0, 1)

\* Every operation once.
EachQuota == QuotaOf(1, 1, 1, 1, 1, 1)

\* Two registrations and nothing else but reads.
EmailQuota == QuotaOf(2, 0, 0, 0, 1, 0)

================================================================================
