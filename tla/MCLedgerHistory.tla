---------------------------- MODULE MCLedgerHistory ----------------------------
(* Values of Ledger's constants for the runs with history variables.            *)
EXTENDS LedgerHistory, TLC

CONSTANTS w1, w2

MCWorkers == {w1, w2}
Symmetry == Permutations(MCWorkers)

QuotaOf(cu, uu, ca, ct, ub, ab) ==
    [op \in Ops |-> CASE op = "createUser"        -> cu
                      [] op = "updateUser"        -> uu
                      [] op = "createAccount"     -> ca
                      [] op = "createTransaction" -> ct
                      [] op = "getUserBalance"    -> ub
                      [] op = "getAccountBalance" -> ab]

\* Two users registering at once, two accounts that may be one's or both's,
\* and a transfer, with reads of every balance.
RegistryQuota == QuotaOf(2, 0, 2, 1, 1, 1)

\* Two renames of one user; a transfer between two accounts, with reads.
HistoryQuota == QuotaOf(1, 2, 2, 1, 0, 1)

\* The same without renames, and with reads of the user's balance.
UserReadQuota == QuotaOf(1, 0, 2, 1, 1, 0)

================================================================================
