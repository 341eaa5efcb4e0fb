----------------------------- MODULE BalanceSheet -----------------------------
(****************************************************************************)
(* What the ledger promises of its balances: every open account has one,    *)
(* new accounts start at zero, and a transfer moves its amount from one     *)
(* balance to the other in a single step, or does nothing at all when both  *)
(* ends are the same account.                                               *)
(****************************************************************************)
EXTENDS Integers

CONSTANTS Numbers, Amounts

VARIABLE balance   \* a function on the numbers of the open accounts

OpenAccounts == DOMAIN balance

Init == balance = [n \in {} |-> 0]

Open(number) ==
    /\ number \notin OpenAccounts
    /\ balance' = [n \in OpenAccounts \cup {number} |->
                     IF n = number THEN 0 ELSE balance[n]]

Transfer(from, to, amount) ==
    balance' = [[balance EXCEPT ![from] = @ - amount] EXCEPT ![to] = @ + amount]

Next ==
    \/ \E number \in Numbers : Open(number)
    \/ \E from, to \in OpenAccounts, amount \in Amounts : Transfer(from, to, amount)

Spec == Init /\ [][Next]_balance

================================================================================
