------------------------------- MODULE Journal -------------------------------
(****************************************************************************)
(* What the ledger promises of its records: a register of account numbers,  *)
(* each opened once and never closed, and a journal of transfers between    *)
(* opened accounts.  An entry is made once, under an id of its own, and is  *)
(* never changed or removed.                                                *)
(****************************************************************************)
EXTENDS Integers

CONSTANTS Numbers, Amounts

VARIABLES
    opened,   \* [id, number] of each account
    entries   \* [id, from, to, amount], from and to being account ids

vars == <<opened, entries>>

Registration == [id: Nat, number: Numbers]
Entry        == [id: Nat, from: Nat, to: Nat, amount: Amounts]

Opened == {o.id : o \in opened}

Init == opened = {} /\ entries = {}

Open(o) ==
    /\ o \in Registration
    /\ \A p \in opened : p.id # o.id /\ p.number # o.number
    /\ opened' = opened \cup {o}
    /\ UNCHANGED entries

Post(e) ==
    /\ e \in Entry
    /\ e.from \in Opened /\ e.to \in Opened
    /\ \A f \in entries : f.id # e.id
    /\ entries' = entries \cup {e}
    /\ UNCHANGED opened

\* What is added is one of the elements of the new set, so the id of a row
\* need not be guessed among all numbers.
Next ==
    \/ \E o \in opened' : Open(o)
    \/ \E e \in entries' : Post(e)

Spec == Init /\ [][Next]_vars

================================================================================
