-------------------------------- MODULE SeedRun --------------------------------
(****************************************************************************)
(* Runs of the data seeder against the ledger (startSeeding and             *)
(* seedProfileData), one after the other on the same database: clear it if  *)
(* configured, then for every instance of a profile create the user, the    *)
(* accounts, the external account, and post the transactions.  The first    *)
(* failure ends the run.                                                    *)
(*                                                                          *)
(* The client gives up on a POST after ten seconds, but the ledger goes on  *)
(* with the request: its row may be stored before the client gives up, or   *)
(* later, during another run, or never.                                     *)
(*                                                                          *)
(* A row is [table, inst, slot, run]: slot numbers the accounts of an       *)
(* instance (the external one last) and its transactions.  The run is not   *)
(* stored; it is there for the properties.  E-mails are per instance and    *)
(* account numbers come from a generator seeded alike in every run, so both *)
(* repeat in a later run.                                                   *)
(****************************************************************************)
EXTENDS Integers

CONSTANTS
    Instances,      \* instances of all profiles, in the order they are seeded
    Accounts,       \* Accounts[i]: accounts of an instance, without the external
    Numbers,        \* possible account numbers
    CleanSettings,  \* values clean_db_if_nonempty may have
    MaxRuns,        \* bound: runs
    MaxTxns         \* bound: transactions of an instance

ASSUME SeedRunAssumption ==
    /\ Instances \in Nat \ {0}
    /\ Accounts \in [1 .. Instances -> Nat]
    /\ CleanSettings \subseteq BOOLEAN
    /\ MaxRuns \in Nat /\ MaxTxns \in Nat

VARIABLES
    numbers,    \* numbers[<<i, k>>]: what the generator draws for an account
    run,        \* runs started so far
    stage,      \* what the run is at, or "off"
    inst, slot, \* the instance and the account or transaction it is at
    rows,       \* the rows the ledger holds
    late,       \* rows of requests given up on and still being handled
    completed   \* the runs that reported success

vars == <<numbers, run, stage, inst, slot, rows, late, completed>>

Tables == {"users", "accounts", "transaction"}
Stages == {"off", "clear", "user", "account", "transactions"}
Row    == [table: Tables, inst: 1 .. Instances, slot: Nat, run: Nat]

\* The accounts of each instance, its external one included.
AccountSlots == UNION {{<<i, k>> : k \in 1 .. Accounts[i] + 1} : i \in 1 .. Instances}

Init ==
    /\ numbers \in [AccountSlots -> Numbers]
    /\ run = 0 /\ stage = "off" /\ inst = 1 /\ slot = 0
    /\ rows = {} /\ late = {}
    /\ completed = {}

--------------------------------------------------------------------------------
\* One POST

\* What the ledger refuses: an e-mail or an account number that is there.
Taken(row) ==
    \E r \in rows :
      /\ r.table = row.table
      /\ \/ row.table = "users" /\ r.inst = row.inst
         \/ /\ row.table = "accounts"
            /\ numbers[<<r.inst, r.slot>>] = numbers[<<row.inst, row.slot>>]

Answered(row) == ~Taken(row) /\ rows' = rows \cup {row} /\ UNCHANGED late

\* Any status above 299, and no answer at all, are errors; the latter leaves
\* open whether the row is stored.
Failed(row) ==
    \/ UNCHANGED <<rows, late>>
    \/ ~Taken(row) /\ rows' = rows \cup {row} /\ UNCHANGED late
    \/ ~Taken(row) /\ late' = late \cup {row} /\ UNCHANGED rows

Goto(s, i, k) == stage' = s /\ inst' = i /\ slot' = k /\ UNCHANGED completed

Stop == stage' = "off" /\ UNCHANGED <<inst, slot, completed>>

\* A bug to rule out: the status of the answer is not looked at.
PostIgnoringStatus(row, s, i, k) ==
    \/ Answered(row) /\ Goto(s, i, k)
    \/ Taken(row) /\ UNCHANGED <<rows, late>> /\ Goto(s, i, k)
    \/ Failed(row) /\ Stop

\* doPost: only an answer below 300 takes the run on, to stage s.
Post(row, s, i, k) ==
    \/ Answered(row) /\ Goto(s, i, k)
    \/ Failed(row) /\ Stop

NewRow(table) == [table |-> table, inst |-> inst, slot |-> slot, run |-> run]

--------------------------------------------------------------------------------
\* A run

Start ==
    /\ stage = "off" /\ run < MaxRuns
    /\ run' = run + 1
    /\ Goto("clear", 1, 0)
    /\ UNCHANGED <<numbers, rows, late>>

\* ClearDB names the table of transactions "transactions", and so it fails,
\* and nothing is truncated.
Truncated == {"transactions", "users", "accounts"}

ClearDB ==
    /\ stage = "clear"
    /\ \/ /\ FALSE \in CleanSettings
          /\ Goto("user", inst, 0)
          /\ UNCHANGED rows
       \/ /\ TRUE \in CleanSettings /\ Truncated \subseteq Tables
          /\ rows' = {}
          /\ Goto("user", inst, 0)
       \/ TRUE \in CleanSettings /\ Stop /\ UNCHANGED rows
    /\ UNCHANGED <<numbers, run, late>>

CreateUser ==
    /\ stage = "user"
    /\ Post(NewRow("users"), "account", inst, 1)
    /\ UNCHANGED <<numbers, run>>

\* The instance's accounts, and after them the external one.
CreateAccount ==
    /\ stage = "account"
    /\ IF slot <= Accounts[inst]
       THEN Post(NewRow("accounts"), "account", inst, slot + 1)
       ELSE Post(NewRow("accounts"), "transactions", inst, 1)
    /\ UNCHANGED <<numbers, run>>

\* One of the transactions of generateTransactions (SeedGenerator).
CreateTransaction ==
    /\ stage = "transactions" /\ slot <= MaxTxns
    /\ Post(NewRow("transaction"), "transactions", inst, slot + 1)
    /\ UNCHANGED <<numbers, run>>

\* A bug to rule out: the loop runs once too often.
IsLastLate(i) == i > Instances

IsLast(i) == i = Instances

\* generateTransactions has posted all, or rejects a rule; after the last
\* instance the run reports success.
EndInstance ==
    /\ stage = "transactions"
    /\ \/ Stop
       \/ ~IsLast(inst) /\ Goto("user", inst + 1, 0)
       \/ /\ IsLast(inst)
          /\ stage' = "off" /\ completed' = completed \cup {run}
          /\ UNCHANGED <<inst, slot>>
    /\ UNCHANGED <<numbers, run, rows, late>>

--------------------------------------------------------------------------------
\* The ledger, with requests the client has given up on.  The e-mail was
\* checked before; the account number is unique in the table.

Land ==
    \E row \in late :
      /\ late' = late \ {row}
      /\ \/ UNCHANGED rows
         \/ /\ row.table # "accounts" \/ ~Taken(row)
            /\ rows' = rows \cup {row}
      /\ UNCHANGED <<numbers, run, stage, inst, slot, completed>>

Next ==
    \/ Start \/ ClearDB \/ CreateUser \/ CreateAccount \/ CreateTransaction
    \/ EndInstance \/ Land

Spec == Init /\ [][Next]_vars

--------------------------------------------------------------------------------
\* Correctness

TypeOK ==
    /\ numbers \in [AccountSlots -> Numbers]
    /\ run \in Nat /\ stage \in Stages
    /\ inst \in 1 .. Instances /\ slot \in Nat
    /\ rows \subseteq Row /\ late \subseteq Row
    /\ completed \subseteq Nat

Transactions(S) == {r \in S : r.table = "transaction"}

\* However often the seeder is run again, after failures, after success, and
\* with requests of earlier runs still landing, no database is seeded twice:
\* all transactions come from one run.
SeededOnce ==
    \A r, s \in Transactions(rows) : r.run = s.run

HasUser(S, i, c) == \E r \in S : r.table = "users" /\ r.inst = i /\ r.run = c

HasAccount(S, i, k, c) ==
    \E r \in S : r.table = "accounts" /\ r.inst = i /\ r.slot = k /\ r.run = c

\* Among the rows of S are the user of instance i and all its accounts, by run c.
Whole(S, i, c) ==
    HasUser(S, i, c) /\ \A k \in 1 .. Accounts[i] + 1 : HasAccount(S, i, k, c)

\* "Data seeding completed successfully!" (seeder.go:29) is reported once,
\* by a run all of whose users and accounts are in the database.
CompletedWhole ==
    \A c \in completed :
      /\ \A d \in completed : c = d
      /\ \A i \in 1 .. Instances : Whole(rows, i, c)

\* To the database all runs together are one load: transactions of one run are
\* added one by one, also by requests that were given up on, the run that
\* loaded them reports success or none does, and after the report there are no
\* more, whoever runs the seeder again.
Loading == INSTANCE Seeding WITH txns <- Transactions(rows), reported <- completed

ImplementsSeeding == Loading!Spec

--------------------------------------------------------------------------------
\* Why they hold (SeedRunProofs): the first user's e-mail is the gate every run
\* has to pass, and nothing is posted by a run that has not passed it.

FirstUser == \E r \in rows : r.table = "users" /\ r.inst = 1

\* The run has created the first user itself.
PastGate ==
    \/ stage \in {"account", "transactions"}
    \/ stage = "user" /\ inst > 1

Gated ==
    /\ stage = "clear" => inst = 1
    /\ Transactions(rows \cup late) # {} \/ completed # {} => FirstUser
    /\ PastGate => /\ FirstUser
                   /\ completed = {}
                   /\ \A r \in Transactions(rows \cup late) : r.run = run
    /\ \A r, s \in Transactions(rows \cup late) : r.run = s.run

\* A run that may still report success, or has, leaves no transaction behind
\* that is still to land.
NoneLate == PastGate \/ completed # {} => Transactions(late) = {}

\* What the run has created on its way.
Progress ==
    /\ stage \in {"user", "account", "transactions"} =>
         \A i \in 1 .. inst - 1 : Whole(rows, i, run)
    /\ stage \in {"account", "transactions"} => HasUser(rows, inst, run)
    /\ stage = "account" =>
         /\ slot \in 1 .. Accounts[inst] + 1
         /\ \A k \in 1 .. slot - 1 : HasAccount(rows, inst, k, run)
    /\ stage = "transactions" => Whole(rows, inst, run)

IInv == TypeOK /\ Gated /\ NoneLate /\ Progress /\ CompletedWhole

================================================================================
