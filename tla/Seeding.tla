-------------------------------- MODULE Seeding --------------------------------
(****************************************************************************)
(* What running the data seeder any number of times on one database comes   *)
(* to: the transactions of one run are loaded, and its success, if it is    *)
(* reported at all, is the end of it.                                       *)
(****************************************************************************)
EXTENDS Naturals

VARIABLES
    txns,     \* the transactions in the database, each with its run
    reported  \* the runs that have reported success

vars == <<txns, reported>>

Init == txns = {} /\ reported = {}

\* Of one run only, and none after its success.
Load(t) ==
    /\ reported = {}
    /\ \A s \in txns : s.run = t.run
    /\ txns' = txns \cup {t}
    /\ UNCHANGED reported

\* By the run that loaded what is there.
Report(r) ==
    /\ reported = {}
    /\ \A s \in txns : s.run = r
    /\ reported' = {r}
    /\ UNCHANGED txns

Next == (\E t \in txns' : Load(t)) \/ (\E r \in reported' : Report(r))

Spec == Init /\ [][Next]_vars

================================================================================
