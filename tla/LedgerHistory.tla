---------------------------- MODULE LedgerHistory ----------------------------
(****************************************************************************)
(* What the answers of Ledger say about the time between a request and its  *)
(* answer.  Two history variables are added to Ledger and change nothing in *)
(* it: a running balance for every account, kept by the definition of a     *)
(* transfer and not by the aggregate query, and, for each worker, every     *)
(* value its request could correctly have answered with since it arrived.   *)
(* A read is linearizable when its answer is among these values; so is a    *)
(* rename whose new name was the user's at some moment in between, and a    *)
(* registration whose e-mail was free at one.                               *)
(****************************************************************************)
EXTENDS Ledger

VARIABLES
    book,  \* the true balance of each account number
    seen   \* seen[w]: the values the subject of w's request has had

hvars == <<vars, book, seen>>

NumberOf(id) == (CHOOSE a \in accounts : a.id = id).number

\* The balances after the rows in new are posted (at most one in a step).
Posted(new) ==
    [n \in Numbers |->
       book[n] + SumAmount({t \in new : NumberOf(t.destination) = n})
               - SumAmount({t \in new : NumberOf(t.source) = n})]

\* The value, in the present state, of what request r is about.
Truth(r) ==
    CASE r.op = "getAccountBalance" -> book[r.number]
      [] r.op = "getUserBalance" ->
           SumFunction([a \in {b \in accounts : b.user = r.user} |-> book[a.number]])
      [] r.op = "updateUser" /\ (\E u \in users : u.id = r.user) ->
           (CHOOSE u \in users : u.id = r.user).name
      [] r.op = "createUser" -> \E u \in users : u.email = r.email
      [] OTHER -> Null

\* The values seen so far, with those of the next state.
Observed(w) ==
    IF pc'[w] = "idle" THEN {}
    ELSE (IF pc[w] = "idle" THEN {} ELSE seen[w]) \cup {Truth(req[w])'}

HInit ==
    /\ Init
    /\ book = [n \in Numbers |-> 0]
    /\ seen = [w \in Workers |-> {}]

Record ==
    /\ book' = Posted(txns' \ txns)
    /\ seen' = [w \in Workers |-> Observed(w)]

HNext == Next /\ Record

HSpec == HInit /\ [][HNext]_hvars

--------------------------------------------------------------------------------

Answer(op, w) == req[w].op = op /\ reply[w].code = "OK"

\* An account's balance is one the account really had while the request was
\* being served: transfers answered before the request are in it, transfers
\* sent after the answer are not.
AccountReadCurrent ==
    \A w \in Workers : Answer("getAccountBalance", w) => net[w] \in seen[w]

\* A rename answered OK took effect at some moment of the request, even when
\* the row was found equal to what was asked for and nothing was written, and
\* whatever other renames were committed between its read and its write.
RenameTookEffect ==
    \A w \in Workers : Answer("updateUser", w) => req[w].name \in seen[w]

\* The ids of a user's accounts, as getBalanceForUser reads them.
IdsOf(user) == {a.id : a \in {b \in accounts : b.user = user}}

\* A user's balance is read in two queries and still is one the user had, the
\* transfers between the user's own accounts included, whatever is committed
\* between them but for one thing: an account opened for the user after the
\* first.  As long as the user has no other accounts than were read, what is
\* answered was true at a moment of the request.
UserReadCurrentUnlessOpened ==
    \A w \in Workers :
      Answer("getUserBalance", w) /\ loc[w].ids = IdsOf(req[w].user) => net[w] \in seen[w]

\* The check for a taken e-mail is in a transaction of its own and stops no
\* registration that it overlaps, but every other: a user is never created
\* with an e-mail that was taken when the request arrived.
TakenEmailRefused ==
    \A w \in Workers :
      req[w].op = "createUser" /\ reply[w].code = "CREATED" => FALSE \in seen[w]

\* "Guarantees data correctness" (README.md:78) of the balance the service
\* computes for a user: two queries, and what is committed between them is
\* seen in part.
UserReadCurrent ==
    \A w \in Workers : Answer("getUserBalance", w) => net[w] \in seen[w]

\* "Deterministic balance calculation" (README.md:36) of the balance that is
\* sent for a user: it is one that the rows give.
ReportedBalanceCurrent ==
    \A w \in Workers : Answer("getUserBalance", w) => Reported(w) \in seen[w]

================================================================================
