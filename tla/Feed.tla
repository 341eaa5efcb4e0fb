--------------------------------- MODULE Feed ---------------------------------
(****************************************************************************)
(* The table of transactions as those who read it see it grow: what the     *)
(* ledger promises about when rows become visible.                          *)
(*                                                                          *)
(* A transfer is stamped with the clock while its request is being handled  *)
(* and becomes visible when its row is committed, at any later time, or     *)
(* never.  Rows are made once, under an id of their own, and stay.  So a    *)
(* row may appear behind others that are stamped later, and two rows may    *)
(* carry one stamp.                                                         *)
(****************************************************************************)
EXTENDS Integers, FiniteSets

CONSTANTS
    Writers,  \* threads that handle transfers
    Ids,      \* ids of rows
    Details   \* what else a row says

VARIABLES
    now,      \* the clock stamps are taken from
    draft,    \* the stamp of each writer's transfer, 0 when it has none
    rows      \* the committed rows

feedVars == <<now, draft, rows>>

Row == [id: Ids, createdAt: Nat, detail: Details]

FeedInit == now = 1 /\ draft = [w \in Writers |-> 0] /\ rows = {}

\* The clock may show two writers the same instant.
Stamp(w) ==
    /\ draft[w] = 0
    /\ now' \in {now, now + 1}
    /\ draft' = [draft EXCEPT ![w] = now']
    /\ UNCHANGED rows

Commit(w, r) ==
    /\ draft[w] # 0
    /\ r \in Row /\ r.createdAt = draft[w]
    /\ \A q \in rows : q.id # r.id
    /\ rows' = rows \cup {r}
    /\ draft' = [draft EXCEPT ![w] = 0]
    /\ UNCHANGED now

\* A statement fails, or the process stops with all its transfers.
Abandon(W) ==
    /\ draft' = [w \in Writers |-> IF w \in W THEN 0 ELSE draft[w]]
    /\ UNCHANGED <<now, rows>>

\* The row a step commits is looked for among the new rows.
FeedNext ==
    \/ \E w \in Writers : Stamp(w) \/ \E r \in rows' : Commit(w, r)
    \/ \E W \in SUBSET Writers : Abandon(W)

FeedSpec == FeedInit /\ [][FeedNext]_feedVars

================================================================================
