---------------------------- MODULE MCSeedGenerator ----------------------------
(* Small profiles in the manner of seed-config.yaml, on a calendar of short    *)
(* months.                                                                     *)
EXTENDS SeedGenerator, TLC

CONSTANTS chk, card

NoAmount   == [mode |-> "none", min |-> 0, max |-> 0, account |-> Null, pct |-> 0]
Fixed(n)   == [NoAmount EXCEPT !.mode = "fixed", !.min = n]
Between(a, b) == [NoAmount EXCEPT !.mode = "range", !.min = a, !.max = b]
Settle(a)  == [NoAmount EXCEPT !.mode = "settle", !.account = a]
Pct(p)     == [NoAmount EXCEPT !.mode = "pct", !.pct = p]
Days(a, b) == [min |-> a, max |-> b]

Rule(type, account, direction, category, amount) ==
    [type |-> type, day |-> 0, account |-> account, from |-> Null, to |-> Null,
     direction |-> direction, category |-> category, amount |-> amount,
     range |-> Null, weekday |-> 0, triggerAccount |-> Null,
     triggerCategory |-> Null, frequency |-> Null, decay |-> Null,
     probability |-> Null, sourceCategory |-> Null, sourceAccount |-> Null,
     refundProbability |-> Null, refundDelay |-> Null]

Transfer(type, from, to, category, amount) ==
    [Rule(type, Null, "debit", category, amount) EXCEPT !.from = from, !.to = to]

\* Salary with a sweep, purchases on a card, and the card settled in full, if
\* anything is owed, on a day on which purchases may fall as well.
Disciplined ==
    [opening |-> chk :> 20 @@ card :> 0,
     bnpl    |-> [a \in {chk, card} |-> Null],
     rules   |-> <<
       [Rule("monthly_fixed_day", chk, "credit", "Salary", Between(10, 11)) EXCEPT !.day = 2],
       [Transfer("reactive_pct", chk, card, "Sweep", Pct(25)) EXCEPT
          !.triggerAccount = chk, !.triggerCategory = "Salary"],
       [Rule("reactive_pct", chk, "debit", "Fee", Pct(5)) EXCEPT
          !.triggerAccount = chk, !.triggerCategory = "Salary"],
       [Rule("weekly", card, "debit", "Groceries", Fixed(2)) EXCEPT !.weekday = 5],
       [Rule("monthly_day_range", card, "debit", "Utilities", Fixed(3)) EXCEPT
          !.range = Days(4, 12)],
       [Transfer("monthly_fixed_day", chk, card, "Transfer", Settle(card)) EXCEPT !.day = 5]>>]

\* Purchases paid in installments on a card that is settled as well, due on a
\* day the second month lacks: the first part of a purchase in the first month
\* overflows into the third month, where the second part is due past the end.
Installed ==
    [opening |-> chk :> 20 @@ card :> 0,
     bnpl    |-> chk :> Null @@ card :> [count |-> 2, day |-> 9],
     rules   |-> <<
       [Rule("random_n_per_month", card, "debit", "Shopping", Between(5, 6)) EXCEPT
          !.range = Days(7, 8), !.frequency = [mean |-> 1, variance |-> 1]],
       [Transfer("monthly_fixed_day", chk, card, "Transfer", Settle(card)) EXCEPT !.day = 5]>>]

\* Purchases that may be refunded, and an event that may happen once.
Refunded ==
    [opening |-> chk :> 20 @@ card :> 0,
     bnpl    |-> [a \in {chk, card} |-> Null],
     rules   |-> <<
       [Rule("monthly_day_range", card, "debit", "Shopping", Fixed(6)) EXCEPT
          !.range = Days(7, 8)],
       [Rule("one_time_in_range", chk, "credit", "Injection", Fixed(7)) EXCEPT
          !.range = Days(3, 7), !.probability = "maybe"],
       [Rule("refund_shadow", Null, Null, "Refund", NoAmount) EXCEPT
          !.sourceCategory = "Shopping", !.sourceAccount = card,
          !.refundProbability = "maybe", !.refundDelay = Days(1, 9)]>>]

\* A rule that has no amount of its own, after one that has.
Misconfigured ==
    [opening |-> chk :> 0 @@ card :> 0,
     bnpl    |-> [a \in {chk, card} |-> Null],
     rules   |-> <<
       [Rule("monthly_fixed_day", chk, "credit", "Salary", Fixed(9)) EXCEPT !.day = 4],
       [Rule("monthly_fixed_day", chk, "debit", "Tax", Pct(10)) EXCEPT !.day = 4]>>]

\* A number of installments that cannot be divided by, met late and perhaps
\* past the end of the range, after a rule for a day that one month lacks and
\* another has past the end.
Undivided ==
    [opening |-> chk :> 9 @@ card :> 0,
     bnpl    |-> chk :> Null @@ card :> [count |-> 0, day |-> 2],
     rules   |-> <<
       [Rule("monthly_fixed_day", chk, "debit", "Rent", Fixed(4)) EXCEPT !.day = 9],
       [Rule("decay_pattern", chk, "debit", "Food", Fixed(1)) EXCEPT
          !.decay = [peak |-> 1, trough |-> 1, inflection |-> 7]],
       [Rule("one_time_in_range", card, "debit", "Travel", Fixed(3)) EXCEPT
          !.range = Days(19, 22)]>>]

MCProfiles == {Disciplined, Installed, Refunded, Misconfigured, Undivided}

\* What the theorems take for granted of a configuration.
ASSUME ProfilesAsExpected ==
    /\ InstallmentDaysForward /\ DelaysForward
    /\ DirectionsGiven /\ SettlingPaysIn /\ SettledOpenAtZero
    /\ AmountsNotNegative /\ AmountsInRange

\* Months of 9, 8, 9, ... days; the range starts and ends inside a month.
MCFirstDay == <<1, 10, 18, 27, 35, 44, 52>>

================================================================================
