------------------------------- MODULE SeedPlan -------------------------------
(****************************************************************************)
(* What the data seeder (src/data-seeder) plans for one profile: on which   *)
(* dates its rules fire, in which order, for which amounts, and which       *)
(* transactions follow from them.                                           *)
(*                                                                          *)
(* A date is a day number.  Months are numbered from the one of the start   *)
(* date, and FirstDay gives the day number of each month's first day; a day *)
(* of the month that is past its last one falls into the next month, as Go  *)
(* normalises it.  What the seeded random generator draws is any of the     *)
(* values it may draw.                                                      *)
(****************************************************************************)
EXTENDS Integers, SequencesExt

CONSTANTS
    Null,         \* a field the configuration leaves out
    External,     \* the counter-party account of a profile
    FirstDay,     \* first day of each month, a few months past the end included
    Start, End,   \* the date range
    SampleBound,  \* bound: the largest sample of a normal distribution
    Half          \* 2^31: amounts are sent as int32

LastMonth == CHOOSE m \in DOMAIN FirstDay : FirstDay[m] <= End /\ End < FirstDay[m + 1]

ASSUME SeedPlanAssumption ==
    /\ Len(FirstDay) >= 2
    /\ FirstDay \in Seq(Int)
    /\ \A m \in 1 .. Len(FirstDay) - 1 : FirstDay[m] < FirstDay[m + 1]
    /\ Start \in Int /\ End \in Int
    /\ FirstDay[1] <= Start /\ Start < FirstDay[2]
    /\ Start <= End /\ End < FirstDay[Len(FirstDay)]
    /\ SampleBound \in Nat /\ Half \in Nat \ {0}

--------------------------------------------------------------------------------
\* The calendar

Date(m, day)   == FirstDay[m] + day - 1
DaysInMonth(m) == FirstDay[m + 1] - FirstDay[m]
InMonth(d, m)  == FirstDay[m] <= d /\ d < FirstDay[m + 1]

\* A bug to rule out: the end of the range is forgotten.
WholeMonth(m) == FirstDay[m + 1] - 1

\* The last day of the month, or of the date range.
MonthEnd(m) == IF FirstDay[m + 1] - 1 > End THEN End ELSE FirstDay[m + 1] - 1

\* The n-th element of a finite set in a strict order of its elements.
Nth(S, Before(_, _), n) ==
    CHOOSE k \in S : Cardinality({j \in S : Before(j, k)}) = n - 1

\* The elements of s at the positions in keep, in their order.
Kept(s, keep) ==
    [n \in 1 .. Cardinality(keep) |-> s[Nth(keep, LAMBDA j, k : j < k, n)]]

\* The dates of a sequence that are neither before the month nor after its
\* end.  Only the first month's days before Start pass although they are out
\* of range.
Within(m, dates) ==
    Kept(dates, {k \in DOMAIN dates : FirstDay[m] <= dates[k] /\ dates[k] <= MonthEnd(m)})

--------------------------------------------------------------------------------
\* What the random generator may draw

RandInt(min, max) == IF min >= max THEN {min} ELSE min .. max

\* A rounded normal distribution, cut off below at zero.
SampleFrequency(mean, variance) ==
    IF variance = 0 THEN {mean} ELSE 0 .. SampleBound

\* Sequences of n days of month m, each drawn between lo and hi.
Draws(m, n, lo, hi) ==
    {[k \in 1 .. n |-> Date(m, days[k])] : days \in [1 .. n -> RandInt(lo, hi)]}

--------------------------------------------------------------------------------
\* The dates a rule fires on in a month, in the order they are drawn

Lesser(a, b) == IF a < b THEN a ELSE b

FixedDay(rule, m) == {Within(m, <<Date(m, rule.day)>>)}

DayRange(rule, m) ==
    {Within(m, dates) : dates \in
       Draws(m, 1, rule.range.min, Lesser(rule.range.max, DaysInMonth(m)))}

Weekly(rule, m) ==
    LET days == [k \in 1 .. DaysInMonth(m) |-> Date(m, k)]
    IN  {Kept(days, {k \in DOMAIN days :
                       days[k] <= MonthEnd(m) /\ days[k] % 7 = rule.weekday})}

RandomN(rule, m) ==
    UNION {{Within(m, dates) : dates \in
              Draws(m, n, rule.range.min, Lesser(rule.range.max, DaysInMonth(m)))} :
             n \in SampleFrequency(rule.frequency.mean, rule.frequency.variance)}

\* Often up to the inflection day, rarely after it.
Decay(rule, m) ==
    LET last == rule.decay.inflection
    IN  {Within(m, peak \o trough) :
           peak   \in Draws(m, rule.decay.peak, 1, last),
           trough \in Draws(m, rule.decay.trough, last + 1, DaysInMonth(m))}

\* The dates of a rule other than one_time_in_range.  Reactive and refund
\* rules, and rules of an unknown type or without their parameters, have none.
Dates(rule, m) ==
    CASE rule.type = "monthly_fixed_day" -> FixedDay(rule, m)
      [] rule.type = "monthly_day_range" /\ rule.range # Null -> DayRange(rule, m)
      [] rule.type = "weekly" -> Weekly(rule, m)
      [] rule.type = "random_n_per_month" /\ rule.range # Null
           /\ rule.frequency # Null -> RandomN(rule, m)
      [] rule.type = "decay_pattern" /\ rule.decay # Null -> Decay(rule, m)
      [] OTHER -> {<<>>}

\* A one_time_in_range rule in a month: what it may fire on, and whether that
\* settles it.  Both the decision and the offset are drawn anew every month
\* until the rule is settled.
OneTime(rule, m) ==
    (IF rule.probability = "maybe" THEN {[dates |-> <<>>, settled |-> TRUE]} ELSE {})
    \cup
    (IF rule.range = Null
     THEN {[dates |-> <<>>, settled |-> FALSE]}
     ELSE {IF InMonth(Start + offset, m)
           THEN [dates |-> <<Start + offset>>, settled |-> TRUE]
           ELSE [dates |-> <<>>, settled |-> FALSE] :
             offset \in RandInt(rule.range.min, rule.range.max)})

--------------------------------------------------------------------------------
\* The order of a month's firings [date, rule]

\* A bug to rule out: same-day firings are turned round.
PrecedesTurned(firings, j, k) ==
    \/ firings[j].date < firings[k].date
    \/ firings[j].date = firings[k].date /\ j > k

\* The insertion sort moves a firing down past those of later dates only: of
\* two firings on one day the one that was drawn first stays first.
Precedes(firings, j, k) ==
    \/ firings[j].date < firings[k].date
    \/ firings[j].date = firings[k].date /\ j < k

SortFirings(firings) ==
    LET drawn == DOMAIN firings
    IN  [n \in drawn |-> firings[Nth(drawn, LAMBDA j, k : Precedes(firings, j, k), n)]]

--------------------------------------------------------------------------------
\* Amounts and accounts of a rule

\* A bug to rule out: money that is there is paid, instead of what is owed.
AvailableInstead(balance) == IF balance > 0 THEN {balance} ELSE {0}

\* A credit account is owed what its balance is below zero.
Outstanding(balance) == IF balance < 0 THEN {-balance} ELSE {0}

\* resolveAmount: the amounts that may come out; none is an error.  A zero
\* amount is not posted.
ResolveAmount(spec, balances) ==
    CASE spec.mode = "fixed"  -> {spec.min}
      [] spec.mode = "range"  -> RandInt(spec.min, spec.max)
      [] spec.mode = "settle" -> Outstanding(balances[spec.account])
      [] OTHER -> {}

\* A bug to rule out: the percentage is not divided by a hundred.
PercentUnscaled(amount, pct) == amount * pct

\* math.Round(amount * pct / 100): halves go away from zero.  The percentages of
\* the configuration are float64; those of seed-config.yaml and of the model are
\* whole numbers, for which the quotient is exact to the half.
Percent(amount, pct) ==
    LET twice == 2 * amount * pct
    IN  IF twice >= 0 THEN (twice + 100) \div 200 ELSE -((100 - twice) \div 200)

Int32(amount) == ((amount + Half) % (2 * Half)) - Half

AccountOf(rule) == IF rule.account # Null THEN rule.account ELSE rule.from

\* Source and destination of the transaction a rule posts.
Ends(rule) ==
    IF rule.to # Null THEN <<rule.from, rule.to>>
    ELSE IF rule.direction = "credit" THEN <<External, AccountOf(rule)>>
    ELSE <<AccountOf(rule), External>>

\* A bug to rule out: an internal transfer is booked on its source alone.
AppliedToSource(balances, rule, amount) ==
    IF rule.to # Null
    THEN [balances EXCEPT ![rule.from] = @ - amount]
    ELSE IF rule.direction = "debit"
    THEN [balances EXCEPT ![AccountOf(rule)] = @ - amount]
    ELSE [balances EXCEPT ![AccountOf(rule)] = @ + amount]

ApplyBalance(balances, rule, amount) ==
    IF rule.to # Null
    THEN [[balances EXCEPT ![rule.from] = @ - amount] EXCEPT ![rule.to] = @ + amount]
    ELSE IF rule.direction = "debit"
    THEN [balances EXCEPT ![AccountOf(rule)] = @ - amount]
    ELSE [balances EXCEPT ![AccountOf(rule)] = @ + amount]

--------------------------------------------------------------------------------
\* What follows from a firing

\* The reactive_pct rules that fire upon an amount posted by a rule, in order.
\* The trigger is the account the rule names, whichever way the money went.
Reactions(rules, rule, amount) ==
    Kept([i \in DOMAIN rules |-> i],
         {i \in DOMAIN rules : /\ rules[i].type = "reactive_pct"
                               /\ rules[i].triggerAccount = AccountOf(rule)
                               /\ rules[i].triggerCategory = rule.category
                               /\ rules[i].amount.mode = "pct"
                               /\ Percent(amount, rules[i].amount.pct) # 0})

\* The refund_shadow rules attached to what a rule posts, in order.
Shadows(rules, rule) ==
    Kept([i \in DOMAIN rules |-> i],
         {i \in DOMAIN rules : /\ rules[i].type = "refund_shadow"
                               /\ rules[i].sourceCategory = rule.category
                               /\ rules[i].sourceAccount = AccountOf(rule)
                               /\ rules[i].refundProbability # Null})

\* A bug to rule out: parts are rounded up.
QuotientUp(a, b) == (a + b - 1) \div b

\* Go's integer division.
Quotient(a, b) == IF a >= 0 THEN a \div b ELSE -((-a) \div b)

\* The installments of a purchase in month m: equal parts, on a fixed day of
\* each of the following months.
Installments(plan, m, account, amount, cause) ==
    [i \in 1 .. plan.count |->
       [date |-> Date(m + i, plan.day), account |-> account,
        amount |-> Quotient(amount, plan.count), cause |-> cause]]

================================================================================
