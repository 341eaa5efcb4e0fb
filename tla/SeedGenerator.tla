----------------------------- MODULE SeedGenerator -----------------------------
(****************************************************************************)
(* The data seeder posting the transactions of one profile                  *)
(* (generateTransactions): month by month it draws the firings of the       *)
(* rules, sorts them, posts each with the reactive ones it triggers, and    *)
(* then the installments and the refunds that fall due.                     *)
(*                                                                          *)
(* The seeder is sequential and the ledger is all it talks to.  A POST is   *)
(* answered with success, or fails with the transaction stored or not (it   *)
(* may have timed out after the commit); the seeder gives up on the first   *)
(* failure.  One action per POST.                                           *)
(*                                                                          *)
(* The ledger's rows are kept here as the sequence of transactions stored,  *)
(* in the order they were posted.  Beside what is posted (source,           *)
(* destination, amount) an entry records why: its kind, rule, date and the  *)
(* position of the entry that caused it.  These are never sent (a request   *)
(* carries no date) and are there for the properties.                       *)
(*                                                                          *)
(* The rules of a profile name only accounts the profile has, an unknown    *)
(* account of a firing apart (RejectFiring).  "external" is known as well   *)
(* (datagen.go:149), as the counter-party of every rule without a transfer; *)
(* as a rule's own account, which nothing forbids, it is left out.          *)
(****************************************************************************)
EXTENDS SeedPlan

CONSTANT Profiles   \* profiles [opening, bnpl, rules] the run may be given

MinMax == [min: Int, max: Int]

\* A rule as the configuration's types make it, for a profile with accounts A.
RuleTyped(r, A) ==
    /\ r.day \in Int
    /\ r.amount \in [mode: STRING, min: Int, max: Int, account: A \cup {Null}, pct: Int]
    /\ r.range \in {Null} \cup MinMax
    /\ r.frequency \in {Null} \cup [mean: Int, variance: Int]
    /\ r.decay \in {Null} \cup [peak: Int, trough: Int, inflection: Int]
    /\ r.refundDelay \in {Null} \cup MinMax
    /\ r.amount.mode = "settle" => r.amount.account \in A
    /\ r.to # Null => r.from \in A /\ r.to \in A
    /\ r.type = "reactive_pct" /\ r.to = Null => AccountOf(r) \in A
    /\ AccountOf(r) # External

ASSUME ProfilesAssumption ==
    \A p \in Profiles :
      LET A == DOMAIN p.opening
      IN  /\ {Null, External} \cap A = {}
          /\ p.opening \in [A -> Int]
          /\ p.bnpl \in [A -> {Null} \cup [count: Nat, day: Int]]
          /\ \A a \in A : p.bnpl[a] # Null =>
               LastMonth + p.bnpl[a].count <= Len(FirstDay)
          /\ p.rules \in Seq(Range(p.rules))
          /\ \A i \in DOMAIN p.rules : RuleTyped(p.rules[i], A)

VARIABLES
    profile,    \* the profile being seeded
    month,      \* the month being generated
    phase,      \* what is being done in it, or "done" or "failed"
    next,       \* the next rule, firing, installment or refund of the phase
    firings,    \* the month's firings [date, rule]
    settled,    \* oneTimeFired: rules that have fired, or decided not to
    trigger,    \* the latest firing posted: [entry, amount]
    queue,      \* the reactive rules it still has to fire
    balances,   \* the seeder's own balance of each account
    schedule,   \* installments to come
    refunds,    \* refunds that may come
    ledger      \* the entries the ledger holds

vars == <<profile, month, phase, next, firings, settled, trigger, queue,
          balances, schedule, refunds, ledger>>

rules    == profile.rules
Accounts == DOMAIN profile.opening

NoTrigger == [entry |-> 0, amount |-> 0]

Init ==
    /\ profile \in Profiles
    /\ month = 1 /\ phase = "plan" /\ next = 1
    /\ firings = <<>>
    /\ settled = {}
    /\ trigger = NoTrigger /\ queue = <<>>
    /\ balances = profile.opening
    /\ schedule = <<>> /\ refunds = <<>>
    /\ ledger = <<>>

--------------------------------------------------------------------------------
\* Planning the month

\* What a rule may draw, and whether it is settled by it.
Drawn(r) ==
    IF rules[r].type = "one_time_in_range"
    THEN IF r \in settled THEN {[dates |-> <<>>, settled |-> TRUE]}
         ELSE OneTime(rules[r], month)
    ELSE {[dates |-> d, settled |-> FALSE] : d \in Dates(rules[r], month)}

\* A bug to rule out: a rule that fired is not remembered.
PlanRuleForgetting ==
    /\ phase = "plan" /\ next <= Len(rules)
    /\ \E drawn \in Drawn(next) :
         firings' = firings \o [k \in DOMAIN drawn.dates |->
                                  [date |-> drawn.dates[k], rule |-> next]]
    /\ next' = next + 1
    /\ UNCHANGED <<profile, month, phase, settled, trigger, queue, balances,
                   schedule, refunds, ledger>>

PlanRule ==
    /\ phase = "plan" /\ next <= Len(rules)
    /\ \E drawn \in Drawn(next) :
         /\ firings' = firings \o [k \in DOMAIN drawn.dates |->
                                     [date |-> drawn.dates[k], rule |-> next]]
         /\ settled' = IF drawn.settled THEN settled \cup {next} ELSE settled
    /\ next' = next + 1
    /\ UNCHANGED <<profile, month, phase, trigger, queue, balances, schedule,
                   refunds, ledger>>

StartFiring ==
    /\ phase = "plan" /\ next > Len(rules)
    /\ firings' = SortFirings(firings)
    /\ phase' = "fire" /\ next' = 1
    /\ UNCHANGED <<profile, month, settled, trigger, queue, balances, schedule,
                   refunds, ledger>>

--------------------------------------------------------------------------------
\* Entries and posting

Entry(kind, ends, amount, rule, date, cause) ==
    [kind |-> kind, source |-> ends[1], destination |-> ends[2],
     amount |-> Int32(amount), rule |-> rule, date |-> date, cause |-> cause]

FiringEntry(amount) ==
    LET f == firings[next]
    IN  Entry("rule", Ends(rules[f.rule]), amount, f.rule, f.date, 0)

ReactionAmount == Percent(trigger.amount, rules[Head(queue)].amount.pct)

ReactionEntry ==
    Entry("reactive", Ends(rules[Head(queue)]), ReactionAmount, Head(queue),
          ledger[trigger.entry].date, trigger.entry)

InstallmentEntry(s) ==
    Entry("installment", <<s.account, External>>, s.amount, 0, s.date, s.cause)

RefundEntry(pr, date) ==
    Entry("refund", <<External, pr.account>>, pr.amount, pr.rule, date, pr.cause)

Posted(entry) == ledger' = Append(ledger, entry)

\* A POST that fails, for want of an answer or because of one: the entry may
\* be stored all the same, and the seeder stops.
NotPosted(entry) ==
    /\ ledger' \in {ledger, Append(ledger, entry)}
    /\ phase' = "failed"
    /\ UNCHANGED <<profile, month, next, firings, settled, trigger, queue,
                   balances, schedule, refunds>>

--------------------------------------------------------------------------------
\* Firing the rules

Firing == phase = "fire" /\ queue = <<>> /\ next <= Len(firings)

FiredRule == rules[firings[next].rule]

\* The amounts the firing at hand may be posted for.
Amounts == ResolveAmount(FiredRule.amount, balances)

\* Nothing outstanding: the firing is skipped.
SkipFiring ==
    /\ Firing /\ 0 \in Amounts
    /\ next' = next + 1
    /\ UNCHANGED <<profile, month, phase, firings, settled, trigger, queue,
                   balances, schedule, refunds, ledger>>

\* A rule without a usable amount, or for an account the profile lacks.
RejectFiring ==
    /\ Firing
    /\ \/ Amounts = {}
       \/ Amounts # {0} /\ AccountOf(FiredRule) \notin Accounts
    /\ phase' = "failed"
    /\ UNCHANGED <<profile, month, next, firings, settled, trigger, queue,
                   balances, schedule, refunds, ledger>>

\* What the purchase at position cause of the ledger adds to the refunds that
\* may come.  The code collects them after the reactive rules have fired;
\* nothing reads them before.
NewRefunds(amount, cause) ==
    LET f == firings[next]
        shadows == Shadows(rules, FiredRule)
    IN  [k \in DOMAIN shadows |->
           [date |-> f.date, account |-> AccountOf(FiredRule), amount |-> amount,
            rule |-> shadows[k], cause |-> cause]]

NewInstallments(amount, cause) ==
    LET plan == profile.bnpl[AccountOf(FiredRule)]
    IN  IF plan = Null THEN <<>>
        ELSE Installments(plan, month, AccountOf(FiredRule), amount, cause)

\* Dividing by an installment count of zero panics, after the POST.
Panics == profile.bnpl[AccountOf(FiredRule)] # Null
          /\ profile.bnpl[AccountOf(FiredRule)].count = 0

PostFiring ==
    /\ Firing /\ AccountOf(FiredRule) \in Accounts
    /\ \E amount \in Amounts \ {0} :
         \/ /\ Posted(FiringEntry(amount))
            /\ trigger' = [entry |-> Len(ledger'), amount |-> amount]
            /\ queue' = Reactions(rules, FiredRule, amount)
            /\ balances' = ApplyBalance(balances, FiredRule, amount)
            /\ next' = next + 1
            /\ IF Panics
               THEN phase' = "failed" /\ UNCHANGED <<schedule, refunds>>
               ELSE /\ schedule' = schedule \o NewInstallments(amount, Len(ledger'))
                    /\ refunds' = refunds \o NewRefunds(amount, Len(ledger'))
                    /\ UNCHANGED phase
            /\ UNCHANGED <<profile, month, firings, settled>>
         \/ NotPosted(FiringEntry(amount))

PostReaction ==
    /\ phase = "fire" /\ queue # <<>>
    /\ \/ /\ Posted(ReactionEntry)
          /\ balances' = ApplyBalance(balances, rules[Head(queue)], ReactionAmount)
          /\ queue' = Tail(queue)
          /\ UNCHANGED <<profile, month, phase, next, firings, settled, trigger,
                         schedule, refunds>>
       \/ NotPosted(ReactionEntry)

StartInstallments ==
    /\ phase = "fire" /\ queue = <<>> /\ next > Len(firings)
    /\ phase' = "installments" /\ next' = 1
    /\ UNCHANGED <<profile, month, firings, settled, trigger, queue, balances,
                   schedule, refunds, ledger>>

--------------------------------------------------------------------------------
\* Installments: the list is walked once a month; what is not due stays

\* A bug to rule out: an installment that is not due is looked at again.
KeepInstallmentAtHand ==
    /\ phase = "installments" /\ next <= Len(schedule)
    /\ ~InMonth(schedule[next].date, month)
    /\ UNCHANGED vars

KeepInstallment ==
    /\ phase = "installments" /\ next <= Len(schedule)
    /\ ~InMonth(schedule[next].date, month)
    /\ next' = next + 1
    /\ UNCHANGED <<profile, month, phase, firings, settled, trigger, queue,
                   balances, schedule, refunds, ledger>>

\* A bug to rule out: what was posted stays on its list.
StaysListed(list, i) == list

\* Of a list that is walked, what stays after element i was dealt with.
Delisted(list, i) == RemoveAt(list, i)

\* A bug to rule out: the list is cut and the index goes on all the same.
PostInstallmentSkipping ==
    /\ phase = "installments" /\ next <= Len(schedule)
    /\ InMonth(schedule[next].date, month)
    /\ \/ /\ Posted(InstallmentEntry(schedule[next]))
          /\ balances' = [balances EXCEPT ![schedule[next].account] =
                             @ + schedule[next].amount]
          /\ schedule' = Delisted(schedule, next) /\ next' = next + 1
          /\ UNCHANGED <<profile, month, phase, firings, settled, trigger,
                         queue, refunds>>
       \/ NotPosted(InstallmentEntry(schedule[next]))

PostInstallment ==
    /\ phase = "installments" /\ next <= Len(schedule)
    /\ InMonth(schedule[next].date, month)
    /\ \/ /\ Posted(InstallmentEntry(schedule[next]))
          /\ balances' = [balances EXCEPT ![schedule[next].account] =
                             @ + schedule[next].amount]
          /\ schedule' = Delisted(schedule, next)
          /\ UNCHANGED <<profile, month, phase, next, firings, settled, trigger,
                         queue, refunds>>
       \/ NotPosted(InstallmentEntry(schedule[next]))

StartRefunds ==
    /\ phase = "installments" /\ next > Len(schedule)
    /\ phase' = "refunds" /\ next' = 1
    /\ UNCHANGED <<profile, month, firings, settled, trigger, queue, balances,
                   schedule, refunds, ledger>>

--------------------------------------------------------------------------------
\* Refunds: a date is drawn for each, again every month until it is settled

RefundDates(pr) ==
    LET delay == rules[pr.rule].refundDelay
    IN  IF delay = Null THEN {}
        ELSE {pr.date + d : d \in RandInt(delay.min, delay.max)}

InRefunds == phase = "refunds" /\ next <= Len(refunds)

\* Past the date range, unlucky, or without a delay to draw: no refund.
DropRefund ==
    /\ InRefunds
    /\ \/ RefundDates(refunds[next]) = {}
       \/ \E date \in RefundDates(refunds[next]) :
            \/ date > End
            \/ date <= MonthEnd(month)
                 /\ rules[refunds[next].rule].refundProbability = "maybe"
    /\ refunds' = Delisted(refunds, next)
    /\ UNCHANGED <<profile, month, phase, next, firings, settled, trigger, queue,
                   balances, schedule, ledger>>

\* Not this month.
KeepRefund ==
    /\ InRefunds
    /\ \E date \in RefundDates(refunds[next]) : MonthEnd(month) < date /\ date <= End
    /\ next' = next + 1
    /\ UNCHANGED <<profile, month, phase, firings, settled, trigger, queue,
                   balances, schedule, refunds, ledger>>

PostRefund ==
    /\ InRefunds
    /\ \E date \in RefundDates(refunds[next]) :
         /\ date <= MonthEnd(month)
         /\ \/ /\ Posted(RefundEntry(refunds[next], date))
               /\ balances' = [balances EXCEPT ![refunds[next].account] =
                                  @ - refunds[next].amount]
               /\ refunds' = Delisted(refunds, next)
               /\ UNCHANGED <<profile, month, phase, next, firings, settled,
                              trigger, queue, schedule>>
            \/ NotPosted(RefundEntry(refunds[next], date))

\* A bug to rule out: the month that is over is compared, not the next one.
OverLate(m) == FirstDay[m] > End

\* The next month begins after the date range.
Over(m) == FirstDay[m + 1] > End

NextMonth ==
    /\ phase = "refunds" /\ next > Len(refunds)
    /\ phase' = IF Over(month) THEN "done" ELSE "plan"
    /\ month' = IF Over(month) THEN month ELSE month + 1
    /\ next' = 1 /\ firings' = <<>> /\ trigger' = NoTrigger
    /\ UNCHANGED <<profile, settled, queue, balances, schedule, refunds, ledger>>

--------------------------------------------------------------------------------

Next ==
    \/ PlanRule \/ StartFiring
    \/ SkipFiring \/ RejectFiring \/ PostFiring \/ PostReaction
    \/ StartInstallments \/ KeepInstallment \/ PostInstallment
    \/ StartRefunds \/ DropRefund \/ KeepRefund \/ PostRefund
    \/ NextMonth

Spec == Init /\ [][Next]_vars

\* The seeder is one goroutine that is never blocked: a POST is answered or
\* given up on after ten seconds, and nothing else waits.
FairSpec == Spec /\ WF_vars(Next)

--------------------------------------------------------------------------------
\* What the configuration is expected to keep to and the seeder does not check

\* No installment is due before its month.
InstallmentDaysForward ==
    \A p \in Profiles : \A a \in DOMAIN p.bnpl :
      p.bnpl[a] # Null => p.bnpl[a].day >= 1

\* No refund is due before its purchase.
DelaysForward ==
    \A p \in Profiles : \A r \in DOMAIN p.rules :
      p.rules[r].refundDelay # Null => p.rules[r].refundDelay.min >= 0

\* Rules say which way their money goes.  One that does not is posted as a
\* debit and booked as a credit.
DirectionsGiven ==
    \A p \in Profiles : \A r \in DOMAIN p.rules :
      p.rules[r].type # "refund_shadow" /\ p.rules[r].to = Null
        => p.rules[r].direction \in {"credit", "debit"}

\* A settling rule pays into the account it settles.
SettlingPaysIn ==
    \A p \in Profiles : \A r \in DOMAIN p.rules :
      LET rule == p.rules[r]
      IN  rule.amount.mode = "settle" =>
            IF rule.to # Null THEN rule.to = rule.amount.account /\ rule.from # rule.to
            ELSE rule.direction = "credit" /\ AccountOf(rule) = rule.amount.account

\* An account that a rule settles opens at zero.  Another opening balance would
\* be paid off as if it had been posted.
SettledOpenAtZero ==
    \A p \in Profiles : \A r \in DOMAIN p.rules :
      LET spec == p.rules[r].amount
      IN  spec.mode = "settle" => p.opening[spec.account] = 0

\* No rule has a negative amount of its own.
AmountsNotNegative ==
    \A p \in Profiles : \A r \in DOMAIN p.rules : p.rules[r].amount.min >= 0

\* The amounts of a rule fit in what is sent, and it is no more than the whole
\* that a reactive rule makes of them.
AmountsInRange ==
    \A p \in Profiles : \A r \in DOMAIN p.rules :
      LET spec == p.rules[r].amount
      IN  {spec.min, spec.max} \subseteq -Half .. Half - 1 /\ spec.pct \in 0 .. 100

--------------------------------------------------------------------------------
\* Correctness

Phases == {"plan", "fire", "installments", "refunds", "done", "failed"}
Kinds  == {"rule", "reactive", "installment", "refund"}
Ledgered == Accounts \cup {External}

TypeOK ==
    /\ profile \in Profiles
    /\ month \in 1 .. LastMonth
    /\ phase \in Phases
    /\ next \in Nat \ {0}
    /\ firings \in Seq([date: Int, rule: DOMAIN rules])
    /\ settled \subseteq DOMAIN rules
    /\ trigger \in [entry: 0 .. Len(ledger), amount: Int]
    /\ queue \in Seq(DOMAIN rules)
    /\ balances \in [Accounts -> Int]
    /\ schedule \in Seq([date: Int, account: Accounts, amount: Int, cause: DOMAIN ledger])
    /\ refunds \in Seq([date: Int, account: Accounts, amount: Int,
                        rule: DOMAIN rules, cause: DOMAIN ledger])
    /\ ledger \in Seq([kind: Kinds, source: Ledgered, destination: Ledgered,
                       amount: -Half .. Half - 1, rule: Nat, date: Int, cause: Nat])

OfKind(kind) == {i \in DOMAIN ledger : ledger[i].kind = kind}

Sum(S) == SumFunctionOnSet([i \in DOMAIN ledger |-> ledger[i].amount], S)

\* What the first n entries of the ledger add to an account.
NetOf(a, n) ==
    Sum({i \in 1 .. n : ledger[i].destination = a})
      - Sum({i \in 1 .. n : ledger[i].source = a})

\* Neither an installment nor a refund among the first n entries is a's.
Plain(a, n) ==
    \A i \in (OfKind("installment") \cup OfKind("refund")) \cap 1 .. n :
      a \notin {ledger[i].source, ledger[i].destination}

\* Entries the ledger may hold that the seeder knows of: all, or all but a last
\* one whose POST failed after it was stored.
KnownEntries == {Len(ledger)} \cup (IF phase = "failed" THEN {Len(ledger) - 1} ELSE {})

\* What installments less refunds come to among the first n entries of a.
Reversed(a, n) ==
    Sum({i \in OfKind("installment") \cap 1 .. n : ledger[i].source = a})
      - Sum({i \in OfKind("refund") \cap 1 .. n : ledger[i].destination = a})

\* The seeder's balances keep step with the ledger through every sequence of
\* rules, reactive transfers, installments and refunds, and depart from it in
\* two ways only.  The opening balance is the seeder's alone: it is put in its
\* map (datagen.go:133) and never posted, so that the ledger's account starts
\* at zero.  And the seeder adds an installment where the ledger subtracts it,
\* and subtracts a refund where the ledger adds it.  An account that opens at
\* zero and has neither is tracked to the unit.
BalancesFollowLedger ==
    \A a \in Accounts : \E n \in KnownEntries :
      balances[a] = NetOf(a, n) + profile.opening[a] + 2 * Reversed(a, n)

\* "accountBalances tracks the running ledger balance of each account so that
\* settle_account amounts can be computed" (datagen.go:113), even where the
\* two start alike, at zero.
BalancesTrackLedger ==
    \A a \in Accounts : profile.opening[a] = 0 =>
      \E n \in KnownEntries : balances[a] = NetOf(a, n)

\* Amounts are computed in 64 bits and sent in 32: what a rule is posted for,
\* with what has run up on an account it settles, and what reactive rules make
\* of it, is never cut off.
AmountsFit ==
    /\ Firing => Amounts \subseteq -Half .. Half - 1
    /\ phase = "fire" /\ queue # <<>> => ReactionAmount \in -Half .. Half - 1

\* What has run up on an account fits when a rule is about to settle it.
DebtsFit ==
    Firing /\ FiredRule.amount.mode = "settle" =>
      balances[FiredRule.amount.account] > -Half

\* A settling rule pays "in full" (seed-config.yaml:60): with its payment in
\* the ledger, the account it settles stands at zero there, whatever was
\* posted to it since the last one, on the same day included.  This is so where
\* settled accounts open at zero (SettledOpenAtZero); one that does not is left
\* at minus its opening balance, which the ledger never got.
SettledInFull ==
    \A i \in OfKind("rule") :
      LET spec == rules[ledger[i].rule].amount
      IN  spec.mode = "settle" /\ Plain(spec.account, i) => NetOf(spec.account, i) = 0

\* "Sort firings by date (stable sort preserves rule declaration order for
\* same-day firings, which matters for reactive rules)" (datagen.go:328): the
\* rules' own entries are posted in this order, over the whole date range.
InDateOrder ==
    \A i, j \in OfKind("rule") : i < j =>
      \/ ledger[i].date < ledger[j].date
      \/ ledger[i].date = ledger[j].date /\ ledger[i].rule <= ledger[j].rule

\* "one_time_in_range rules may only fire once per rule" (datagen.go:192),
\* although the date is drawn anew in each month.
OneTimeOnce ==
    \A i, j \in OfKind("rule") :
      ledger[i].rule = ledger[j].rule /\ rules[ledger[i].rule].type = "one_time_in_range"
        => i = j

Monthly == {"monthly_fixed_day", "monthly_day_range"}

\* A monthly rule has one entry in a month at most, on a day of that month, and
\* none past the end, although a day the month lacks is a day of the next one.
\* The range is not kept to the day: the whole first month counts, so that one
\* that starts inside a month gets entries dated before its start, and the
\* whole last month counts for a one_time_in_range rule, whose date is compared
\* with the month alone.
RulesInSeason ==
    \A i \in OfKind("rule") :
      /\ FirstDay[1] <= ledger[i].date /\ ledger[i].date < FirstDay[LastMonth + 1]
      /\ rules[ledger[i].rule].type # "one_time_in_range" => ledger[i].date <= End
      /\ \A j \in OfKind("rule"), m \in 1 .. LastMonth :
           /\ rules[ledger[i].rule].type \in Monthly /\ ledger[i].rule = ledger[j].rule
           /\ InMonth(ledger[i].date, m) /\ InMonth(ledger[j].date, m)
           => i = j

BoughtOn(i) == AccountOf(rules[ledger[i].rule])

Purchases == {i \in OfKind("rule") : profile.bnpl[BoughtOn(i)] # Null}

InstallmentsOf(c) == {i \in OfKind("installment") : ledger[i].cause = c}
PendingOf(c)      == {i \in DOMAIN schedule : schedule[i].cause = c}

\* No installment is lost or posted twice while the list is walked and cut
\* month after month: those posted and those to come are always the number
\* that was agreed, and none is left behind in a month that is over, whatever
\* day of the month it falls on.
InstallmentsKept ==
    phase # "failed" =>
      /\ \A c \in Purchases :
           Cardinality(InstallmentsOf(c)) + Cardinality(PendingOf(c))
             = profile.bnpl[BoughtOn(c)].count
      /\ \A i \in DOMAIN schedule :
           /\ phase \in {"plan", "fire"} => schedule[i].date >= FirstDay[month]
           /\ phase = "done" => schedule[i].date >= FirstDay[month + 1]

\* The parts of a purchase posted and to come make up its amount but for a
\* remainder that the division leaves, which is less than one unit a part.
PartsFallShort ==
    phase # "failed" =>
      \A c \in Purchases :
        LET parts == Sum(InstallmentsOf(c))
                       + SumFunctionOnSet([i \in DOMAIN schedule |-> schedule[i].amount],
                                          PendingOf(c))
        IN  ledger[c].amount - parts \in 0 .. profile.bnpl[BoughtOn(c)].count - 1

\* A refund gives back the amount of an earlier purchase to the account it
\* was bought on, within the date range, and at most once for each purchase
\* and refund rule, although its date is drawn anew in each month.
RefundsBacked ==
    \A i \in OfKind("refund") :
      LET c == ledger[i].cause
      IN  /\ c \in OfKind("rule") /\ c < i
          /\ ledger[i].amount = ledger[c].amount
          /\ ledger[i].destination = BoughtOn(c)
          /\ ledger[c].date <= ledger[i].date /\ ledger[i].date <= End
          /\ \A j \in OfKind("refund") :
               ledger[j].cause = c /\ ledger[j].rule = ledger[i].rule => i = j

\* The seeder comes to an end: neither the lists it walks and cuts while they
\* grow from month to month, nor the firings it draws anew, keep it going.
Terminates == <>(phase \in {"done", "failed"})

\* The place of a phase in a month, the two ends last.
Turn(p) ==
    CASE p = "plan" -> 1 [] p = "fire" -> 2 [] p = "installments" -> 3
      [] p = "refunds" -> 4 [] OTHER -> 5

\* What the phase has still to look at.
LeftToDo ==
    CASE phase = "plan"         -> Len(rules) + 1 - next
      [] phase = "fire"         -> Len(firings) + 1 - next
      [] phase = "installments" -> Len(schedule) + 1 - next
      [] phase = "refunds"      -> Len(refunds) + 1 - next
      [] OTHER                  -> 0

\* Every step brings the seeder closer to its end, although two of the lists it
\* walks are cut under its index and are walked again every month: it goes to a
\* later month of the range, to a later phase of the month, or has less left in
\* the phase, the reactive rules of the firing at hand counted last.  Nothing of
\* this can go on forever.
StepsForward ==
    [][\/ month' \in month + 1 .. LastMonth
       \/ month' = month /\ Turn(phase') > Turn(phase)
       \/ /\ month' = month /\ phase' = phase
          /\ \/ LeftToDo' \in 0 .. LeftToDo - 1
             \/ LeftToDo' = LeftToDo /\ Len(queue') < Len(queue)]_vars

\* "every purchase on this account is automatically split into
\* installment_count equal debits" (seed-config.yaml:189): what is charged
\* for a purchase is never more than its amount.
ChargedOnce ==
    \A c \in Purchases : Sum({c} \cup InstallmentsOf(c)) <= ledger[c].amount

================================================================================
