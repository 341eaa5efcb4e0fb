-------------------------- MODULE SeedGeneratorProofs --------------------------
(****************************************************************************)
(* Proofs about the transactions of a profile (SeedGenerator.tla), for every *)
(* calendar, date range and set of profiles.                                 *)
(****************************************************************************)
EXTENDS SeedGenerator, FiniteSums, SequenceTheorems

--------------------------------------------------------------------------------
\* The inductive invariants

\* Reactive rules wait only while a month's rules fire, for an entry there is.
QueueTriggered ==
    /\ queue # <<>> => phase \in {"fire", "failed"} /\ trigger.entry \in DOMAIN ledger
    /\ \A k \in DOMAIN queue : rules[queue[k]].type = "reactive_pct"

TypeInv == TypeOK /\ QueueTriggered

OneTimer == {"one_time_in_range"}

\* A firing's date is in the month, and in the range but for a one_time rule.
FiringsDated ==
    \A k \in DOMAIN firings :
      /\ InMonth(firings[k].date, month)
      /\ rules[firings[k].rule].type \notin OneTimer => firings[k].date <= End

\* x is dated before y, or on the same day and its rule is declared no later.
InOrder(x, y) == x.date < y.date \/ (x.date = y.date /\ x.rule <= y.rule)

\* The firings are drawn in the order of the rules, and in date order from
\* then on.
FiringsInOrder ==
    /\ phase = "plan" => \A k \in DOMAIN firings : firings[k].rule < next
    /\ \A j, k \in DOMAIN firings : j < k =>
         IF phase = "plan" THEN firings[j].rule <= firings[k].rule
         ELSE InOrder(firings[j], firings[k])

\* Monthly and one-time rules fire once in a month at most.
FiringsSingle ==
    \A j, k \in DOMAIN firings :
      /\ firings[j].rule = firings[k].rule
      /\ rules[firings[j].rule].type \in Monthly \cup OneTimer
      => j = k

PlanInv == FiringsDated /\ FiringsInOrder /\ FiringsSingle

\* The firings that may still be posted.
Ahead == {k \in DOMAIN firings : phase = "plan" \/ (phase = "fire" /\ k >= next)}

\* What was posted by rules comes before what is ahead.
EntriesBehind ==
    \A i \in OfKind("rule") :
      /\ ledger[i].date < FirstDay[IF phase = "plan" THEN month ELSE month + 1]
      /\ \A k \in Ahead : InOrder(ledger[i], firings[k])

\* A one-time rule that fires, or has fired, is settled, and one that has been
\* posted is not ahead again.
OneTimeSettled ==
    /\ \A k \in DOMAIN firings :
         rules[firings[k].rule].type \in OneTimer => firings[k].rule \in settled
    /\ \A i \in OfKind("rule") : rules[ledger[i].rule].type \in OneTimer =>
         /\ ledger[i].rule \in settled
         /\ \A k \in Ahead : firings[k].rule # ledger[i].rule

\* What a monthly rule that is ahead has posted is of earlier months.
MonthlyBehind ==
    \A i \in OfKind("rule"), k \in Ahead :
      /\ rules[ledger[i].rule].type \in Monthly
      /\ ledger[i].rule = firings[k].rule
      => ledger[i].date < FirstDay[month]

OrderInv ==
    /\ EntriesBehind /\ OneTimeSettled /\ MonthlyBehind
    /\ InDateOrder /\ OneTimeOnce /\ RulesInSeason

\* A refund that may come is for an earlier entry of a rule, on its account and
\* of its amount; there is one for each purchase and refund rule, and none has
\* been posted yet.
RefundsOpen ==
    /\ \A k \in DOMAIN refunds :
         /\ refunds[k].cause \in OfKind("rule")
         /\ ledger[refunds[k].cause].date = refunds[k].date
         /\ ledger[refunds[k].cause].amount = Int32(refunds[k].amount)
         /\ BoughtOn(refunds[k].cause) = refunds[k].account
    /\ \A j, k \in DOMAIN refunds :
         refunds[j].cause = refunds[k].cause /\ refunds[j].rule = refunds[k].rule
           => j = k
    /\ phase # "failed" =>
         \A i \in OfKind("refund"), k \in DOMAIN refunds :
           ~(ledger[i].cause = refunds[k].cause /\ ledger[i].rule = refunds[k].rule)

RefundInv == RefundsOpen /\ RefundsBacked

\* An installment that is due is ahead of the walk of its month's list.
InstallmentsDated ==
    \A k \in DOMAIN schedule :
      /\ phase \in {"plan", "fire", "installments"} => schedule[k].date >= FirstDay[month]
      /\ \/ phase = "installments" /\ k < next
         \/ phase \in {"refunds", "done"}
         => schedule[k].date >= FirstDay[month + 1]

\* An entry is caused by an earlier one, if at all.
CausesBack == \A i \in DOMAIN ledger : ledger[i].cause < i

\* The installments of a purchase, posted and to come.
InstallmentsCounted ==
    phase # "failed" =>
      \A c \in Purchases :
        Cardinality(InstallmentsOf(c)) + Cardinality(PendingOf(c))
          = profile.bnpl[BoughtOn(c)].count

InstallmentInv == CausesBack /\ InstallmentsDated /\ InstallmentsCounted

--------------------------------------------------------------------------------
\* Orders of a finite set, and what Kept and SortFirings return

\* What comes before x in S, in the order R.
Below(S, R, x) == {y \in S : <<y, x>> \in R}

StrictOrder(S, R) ==
    /\ \A x \in S : <<x, x>> \notin R
    /\ \A x, y, z \in S : <<x, y>> \in R /\ <<y, z>> \in R => <<x, z>> \in R
    /\ \A x, y \in S : x = y \/ <<x, y>> \in R \/ <<y, x>> \in R

\* Each number below the size of S is the rank of one element, and ranks grow
\* with the order.
LEMMA Ranks ==
    ASSUME NEW S, IsFiniteSet(S), NEW R, StrictOrder(S, R)
    PROVE  /\ \A x \in S : Cardinality(Below(S, R, x)) \in 0 .. Cardinality(S) - 1
           /\ \A x, y \in S : <<x, y>> \in R =>
                Cardinality(Below(S, R, x)) < Cardinality(Below(S, R, y))
           /\ \A n \in 0 .. Cardinality(S) - 1 :
                \E x \in S : Cardinality(Below(S, R, x)) = n
<1> DEFINE below(x) == Below(S, R, x)
           rank == [x \in S |-> Cardinality(below(x))]
<1>1. Cardinality(S) \in Nat
  BY FS_CardinalityType
<1>2. ASSUME NEW x \in S
      PROVE  /\ IsFiniteSet(below(x)) /\ Cardinality(below(x)) \in Nat
             /\ Cardinality(below(x)) <= Cardinality(S) - 1
  <2>1. below(x) \subseteq S \ {x}
    BY DEF Below, StrictOrder
  <2>2. IsFiniteSet(S \ {x}) /\ Cardinality(S \ {x}) = Cardinality(S) - 1
    BY FS_RemoveElement
  <2> HIDE DEF below
  <2>3. IsFiniteSet(below(x)) /\ Cardinality(below(x)) <= Cardinality(S \ {x})
    BY <2>1, <2>2, FS_Subset
  <2>4. QED
    BY <2>2, <2>3, FS_CardinalityType
<1>3. ASSUME NEW x \in S, NEW y \in S, <<x, y>> \in R
      PROVE  Cardinality(below(x)) < Cardinality(below(y))
  <2>1. below(x) \subseteq below(y) /\ x \in below(y) /\ x \notin below(x)
    BY <1>3 DEF Below, StrictOrder
  <2> HIDE DEF below
  <2>2. /\ Cardinality(below(x)) <= Cardinality(below(y))
        /\ Cardinality(below(x)) # Cardinality(below(y))
    BY <1>2, <2>1, FS_Subset
  <2>3. QED
    BY <1>2, <2>2
<1>4. rank \in [S -> 0 .. Cardinality(S) - 1]
  BY <1>1, <1>2
<1>5. ASSUME NEW x \in S, NEW y \in S, rank[x] = rank[y] PROVE x = y
  <2>1. <<x, y>> \notin R /\ <<y, x>> \notin R
    BY <1>2, <1>3, <1>5
  <2>2. QED
    BY <2>1 DEF StrictOrder
<1>6. rank \in Injection(S, 0 .. Cardinality(S) - 1)
  <2> HIDE DEF rank
  <2>1. QED
    BY <1>4, <1>5 DEF Injection, IsInjective
<1>7. IsFiniteSet(0 .. Cardinality(S) - 1)
      /\ Cardinality(0 .. Cardinality(S) - 1) = Cardinality(S)
  BY <1>1, FS_Interval
<1>8. rank \in Surjection(S, 0 .. Cardinality(S) - 1)
  <2> DEFINE T == 0 .. Cardinality(S) - 1
  <2>1. /\ IsFiniteSet(S) /\ IsFiniteSet(T) /\ Cardinality(T) = Cardinality(S)
        /\ rank \in Injection(S, T)
    BY <1>6, <1>7
  <2> HIDE DEF rank, T
  <2>2. rank \in Surjection(S, T)
    BY ONLY <2>1, FS_Injection
  <2>3. QED
    BY <2>2 DEF T
<1>9. \A n \in 0 .. Cardinality(S) - 1 : \E x \in S : rank[x] = n
  <2> HIDE DEF rank
  <2>1. QED
    BY <1>8 DEF Surjection
<1>10. QED
  BY <1>1, <1>2, <1>3, <1>9

\* Nth counts S through in the order.
LEMMA NthCounts ==
    ASSUME NEW S, IsFiniteSet(S), NEW R, StrictOrder(S, R), NEW q,
           q = [n \in 1 .. Cardinality(S) |->
                     CHOOSE k \in S : Cardinality(Below(S, R, k)) = n - 1]
    PROVE  /\ q \in [1 .. Cardinality(S) -> S]
           /\ \A m, n \in 1 .. Cardinality(S) : m < n => <<q[m], q[n]>> \in R
<1>1. Cardinality(S) \in Nat
  BY FS_CardinalityType
<1>2. ASSUME NEW n \in 1 .. Cardinality(S)
      PROVE  q[n] \in S /\ Cardinality(Below(S, R, q[n])) = n - 1
  <2>1. n - 1 \in 0 .. Cardinality(S) - 1
    BY <1>1
  <2>2. \E k \in S : Cardinality(Below(S, R, k)) = n - 1
    BY <2>1, Ranks
  <2>3. q[n] = CHOOSE k \in S : Cardinality(Below(S, R, k)) = n - 1
    OBVIOUS
  <2>4. QED
    BY <2>2, <2>3
<1>3. ASSUME NEW m \in 1 .. Cardinality(S), NEW n \in 1 .. Cardinality(S), m < n
      PROVE  <<q[m], q[n]>> \in R
  <2>1. q[m] \in S /\ q[n] \in S
    BY <1>2
  <2>2. q[m] # q[n]
    BY <1>2, <1>3
  <2>3. <<q[n], q[m]>> \notin R
    <3>1. <<q[n], q[m]>> \in R =>
            Cardinality(Below(S, R, q[n])) < Cardinality(Below(S, R, q[m]))
      BY <2>1, Ranks
    <3>2. QED
      BY <1>2, <1>3, <3>1
  <2>4. QED
    BY <2>1, <2>2, <2>3 DEF StrictOrder
<1>4. q \in [1 .. Cardinality(S) -> S]
  <2> DEFINE pick(n) == CHOOSE k \in S : Cardinality(Below(S, R, k)) = n - 1
  <2>1. q = [n \in 1 .. Cardinality(S) |-> pick(n)]
    OBVIOUS
  <2>2. \A n \in 1 .. Cardinality(S) : pick(n) \in S
    BY <1>2, <2>1
  <2> HIDE DEF pick
  <2>3. QED
    BY <2>1, <2>2
<1>5. QED
  BY <1>3, <1>4

\* The i-th of the positions kept.
Position(keep, i) == Nth(keep, LAMBDA j, k : j < k, i)

LEMMA KeptLemma ==
    ASSUME NEW n \in Nat, NEW keep \in SUBSET (1 .. n), NEW s
    PROVE  /\ Cardinality(keep) \in 0 .. n
           /\ Kept(s, keep) = [i \in 1 .. Cardinality(keep) |-> s[Position(keep, i)]]
           /\ \A i \in 1 .. Cardinality(keep) : Position(keep, i) \in keep
           /\ \A i, j \in 1 .. Cardinality(keep) :
                i < j => Position(keep, i) < Position(keep, j)
<1> DEFINE R == {x \in keep \X keep : x[1] < x[2]}
           c == Cardinality(keep)
           q == [i \in 1 .. c |-> CHOOSE k \in keep : Cardinality(Below(keep, R, k)) = i - 1]
<1>1. IsFiniteSet(keep) /\ c \in 0 .. n
  <2>1. IsFiniteSet(1 .. n) /\ Cardinality(1 .. n) = n
    BY FS_Interval
  <2>2. IsFiniteSet(keep) /\ c <= n
    BY <2>1, FS_Subset
  <2>3. QED
    BY <2>2, FS_CardinalityType
<1>2. StrictOrder(keep, R)
  BY DEF StrictOrder
<1>3. /\ q \in [1 .. c -> keep]
      /\ \A i, j \in 1 .. c : i < j => <<q[i], q[j]>> \in R
  <2> HIDE DEF R
  <2>1. QED
    BY <1>1, <1>2, NthCounts
<1>4. \A k \in keep : Below(keep, R, k) = {j \in keep : j < k}
  BY DEF Below
<1>5. \A i \in 1 .. c : q[i] = Position(keep, i)
  BY <1>4 DEF Nth, Position
<1>6. Kept(s, keep) = [i \in 1 .. c |-> s[Position(keep, i)]]
  BY DEF Kept, Position
<1>7. \A i, j \in 1 .. c : i < j => q[i] < q[j]
  <2> HIDE DEF q
  <2>1. QED
    BY <1>3
<1> HIDE DEF q
<1>8. QED
  BY <1>1, <1>3, <1>5, <1>6, <1>7

LEMMA SortLemma ==
    ASSUME NEW n \in Nat, NEW f, DOMAIN f = 1 .. n, \A i \in 1 .. n : f[i].date \in Int
    PROVE  \E q \in [1 .. n -> 1 .. n] :
             /\ SortFirings(f) = [i \in 1 .. n |-> f[q[i]]]
             /\ \A i, j \in 1 .. n : i < j => Precedes(f, q[i], q[j])
<1> DEFINE S == 1 .. n
           R == {x \in S \X S : Precedes(f, x[1], x[2])}
           q == [i \in S |-> CHOOSE k \in S : Cardinality(Below(S, R, k)) = i - 1]
<1>1. IsFiniteSet(S) /\ Cardinality(S) = n
  BY FS_Interval
<1>2. StrictOrder(S, R)
  BY DEF StrictOrder, Precedes
<1>3. /\ q \in [S -> S]
      /\ \A i, j \in S : i < j => <<q[i], q[j]>> \in R
  <2> DEFINE p == [i \in 1 .. Cardinality(S) |->
                     CHOOSE k \in S : Cardinality(Below(S, R, k)) = i - 1]
  <2>1. p = q
    BY <1>1
  <2>2. /\ p \in [1 .. Cardinality(S) -> S]
        /\ \A i, j \in 1 .. Cardinality(S) : i < j => <<p[i], p[j]>> \in R
    <3> HIDE DEF R, S
    <3>1. QED
      BY <1>1, <1>2, NthCounts
  <2> HIDE DEF p, q, R
  <2>3. QED
    BY <1>1, <2>1, <2>2
<1>4. \A k \in S : Below(S, R, k) = {j \in S : Precedes(f, j, k)}
  BY DEF Below
<1>5. \A i \in S : q[i] = Nth(S, LAMBDA j, k : Precedes(f, j, k), i)
  BY <1>4 DEF Nth
<1>6. SortFirings(f) = [i \in S |-> f[q[i]]]
  <2> HIDE DEF q
  <2>1. QED
    BY <1>5 DEF SortFirings
<1>7. \A i, j \in S : i < j => Precedes(f, q[i], q[j])
  <2> HIDE DEF q
  <2>1. QED
    BY <1>3
<1> HIDE DEF q
<1>8. QED
  BY <1>3, <1>6, <1>7

\* Ranks that grow from one place to the next leave none out.
LEMMA RanksInTurn ==
    ASSUME NEW n \in Nat, NEW r \in [1 .. n -> 0 .. n - 1],
           \A i, j \in 1 .. n : i < j => r[i] < r[j]
    PROVE  \A i \in 1 .. n : r[i] = i - 1
<1> DEFINE Low  == {d \in Nat : d + 1 \in 1 .. n => r[d + 1] >= d}
           High == {d \in Nat : n - d \in 1 .. n => r[n - d] <= n - d - 1}
<1>1. \A i \in 1 .. n : r[i] \in 0 .. n - 1
  OBVIOUS
<1>2. Nat \subseteq Low
  <2>1. 0 \in Low
    BY <1>1
  <2>2. ASSUME NEW d \in Nat, d \in Low PROVE d + 1 \in Low
    <3>1. ASSUME d + 2 \in 1 .. n PROVE r[d + 2] >= d + 1
      <4>1. d + 1 \in 1 .. n /\ d + 1 < d + 2
        BY <3>1
      <4>2. r[d + 1] >= d /\ r[d + 1] < r[d + 2]
        BY <2>2, <3>1, <4>1
      <4>3. QED
        BY <1>1, <3>1, <4>1, <4>2
    <3>2. (d + 1) + 1 = d + 2
      OBVIOUS
    <3>3. QED
      BY <3>1, <3>2
  <2> HIDE DEF Low
  <2>3. QED
    BY <2>1, <2>2, NatInduct
<1>3. Nat \subseteq High
  <2>1. 0 \in High
    BY <1>1
  <2>2. ASSUME NEW d \in Nat, d \in High PROVE d + 1 \in High
    <3>1. ASSUME n - (d + 1) \in 1 .. n PROVE r[n - (d + 1)] <= n - (d + 1) - 1
      <4>1. n - d \in 1 .. n /\ n - (d + 1) < n - d
        BY <3>1
      <4>2. r[n - d] <= n - d - 1 /\ r[n - (d + 1)] < r[n - d]
        BY <2>2, <3>1, <4>1
      <4>3. QED
        BY <1>1, <3>1, <4>1, <4>2
    <3>2. QED
      BY <3>1
  <2> HIDE DEF High
  <2>3. QED
    BY <2>1, <2>2, NatInduct
<1>4. ASSUME NEW i \in 1 .. n PROVE r[i] = i - 1
  <2>1. i - 1 \in Nat /\ (i - 1) + 1 = i /\ n - i \in Nat /\ n - (n - i) = i
    OBVIOUS
  <2>2. r[i] >= i - 1 /\ r[i] <= i - 1
    <3>1. i - 1 \in Low /\ n - i \in High
      BY <1>2, <1>3, <2>1
    <3>2. QED
      BY <2>1, <3>1
  <2>3. QED
    BY <1>1, <2>2
<1>5. QED
  BY <1>4

LEMMA PrecedesStrict ==
    ASSUME NEW n \in Nat, NEW f, \A i \in 1 .. n : f[i].date \in Int
    PROVE  StrictOrder(1 .. n, {x \in (1 .. n) \X (1 .. n) : Precedes(f, x[1], x[2])})
BY DEF StrictOrder, Precedes

\* There is one way to put firings in their order.
LEMMA SortUnique ==
    ASSUME NEW n \in Nat, NEW f, DOMAIN f = 1 .. n, \A i \in 1 .. n : f[i].date \in Int,
           NEW p \in [1 .. n -> 1 .. n],
           \A i, j \in 1 .. n : i < j => Precedes(f, p[i], p[j])
    PROVE  SortFirings(f) = [i \in 1 .. n |-> f[p[i]]]
<1> DEFINE S == 1 .. n
           R == {x \in S \X S : Precedes(f, x[1], x[2])}
           rank(x) == Cardinality(Below(S, R, x))
<1>1. IsFiniteSet(S) /\ Cardinality(S) = n
  BY FS_Interval
<1>2. StrictOrder(S, R)
  BY PrecedesStrict
<1>3. PICK q \in [S -> S] :
        /\ SortFirings(f) = [i \in S |-> f[q[i]]]
        /\ \A i, j \in S : i < j => Precedes(f, q[i], q[j])
  BY SortLemma
<1>4. /\ \A x \in S : rank(x) \in 0 .. n - 1
      /\ \A x, y \in S : <<x, y>> \in R => rank(x) < rank(y)
  <2> HIDE DEF R, S
  <2>1. QED
    BY <1>1, <1>2, Ranks
<1>5. ASSUME NEW o \in [S -> S], \A i, j \in S : i < j => Precedes(f, o[i], o[j])
      PROVE  \A i \in S : rank(o[i]) = i - 1
  <2> DEFINE r == [i \in S |-> rank(o[i])]
  <2>1. \A i, j \in S : i < j => <<o[i], o[j]>> \in R
    BY <1>5
  <2> HIDE DEF R, rank
  <2>2. r \in [S -> 0 .. n - 1] /\ \A i, j \in S : i < j => r[i] < r[j]
    <3>1. \A i \in S : o[i] \in S
      BY <1>5
    <3>2. \A i \in S : rank(o[i]) \in 0 .. n - 1
      <4> HIDE DEF S
      <4>1. QED
        BY <1>4, <3>1
    <3>3. \A i, j \in S : i < j => rank(o[i]) < rank(o[j])
      <4> HIDE DEF S
      <4>1. QED
        BY <1>4, <2>1, <3>1
    <3>4. QED
      BY <3>2, <3>3
  <2>3. \A i \in S : r[i] = i - 1
    <3> HIDE DEF r
    <3>1. QED
      BY <2>2, RanksInTurn
  <2>4. QED
    BY <2>3
<1>6. ASSUME NEW i \in S PROVE p[i] = q[i]
  <2>1. p[i] \in S /\ q[i] \in S /\ rank(p[i]) = i - 1 /\ rank(q[i]) = i - 1
    BY <1>3, <1>5
  <2> HIDE DEF R, rank
  <2>2. <<p[i], q[i]>> \notin R /\ <<q[i], p[i]>> \notin R
    <3>1. /\ <<p[i], q[i]>> \in R => rank(p[i]) < rank(q[i])
          /\ <<q[i], p[i]>> \in R => rank(q[i]) < rank(p[i])
      BY <1>4, <2>1
    <3>2. i - 1 \in Int /\ ~(i - 1 < i - 1)
      OBVIOUS
    <3>3. QED
      BY <2>1, <3>1, <3>2
  <2>3. QED
    BY <1>2, <2>1, <2>2 DEF StrictOrder
<1>7. QED
  BY <1>3, <1>6

\* A sequence of firings with two neighbours exchanged.
Exchanged(f, j) == [f EXCEPT ![j] = f[j - 1], ![j - 1] = f[j]]

\* sortFirings exchanges neighbours, the later of an earlier date, and is done
\* when there are none left (datagen-helpers.go:152): no exchange changes what
\* SortFirings gives, and where there are none left it gives the sequence
\* itself.  So the insertion sort returns the firings that SortFirings defines,
\* each of one day where it was declared.
THEOREM InsertionSorts ==
    ASSUME NEW T, NEW n \in Nat, NEW f \in [1 .. n -> T], \A i \in 1 .. n : f[i].date \in Int
    PROVE  /\ \A j \in 2 .. n : f[j].date < f[j - 1].date =>
                SortFirings(Exchanged(f, j)) = SortFirings(f)
           /\ (\A j \in 2 .. n : ~(f[j].date < f[j - 1].date)) => SortFirings(f) = f
<1>0. DOMAIN f = 1 .. n
  OBVIOUS
<1>1. ASSUME NEW j \in 2 .. n, f[j].date < f[j - 1].date
      PROVE  SortFirings(Exchanged(f, j)) = SortFirings(f)
  <2> DEFINE g == Exchanged(f, j)
             to == [k \in 1 .. n |-> IF k = j THEN j - 1 ELSE IF k = j - 1 THEN j ELSE k]
  <2>1. j \in 1 .. n /\ j - 1 \in 1 .. n /\ j # j - 1
    OBVIOUS
  <2>2. to \in [1 .. n -> 1 .. n] /\ \A i, k \in 1 .. n : i < k /\ ~(k = j /\ i = j - 1) => to[i] < to[k]
    BY <2>1
  <2>3. DOMAIN g = 1 .. n /\ \A k \in 1 .. n : g[k] = f[to[k]] /\ g[k].date \in Int
    BY <2>1 DEF Exchanged
  <2>4. to[j] = j - 1 /\ to[j - 1] = j
    BY <2>1
  <2> HIDE DEF g, to
  <2>5. PICK q \in [1 .. n -> 1 .. n] :
          /\ SortFirings(g) = [i \in 1 .. n |-> g[q[i]]]
          /\ \A i, k \in 1 .. n : i < k => Precedes(g, q[i], q[k])
    BY <2>3, SortLemma
  <2> DEFINE p == [i \in 1 .. n |-> to[q[i]]]
  <2>6. p \in [1 .. n -> 1 .. n]
    BY <2>2
  <2>7. ASSUME NEW x \in 1 .. n, NEW y \in 1 .. n, Precedes(g, x, y)
        PROVE  Precedes(f, to[x], to[y])
    <3>1. g[x].date = f[to[x]].date /\ g[y].date = f[to[y]].date
      BY <2>3
    <3>2. ~(x = j - 1 /\ y = j /\ g[x].date = g[y].date)
      <4>1. f[j].date \in Int /\ f[j - 1].date \in Int
        BY <2>1
      <4>2. SUFFICES ASSUME x = j - 1, y = j, g[x].date = g[y].date PROVE FALSE
        OBVIOUS
      <4>3. g[x].date = f[j].date /\ g[y].date = f[j - 1].date
        BY <2>4, <3>1, <4>2
      <4>4. f[j].date = f[j - 1].date
        BY <4>2, <4>3
      <4> DEFINE a == f[j].date
                 b == f[j - 1].date
      <4>5. a \in Int /\ b \in Int /\ a < b /\ a = b
        BY <1>1, <4>1, <4>4
      <4> HIDE DEF a, b
      <4>6. QED
        BY <4>5
    <3>3. QED
      BY <2>2, <2>7, <3>1, <3>2 DEF Precedes
  <2>8. \A i, k \in 1 .. n : i < k => Precedes(f, p[i], p[k])
    BY <2>5, <2>7
  <2>9. \A i \in 1 .. n : f[p[i]] = g[q[i]]
    BY <2>3, <2>5
  <2> HIDE DEF p
  <2>10. SortFirings(f) = [i \in 1 .. n |-> f[p[i]]]
    <3>1. DOMAIN f = 1 .. n /\ \A i \in 1 .. n : f[i].date \in Int
      BY <1>0
    <3>2. \A u \in [1 .. n -> 1 .. n] :
            (\A i, k \in 1 .. n : i < k => Precedes(f, u[i], u[k]))
              => SortFirings(f) = [i \in 1 .. n |-> f[u[i]]]
      BY <3>1, SortUnique
    <3>3. QED
      BY <2>6, <2>8, <3>2
  <2>11. SortFirings(g) = SortFirings(f)
    BY <2>5, <2>9, <2>10
  <2>12. QED
    BY <2>11 DEF g
<1>2. ASSUME \A j \in 2 .. n : ~(f[j].date < f[j - 1].date) PROVE SortFirings(f) = f
  <2> DEFINE D == {d \in Nat : \A i \in 1 .. n : i + d \in 1 .. n => f[i].date <= f[i + d].date}
             id == [i \in 1 .. n |-> i]
  <2>1. Nat \subseteq D
    <3>1. 0 \in D
      OBVIOUS
    <3>2. ASSUME NEW d \in Nat, d \in D PROVE d + 1 \in D
      <4>1. ASSUME NEW i \in 1 .. n, i + (d + 1) \in 1 .. n
            PROVE  f[i].date <= f[i + (d + 1)].date
        <5>1. i + d \in 1 .. n /\ i + (d + 1) \in 2 .. n /\ (i + (d + 1)) - 1 = i + d
          BY <4>1
        <5>2. f[i].date <= f[i + d].date /\ ~(f[i + (d + 1)].date < f[i + d].date)
          BY <1>2, <3>2, <5>1
        <5>3. QED
          BY <4>1, <5>1, <5>2
      <4>2. QED
        BY <4>1
    <3> HIDE DEF D
    <3>3. QED
      BY <3>1, <3>2, NatInduct
  <2>2. ASSUME NEW i \in 1 .. n, NEW k \in 1 .. n, i < k PROVE Precedes(f, i, k)
    <3>0. k - i \in Nat /\ i + (k - i) = k
      BY <2>2
    <3>1. k - i \in D
      <4> HIDE DEF D
      <4>1. QED
        BY <2>1, <3>0
    <3>2. f[i].date <= f[k].date
      BY <3>0, <3>1
    <3>3. QED
      BY <2>2, <3>2 DEF Precedes
  <2>3. id \in [1 .. n -> 1 .. n] /\ \A i, k \in 1 .. n : i < k => Precedes(f, id[i], id[k])
    BY <2>2
  <2>4. SortFirings(f) = [i \in 1 .. n |-> f[id[i]]]
    <3> HIDE DEF id
    <3>1. QED
      BY <1>0, <2>3, SortUnique
  <2>5. QED
    BY <2>4
<1>3. QED
  BY <1>1, <1>2

--------------------------------------------------------------------------------
\* The calendar

LEMMA FirstDays ==
    /\ Len(FirstDay) \in Nat /\ Len(FirstDay) >= 2
    /\ \A m \in 1 .. Len(FirstDay) : FirstDay[m] \in Int
    /\ Start \in Int /\ End \in Int
BY SeedPlanAssumption

LEMMA MonthsInOrder ==
    ASSUME NEW a \in 1 .. Len(FirstDay), NEW b \in 1 .. Len(FirstDay), a < b
    PROVE  FirstDay[a] < FirstDay[b]
<1> DEFINE Reached(n) == a + n + 1 <= Len(FirstDay) => FirstDay[a] < FirstDay[a + n + 1]
           N == {n \in Nat : Reached(n)}
<1>1. 0 \in N
  BY FirstDays, SeedPlanAssumption
<1>2. ASSUME NEW n \in Nat, n \in N PROVE n + 1 \in N
  <2>1. SUFFICES ASSUME a + (n + 1) + 1 <= Len(FirstDay)
                 PROVE  FirstDay[a] < FirstDay[a + (n + 1) + 1]
    OBVIOUS
  <2>2. FirstDay[a] < FirstDay[a + n + 1]
    BY <1>2, <2>1, FirstDays
  <2>3. a + n + 1 \in 1 .. Len(FirstDay) - 1 /\ (a + n + 1) + 1 = a + (n + 1) + 1
    BY <2>1, FirstDays
  <2>4. FirstDay[a + n + 1] < FirstDay[a + (n + 1) + 1]
    BY <2>3, SeedPlanAssumption
  <2>5. /\ FirstDay[a] \in Int /\ FirstDay[a + n + 1] \in Int
        /\ FirstDay[a + (n + 1) + 1] \in Int
    BY <2>1, <2>3, FirstDays
  <2>6. QED
    BY <2>2, <2>4, <2>5
<1>3. Nat \subseteq N
  <2> HIDE DEF N
  <2>1. QED
    BY <1>1, <1>2, NatInduct
<1>4. b - a - 1 \in Nat /\ a + (b - a - 1) + 1 = b
  BY FirstDays
<1>5. Reached(b - a - 1)
  BY <1>3, <1>4
<1>6. QED
  BY <1>4, <1>5, FirstDays

\* The end of the range is in the last month.
LEMMA LastMonthLemma ==
    /\ LastMonth \in 1 .. Len(FirstDay) - 1
    /\ FirstDay[LastMonth] <= End /\ End < FirstDay[LastMonth + 1]
<1> DEFINE In(m) == FirstDay[m] <= End /\ End < FirstDay[m + 1]
<1>1. SUFFICES \E m \in 1 .. Len(FirstDay) : In(m)
  <2>1. LastMonth \in 1 .. Len(FirstDay) /\ In(LastMonth)
    <3>1. DOMAIN FirstDay = 1 .. Len(FirstDay)
      BY SeedPlanAssumption
    <3>2. QED
      BY <1>1, <3>1 DEF LastMonth
  <2>2. LastMonth # Len(FirstDay)
    BY <2>1, FirstDays, SeedPlanAssumption
  <2>3. QED
    BY <2>1, <2>2, FirstDays
<1>2. SUFFICES ASSUME \A m \in 1 .. Len(FirstDay) : ~ In(m) PROVE FALSE
  OBVIOUS
<1> DEFINE N == {n \in Nat : n + 1 <= Len(FirstDay) => FirstDay[n + 1] <= End}
<1>3. 0 \in N
  BY FirstDays, SeedPlanAssumption
<1>4. ASSUME NEW n \in Nat, n \in N PROVE n + 1 \in N
  <2>1. SUFFICES ASSUME (n + 1) + 1 <= Len(FirstDay) PROVE FirstDay[(n + 1) + 1] <= End
    OBVIOUS
  <2>2. FirstDay[n + 1] <= End /\ n + 1 \in 1 .. Len(FirstDay)
    BY <1>4, <2>1, FirstDays
  <2>3. ~ In(n + 1)
    BY <1>2, <2>2
  <2>4. FirstDay[(n + 1) + 1] \in Int /\ End \in Int
    BY <2>1, FirstDays
  <2>5. QED
    BY <2>2, <2>3, <2>4
<1>5. Nat \subseteq N
  <2> HIDE DEF N
  <2>1. QED
    BY <1>3, <1>4, NatInduct
<1>6. Len(FirstDay) - 1 \in N
  BY <1>5, FirstDays
<1>7. FirstDay[(Len(FirstDay) - 1) + 1] <= End
  BY <1>6, FirstDays
<1>8. QED
  BY <1>7, FirstDays, SeedPlanAssumption

\* The months of the run, and the one after, are on the calendar.
LEMMA Month ==
    ASSUME NEW m \in 1 .. LastMonth
    PROVE  /\ m \in 1 .. Len(FirstDay) /\ m + 1 \in 1 .. Len(FirstDay)
           /\ FirstDay[m] \in Int /\ FirstDay[m + 1] \in Int
           /\ FirstDay[m] < FirstDay[m + 1]
           /\ FirstDay[1] <= FirstDay[m] /\ FirstDay[m + 1] <= FirstDay[LastMonth + 1]
           /\ MonthEnd(m) \in Int /\ MonthEnd(m) <= End /\ MonthEnd(m) < FirstDay[m + 1]
<1>1. /\ m \in 1 .. Len(FirstDay) /\ m + 1 \in 1 .. Len(FirstDay)
      /\ 1 \in 1 .. Len(FirstDay) /\ LastMonth + 1 \in 1 .. Len(FirstDay)
  BY FirstDays, LastMonthLemma
<1>2. /\ FirstDay[m] \in Int /\ FirstDay[m + 1] \in Int
      /\ FirstDay[m] < FirstDay[m + 1]
  BY <1>1, FirstDays, MonthsInOrder
<1>3. FirstDay[1] <= FirstDay[m]
  BY <1>1, FirstDays, MonthsInOrder
<1>4. FirstDay[m + 1] <= FirstDay[LastMonth + 1]
  <2>1. CASE m = LastMonth
    BY <1>2, <2>1
  <2>2. CASE m # LastMonth
    <3>1. m + 1 < LastMonth + 1
      BY <2>2, LastMonthLemma
    <3>2. FirstDay[m + 1] < FirstDay[LastMonth + 1]
      BY <1>1, <3>1, MonthsInOrder
    <3>3. QED
      BY <1>1, <3>2, FirstDays
  <2>3. QED
    BY <2>1, <2>2
<1>5. /\ MonthEnd(m) \in Int /\ MonthEnd(m) <= End
      /\ MonthEnd(m) < FirstDay[m + 1]
  BY <1>2, FirstDays DEF MonthEnd
<1>6. QED
  BY <1>1, <1>2, <1>3, <1>4, <1>5

\* A day is in one month only.
LEMMA OneMonth ==
    ASSUME NEW a \in 1 .. LastMonth, NEW b \in 1 .. LastMonth, NEW d \in Int,
           InMonth(d, a), InMonth(d, b)
    PROVE  a = b
<1>1. ASSUME NEW x \in 1 .. LastMonth, NEW y \in 1 .. LastMonth, x < y,
             InMonth(d, x), InMonth(d, y)
      PROVE  FALSE
  <2>1. x + 1 \in 1 .. Len(FirstDay) /\ y \in 1 .. Len(FirstDay)
    BY Month
  <2>2. FirstDay[x + 1] <= FirstDay[y]
    <3>1. CASE x + 1 = y
      BY <2>1, <3>1, FirstDays
    <3>2. CASE x + 1 < y
      BY <2>1, <3>2, FirstDays, MonthsInOrder
    <3>3. QED
      BY <1>1, <3>1, <3>2, LastMonthLemma
  <2>3. FirstDay[x + 1] \in Int /\ FirstDay[y] \in Int
    BY <2>1, FirstDays
  <2>4. QED
    BY <1>1, <2>2, <2>3 DEF InMonth
<1>2. QED
  BY <1>1, LastMonthLemma

--------------------------------------------------------------------------------
\* What a rule may draw

\* Sequences of days of month m within the range.
DaysOf(m) ==
    {d \in Seq(Int) : \A k \in DOMAIN d : FirstDay[m] <= d[k] /\ d[k] <= MonthEnd(m)}

LEMMA WithinLemma ==
    ASSUME NEW m \in 1 .. LastMonth, NEW dates \in Seq(Int)
    PROVE  Within(m, dates) \in DaysOf(m) /\ Len(Within(m, dates)) <= Len(dates)
<1> DEFINE keep == {k \in DOMAIN dates : FirstDay[m] <= dates[k] /\ dates[k] <= MonthEnd(m)}
           c == Cardinality(keep)
           pos(i) == Position(keep, i)
<1>1. Len(dates) \in Nat /\ DOMAIN dates = 1 .. Len(dates)
  OBVIOUS
<1>2. /\ Kept(dates, keep) = [i \in 1 .. c |-> dates[pos(i)]]
      /\ c \in 0 .. Len(dates) /\ \A i \in 1 .. c : pos(i) \in keep
  <2>1. keep \in SUBSET (1 .. Len(dates))
    BY <1>1
  <2> HIDE DEF keep
  <2>2. QED
    BY <1>1, <2>1, KeptLemma
<1>3. Within(m, dates) = [i \in 1 .. c |-> dates[pos(i)]]
  BY <1>2 DEF Within
<1>4. \A i \in 1 .. c :
        /\ dates[pos(i)] \in Int
        /\ FirstDay[m] <= dates[pos(i)] /\ dates[pos(i)] <= MonthEnd(m)
  BY <1>2
<1> HIDE DEF c, keep, pos
<1>5. Within(m, dates) \in Seq(Int) /\ Len(Within(m, dates)) = c
  BY <1>2, <1>3, <1>4
<1> DEFINE w == Within(m, dates)
<1>6. DOMAIN w = 1 .. c /\ \A k \in 1 .. c : FirstDay[m] <= w[k] /\ w[k] <= MonthEnd(m)
  BY <1>3, <1>4
<1>7. w \in DaysOf(m)
  <2> HIDE DEF w
  <2>1. QED
    BY <1>5, <1>6 DEF DaysOf, w
<1>8. QED
  BY <1>2, <1>5, <1>7

LEMMA RandIntType ==
    ASSUME NEW lo \in Int, NEW hi \in Int
    PROVE  RandInt(lo, hi) \subseteq Int /\ \A d \in RandInt(lo, hi) : d >= lo
BY DEF RandInt

LEMMA DrawsType ==
    ASSUME NEW m \in 1 .. LastMonth, NEW n \in Int, NEW lo \in Int, NEW hi \in Int,
           NEW dates \in Draws(m, n, lo, hi)
    PROVE  dates \in Seq(Int) /\ (n = 1 => Len(dates) = 1)
<1>1. PICK days \in [1 .. n -> RandInt(lo, hi)] :
        dates = [k \in 1 .. n |-> Date(m, days[k])]
  BY DEF Draws
<1>2. \A k \in 1 .. n : Date(m, days[k]) \in Int
  BY RandIntType, Month DEF Date
<1>3. CASE n \in Nat
  BY <1>1, <1>2, <1>3
<1>4. CASE n \notin Nat
  <2>1. 1 .. n = 1 .. 0
    BY <1>4
  <2>2. dates = [k \in 1 .. 0 |-> Date(m, days[k])]
    BY <1>1, <2>1
  <2>3. QED
    BY <1>4, <2>2
<1>5. QED
  BY <1>3, <1>4

\* The rules other than one_time_in_range keep to the month and to the range,
\* and those of a monthly type fire on one day of it at most.
LEMMA DatesLemma ==
    ASSUME NEW m \in 1 .. LastMonth, NEW rule, NEW A, RuleTyped(rule, A),
           NEW dates \in Dates(rule, m)
    PROVE  dates \in DaysOf(m) /\ (rule.type \in Monthly => Len(dates) <= 1)
<1>1. /\ \A d \in Int : Date(m, d) \in Int
      /\ DaysInMonth(m) \in Int
      /\ \A d \in Int : Lesser(d, DaysInMonth(m)) \in Int
  BY Month, FirstDays DEF Date, DaysInMonth, Lesser
<1>2. CASE rule.type = "monthly_fixed_day"
  <2>1. dates = Within(m, <<Date(m, rule.day)>>)
    BY <1>2 DEF Dates, FixedDay
  <2>2. <<Date(m, rule.day)>> \in Seq(Int) /\ Len(<<Date(m, rule.day)>>) = 1
    BY <1>1 DEF RuleTyped
  <2>3. QED
    BY <2>1, <2>2, WithinLemma
<1>3. CASE rule.type = "monthly_day_range" /\ rule.range # Null
  <2>1. rule.range \in MinMax
    BY <1>3 DEF RuleTyped
  <2>2. rule.range.min \in Int /\ Lesser(rule.range.max, DaysInMonth(m)) \in Int
    BY <1>1, <2>1 DEF MinMax
  <2>3. PICK d \in Draws(m, 1, rule.range.min, Lesser(rule.range.max, DaysInMonth(m))) :
          dates = Within(m, d)
    BY <1>3 DEF Dates, DayRange
  <2>4. d \in Seq(Int) /\ Len(d) = 1
    BY <2>2, DrawsType
  <2>5. QED
    BY <2>3, <2>4, WithinLemma
<1>4. CASE rule.type = "weekly"
  <2> DEFINE days == [k \in 1 .. DaysInMonth(m) |-> Date(m, k)]
             keep == {k \in DOMAIN days : days[k] <= MonthEnd(m) /\ days[k] % 7 = rule.weekday}
             c == Cardinality(keep)
             pos(i) == Position(keep, i)
  <2>1. dates = Kept(days, keep)
    BY <1>4 DEF Dates, Weekly
  <2>2. DaysInMonth(m) \in Nat
    <3>1. FirstDay[m] \in Int /\ FirstDay[m + 1] \in Int /\ FirstDay[m] < FirstDay[m + 1]
      BY Month
    <3>2. QED
      BY <3>1 DEF DaysInMonth
  <2>3. keep \in SUBSET (1 .. DaysInMonth(m))
    OBVIOUS
  <2>4. /\ Kept(days, keep) = [i \in 1 .. c |-> days[pos(i)]]
        /\ c \in 0 .. DaysInMonth(m) /\ \A i \in 1 .. c : pos(i) \in keep
    <3> HIDE DEF keep, days
    <3>1. QED
      BY <2>2, <2>3, KeptLemma
  <2>5. ASSUME NEW i \in 1 .. c
        PROVE  /\ days[pos(i)] \in Int
               /\ FirstDay[m] <= days[pos(i)] /\ days[pos(i)] <= MonthEnd(m)
    <3>1. pos(i) \in 1 .. DaysInMonth(m) /\ days[pos(i)] <= MonthEnd(m)
      BY <2>4
    <3>2. days[pos(i)] = Date(m, pos(i))
      BY <3>1
    <3>3. pos(i) \in Int /\ pos(i) >= 1
      BY <3>1
    <3>4. QED
      BY <3>1, <3>2, <3>3, Month DEF Date
  <2> HIDE DEF days, c, keep, pos
  <2>6. dates \in Seq(Int)
    BY <2>1, <2>4, <2>5
  <2>7. QED
    BY <1>4, <2>1, <2>4, <2>5, <2>6 DEF DaysOf, Monthly
<1>5. CASE rule.type = "random_n_per_month" /\ rule.range # Null /\ rule.frequency # Null
  <2>1. rule.range \in MinMax /\ rule.frequency \in [mean: Int, variance: Int]
    BY <1>5 DEF RuleTyped
  <2>2. rule.range.min \in Int /\ Lesser(rule.range.max, DaysInMonth(m)) \in Int
    BY <1>1, <2>1 DEF MinMax
  <2>3. PICK n \in SampleFrequency(rule.frequency.mean, rule.frequency.variance) :
          dates \in {Within(m, d) : d \in
            Draws(m, n, rule.range.min, Lesser(rule.range.max, DaysInMonth(m)))}
    BY <1>5 DEF Dates, RandomN
  <2>4. PICK d \in Draws(m, n, rule.range.min, Lesser(rule.range.max, DaysInMonth(m))) :
          dates = Within(m, d)
    BY <2>3
  <2>5. n \in Int
    BY <2>1, <2>3, SeedPlanAssumption DEF SampleFrequency
  <2>6. d \in Seq(Int)
    BY <2>2, <2>4, <2>5, DrawsType
  <2>7. QED
    BY <1>5, <2>4, <2>6, WithinLemma DEF Monthly
<1>6. CASE rule.type = "decay_pattern" /\ rule.decay # Null
  <2>1. rule.decay \in [peak: Int, trough: Int, inflection: Int]
    BY <1>6 DEF RuleTyped
  <2> DEFINE last == rule.decay.inflection
  <2>2. PICK p \in Draws(m, rule.decay.peak, 1, last),
             t \in Draws(m, rule.decay.trough, last + 1, DaysInMonth(m)) :
          dates = Within(m, p \o t)
    BY <1>6 DEF Dates, Decay
  <2>3. p \in Seq(Int)
    BY <2>1, <2>2, DrawsType
  <2>4. t \in Seq(Int)
    <3>1. last + 1 \in Int /\ rule.decay.trough \in Int /\ DaysInMonth(m) \in Int
      BY <1>1, <2>1
    <3>2. QED
      BY <2>2, <3>1, DrawsType
  <2>5. p \o t \in Seq(Int)
    BY <2>3, <2>4
  <2>6. QED
    BY <1>6, <2>2, <2>5, WithinLemma DEF Monthly
<1>7. CASE ~ \/ rule.type = "monthly_fixed_day"
             \/ rule.type = "monthly_day_range" /\ rule.range # Null
             \/ rule.type = "weekly"
             \/ rule.type = "random_n_per_month" /\ rule.range # Null /\ rule.frequency # Null
             \/ rule.type = "decay_pattern" /\ rule.decay # Null
  <2>1. dates = <<>>
    BY <1>7 DEF Dates
  <2>2. QED
    BY <2>1 DEF DaysOf
<1>8. QED
  BY <1>2, <1>3, <1>4, <1>5, <1>6, <1>7

\* A one_time_in_range rule keeps to the month, and fires once in it at most,
\* which settles it.
LEMMA OneTimeLemma ==
    ASSUME NEW m \in 1 .. LastMonth, NEW rule, NEW A, RuleTyped(rule, A),
           NEW drawn \in OneTime(rule, m)
    PROVE  /\ drawn.dates \in Seq(Int) /\ Len(drawn.dates) <= 1
           /\ \A k \in DOMAIN drawn.dates : InMonth(drawn.dates[k], m) /\ drawn.settled
<1>1. CASE drawn.dates = <<>>
  BY <1>1
<1>2. CASE drawn.dates # <<>>
  <2>1. rule.range # Null
    BY <1>2 DEF OneTime
  <2>2. rule.range.min \in Int /\ rule.range.max \in Int
    BY <2>1 DEF RuleTyped, MinMax
  <2>3. PICK offset \in RandInt(rule.range.min, rule.range.max) :
          InMonth(Start + offset, m) /\ drawn = [dates |-> <<Start + offset>>, settled |-> TRUE]
    BY <1>2, <2>1 DEF OneTime
  <2>4. Start + offset \in Int
    BY <2>2, RandIntType, FirstDays
  <2>5. drawn.dates = <<Start + offset>> /\ drawn.settled = TRUE
    BY <2>3
  <2>6. QED
    BY <2>3, <2>4, <2>5
<1>3. QED
  BY <1>1, <1>2

--------------------------------------------------------------------------------
\* Types of the operators

LEMMA ProfileTyped ==
    ASSUME profile \in Profiles
    PROVE  /\ Len(rules) \in Nat /\ DOMAIN rules = 1 .. Len(rules)
           /\ \A r \in DOMAIN rules : RuleTyped(rules[r], Accounts)
           /\ Null \notin Accounts /\ External \notin Accounts
           /\ profile.opening \in [Accounts -> Int]
           /\ profile.bnpl \in [Accounts -> {Null} \cup [count: Nat, day: Int]]
           /\ \A a \in Accounts : profile.bnpl[a] # Null =>
                LastMonth + profile.bnpl[a].count <= Len(FirstDay)
<1>1. rules \in Seq(Range(rules))
  BY ProfilesAssumption DEF rules
<1>2. Len(rules) \in Nat /\ DOMAIN rules = 1 .. Len(rules)
  <2> DEFINE s == rules
             T == Range(rules)
  <2>1. s \in Seq(T)
    BY <1>1
  <2> HIDE DEF s, T
  <2>2. Len(s) \in Nat /\ DOMAIN s = 1 .. Len(s)
    BY <2>1
  <2>3. QED
    BY <2>2 DEF s
<1>3. QED
  BY <1>2, ProfilesAssumption DEF rules, Accounts

LEMMA Int32Type == ASSUME NEW n \in Int PROVE Int32(n) \in -Half .. Half - 1
<1>1. 2 * Half \in Nat \ {0} /\ n + Half \in Int
  BY SeedPlanAssumption
<1>2. \A a \in Int, b \in Nat \ {0} : a % b \in 0 .. b - 1
  OBVIOUS
<1>3. (n + Half) % (2 * Half) \in 0 .. (2 * Half) - 1
  BY <1>1, <1>2
<1>4. QED
  BY <1>3, SeedPlanAssumption DEF Int32

LEMMA PercentType == ASSUME NEW a \in Int, NEW b \in Int PROVE Percent(a, b) \in Int
<1>1. 2 * a * b \in Int
  OBVIOUS
<1>2. QED
  BY <1>1 DEF Percent

LEMMA QuotientType == ASSUME NEW a \in Int, NEW b \in Nat \ {0} PROVE Quotient(a, b) \in Int
<1>1. \A x \in Int, y \in Nat \ {0} : x \div y \in Int
  OBVIOUS
<1>2. QED
  BY <1>1 DEF Quotient

\* A rule that can be posted for a profile with accounts A.
Postable(rule, A) == RuleTyped(rule, A) /\ (rule.to # Null \/ AccountOf(rule) \in A)

LEMMA EndsType ==
    ASSUME NEW A, NEW rule, Postable(rule, A)
    PROVE  Ends(rule)[1] \in A \cup {External} /\ Ends(rule)[2] \in A \cup {External}
BY DEF Ends, Postable, RuleTyped

LEMMA ApplyBalanceType ==
    ASSUME NEW A, NEW rule, Postable(rule, A), NEW b \in [A -> Int], NEW n \in Int
    PROVE  ApplyBalance(b, rule, n) \in [A -> Int]
BY DEF ApplyBalance, Postable, RuleTyped

LEMMA ResolveAmountType ==
    ASSUME NEW A, NEW rule, RuleTyped(rule, A), NEW b \in [A -> Int]
    PROVE  ResolveAmount(rule.amount, b) \subseteq Int
<1>1. /\ rule.amount.min \in Int /\ rule.amount.max \in Int
      /\ rule.amount.mode = "settle" => rule.amount.account \in A
  BY DEF RuleTyped
<1>2. RandInt(rule.amount.min, rule.amount.max) \subseteq Int
  BY <1>1, RandIntType
<1>3. \A n \in Int : Outstanding(n) \subseteq Int
  BY DEF Outstanding
<1>4. CASE rule.amount.mode = "settle"
  <2>1. b[rule.amount.account] \in Int
    BY <1>1, <1>4
  <2>2. QED
    BY <1>3, <1>4, <2>1 DEF ResolveAmount
<1>5. QED
  BY <1>1, <1>2, <1>4 DEF ResolveAmount

\* The positions in a sequence of n that are kept, in increasing order.
LEMMA PositionsKept ==
    ASSUME NEW n \in Nat, NEW keep \in SUBSET (1 .. n)
    PROVE  LET s == Kept([i \in 1 .. n |-> i], keep)
           IN  /\ s \in Seq(keep)
               /\ \A i, j \in DOMAIN s : s[i] = s[j] => i = j
<1> DEFINE c == Cardinality(keep)
           id == [i \in 1 .. n |-> i]
           kept == Kept(id, keep)
<1>1. \A k \in keep : k \in Int /\ id[k] = k
  OBVIOUS
<1>2. /\ kept = [i \in 1 .. c |-> id[Position(keep, i)]]
      /\ c \in 0 .. n
      /\ \A i \in 1 .. c : Position(keep, i) \in keep
      /\ \A i, j \in 1 .. c : i < j => Position(keep, i) < Position(keep, j)
  <2> HIDE DEF id
  <2>1. QED
    BY KeptLemma
<1> HIDE DEF c, id, kept
<1>3. \A i \in 1 .. c : Position(keep, i) \in Int /\ id[Position(keep, i)] = Position(keep, i)
  BY <1>1, <1>2
<1>4. kept = [i \in 1 .. c |-> Position(keep, i)]
  BY <1>2, <1>3
<1>5. kept \in Seq(keep) /\ DOMAIN kept = 1 .. c
  BY <1>2, <1>4
<1>6. \A i, j \in 1 .. c : kept[i] = kept[j] => i = j
  BY <1>2, <1>3, <1>4
<1>7. QED
  BY <1>5, <1>6 DEF id, kept

LEMMA ReactionsType ==
    ASSUME profile \in Profiles, NEW rule, NEW n
    PROVE  Reactions(rules, rule, n)
             \in Seq({r \in DOMAIN rules : rules[r].type = "reactive_pct"})
<1> DEFINE keep == {i \in DOMAIN rules : /\ rules[i].type = "reactive_pct"
                                         /\ rules[i].triggerAccount = AccountOf(rule)
                                         /\ rules[i].triggerCategory = rule.category
                                         /\ rules[i].amount.mode = "pct"
                                         /\ Percent(n, rules[i].amount.pct) # 0}
           T == {r \in DOMAIN rules : rules[r].type = "reactive_pct"}
<1>1. Reactions(rules, rule, n) = Kept([i \in DOMAIN rules |-> i], keep)
  BY DEF Reactions
<1>2. keep \subseteq T /\ keep \in SUBSET (1 .. Len(rules))
  BY ProfileTyped
<1> HIDE DEF keep, T
<1>3. Kept([i \in DOMAIN rules |-> i], keep) \in Seq(keep)
  <2>1. Kept([i \in 1 .. Len(rules) |-> i], keep) \in Seq(keep)
    BY <1>2, ProfileTyped, PositionsKept
  <2>2. [i \in 1 .. Len(rules) |-> i] = [i \in DOMAIN rules |-> i]
    BY ProfileTyped
  <2>3. QED
    BY <2>1, <2>2
<1>4. Reactions(rules, rule, n) \in Seq(T)
  <2>1. Reactions(rules, rule, n) \in Seq(keep) /\ keep \subseteq T
    BY <1>1, <1>2, <1>3
  <2>2. QED
    BY <2>1
<1>5. QED
  BY <1>4 DEF T

LEMMA ShadowsType ==
    ASSUME profile \in Profiles, NEW rule
    PROVE  /\ Shadows(rules, rule) \in Seq(DOMAIN rules)
           /\ \A i, j \in DOMAIN Shadows(rules, rule) :
                Shadows(rules, rule)[i] = Shadows(rules, rule)[j] => i = j
<1> DEFINE keep == {i \in DOMAIN rules : /\ rules[i].type = "refund_shadow"
                                         /\ rules[i].sourceCategory = rule.category
                                         /\ rules[i].sourceAccount = AccountOf(rule)
                                         /\ rules[i].refundProbability # Null}
           s == Kept([i \in DOMAIN rules |-> i], keep)
<1>1. Shadows(rules, rule) = s
  BY DEF Shadows
<1>2. keep \subseteq DOMAIN rules /\ keep \in SUBSET (1 .. Len(rules))
  BY ProfileTyped
<1>3. s \in Seq(keep) /\ \A i, j \in DOMAIN s : s[i] = s[j] => i = j
  <2> HIDE DEF keep
  <2>1. QED
    BY <1>2, ProfileTyped, PositionsKept
<1> HIDE DEF keep, s
<1>4. s \in Seq(DOMAIN rules)
  BY <1>2, <1>3
<1>5. QED
  BY <1>1, <1>3, <1>4

\* Taking element i out of a sequence.
LEMMA RemoveAtLemma ==
    ASSUME NEW T, NEW s \in Seq(T), NEW i \in DOMAIN s
    PROVE  /\ Delisted(s, i) \in Seq(T) /\ Len(Delisted(s, i)) = Len(s) - 1
           /\ \A k \in DOMAIN Delisted(s, i) :
                Delisted(s, i)[k] = s[IF k < i THEN k ELSE k + 1]
<1>1. i \in 1 .. Len(s) /\ Len(s) \in Nat
  OBVIOUS
<1>2. Delisted(s, i) = SubSeq(s, 1, i - 1) \o SubSeq(s, i + 1, Len(s))
  BY DEF Delisted, RemoveAt
<1>3. /\ SubSeq(s, 1, i - 1) \in Seq(T) /\ Len(SubSeq(s, 1, i - 1)) = i - 1
      /\ \A k \in 1 .. i - 1 : SubSeq(s, 1, i - 1)[k] = s[k]
  BY <1>1
<1>4. /\ SubSeq(s, i + 1, Len(s)) \in Seq(T) /\ Len(SubSeq(s, i + 1, Len(s))) = Len(s) - i
      /\ \A k \in 1 .. Len(s) - i : SubSeq(s, i + 1, Len(s))[k] = s[k + i]
  BY <1>1
<1> DEFINE a == SubSeq(s, 1, i - 1)
           b == SubSeq(s, i + 1, Len(s))
<1> HIDE DEF a, b
<1>5. /\ a \o b \in Seq(T) /\ Len(a \o b) = Len(s) - 1
      /\ \A k \in 1 .. Len(s) - 1 : (a \o b)[k] = s[IF k < i THEN k ELSE k + 1]
  <2>1. /\ a \in Seq(T) /\ Len(a) = i - 1 /\ \A k \in 1 .. i - 1 : a[k] = s[k]
        /\ b \in Seq(T) /\ Len(b) = Len(s) - i /\ \A k \in 1 .. Len(s) - i : b[k] = s[k + i]
    BY <1>3, <1>4 DEF a, b
  <2>2. a \o b \in Seq(T) /\ Len(a \o b) = Len(s) - 1
    BY <1>1, <2>1
  <2>3. ASSUME NEW k \in 1 .. Len(s) - 1 PROVE (a \o b)[k] = s[IF k < i THEN k ELSE k + 1]
    <3>1. (a \o b)[k] = IF k <= Len(a) THEN a[k] ELSE b[k - Len(a)]
      <4>1. a \in Seq(T) /\ b \in Seq(T) /\ k \in 1 .. Len(a) + Len(b)
        BY <1>1, <2>1
      <4> HIDE DEF a, b
      <4>2. QED
        BY ONLY <4>1, SMT
    <3>2. CASE k < i
      BY <1>1, <2>1, <3>1, <3>2
    <3>3. CASE ~(k < i)
      <4>1. k - (i - 1) \in 1 .. Len(s) - i /\ k - (i - 1) + i = k + 1
        BY <1>1, <3>3
      <4>2. b[k - (i - 1)] = s[k + 1]
        BY <2>1, <4>1
      <4>3. QED
        BY <1>1, <2>1, <3>1, <3>3, <4>2
    <3>4. QED
      BY <3>2, <3>3
  <2>4. QED
    BY <2>2, <2>3
<1>6. Delisted(s, i) = a \o b
  BY <1>2 DEF a, b
<1>7. /\ Delisted(s, i) \in Seq(T) /\ Len(Delisted(s, i)) = Len(s) - 1
      /\ \A k \in 1 .. Len(s) - 1 : Delisted(s, i)[k] = s[IF k < i THEN k ELSE k + 1]
  BY <1>5, <1>6
<1>8. DOMAIN Delisted(s, i) = 1 .. Len(s) - 1
  <2> DEFINE d == Delisted(s, i)
  <2>1. d \in Seq(T) /\ Len(d) = Len(s) - 1
    BY <1>7
  <2> HIDE DEF d
  <2>2. DOMAIN d = 1 .. Len(s) - 1
    BY <2>1
  <2>3. QED
    BY <2>2 DEF d
<1>9. QED
  BY <1>7, <1>8

--------------------------------------------------------------------------------
\* Types

EntryType ==
    [kind: Kinds, source: Ledgered, destination: Ledgered, amount: -Half .. Half - 1,
     rule: Nat, date: Int, cause: Nat]

InstallmentType(l) == [date: Int, account: Accounts, amount: Int, cause: DOMAIN l]

RefundType(l) ==
    [date: Int, account: Accounts, amount: Int, rule: DOMAIN rules, cause: DOMAIN l]

FiringType == [date: Int, rule: DOMAIN rules]

LEMMA EntryLemma ==
    ASSUME NEW kind \in Kinds, NEW source \in Ledgered, NEW destination \in Ledgered,
           NEW amount \in Int, NEW rule \in Nat, NEW date \in Int, NEW cause \in Nat
    PROVE  Entry(kind, <<source, destination>>, amount, rule, date, cause) \in EntryType
<1>1. Int32(amount) \in -Half .. Half - 1
  BY Int32Type
<1>2. QED
  BY <1>1 DEF Entry, EntryType

LEMMA EntryOfRule ==
    ASSUME profile \in Profiles, NEW kind \in Kinds, NEW r \in DOMAIN rules,
           Postable(rules[r], Accounts), NEW amount \in Int, NEW date \in Int,
           NEW cause \in Nat
    PROVE  Entry(kind, Ends(rules[r]), amount, r, date, cause) \in EntryType
<1>1. Int32(amount) \in -Half .. Half - 1
  BY Int32Type
<1>2. Ends(rules[r])[1] \in Ledgered /\ Ends(rules[r])[2] \in Ledgered
  BY EndsType DEF Ledgered
<1>3. r \in Nat
  BY ProfileTyped
<1>4. QED
  BY <1>1, <1>2, <1>3 DEF Entry, EntryType

\* What the type invariant says of the lists.
LEMMA Types ==
    ASSUME TypeOK
    PROVE  /\ profile \in Profiles /\ month \in 1 .. LastMonth /\ next \in Nat \ {0}
           /\ firings \in Seq(FiringType) /\ queue \in Seq(DOMAIN rules)
           /\ balances \in [Accounts -> Int]
           /\ schedule \in Seq(InstallmentType(ledger))
           /\ refunds \in Seq(RefundType(ledger))
           /\ ledger \in Seq(EntryType)
           /\ Len(ledger) \in Nat /\ DOMAIN ledger = 1 .. Len(ledger)
           /\ Len(firings) \in Nat /\ DOMAIN firings = 1 .. Len(firings)
           /\ Len(schedule) \in Nat /\ DOMAIN schedule = 1 .. Len(schedule)
           /\ Len(refunds) \in Nat /\ DOMAIN refunds = 1 .. Len(refunds)
           /\ Len(queue) \in Nat /\ DOMAIN queue = 1 .. Len(queue)
<1>1. /\ firings \in Seq(FiringType)
      /\ schedule \in Seq(InstallmentType(ledger))
      /\ refunds \in Seq(RefundType(ledger))
      /\ ledger \in Seq(EntryType)
      /\ queue \in Seq(DOMAIN rules)
  BY DEF TypeOK, FiringType, InstallmentType, RefundType, EntryType
<1>2. \A T : \A s \in Seq(T) : Len(s) \in Nat /\ DOMAIN s = 1 .. Len(s)
  OBVIOUS
<1>3. QED
  BY <1>1, <1>2 DEF TypeOK

LEMMA FiringsTyped ==
    ASSUME TypeOK, NEW k \in DOMAIN firings
    PROVE  /\ firings[k] \in FiringType /\ firings[k].date \in Int
           /\ firings[k].rule \in DOMAIN rules /\ firings[k].rule \in Nat
<1>1. firings[k] \in FiringType
  <2>1. firings \in Seq(FiringType)
    BY Types
  <2>2. QED
    BY <2>1
<1>2. QED
  BY <1>1, Types, ProfileTyped DEF FiringType

LEMMA EntriesTyped ==
    ASSUME TypeOK, NEW i \in DOMAIN ledger
    PROVE  /\ ledger[i] \in EntryType /\ ledger[i].date \in Int
           /\ ledger[i].rule \in Nat /\ ledger[i].cause \in Nat
           /\ ledger[i].amount \in Int /\ ledger[i].kind \in Kinds
<1>1. ledger[i] \in EntryType
  <2>1. ledger \in Seq(EntryType)
    BY Types
  <2>2. QED
    BY <2>1
<1>2. QED
  BY <1>1, SeedPlanAssumption DEF EntryType

LEMMA InstallmentsTyped ==
    ASSUME TypeOK, NEW k \in DOMAIN schedule
    PROVE  /\ schedule[k].date \in Int /\ schedule[k].account \in Accounts
           /\ schedule[k].amount \in Int /\ schedule[k].cause \in DOMAIN ledger
<1>1. schedule[k] \in InstallmentType(ledger)
  <2>1. schedule \in Seq(InstallmentType(ledger))
    BY Types
  <2>2. QED
    BY <2>1
<1>2. QED
  BY <1>1 DEF InstallmentType

LEMMA RefundsTyped ==
    ASSUME TypeOK, NEW k \in DOMAIN refunds
    PROVE  /\ refunds[k].date \in Int /\ refunds[k].account \in Accounts
           /\ refunds[k].amount \in Int /\ refunds[k].rule \in DOMAIN rules
           /\ refunds[k].cause \in DOMAIN ledger
<1>1. refunds[k] \in RefundType(ledger)
  <2>1. refunds \in Seq(RefundType(ledger))
    BY Types
  <2>2. QED
    BY <2>1
<1>2. QED
  BY <1>1 DEF RefundType

\* The types carry over to a longer ledger.
LEMMA LedgerGrows ==
    ASSUME TypeOK, NEW e \in EntryType, ledger' = ledger \/ ledger' = Append(ledger, e)
    PROVE  /\ ledger' \in Seq(EntryType)
           /\ Len(ledger') \in Nat /\ Len(ledger) <= Len(ledger')
           /\ DOMAIN ledger \subseteq DOMAIN ledger'
           /\ \A i \in DOMAIN ledger : ledger'[i] = ledger[i]
           /\ schedule \in Seq(InstallmentType(ledger'))
           /\ refunds \in Seq(RefundType(ledger'))
<1>1. /\ ledger' \in Seq(EntryType)
      /\ Len(ledger') \in Nat /\ Len(ledger) <= Len(ledger')
      /\ DOMAIN ledger \subseteq DOMAIN ledger'
      /\ \A i \in DOMAIN ledger : ledger'[i] = ledger[i]
  <2>1. ledger \in Seq(EntryType)
    BY Types
  <2>2. CASE ledger' = ledger
    BY <2>1, <2>2
  <2>3. CASE ledger' = Append(ledger, e)
    <3>1. /\ Append(ledger, e) \in Seq(EntryType)
          /\ Len(Append(ledger, e)) = Len(ledger) + 1
          /\ \A i \in 1 .. Len(ledger) : Append(ledger, e)[i] = ledger[i]
      BY <2>1
    <3>2. /\ DOMAIN ledger = 1 .. Len(ledger) /\ Len(ledger) \in Nat
          /\ DOMAIN Append(ledger, e) = 1 .. Len(Append(ledger, e))
      BY <2>1, <3>1
    <3>3. QED
      BY <2>3, <3>1, <3>2
  <2>4. QED
    BY <2>2, <2>3
<1>2. /\ InstallmentType(ledger) \subseteq InstallmentType(ledger')
      /\ RefundType(ledger) \subseteq RefundType(ledger')
  BY <1>1 DEF InstallmentType, RefundType
<1>3. \A S, T : S \subseteq T => Seq(S) \subseteq Seq(T)
  OBVIOUS
<1>4. QED
  BY <1>1, <1>2, <1>3, Types

\* The next state is typed when its parts are.
LEMMA TypedNext ==
    ASSUME TypeOK, profile' = profile, month' \in 1 .. LastMonth, phase' \in Phases,
           next' \in Nat \ {0}, firings' \in Seq(FiringType), settled' \subseteq DOMAIN rules,
           trigger' \in [entry: 0 .. Len(ledger'), amount: Int],
           queue' \in Seq(DOMAIN rules), balances' \in [Accounts -> Int],
           schedule' \in Seq(InstallmentType(ledger')),
           refunds' \in Seq(RefundType(ledger')), ledger' \in Seq(EntryType)
    PROVE  TypeOK'
<1>1. rules' = rules /\ Accounts' = Accounts
  BY DEF rules, Accounts
<1>2. QED
  BY <1>1 DEF TypeOK, FiringType, InstallmentType, RefundType, EntryType, Ledgered

\* The parts that a step leaves alone, or a longer ledger.
LEMMA TypeKept ==
    ASSUME TypeInv, NEW e \in EntryType, ledger' = ledger \/ ledger' = Append(ledger, e)
    PROVE  /\ month \in 1 .. LastMonth /\ phase \in Phases /\ next \in Nat \ {0}
           /\ firings \in Seq(FiringType) /\ settled \subseteq DOMAIN rules
           /\ trigger \in [entry: 0 .. Len(ledger'), amount: Int]
           /\ queue \in Seq(DOMAIN rules) /\ balances \in [Accounts -> Int]
           /\ schedule \in Seq(InstallmentType(ledger'))
           /\ refunds \in Seq(RefundType(ledger')) /\ ledger' \in Seq(EntryType)
           /\ next + 1 \in Nat \ {0}
<1>1. /\ schedule \in Seq(InstallmentType(ledger'))
      /\ refunds \in Seq(RefundType(ledger')) /\ ledger' \in Seq(EntryType)
      /\ Len(ledger') \in Nat /\ Len(ledger) <= Len(ledger')
  BY LedgerGrows DEF TypeInv
<1>2. trigger \in [entry: 0 .. Len(ledger'), amount: Int]
  BY <1>1, Types DEF TypeInv, TypeOK
<1>3. QED
  BY <1>1, <1>2, Types DEF TypeInv, TypeOK

LEMMA NotPostedType ==
    ASSUME TypeInv, NEW e \in EntryType, NotPosted(e)
    PROVE  TypeInv'
<1>1. /\ ledger' = ledger \/ ledger' = Append(ledger, e)
      /\ phase' = "failed" /\ profile' = profile
      /\ UNCHANGED <<month, next, firings, settled, trigger, queue, balances,
                     schedule, refunds>>
  BY DEF NotPosted
<1>2. TypeOK'
  <2>1. /\ month' \in 1 .. LastMonth /\ next' \in Nat \ {0}
        /\ firings' \in Seq(FiringType) /\ settled' \subseteq DOMAIN rules
        /\ trigger' \in [entry: 0 .. Len(ledger'), amount: Int]
        /\ queue' \in Seq(DOMAIN rules) /\ balances' \in [Accounts -> Int]
        /\ schedule' \in Seq(InstallmentType(ledger'))
        /\ refunds' \in Seq(RefundType(ledger')) /\ ledger' \in Seq(EntryType)
    BY <1>1, TypeKept
  <2>2. phase' \in Phases
    BY <1>1 DEF Phases
  <2>3. QED
    BY <1>1, <2>1, <2>2, TypedNext DEF TypeInv
<1>3. DOMAIN ledger \subseteq DOMAIN ledger'
  BY <1>1, LedgerGrows DEF TypeInv
<1>4. rules' = rules
  BY <1>1 DEF rules
<1>5. QED
  BY <1>1, <1>2, <1>3, <1>4 DEF TypeInv, QueueTriggered

\* What a rule draws in the month at hand.
LEMMA DrawnLemma ==
    ASSUME TypeOK, NEW r \in DOMAIN rules, NEW drawn \in Drawn(r)
    PROVE  /\ drawn.dates \in Seq(Int)
           /\ \A k \in DOMAIN drawn.dates : InMonth(drawn.dates[k], month)
           /\ rules[r].type \notin OneTimer =>
                \A k \in DOMAIN drawn.dates : drawn.dates[k] <= End
           /\ rules[r].type \in Monthly \cup OneTimer => Len(drawn.dates) <= 1
           /\ rules[r].type \in OneTimer /\ drawn.dates # <<>> =>
                drawn.settled /\ r \notin settled
<1>1. RuleTyped(rules[r], Accounts) /\ month \in 1 .. LastMonth
  BY ProfileTyped, Types
<1>2. CASE rules[r].type = "one_time_in_range" /\ r \in settled
  <2>1. drawn.dates = <<>>
    BY <1>2 DEF Drawn
  <2>2. QED
    BY <1>2, <2>1 DEF OneTimer
<1>3. CASE rules[r].type = "one_time_in_range" /\ r \notin settled
  <2>1. drawn \in OneTime(rules[r], month)
    BY <1>3 DEF Drawn
  <2>2. /\ drawn.dates \in Seq(Int) /\ Len(drawn.dates) <= 1
        /\ \A k \in DOMAIN drawn.dates : InMonth(drawn.dates[k], month) /\ drawn.settled
    BY <1>1, <2>1, OneTimeLemma
  <2>3. drawn.dates # <<>> => 1 \in DOMAIN drawn.dates
    BY <2>2
  <2>4. QED
    BY <1>3, <2>2, <2>3 DEF OneTimer
<1>4. CASE rules[r].type # "one_time_in_range"
  <2>1. drawn.dates \in Dates(rules[r], month)
    BY <1>4 DEF Drawn
  <2>2. /\ drawn.dates \in DaysOf(month)
        /\ rules[r].type \in Monthly => Len(drawn.dates) <= 1
    BY <1>1, <2>1, DatesLemma
  <2>3. /\ FirstDay[month] \in Int /\ MonthEnd(month) \in Int /\ End \in Int
        /\ FirstDay[month + 1] \in Int
        /\ MonthEnd(month) <= End /\ MonthEnd(month) < FirstDay[month + 1]
    BY <1>1, Month, FirstDays
  <2>4. drawn.dates \in Seq(Int)
    BY <2>2 DEF DaysOf
  <2>5. \A k \in DOMAIN drawn.dates :
          InMonth(drawn.dates[k], month) /\ drawn.dates[k] <= End
    <3>1. \A k \in DOMAIN drawn.dates :
            /\ drawn.dates[k] \in Int
            /\ FirstDay[month] <= drawn.dates[k] /\ drawn.dates[k] <= MonthEnd(month)
      BY <2>2, <2>4 DEF DaysOf
    <3>2. QED
      BY <2>3, <3>1 DEF InMonth
  <2>6. QED
    BY <1>4, <2>2, <2>4, <2>5 DEF OneTimer
<1>5. QED
  BY <1>2, <1>3, <1>4

\* The firings that a rule adds to those drawn before.
Added(r, dates) == [k \in DOMAIN dates |-> [date |-> dates[k], rule |-> r]]

LEMMA AddedLemma ==
    ASSUME TypeOK, NEW r \in DOMAIN rules, NEW dates \in Seq(Int)
    PROVE  /\ firings \o Added(r, dates) \in Seq(FiringType)
           /\ Len(firings \o Added(r, dates)) = Len(firings) + Len(dates)
           /\ \A k \in DOMAIN firings : (firings \o Added(r, dates))[k] = firings[k]
           /\ \A k \in 1 .. Len(dates) :
                /\ (firings \o Added(r, dates))[Len(firings) + k].rule = r
                /\ (firings \o Added(r, dates))[Len(firings) + k].date = dates[k]
<1> DEFINE added == Added(r, dates)
<1>1. /\ firings \in Seq(FiringType) /\ Len(firings) \in Nat
      /\ DOMAIN firings = 1 .. Len(firings)
  BY Types
<1>2. /\ Len(dates) \in Nat /\ DOMAIN dates = 1 .. Len(dates)
      /\ \A k \in 1 .. Len(dates) : dates[k] \in Int
  OBVIOUS
<1>3. \A k \in DOMAIN dates : [date |-> dates[k], rule |-> r] \in FiringType
  BY <1>2 DEF FiringType
<1>4. added = [k \in 1 .. Len(dates) |-> [date |-> dates[k], rule |-> r]]
  BY <1>2 DEF Added
<1>5. /\ added \in Seq(FiringType) /\ Len(added) = Len(dates)
      /\ \A k \in 1 .. Len(dates) : added[k].rule = r /\ added[k].date = dates[k]
  BY <1>2, <1>3, <1>4
<1> HIDE DEF added
<1>6. /\ firings \o added \in Seq(FiringType)
      /\ Len(firings \o added) = Len(firings) + Len(added)
      /\ \A k \in 1 .. Len(firings) : (firings \o added)[k] = firings[k]
      /\ \A k \in 1 .. Len(added) : (firings \o added)[Len(firings) + k] = added[k]
  <2>1. added \in Seq(FiringType)
    BY <1>5
  <2>2. QED
    BY <1>1, <2>1
<1>7. /\ DOMAIN firings = 1 .. Len(firings) /\ Len(added) = Len(dates)
      /\ \A k \in 1 .. Len(dates) :
           /\ (firings \o added)[Len(firings) + k].rule = r
           /\ (firings \o added)[Len(firings) + k].date = dates[k]
  BY <1>1, <1>5, <1>6
<1>8. QED
  BY <1>6, <1>7 DEF added

\* Sorting moves firings, and nothing else.
LEMMA SortedLemma ==
    ASSUME TypeOK
    PROVE  \E q \in [1 .. Len(firings) -> 1 .. Len(firings)] :
             /\ SortFirings(firings) = [i \in 1 .. Len(firings) |-> firings[q[i]]]
             /\ \A i, j \in 1 .. Len(firings) : i < j => Precedes(firings, q[i], q[j])
             /\ SortFirings(firings) \in Seq(FiringType)
             /\ Len(SortFirings(firings)) = Len(firings)
<1>1. /\ Len(firings) \in Nat /\ DOMAIN firings = 1 .. Len(firings)
      /\ \A i \in 1 .. Len(firings) : firings[i] \in FiringType /\ firings[i].date \in Int
  BY Types, FiringsTyped
<1>2. PICK q \in [1 .. Len(firings) -> 1 .. Len(firings)] :
        /\ SortFirings(firings) = [i \in 1 .. Len(firings) |-> firings[q[i]]]
        /\ \A i, j \in 1 .. Len(firings) : i < j => Precedes(firings, q[i], q[j])
  BY <1>1, SortLemma
<1>3. SortFirings(firings) \in Seq(FiringType) /\ Len(SortFirings(firings)) = Len(firings)
  <2>1. \A i \in 1 .. Len(firings) : firings[q[i]] \in FiringType
    BY <1>1, <1>2
  <2>2. QED
    BY <1>1, <1>2, <2>1
<1>4. QED
  BY <1>2, <1>3

LEMMA DelayType ==
    ASSUME TypeOK, NEW k \in DOMAIN refunds, NEW date \in RefundDates(refunds[k])
    PROVE  /\ date \in Int
           /\ rules[refunds[k].rule].refundDelay \in MinMax
           /\ date - refunds[k].date >= rules[refunds[k].rule].refundDelay.min
<1> DEFINE delay == rules[refunds[k].rule].refundDelay
<1>1. refunds[k].rule \in DOMAIN rules /\ refunds[k].date \in Int
  BY RefundsTyped
<1>2. delay \in MinMax
  <2>1. RuleTyped(rules[refunds[k].rule], Accounts)
    BY <1>1, ProfileTyped, Types
  <2>2. delay # Null
    BY DEF RefundDates
  <2>3. QED
    BY <2>1, <2>2 DEF RuleTyped
<1>3. PICK d \in RandInt(delay.min, delay.max) : date = refunds[k].date + d
  BY <1>2 DEF RefundDates
<1>4. delay.min \in Int /\ delay.max \in Int
  BY <1>2 DEF MinMax
<1>5. d \in Int /\ d >= delay.min
  BY <1>4, RandIntType
<1>6. QED
  BY <1>1, <1>2, <1>3, <1>4, <1>5

\* The entries that are posted.
LEMMA FiringPosted ==
    ASSUME TypeInv, Firing, AccountOf(FiredRule) \in Accounts
    PROVE  /\ next \in DOMAIN firings /\ firings[next].rule \in DOMAIN rules
           /\ Postable(FiredRule, Accounts)
           /\ Amounts \subseteq Int
           /\ \A amount \in Int : FiringEntry(amount) \in EntryType
<1>1. next \in DOMAIN firings
  BY Types DEF TypeInv, Firing
<1>2. firings[next].rule \in DOMAIN rules /\ firings[next].date \in Int
  BY <1>1, FiringsTyped DEF TypeInv
<1>3. Postable(FiredRule, Accounts)
  BY <1>2, ProfileTyped, Types DEF TypeInv, Postable, FiredRule
<1>4. Amounts \subseteq Int
  BY <1>3, Types, ResolveAmountType DEF Amounts, Postable, TypeInv
<1>5. ASSUME NEW amount \in Int PROVE FiringEntry(amount) \in EntryType
  <2>1. Entry("rule", Ends(rules[firings[next].rule]), amount, firings[next].rule,
              firings[next].date, 0) \in EntryType
    BY <1>2, <1>3, Types, EntryOfRule DEF TypeInv, Kinds, FiredRule
  <2>2. QED
    BY <2>1 DEF FiringEntry
<1>6. QED
  BY <1>1, <1>2, <1>3, <1>4, <1>5

LEMMA ReactionPosted ==
    ASSUME TypeInv, queue # <<>>
    PROVE  /\ Head(queue) \in DOMAIN rules /\ Postable(rules[Head(queue)], Accounts)
           /\ ReactionAmount \in Int /\ ReactionEntry \in EntryType
           /\ Tail(queue) \in Seq(DOMAIN rules) /\ trigger.entry \in DOMAIN ledger
           /\ \A k \in DOMAIN Tail(queue) : rules[Tail(queue)[k]].type = "reactive_pct"
<1>1. /\ queue \in Seq(DOMAIN rules) /\ \A k \in DOMAIN queue : rules[queue[k]].type = "reactive_pct"
      /\ trigger.entry \in DOMAIN ledger /\ trigger.amount \in Int
  BY Types DEF TypeInv, QueueTriggered, TypeOK
<1>2. /\ Head(queue) \in DOMAIN rules /\ rules[Head(queue)].type = "reactive_pct"
      /\ Tail(queue) \in Seq(DOMAIN rules)
  <2>1. Len(queue) \in Nat \ {0} /\ DOMAIN queue = 1 .. Len(queue) /\ Head(queue) = queue[1]
    BY <1>1
  <2>2. QED
    BY <1>1, <2>1
<1>3. \A k \in DOMAIN Tail(queue) : rules[Tail(queue)[k]].type = "reactive_pct"
  <2>1. ASSUME NEW k \in DOMAIN Tail(queue)
        PROVE  k + 1 \in DOMAIN queue /\ Tail(queue)[k] = queue[k + 1]
    BY <1>1
  <2>2. QED
    BY <1>1, <2>1
<1>4. RuleTyped(rules[Head(queue)], Accounts) /\ Postable(rules[Head(queue)], Accounts)
  BY <1>2, ProfileTyped, Types DEF TypeInv, Postable, RuleTyped
<1>5. ReactionAmount \in Int
  <2>1. rules[Head(queue)].amount.pct \in Int
    BY <1>4 DEF RuleTyped
  <2>2. QED
    BY <1>1, <2>1, PercentType DEF ReactionAmount
<1>6. ReactionEntry \in EntryType
  <2>1. ledger[trigger.entry].date \in Int /\ trigger.entry \in Nat
    BY <1>1, EntriesTyped, Types DEF TypeInv
  <2>2. QED
    BY <1>2, <1>4, <1>5, <2>1, Types, EntryOfRule DEF TypeInv, Kinds, ReactionEntry
<1>7. QED
  BY <1>1, <1>2, <1>3, <1>4, <1>5, <1>6

LEMMA InstallmentPosted ==
    ASSUME TypeInv, NEW k \in DOMAIN schedule
    PROVE  InstallmentEntry(schedule[k]) \in EntryType
<1>1. schedule[k].cause \in Nat
  BY InstallmentsTyped, Types DEF TypeInv
<1>2. QED
  BY <1>1, InstallmentsTyped, EntryLemma DEF TypeInv, InstallmentEntry, Kinds, Ledgered

LEMMA RefundPosted ==
    ASSUME TypeInv, NEW k \in DOMAIN refunds, NEW date \in RefundDates(refunds[k])
    PROVE  RefundEntry(refunds[k], date) \in EntryType
<1>1. refunds[k].cause \in Nat /\ refunds[k].rule \in Nat
  BY RefundsTyped, Types, ProfileTyped DEF TypeInv
<1>2. date \in Int
  BY DelayType DEF TypeInv
<1>3. QED
  BY <1>1, <1>2, RefundsTyped, EntryLemma DEF TypeInv, RefundEntry, Kinds, Ledgered

--------------------------------------------------------------------------------
\* Every step keeps the types

LEMMA TypeInit == Init => TypeInv
<1>1. SUFFICES ASSUME Init PROVE TypeInv
  OBVIOUS
<1>2. profile \in Profiles /\ 1 \in 1 .. LastMonth
  BY <1>1, LastMonthLemma DEF Init
<1>3. <<>> \in Seq(DOMAIN rules) /\ DOMAIN <<>> = {} /\ Len(<<>>) = 0
  OBVIOUS
<1>4. profile.opening \in [Accounts -> Int]
  BY <1>2, ProfileTyped
<1>5. QED
  BY <1>1, <1>2, <1>3, <1>4
  DEF Init, TypeInv, TypeOK, QueueTriggered, Phases, NoTrigger

LEMMA TypePlanRule == ASSUME TypeInv, PlanRule PROVE TypeInv'
<1>1. next \in DOMAIN rules /\ profile' = profile /\ rules' = rules
  BY Types, ProfileTyped DEF TypeInv, PlanRule, rules
<1>2. PICK drawn \in Drawn(next) :
        /\ firings' = firings \o [k \in DOMAIN drawn.dates |->
                                    [date |-> drawn.dates[k], rule |-> next]]
        /\ settled' = IF drawn.settled THEN settled \cup {next} ELSE settled
  BY DEF PlanRule
<1>3. drawn.dates \in Seq(Int)
  BY <1>1, DrawnLemma DEF TypeInv
<1>4. firings' \in Seq(FiringType)
  BY <1>1, <1>2, <1>3, AddedLemma DEF TypeInv, Added
<1>5. settled' \subseteq DOMAIN rules
  BY <1>1, <1>2 DEF TypeInv, TypeOK
<1>6. /\ next' = next + 1
      /\ UNCHANGED <<month, phase, trigger, queue, balances, schedule, refunds, ledger>>
  BY DEF PlanRule
<1>7. next + 1 \in Nat \ {0}
  BY Types DEF TypeInv
<1>8. TypeOK'
  BY <1>1, <1>4, <1>5, <1>6, <1>7, Types, TypedNext DEF TypeInv, TypeOK
<1>9. QED
  BY <1>1, <1>6, <1>8 DEF TypeInv, QueueTriggered

LEMMA TypeStartFiring == ASSUME TypeInv, StartFiring PROVE TypeInv'
<1>1. firings' \in Seq(FiringType)
  BY SortedLemma DEF TypeInv, StartFiring
<1>2. /\ profile' = profile /\ rules' = rules /\ phase' = "fire" /\ next' = 1
      /\ UNCHANGED <<month, settled, trigger, queue, balances, schedule, refunds, ledger>>
  BY DEF StartFiring, rules
<1>3. phase' \in Phases /\ next' \in Nat \ {0}
  BY <1>2 DEF Phases
<1>4. TypeOK'
  BY <1>1, <1>2, <1>3, Types, TypedNext DEF TypeInv, TypeOK
<1>5. QED
  BY <1>2, <1>4 DEF TypeInv, QueueTriggered

\* A step that posts nothing and moves on, or ends.
LEMMA TypeMove ==
    ASSUME TypeInv, next' \in {next, next + 1, 1}, phase' \in Phases,
           queue = <<>> \/ phase' = "failed",
           UNCHANGED <<profile, month, firings, settled, trigger, queue, balances,
                       schedule, ledger>>,
           refunds' \in Seq(RefundType(ledger))
    PROVE  TypeInv'
<1>1. next' \in Nat \ {0} /\ rules' = rules
  BY Types DEF TypeInv, rules
<1>2. TypeOK'
  BY <1>1, Types, TypedNext DEF TypeInv, TypeOK
<1>3. QED
  BY <1>1, <1>2 DEF TypeInv, QueueTriggered

LEMMA TypePostFiring == ASSUME TypeInv, PostFiring PROVE TypeInv'
<1>1. /\ next \in DOMAIN firings /\ firings[next].rule \in DOMAIN rules
      /\ Postable(FiredRule, Accounts) /\ Amounts \subseteq Int
      /\ \A amount \in Int : FiringEntry(amount) \in EntryType
      /\ AccountOf(FiredRule) \in Accounts /\ phase = "fire" /\ queue = <<>>
      /\ firings[next].date \in Int
  BY FiringPosted, FiringsTyped DEF PostFiring, Firing, TypeInv
<1>2. PICK amount \in Amounts \ {0} :
         \/ /\ Posted(FiringEntry(amount))
            /\ trigger' = [entry |-> Len(ledger'), amount |-> amount]
            /\ queue' = Reactions(rules, FiredRule, amount)
            /\ balances' = ApplyBalance(balances, FiredRule, amount)
            /\ next' = next + 1
            /\ IF Panics
               THEN phase' = "failed" /\ UNCHANGED <<schedule, refunds>>
               ELSE /\ schedule' = schedule \o NewInstallments(amount, Len(ledger'))
                    /\ refunds' = refunds \o NewRefunds(amount, Len(ledger'))
                    /\ UNCHANGED phase
            /\ UNCHANGED <<profile, month, firings, settled>>
         \/ NotPosted(FiringEntry(amount))
  BY DEF PostFiring
<1>3. amount \in Int /\ FiringEntry(amount) \in EntryType
  BY <1>1
<1>4. CASE NotPosted(FiringEntry(amount))
  BY <1>3, <1>4, NotPostedType
<1>5. CASE /\ Posted(FiringEntry(amount))
           /\ trigger' = [entry |-> Len(ledger'), amount |-> amount]
           /\ queue' = Reactions(rules, FiredRule, amount)
           /\ balances' = ApplyBalance(balances, FiredRule, amount)
           /\ next' = next + 1
           /\ IF Panics
              THEN phase' = "failed" /\ UNCHANGED <<schedule, refunds>>
              ELSE /\ schedule' = schedule \o NewInstallments(amount, Len(ledger'))
                   /\ refunds' = refunds \o NewRefunds(amount, Len(ledger'))
                   /\ UNCHANGED phase
           /\ UNCHANGED <<profile, month, firings, settled>>
  <2>1. ledger' = Append(ledger, FiringEntry(amount)) /\ rules' = rules
    BY <1>5 DEF Posted, rules
  <2>2. /\ ledger' \in Seq(EntryType) /\ Len(ledger') = Len(ledger) + 1
        /\ DOMAIN ledger' = 1 .. Len(ledger) + 1 /\ Len(ledger') \in DOMAIN ledger'
    BY <1>3, <2>1, Types DEF TypeInv
  <2>3. /\ schedule \in Seq(InstallmentType(ledger'))
        /\ refunds \in Seq(RefundType(ledger'))
    BY <1>3, <2>1, LedgerGrows DEF TypeInv
  <2>4. balances' \in [Accounts -> Int]
    BY <1>1, <1>3, <1>5, ApplyBalanceType, Types DEF TypeInv
  <2>5. /\ queue' \in Seq(DOMAIN rules)
        /\ \A k \in DOMAIN queue' : rules[queue'[k]].type = "reactive_pct"
    <3> DEFINE T == {r \in DOMAIN rules : rules[r].type = "reactive_pct"}
    <3>1. queue' \in Seq(T)
      BY <1>5, Types, ReactionsType DEF TypeInv
    <3>2. \A k \in DOMAIN queue' : queue'[k] \in T
      <4> HIDE DEF T
      <4>1. QED
        BY <3>1
    <3>3. T \subseteq DOMAIN rules
      OBVIOUS
    <3>4. queue' \in Seq(DOMAIN rules)
      <4> HIDE DEF T
      <4>1. QED
        BY <3>1, <3>3
    <3>5. QED
      BY <3>2, <3>4
  <2>6. ASSUME ~ Panics
        PROVE  NewInstallments(amount, Len(ledger')) \in Seq(InstallmentType(ledger'))
    <3> DEFINE a == AccountOf(FiredRule)
               plan == profile.bnpl[a]
               new == Installments(plan, month, a, amount, Len(ledger'))
    <3>1. CASE plan = Null
      <4>1. NewInstallments(amount, Len(ledger')) = <<>>
        BY <3>1 DEF NewInstallments
      <4>2. QED
        BY <4>1
    <3>2. CASE plan # Null
      <4>1. /\ plan.count \in Nat /\ plan.count # 0 /\ plan.day \in Int
            /\ LastMonth + plan.count <= Len(FirstDay)
        BY <1>1, <2>6, <3>2, ProfileTyped, Types DEF TypeInv, Panics
      <4>2. ASSUME NEW i \in 1 .. plan.count
            PROVE  [date |-> Date(month + i, plan.day), account |-> a,
                    amount |-> Quotient(amount, plan.count), cause |-> Len(ledger')]
                     \in InstallmentType(ledger')
        <5>1. month + i \in 1 .. Len(FirstDay)
          <6> DEFINE n == plan.count
          <6>1. month \in 1 .. LastMonth /\ LastMonth \in Nat /\ Len(FirstDay) \in Nat
            BY Types, LastMonthLemma, FirstDays DEF TypeInv
          <6>2. i \in 1 .. n /\ n \in Nat /\ LastMonth + n <= Len(FirstDay)
            BY <4>1
          <6> HIDE DEF n
          <6>3. QED
            BY <6>1, <6>2
        <5>2. Date(month + i, plan.day) \in Int
          BY <4>1, <5>1, FirstDays DEF Date
        <5>3. Quotient(amount, plan.count) \in Int
          BY <1>3, <4>1, QuotientType
        <5>4. QED
          BY <1>1, <2>2, <5>2, <5>3 DEF InstallmentType
      <4>3. new = [i \in 1 .. plan.count |->
                     [date |-> Date(month + i, plan.day), account |-> a,
                      amount |-> Quotient(amount, plan.count), cause |-> Len(ledger')]]
        BY DEF Installments
      <4>4. new \in Seq(InstallmentType(ledger'))
        <5> DEFINE part(i) ==
                     [date |-> Date(month + i, plan.day), account |-> a,
                      amount |-> Quotient(amount, plan.count), cause |-> Len(ledger')]
                   n == plan.count
        <5>1. new = [i \in 1 .. n |-> part(i)] /\ n \in Nat
          BY <4>1, <4>3
        <5>2. \A i \in 1 .. n : part(i) \in InstallmentType(ledger')
          BY <4>2
        <5> HIDE DEF new, part, n
        <5>3. QED
          BY <5>1, <5>2
      <4>5. NewInstallments(amount, Len(ledger')) = new
        BY <3>2 DEF NewInstallments
      <4>6. QED
        BY <4>4, <4>5
    <3>3. QED
      BY <3>1, <3>2
  <2>7. NewRefunds(amount, Len(ledger')) \in Seq(RefundType(ledger'))
    <3> DEFINE shadows == Shadows(rules, FiredRule)
    <3>1. shadows \in Seq(DOMAIN rules)
      BY ShadowsType, Types DEF TypeInv
    <3>2. NewRefunds(amount, Len(ledger')) =
            [k \in DOMAIN shadows |->
               [date |-> firings[next].date, account |-> AccountOf(FiredRule),
                amount |-> amount, rule |-> shadows[k], cause |-> Len(ledger')]]
      BY DEF NewRefunds
    <3> HIDE DEF shadows
    <3>3. /\ DOMAIN shadows = 1 .. Len(shadows) /\ Len(shadows) \in Nat
          /\ \A k \in DOMAIN shadows : shadows[k] \in DOMAIN rules
      BY <3>1
    <3>4. ASSUME NEW k \in DOMAIN shadows
          PROVE  [date |-> firings[next].date, account |-> AccountOf(FiredRule),
                  amount |-> amount, rule |-> shadows[k], cause |-> Len(ledger')]
                   \in RefundType(ledger')
      BY <1>1, <1>3, <2>2, <3>3 DEF RefundType
    <3>5. QED
      BY <3>2, <3>3, <3>4
  <2>8. /\ schedule' \in Seq(InstallmentType(ledger'))
        /\ refunds' \in Seq(RefundType(ledger')) /\ phase' \in Phases
        /\ phase' \in {"fire", "failed"}
    <3>1. \A T : \A s, t \in Seq(T) : s \o t \in Seq(T)
      OBVIOUS
    <3>2. CASE Panics
      BY <1>5, <2>3, <3>2 DEF Phases
    <3>3. CASE ~ Panics
      BY <1>1, <1>5, <2>3, <2>6, <2>7, <3>1, <3>3 DEF Phases
    <3>4. QED
      BY <3>2, <3>3
  <2>9. trigger' \in [entry: 0 .. Len(ledger'), amount: Int] /\ trigger'.entry \in DOMAIN ledger'
    BY <1>3, <1>5, <2>2, Types DEF TypeInv
  <2>10. TypeOK'
    <3>1. next' \in Nat \ {0}
      BY <1>5, Types DEF TypeInv
    <3>2. /\ profile' = profile /\ month' \in 1 .. LastMonth
          /\ firings' \in Seq(FiringType) /\ settled' \subseteq DOMAIN rules
      BY <1>5, Types DEF TypeInv, TypeOK
    <3>3. QED
      BY <2>2, <2>4, <2>5, <2>8, <2>9, <3>1, <3>2, TypedNext DEF TypeInv
  <2>11. QED
    BY <2>1, <2>5, <2>8, <2>9, <2>10 DEF TypeInv, QueueTriggered
<1>6. QED
  BY <1>2, <1>4, <1>5

LEMMA TypePostReaction == ASSUME TypeInv, PostReaction PROVE TypeInv'
<1>1. /\ queue # <<>> /\ phase = "fire" /\ Postable(rules[Head(queue)], Accounts)
      /\ ReactionAmount \in Int /\ ReactionEntry \in EntryType
      /\ Tail(queue) \in Seq(DOMAIN rules) /\ trigger.entry \in DOMAIN ledger
      /\ \A k \in DOMAIN Tail(queue) : rules[Tail(queue)[k]].type = "reactive_pct"
  BY ReactionPosted DEF PostReaction
<1>2. CASE NotPosted(ReactionEntry)
  BY <1>1, <1>2, NotPostedType
<1>3. CASE /\ Posted(ReactionEntry)
           /\ balances' = ApplyBalance(balances, rules[Head(queue)], ReactionAmount)
           /\ queue' = Tail(queue)
           /\ UNCHANGED <<profile, month, phase, next, firings, settled, trigger,
                          schedule, refunds>>
  <2>1. ledger' = Append(ledger, ReactionEntry) /\ rules' = rules
    BY <1>3 DEF Posted, rules
  <2>2. balances' \in [Accounts -> Int]
    BY <1>1, <1>3, ApplyBalanceType, Types DEF TypeInv
  <2>3. TypeOK'
    <3>1. /\ month' \in 1 .. LastMonth /\ phase' \in Phases /\ next' \in Nat \ {0}
          /\ firings' \in Seq(FiringType) /\ settled' \subseteq DOMAIN rules
          /\ trigger' \in [entry: 0 .. Len(ledger'), amount: Int]
          /\ schedule' \in Seq(InstallmentType(ledger'))
          /\ refunds' \in Seq(RefundType(ledger')) /\ ledger' \in Seq(EntryType)
      BY <1>1, <1>3, <2>1, TypeKept
    <3>2. profile' = profile /\ queue' \in Seq(DOMAIN rules)
      BY <1>1, <1>3
    <3>3. QED
      BY <2>2, <3>1, <3>2, TypedNext DEF TypeInv
  <2>4. DOMAIN ledger \subseteq DOMAIN ledger'
    BY <1>1, <2>1, LedgerGrows DEF TypeInv
  <2>5. QED
    BY <1>1, <1>3, <2>1, <2>3, <2>4 DEF TypeInv, QueueTriggered
<1>4. QED
  BY <1>2, <1>3 DEF PostReaction

LEMMA TypePostInstallment == ASSUME TypeInv, PostInstallment PROVE TypeInv'
<1> DEFINE e == InstallmentEntry(schedule[next])
<1>1. next \in DOMAIN schedule /\ phase = "installments" /\ queue = <<>>
  BY Types DEF PostInstallment, TypeInv, QueueTriggered
<1>2. e \in EntryType
  BY <1>1, InstallmentPosted
<1>3. CASE NotPosted(e)
  <2> HIDE DEF e
  <2>1. QED
    BY <1>2, <1>3, NotPostedType
<1>4. CASE /\ Posted(e)
           /\ balances' = [balances EXCEPT ![schedule[next].account] =
                              @ + schedule[next].amount]
           /\ schedule' = Delisted(schedule, next)
           /\ UNCHANGED <<profile, month, phase, next, firings, settled, trigger,
                          queue, refunds>>
  <2> HIDE DEF e
  <2>1. ledger' = Append(ledger, e) /\ rules' = rules
    BY <1>4 DEF Posted, rules
  <2>2. balances' \in [Accounts -> Int]
    BY <1>1, <1>4, InstallmentsTyped, Types DEF TypeInv
  <2>3. schedule' \in Seq(InstallmentType(ledger'))
    <3>1. schedule \in Seq(InstallmentType(ledger'))
      BY <1>2, <2>1, LedgerGrows DEF TypeInv
    <3>2. QED
      BY <1>1, <1>4, <3>1, RemoveAtLemma
  <2>4. TypeOK'
    <3>1. /\ month' \in 1 .. LastMonth /\ phase' \in Phases /\ next' \in Nat \ {0}
          /\ firings' \in Seq(FiringType) /\ settled' \subseteq DOMAIN rules
          /\ trigger' \in [entry: 0 .. Len(ledger'), amount: Int]
          /\ queue' \in Seq(DOMAIN rules)
          /\ refunds' \in Seq(RefundType(ledger')) /\ ledger' \in Seq(EntryType)
      BY <1>2, <1>4, <2>1, TypeKept
    <3>2. profile' = profile
      BY <1>4
    <3>3. QED
      BY <2>2, <2>3, <3>1, <3>2, TypedNext DEF TypeInv
  <2>5. QED
    BY <1>1, <1>4, <2>1, <2>4 DEF TypeInv, QueueTriggered
<1>5. QED
  BY <1>3, <1>4 DEF PostInstallment

LEMMA TypePostRefund == ASSUME TypeInv, PostRefund PROVE TypeInv'
<1>1. next \in DOMAIN refunds /\ phase = "refunds" /\ queue = <<>>
  BY Types DEF PostRefund, InRefunds, TypeInv, QueueTriggered
<1>2. PICK date \in RefundDates(refunds[next]) :
         \/ /\ Posted(RefundEntry(refunds[next], date))
            /\ balances' = [balances EXCEPT ![refunds[next].account] =
                               @ - refunds[next].amount]
            /\ refunds' = Delisted(refunds, next)
            /\ UNCHANGED <<profile, month, phase, next, firings, settled,
                           trigger, queue, schedule>>
         \/ NotPosted(RefundEntry(refunds[next], date))
  BY DEF PostRefund
<1> DEFINE e == RefundEntry(refunds[next], date)
<1>3. e \in EntryType
  BY <1>1, RefundPosted
<1>4. CASE NotPosted(e)
  <2> HIDE DEF e
  <2>1. QED
    BY <1>3, <1>4, NotPostedType
<1>5. CASE /\ Posted(e)
           /\ balances' = [balances EXCEPT ![refunds[next].account] =
                              @ - refunds[next].amount]
           /\ refunds' = Delisted(refunds, next)
           /\ UNCHANGED <<profile, month, phase, next, firings, settled,
                          trigger, queue, schedule>>
  <2> HIDE DEF e
  <2>1. ledger' = Append(ledger, e) /\ rules' = rules
    BY <1>5 DEF Posted, rules
  <2>2. balances' \in [Accounts -> Int]
    BY <1>1, <1>5, RefundsTyped, Types DEF TypeInv
  <2>3. refunds' \in Seq(RefundType(ledger'))
    <3>1. refunds \in Seq(RefundType(ledger'))
      BY <1>3, <2>1, LedgerGrows DEF TypeInv
    <3>2. QED
      BY <1>1, <1>5, <3>1, RemoveAtLemma
  <2>4. TypeOK'
    <3>1. /\ month' \in 1 .. LastMonth /\ phase' \in Phases /\ next' \in Nat \ {0}
          /\ firings' \in Seq(FiringType) /\ settled' \subseteq DOMAIN rules
          /\ trigger' \in [entry: 0 .. Len(ledger'), amount: Int]
          /\ queue' \in Seq(DOMAIN rules)
          /\ schedule' \in Seq(InstallmentType(ledger')) /\ ledger' \in Seq(EntryType)
      BY <1>3, <1>5, <2>1, TypeKept
    <3>2. profile' = profile
      BY <1>5
    <3>3. QED
      BY <2>2, <2>3, <3>1, <3>2, TypedNext DEF TypeInv
  <2>5. QED
    BY <1>1, <1>5, <2>1, <2>4 DEF TypeInv, QueueTriggered
<1>6. QED
  BY <1>2, <1>4, <1>5

LEMMA TypeNextMonth == ASSUME TypeInv, NextMonth PROVE TypeInv'
<1>1. /\ profile' = profile /\ rules' = rules /\ queue = <<>> /\ queue' = queue
      /\ month' = IF Over(month) THEN month ELSE month + 1
      /\ phase' \in {"done", "plan"} /\ next' = 1 /\ firings' = <<>>
      /\ trigger' = NoTrigger
      /\ UNCHANGED <<settled, balances, schedule, refunds, ledger>>
  BY DEF NextMonth, TypeInv, QueueTriggered, rules
<1>2. month' \in 1 .. LastMonth
  <2>1. CASE Over(month)
    BY <1>1, <2>1, Types DEF TypeInv
  <2>2. CASE ~ Over(month)
    <3>1. month \in 1 .. LastMonth /\ FirstDay[month + 1] <= End
      BY <2>2, Types, Month, FirstDays DEF TypeInv, Over
    <3>2. month # LastMonth
      BY <3>1, LastMonthLemma, FirstDays, Month
    <3>3. QED
      BY <1>1, <2>2, <3>1, <3>2, LastMonthLemma
  <2>3. QED
    BY <2>1, <2>2
<1>3. /\ phase' \in Phases /\ next' \in Nat \ {0} /\ firings' \in Seq(FiringType)
      /\ trigger' \in [entry: 0 .. Len(ledger'), amount: Int]
  BY <1>1, Types DEF TypeInv, Phases, NoTrigger
<1>4. TypeOK'
  <2>1. /\ settled' \subseteq DOMAIN rules /\ queue' \in Seq(DOMAIN rules)
        /\ balances' \in [Accounts -> Int]
        /\ schedule' \in Seq(InstallmentType(ledger'))
        /\ refunds' \in Seq(RefundType(ledger')) /\ ledger' \in Seq(EntryType)
    BY <1>1, Types DEF TypeInv, TypeOK
  <2>2. QED
    BY <1>1, <1>2, <1>3, <2>1, TypedNext DEF TypeInv
<1>5. QED
  BY <1>1, <1>4 DEF TypeInv, QueueTriggered

LEMMA TypeNext == ASSUME TypeInv, [Next]_vars PROVE TypeInv'
<1>1. refunds \in Seq(RefundType(ledger))
  BY Types DEF TypeInv
<1>2. CASE SkipFiring
  BY <1>1, <1>2, TypeMove DEF SkipFiring, Firing, TypeInv, TypeOK
<1>3. CASE RejectFiring
  <2>1. "failed" \in Phases
    BY DEF Phases
  <2>2. QED
    BY <1>1, <1>3, <2>1, TypeMove DEF RejectFiring, TypeInv, TypeOK
<1>4. CASE StartInstallments
  BY <1>1, <1>4, TypeMove DEF StartInstallments, Phases
<1>5. CASE KeepInstallment
  BY <1>1, <1>5, TypeMove DEF KeepInstallment, TypeInv, TypeOK, QueueTriggered
<1>6. CASE StartRefunds
  BY <1>1, <1>6, TypeMove DEF StartRefunds, Phases, TypeInv, QueueTriggered
<1>7. CASE KeepRefund
  BY <1>1, <1>7, TypeMove DEF KeepRefund, InRefunds, TypeInv, TypeOK, QueueTriggered
<1>8. CASE DropRefund
  <2>1. next \in DOMAIN refunds
    BY <1>8, Types DEF DropRefund, InRefunds, TypeInv
  <2>2. refunds' \in Seq(RefundType(ledger))
    BY <1>1, <1>8, <2>1, RemoveAtLemma DEF DropRefund
  <2>3. QED
    BY <1>8, <2>2, TypeMove DEF DropRefund, InRefunds, TypeInv, TypeOK, QueueTriggered
<1>9. CASE UNCHANGED vars
  <2>1. profile' = profile /\ rules' = rules /\ Accounts' = Accounts
    BY <1>9 DEF vars, rules, Accounts
  <2>2. QED
    BY <1>9, <2>1 DEF vars, TypeInv, TypeOK, QueueTriggered, Ledgered
<1>10. QED
  BY <1>2, <1>3, <1>4, <1>5, <1>6, <1>7, <1>8, <1>9, TypePlanRule, TypeStartFiring,
     TypePostFiring, TypePostReaction, TypePostInstallment, TypePostRefund,
     TypeNextMonth DEF Next

\* The profile, the calendar and the lists are what the program takes them to
\* be: no month past the calendar is looked up, no entry that is not there is
\* the trigger of a reaction, and every account is one of the profile's.
THEOREM SeedTypes == Spec => []TypeOK
<1>1. TypeInv /\ [Next]_vars => TypeInv'
  BY TypeNext
<1>2. TypeInv => TypeOK
  BY DEF TypeInv
<1>3. QED
  BY <1>1, <1>2, TypeInit, PTL DEF Spec

--------------------------------------------------------------------------------
\* The order in which rules are posted

LEMMA OrderInit == Init => PlanInv /\ OrderInv
<1>1. SUFFICES ASSUME Init PROVE PlanInv /\ OrderInv
  OBVIOUS
<1>2. DOMAIN firings = {} /\ DOMAIN ledger = {}
  BY <1>1 DEF Init
<1>3. OfKind("rule") = {} /\ Ahead = {}
  BY <1>2 DEF OfKind, Ahead
<1>4. PlanInv
  BY <1>2 DEF PlanInv, FiringsDated, FiringsInOrder, FiringsSingle
<1>5. OrderInv
  BY <1>2, <1>3
  DEF OrderInv, EntriesBehind, OneTimeSettled, MonthlyBehind, InDateOrder, OneTimeOnce,
      RulesInSeason
<1>6. QED
  BY <1>4, <1>5

LEMMA EntryAppended ==
    ASSUME TypeInv, NEW e \in EntryType, ledger' = Append(ledger, e)
    PROVE  /\ Len(ledger) \in Nat /\ DOMAIN ledger = 1 .. Len(ledger)
           /\ Len(ledger') = Len(ledger) + 1
           /\ DOMAIN ledger' = DOMAIN ledger \cup {Len(ledger')}
           /\ Len(ledger') \notin DOMAIN ledger
           /\ ledger'[Len(ledger')] = e
           /\ \A i \in DOMAIN ledger : ledger'[i] = ledger[i]
           /\ \A kind : OfKind(kind)' =
                OfKind(kind) \cup (IF e.kind = kind THEN {Len(ledger')} ELSE {})
<1>1. ledger \in Seq(EntryType)
  BY Types DEF TypeInv
<1>2. /\ Len(ledger) \in Nat /\ DOMAIN ledger = 1 .. Len(ledger)
      /\ Append(ledger, e) \in Seq(EntryType)
      /\ Len(Append(ledger, e)) = Len(ledger) + 1
      /\ Append(ledger, e)[Len(ledger) + 1] = e
      /\ \A i \in 1 .. Len(ledger) : Append(ledger, e)[i] = ledger[i]
  BY <1>1
<1>3. DOMAIN Append(ledger, e) = 1 .. Len(Append(ledger, e))
  BY <1>2
<1>4. /\ Len(ledger') = Len(ledger) + 1
      /\ DOMAIN ledger' = DOMAIN ledger \cup {Len(ledger')}
      /\ Len(ledger') \notin DOMAIN ledger
      /\ ledger'[Len(ledger')] = e
      /\ \A i \in DOMAIN ledger : ledger'[i] = ledger[i]
  BY <1>2, <1>3
<1>5. ASSUME NEW kind
      PROVE  OfKind(kind)' = OfKind(kind) \cup (IF e.kind = kind THEN {Len(ledger')} ELSE {})
  BY <1>4 DEF OfKind
<1>6. QED
  BY <1>2, <1>4, <1>5

\* The entries of rules stay as they are when another kind of entry is posted,
\* or none.
LEMMA RuleEntriesKept ==
    ASSUME TypeInv,
           \/ ledger' = ledger
           \/ \E e \in EntryType : e.kind # "rule" /\ ledger' = Append(ledger, e)
    PROVE  /\ OfKind("rule")' = OfKind("rule")
           /\ \A i \in OfKind("rule") : ledger'[i] = ledger[i]
<1>1. CASE ledger' = ledger
  BY <1>1 DEF OfKind
<1>2. CASE \E e \in EntryType : e.kind # "rule" /\ ledger' = Append(ledger, e)
  <2>1. PICK e \in EntryType : e.kind # "rule" /\ ledger' = Append(ledger, e)
    BY <1>2
  <2>2. /\ \A i \in DOMAIN ledger : ledger'[i] = ledger[i]
        /\ \A kind : OfKind(kind)' =
             OfKind(kind) \cup (IF e.kind = kind THEN {Len(ledger')} ELSE {})
    BY <2>1, EntryAppended
  <2>3. OfKind("rule")' = OfKind("rule")
    BY <2>1, <2>2
  <2>4. QED
    BY <2>2, <2>3 DEF OfKind
<1>3. QED
  BY <1>1, <1>2

\* A step outside planning that posts no rule's entry and goes back to no
\* firing.
LEMMA OrderKept ==
    ASSUME TypeInv, PlanInv, OrderInv,
           UNCHANGED <<profile, month, firings, settled>>,
           \/ ledger' = ledger
           \/ \E e \in EntryType : e.kind # "rule" /\ ledger' = Append(ledger, e),
           phase # "plan", phase' # "plan",
           phase' = "fire" => phase = "fire" /\ next' \in Nat /\ next <= next'
    PROVE  PlanInv' /\ OrderInv'
<1>1. /\ OfKind("rule")' = OfKind("rule")
      /\ \A i \in OfKind("rule") : ledger'[i] = ledger[i]
  BY RuleEntriesKept
<1>2. rules' = rules
  BY DEF rules
<1>3. Ahead' \subseteq Ahead
  BY Types DEF TypeInv, Ahead
<1>4. PlanInv'
  BY <1>2 DEF PlanInv, FiringsDated, FiringsInOrder, FiringsSingle
<1>5. EntriesBehind'
  BY <1>1, <1>3 DEF OrderInv, EntriesBehind
<1>6. OneTimeSettled'
  BY <1>1, <1>2, <1>3 DEF OrderInv, OneTimeSettled
<1>7. MonthlyBehind'
  BY <1>1, <1>2, <1>3 DEF OrderInv, MonthlyBehind
<1>8. InDateOrder' /\ OneTimeOnce' /\ RulesInSeason'
  BY <1>1, <1>2 DEF OrderInv, InDateOrder, OneTimeOnce, RulesInSeason
<1>9. QED
  BY <1>4, <1>5, <1>6, <1>7, <1>8 DEF OrderInv

LEMMA OrderPlanRule == ASSUME TypeInv, PlanInv, OrderInv, PlanRule PROVE PlanInv' /\ OrderInv'
<1>1. /\ next \in DOMAIN rules /\ rules' = rules /\ phase = "plan" /\ phase' = "plan"
      /\ next' = next + 1 /\ next \in Nat /\ month \in 1 .. LastMonth
      /\ UNCHANGED <<profile, month, ledger>>
  BY Types, ProfileTyped DEF TypeInv, PlanRule, rules
<1>2. PICK drawn \in Drawn(next) :
        /\ firings' = firings \o Added(next, drawn.dates)
        /\ settled' = IF drawn.settled THEN settled \cup {next} ELSE settled
  BY DEF PlanRule, Added
<1> DEFINE n == Len(firings)
           c == Len(drawn.dates)
<1>3. /\ drawn.dates \in Seq(Int) /\ c \in Nat /\ DOMAIN drawn.dates = 1 .. c
      /\ \A k \in 1 .. c : InMonth(drawn.dates[k], month) /\ drawn.dates[k] \in Int
      /\ rules[next].type \notin OneTimer => \A k \in 1 .. c : drawn.dates[k] <= End
      /\ rules[next].type \in Monthly \cup OneTimer => c <= 1
      /\ rules[next].type \in OneTimer /\ drawn.dates # <<>> =>
           drawn.settled /\ next \notin settled
  <2>1. drawn.dates \in Seq(Int)
    BY <1>1, DrawnLemma DEF TypeInv
  <2>2. c \in Nat /\ DOMAIN drawn.dates = 1 .. c /\ \A k \in 1 .. c : drawn.dates[k] \in Int
    BY <2>1
  <2>3. QED
    BY <1>1, <2>1, <2>2, DrawnLemma DEF TypeInv
<1>4. /\ n \in Nat /\ DOMAIN firings = 1 .. n /\ DOMAIN firings' = 1 .. n + c
      /\ \A k \in 1 .. n : firings'[k] = firings[k]
      /\ \A k \in n + 1 .. n + c :
           /\ firings'[k].rule = next
           /\ k - n \in 1 .. c /\ firings'[k].date = drawn.dates[k - n]
  <2>1. /\ firings' \in Seq(FiringType) /\ Len(firings') = n + c
        /\ \A k \in 1 .. n : firings'[k] = firings[k]
        /\ \A k \in 1 .. c : firings'[n + k].rule = next /\ firings'[n + k].date = drawn.dates[k]
        /\ n \in Nat /\ DOMAIN firings = 1 .. n
    <3>1. n \in Nat /\ DOMAIN firings = 1 .. n
      BY Types DEF TypeInv
    <3> DEFINE new == firings \o Added(next, drawn.dates)
    <3>2. /\ new \in Seq(FiringType) /\ Len(new) = n + c
          /\ \A k \in DOMAIN firings : new[k] = firings[k]
          /\ \A k \in 1 .. c : new[n + k].rule = next /\ new[n + k].date = drawn.dates[k]
      <4>1. TypeOK /\ next \in DOMAIN rules /\ drawn.dates \in Seq(Int)
        BY <1>1, <1>3 DEF TypeInv
      <4>2. QED
        BY <4>1, AddedLemma
    <3>3. firings' = new
      BY <1>2
    <3> HIDE DEF new, n, c
    <3>4. QED
      BY <3>1, <3>2, <3>3
  <2>2. DOMAIN firings' = 1 .. n + c
    <3>1. DOMAIN firings' = 1 .. Len(firings')
      BY <2>1
    <3>2. QED
      BY <2>1, <3>1
  <2>3. ASSUME NEW k \in n + 1 .. n + c
        PROVE  k - n \in 1 .. c /\ n + (k - n) = k
    BY <1>3, <2>1
  <2> HIDE DEF n, c
  <2>4. ASSUME NEW k \in n + 1 .. n + c
        PROVE  firings'[k].rule = next /\ k - n \in 1 .. c /\ firings'[k].date = drawn.dates[k - n]
    <3>1. k - n \in 1 .. c /\ n + (k - n) = k
      BY <2>3
    <3>2. firings'[n + (k - n)].rule = next /\ firings'[n + (k - n)].date = drawn.dates[k - n]
      BY <2>1, <3>1
    <3>3. QED
      BY <3>1, <3>2
  <2>5. QED
    BY <2>1, <2>2, <2>4
<1>5. \A k \in 1 .. n + c : k \in 1 .. n \/ k \in n + 1 .. n + c
  BY <1>3, <1>4
<1>6. \A k \in 1 .. n : firings[k].rule < next /\ firings[k].rule \in Nat
  BY <1>1, <1>4, FiringsTyped DEF TypeInv, PlanInv, FiringsInOrder
<1>7. drawn.dates # <<>> \/ c = 0
  BY <1>3
<1> HIDE DEF n, c
<1>8. FiringsDated'
  <2>1. ASSUME NEW k \in 1 .. n + c
        PROVE  /\ InMonth(firings'[k].date, month)
               /\ rules[firings'[k].rule].type \notin OneTimer => firings'[k].date <= End
    <3>1. CASE k \in 1 .. n
      BY <1>4, <3>1 DEF PlanInv, FiringsDated
    <3>2. CASE k \in n + 1 .. n + c
      BY <1>3, <1>4, <3>2
    <3>3. QED
      BY <1>5, <3>1, <3>2
  <2>2. QED
    BY <1>1, <1>4, <2>1 DEF FiringsDated, InMonth
<1>9. FiringsInOrder'
  <2>1. ASSUME NEW k \in 1 .. n + c PROVE firings'[k].rule < next + 1
    BY <1>1, <1>4, <1>5, <1>6
  <2>2. ASSUME NEW j \in 1 .. n + c, NEW k \in 1 .. n + c, j < k
        PROVE  firings'[j].rule <= firings'[k].rule
    <3>1. CASE k \in 1 .. n
      <4>1. j \in 1 .. n
        BY <1>4, <2>2, <3>1
      <4>2. QED
        BY <1>1, <1>4, <2>2, <3>1, <4>1 DEF PlanInv, FiringsInOrder
    <3>2. CASE k \in n + 1 .. n + c
      BY <1>1, <1>4, <1>5, <1>6, <3>2
    <3>3. QED
      BY <1>5, <3>1, <3>2
  <2>3. QED
    BY <1>1, <1>4, <2>1, <2>2 DEF FiringsInOrder
<1>10. FiringsSingle'
  <2>1. SUFFICES ASSUME NEW j \in 1 .. n + c, NEW k \in 1 .. n + c,
                        firings'[j].rule = firings'[k].rule,
                        rules[firings'[j].rule].type \in Monthly \cup OneTimer
                 PROVE  j = k
    BY <1>1, <1>4 DEF FiringsSingle
  <2>2. CASE j \in 1 .. n /\ k \in 1 .. n
    BY <1>4, <2>1, <2>2 DEF PlanInv, FiringsSingle
  <2>3. CASE j \in n + 1 .. n + c /\ k \in n + 1 .. n + c
    BY <1>3, <1>4, <2>1, <2>3
  <2>4. CASE j \in 1 .. n /\ k \in n + 1 .. n + c
    BY <1>1, <1>4, <1>6, <2>1, <2>4
  <2>5. CASE j \in n + 1 .. n + c /\ k \in 1 .. n
    BY <1>1, <1>4, <1>6, <2>1, <2>5
  <2>6. QED
    BY <1>5, <2>2, <2>3, <2>4, <2>5
<1>11. /\ OfKind("rule")' = OfKind("rule")
       /\ \A i \in OfKind("rule") : i \in DOMAIN ledger /\ ledger[i].date \in Int
                                    /\ ledger[i].date < FirstDay[month]
  <2>1. \A i \in OfKind("rule") : i \in DOMAIN ledger /\ ledger[i].date \in Int
    BY EntriesTyped DEF TypeInv, OfKind
  <2>2. QED
    BY <1>1, <2>1 DEF OfKind, OrderInv, EntriesBehind
<1>12. Ahead = 1 .. n /\ Ahead' = 1 .. n + c
  BY <1>1, <1>4 DEF Ahead
<1>13. EntriesBehind'
  <2>1. ASSUME NEW i \in OfKind("rule"), NEW k \in 1 .. n + c
        PROVE  InOrder(ledger[i], firings'[k])
    <3>1. CASE k \in 1 .. n
      BY <1>4, <1>12, <3>1 DEF OrderInv, EntriesBehind
    <3>2. CASE k \in n + 1 .. n + c
      <4>1. firings'[k].date \in Int /\ FirstDay[month] <= firings'[k].date
        BY <1>3, <1>4, <3>2 DEF InMonth
      <4>2. FirstDay[month] \in Int /\ ledger[i].date \in Int /\ ledger[i].date < FirstDay[month]
        BY <1>1, <1>11, Month
      <4>3. QED
        BY <4>1, <4>2 DEF InOrder
    <3>3. QED
      BY <1>5, <3>1, <3>2
  <2>2. QED
    BY <1>1, <1>11, <1>12, <2>1 DEF EntriesBehind, InOrder
<1>14. OneTimeSettled'
  <2>1. settled \subseteq settled'
    BY <1>2
  <2>2. ASSUME NEW k \in 1 .. n + c, rules[firings'[k].rule].type \in OneTimer
        PROVE  firings'[k].rule \in settled'
    <3>1. CASE k \in 1 .. n
      BY <1>4, <2>1, <2>2, <3>1 DEF OrderInv, OneTimeSettled
    <3>2. CASE k \in n + 1 .. n + c
      <4>1. firings'[k].rule = next /\ drawn.dates # <<>>
        BY <1>3, <1>4, <1>7, <3>2
      <4>2. drawn.settled
        BY <1>3, <2>2, <4>1
      <4>3. QED
        BY <1>2, <4>1, <4>2
    <3>3. QED
      BY <1>5, <3>1, <3>2
  <2>3. ASSUME NEW i \in OfKind("rule"), rules[ledger[i].rule].type \in OneTimer,
               NEW k \in 1 .. n + c
        PROVE  ledger[i].rule \in settled' /\ firings'[k].rule # ledger[i].rule
    <3>1. ledger[i].rule \in settled
      BY <2>3 DEF OrderInv, OneTimeSettled
    <3>2. CASE k \in 1 .. n
      BY <1>4, <1>12, <2>1, <2>3, <3>1, <3>2 DEF OrderInv, OneTimeSettled
    <3>3. CASE k \in n + 1 .. n + c
      <4>1. firings'[k].rule = next /\ drawn.dates # <<>>
        BY <1>3, <1>4, <1>7, <3>3
      <4>2. QED
        BY <1>3, <2>1, <2>3, <3>1, <4>1
    <3>4. QED
      BY <1>5, <3>2, <3>3
  <2>4. ASSUME NEW i \in OfKind("rule"), rules[ledger[i].rule].type \in OneTimer
        PROVE  ledger[i].rule \in settled'
    BY <2>1, <2>4 DEF OrderInv, OneTimeSettled
  <2>5. QED
    BY <1>1, <1>4, <1>11, <1>12, <2>2, <2>3, <2>4 DEF OneTimeSettled
<1>15. MonthlyBehind'
  BY <1>1, <1>11 DEF MonthlyBehind
<1>16. InDateOrder' /\ OneTimeOnce' /\ RulesInSeason'
  BY <1>1, <1>11 DEF OrderInv, InDateOrder, OneTimeOnce, RulesInSeason
<1>17. QED
  BY <1>8, <1>9, <1>10, <1>13, <1>14, <1>15, <1>16 DEF PlanInv, OrderInv

\* Sorting turns the order of the rules into the order of the dates, in which
\* the firings of one day keep the order of the rules.
LEMMA OrderStartFiring ==
    ASSUME TypeInv, PlanInv, OrderInv, StartFiring PROVE PlanInv' /\ OrderInv'
<1> DEFINE n == Len(firings)
<1>1. /\ rules' = rules /\ phase = "plan" /\ phase' = "fire" /\ next' = 1
      /\ UNCHANGED <<profile, month, settled, ledger>> /\ month \in 1 .. LastMonth
      /\ n \in Nat /\ DOMAIN firings = 1 .. n
  BY Types DEF TypeInv, StartFiring, rules
<1>2. PICK q \in [1 .. n -> 1 .. n] :
        /\ SortFirings(firings) = [i \in 1 .. n |-> firings[q[i]]]
        /\ \A i, j \in 1 .. n : i < j => Precedes(firings, q[i], q[j])
        /\ SortFirings(firings) \in Seq(FiringType) /\ Len(SortFirings(firings)) = n
  BY SortedLemma DEF TypeInv
<1> HIDE DEF n
<1>3. /\ DOMAIN firings' = 1 .. n /\ \A i \in 1 .. n : q[i] \in 1 .. n /\ firings'[i] = firings[q[i]]
  BY <1>2 DEF StartFiring
<1>4. \A k \in 1 .. n : firings[k].date \in Int /\ firings[k].rule \in Nat
  BY <1>1, FiringsTyped DEF TypeInv
<1>5. Ahead = 1 .. n /\ Ahead' = 1 .. n
  BY <1>1, <1>3 DEF Ahead
<1>6. /\ OfKind("rule")' = OfKind("rule")
      /\ \A i \in OfKind("rule") : ledger[i].date \in Int /\ ledger[i].date < FirstDay[month]
  <2>1. \A i \in OfKind("rule") : ledger[i].date \in Int
    BY EntriesTyped DEF TypeInv, OfKind
  <2>2. QED
    BY <1>1, <2>1 DEF OfKind, OrderInv, EntriesBehind
<1>7. FiringsDated'
  BY <1>1, <1>3 DEF PlanInv, FiringsDated, InMonth
<1>8. FiringsInOrder'
  <2>1. ASSUME NEW i \in 1 .. n, NEW j \in 1 .. n, i < j
        PROVE  InOrder(firings'[i], firings'[j])
    <3>1. Precedes(firings, q[i], q[j]) /\ q[i] \in 1 .. n /\ q[j] \in 1 .. n
      BY <1>2, <1>3, <2>1
    <3>2. q[i] < q[j] => firings[q[i]].rule <= firings[q[j]].rule
      BY <1>1, <3>1 DEF PlanInv, FiringsInOrder
    <3>3. InOrder(firings[q[i]], firings[q[j]])
      BY <3>1, <3>2 DEF Precedes, InOrder
    <3>4. QED
      BY <1>3, <3>3
  <2>2. QED
    BY <1>1, <1>3, <2>1 DEF FiringsInOrder
<1>9. FiringsSingle'
  <2>1. SUFFICES ASSUME NEW i \in 1 .. n, NEW j \in 1 .. n,
                        firings'[i].rule = firings'[j].rule,
                        rules[firings'[i].rule].type \in Monthly \cup OneTimer
                 PROVE  i = j
    BY <1>1, <1>3 DEF FiringsSingle
  <2>2. q[i] = q[j] /\ q[i] \in 1 .. n
    BY <1>1, <1>3, <2>1 DEF PlanInv, FiringsSingle
  <2>3. ~ Precedes(firings, q[i], q[j]) /\ ~ Precedes(firings, q[j], q[i])
    BY <1>4, <2>2 DEF Precedes
  <2>4. i \in Int /\ j \in Int
    OBVIOUS
  <2>5. QED
    BY <1>2, <2>3, <2>4
<1>10. EntriesBehind'
  <2>1. FirstDay[month] \in Int /\ FirstDay[month + 1] \in Int /\ FirstDay[month] < FirstDay[month + 1]
    BY <1>1, Month
  <2>2. ASSUME NEW i \in OfKind("rule")
        PROVE  ledger[i].date < FirstDay[month + 1]
    BY <1>6, <2>1
  <2>3. ASSUME NEW i \in OfKind("rule"), NEW k \in 1 .. n
        PROVE  InOrder(ledger[i], firings'[k])
    <3>1. InOrder(ledger[i], firings[q[k]])
      BY <1>3, <1>5 DEF OrderInv, EntriesBehind
    <3>2. QED
      BY <1>3, <3>1
  <2>4. /\ phase' # "plan" /\ UNCHANGED <<ledger, month>> /\ Ahead' = 1 .. n
        /\ OfKind("rule")' = OfKind("rule")
    BY <1>1, <1>5, <1>6
  <2> HIDE DEF n
  <2>5. QED
    BY <2>2, <2>3, <2>4 DEF EntriesBehind, InOrder
<1>11. OneTimeSettled'
  <2>1. ASSUME NEW k \in 1 .. n, rules[firings'[k].rule].type \in OneTimer
        PROVE  firings'[k].rule \in settled
    <3>1. firings'[k] = firings[q[k]] /\ q[k] \in DOMAIN firings
      BY <1>1, <1>3
    <3>2. QED
      BY <2>1, <3>1 DEF OrderInv, OneTimeSettled
  <2>2. ASSUME NEW i \in OfKind("rule"), rules[ledger[i].rule].type \in OneTimer
        PROVE  ledger[i].rule \in settled /\ \A k \in 1 .. n : firings'[k].rule # ledger[i].rule
    <3>1. ledger[i].rule \in settled /\ \A k \in 1 .. n : firings[k].rule # ledger[i].rule
      BY <1>5, <2>2 DEF OrderInv, OneTimeSettled
    <3>2. QED
      BY <1>3, <3>1
  <2> HIDE DEF n
  <2>3. QED
    BY <1>1, <1>3, <1>5, <1>6, <2>1, <2>2 DEF OneTimeSettled
<1>12. MonthlyBehind'
  BY <1>1, <1>6 DEF MonthlyBehind
<1>13. InDateOrder' /\ OneTimeOnce' /\ RulesInSeason'
  BY <1>1, <1>6 DEF OrderInv, InDateOrder, OneTimeOnce, RulesInSeason
<1>14. QED
  BY <1>7, <1>8, <1>9, <1>10, <1>11, <1>12, <1>13 DEF PlanInv, OrderInv

\* Posting the firing at hand, whether the seeder hears of it or not.
LEMMA OrderFired ==
    ASSUME TypeInv, PlanInv, OrderInv, phase = "fire", next \in DOMAIN firings,
           UNCHANGED <<profile, month, firings, settled>>,
           NEW e \in EntryType, ledger' = Append(ledger, e), e.kind = "rule",
           e.rule = firings[next].rule, e.date = firings[next].date,
           phase' \in {"fire", "failed"}, phase' = "fire" => next' = next + 1
    PROVE  PlanInv' /\ OrderInv'
<1> DEFINE new == Len(ledger')
           f == firings[next]
<1>1. /\ OfKind("rule")' = OfKind("rule") \cup {new} /\ ledger'[new] = e
      /\ \A i \in DOMAIN ledger : ledger'[i] = ledger[i] /\ i < new
      /\ new \notin DOMAIN ledger
  BY EntryAppended
<1>2. \A i \in OfKind("rule") :
        /\ i \in DOMAIN ledger /\ i # new /\ i < new /\ i \in Int
        /\ ledger'[i] = ledger[i] /\ ledger[i].date \in Int
  <2>1. DOMAIN ledger \subseteq Int
    BY Types DEF TypeInv
  <2>2. QED
    BY <1>1, <2>1, EntriesTyped DEF TypeInv, OfKind
<1>3. new \in Int
  BY EntryAppended
<1>4. rules' = rules /\ month \in 1 .. LastMonth
  BY Types DEF TypeInv, rules
<1>5. Ahead' \subseteq {k \in Ahead : next < k} /\ next \in Ahead
  BY Types DEF TypeInv, Ahead
<1>6. /\ f.date \in Int /\ f.rule \in Nat
      /\ FirstDay[month] <= f.date /\ f.date < FirstDay[month + 1]
      /\ rules[f.rule].type \notin OneTimer => f.date <= End
  BY FiringsTyped DEF TypeInv, PlanInv, FiringsDated, InMonth
<1>7. /\ FirstDay[month] \in Int /\ FirstDay[month + 1] \in Int
      /\ FirstDay[1] <= FirstDay[month] /\ FirstDay[month + 1] <= FirstDay[LastMonth + 1]
  BY <1>4, Month
<1>8. FirstDay[1] \in Int /\ FirstDay[LastMonth + 1] \in Int
  BY FirstDays, LastMonthLemma
<1>9. e.rule = f.rule /\ e.date = f.date
  OBVIOUS
<1>10. \A i \in OfKind("rule") : InOrder(ledger[i], f)
  BY <1>5 DEF OrderInv, EntriesBehind
<1>11. \A k \in Ahead' : k \in DOMAIN firings /\ next < k /\ k \in Ahead
  BY <1>5 DEF Ahead
<1>12. \A k \in Ahead' : f.rule = firings[k].rule => rules[f.rule].type \notin Monthly \cup OneTimer
  <2>1. next \in Int /\ DOMAIN firings \subseteq Int
    BY Types DEF TypeInv
  <2>2. QED
    BY <1>11, <2>1 DEF PlanInv, FiringsSingle
<1> HIDE DEF new, f
<1>13. PlanInv'
  BY <1>4 DEF PlanInv, FiringsDated, FiringsInOrder, FiringsSingle
<1>14. EntriesBehind'
  <2>1. \A i \in OfKind("rule") : ledger[i].date < FirstDay[month + 1]
    BY DEF OrderInv, EntriesBehind
  <2>2. \A k \in Ahead' : InOrder(e, firings[k])
    <3>1. \A k \in Ahead' : InOrder(f, firings[k])
      BY <1>11 DEF PlanInv, FiringsInOrder, f
    <3>2. QED
      BY <1>9, <3>1 DEF InOrder
  <2>3. \A i \in OfKind("rule"), k \in Ahead' : InOrder(ledger[i], firings[k])
    BY <1>11 DEF OrderInv, EntriesBehind
  <2>4. e.date < FirstDay[month + 1]
    BY <1>6, <1>9
  <2>5. phase' # "plan"
    OBVIOUS
  <2>6. \A i \in OfKind("rule") \cup {new} :
          /\ ledger'[i].date < FirstDay[month + 1]
          /\ \A k \in Ahead' : InOrder(ledger'[i], firings[k])
    BY <1>1, <1>2, <2>1, <2>2, <2>3, <2>4
  <2>7. QED
    BY <1>1, <2>5, <2>6 DEF EntriesBehind, InOrder
<1>15. OneTimeSettled'
  <2>1. rules[e.rule].type \in OneTimer => e.rule \in settled
    BY <1>9 DEF OrderInv, OneTimeSettled, f
  <2>2. rules[e.rule].type \in OneTimer => \A k \in Ahead' : firings[k].rule # e.rule
    BY <1>9, <1>12
  <2>3. \A i \in OfKind("rule") : rules[ledger[i].rule].type \in OneTimer =>
          /\ ledger[i].rule \in settled
          /\ \A k \in Ahead' : firings[k].rule # ledger[i].rule
    BY <1>11 DEF OrderInv, OneTimeSettled
  <2>4. \A k \in DOMAIN firings :
          rules[firings[k].rule].type \in OneTimer => firings[k].rule \in settled
    BY DEF OrderInv, OneTimeSettled
  <2>5. QED
    BY <1>1, <1>2, <1>4, <2>1, <2>2, <2>3, <2>4 DEF OneTimeSettled
<1>16. MonthlyBehind'
  <2>1. \A k \in Ahead' : ~(rules[e.rule].type \in Monthly /\ e.rule = firings[k].rule)
    BY <1>9, <1>12
  <2>2. \A i \in OfKind("rule"), k \in Ahead' :
          rules[ledger[i].rule].type \in Monthly /\ ledger[i].rule = firings[k].rule
            => ledger[i].date < FirstDay[month]
    BY <1>11 DEF OrderInv, MonthlyBehind
  <2>3. \A i \in OfKind("rule") \cup {new}, k \in Ahead' :
          rules[ledger'[i].rule].type \in Monthly /\ ledger'[i].rule = firings[k].rule
            => ledger'[i].date < FirstDay[month]
    BY <1>1, <1>2, <2>1, <2>2
  <2>4. QED
    BY <1>1, <1>4, <2>3 DEF MonthlyBehind
<1>17. InDateOrder'
  <2>1. \A i \in OfKind("rule") : InOrder(ledger'[i], ledger'[new])
    BY <1>1, <1>2, <1>9, <1>10 DEF InOrder
  <2>2. \A i, j \in OfKind("rule") : i < j => InOrder(ledger'[i], ledger'[j])
    BY <1>2 DEF OrderInv, InDateOrder, InOrder
  <2>3. ASSUME NEW i \in OfKind("rule") \cup {new}, NEW j \in OfKind("rule") \cup {new}, i < j
        PROVE  InOrder(ledger'[i], ledger'[j])
    <3>1. i # new
      BY <1>2, <1>3, <2>3
    <3>2. CASE j = new
      BY <2>1, <3>1, <3>2
    <3>3. CASE j # new
      BY <2>2, <2>3, <3>1, <3>3
    <3>4. QED
      BY <3>2, <3>3
  <2>4. QED
    BY <1>1, <2>3 DEF InDateOrder, InOrder
<1>18. OneTimeOnce'
  <2>1. \A i \in OfKind("rule") :
          rules[ledger[i].rule].type \in OneTimer => ledger[i].rule # e.rule
    BY <1>5, <1>9 DEF OrderInv, OneTimeSettled, f
  <2>2. ASSUME NEW i \in OfKind("rule") \cup {new}, NEW j \in OfKind("rule") \cup {new},
               ledger'[i].rule = ledger'[j].rule,
               rules[ledger'[i].rule].type = "one_time_in_range"
        PROVE  i = j
    <3>1. CASE i \in OfKind("rule") /\ j \in OfKind("rule")
      BY <1>2, <2>2, <3>1 DEF OrderInv, OneTimeOnce
    <3>2. CASE i \in OfKind("rule") /\ j = new
      BY <1>1, <1>2, <2>1, <2>2, <3>2 DEF OneTimer
    <3>3. CASE i = new /\ j \in OfKind("rule")
      BY <1>1, <1>2, <2>1, <2>2, <3>3 DEF OneTimer
    <3>4. QED
      BY <2>2, <3>1, <3>2, <3>3
  <2>3. QED
    BY <1>1, <1>4, <2>2 DEF OneTimeOnce
<1>19. RulesInSeason'
  <2>1. ASSUME NEW i \in OfKind("rule") \cup {new}
        PROVE  /\ FirstDay[1] <= ledger'[i].date /\ ledger'[i].date < FirstDay[LastMonth + 1]
               /\ rules[ledger'[i].rule].type # "one_time_in_range" => ledger'[i].date <= End
    <3>1. CASE i \in OfKind("rule")
      BY <1>2, <3>1 DEF OrderInv, RulesInSeason
    <3>2. CASE i = new
      <4>1. ledger'[i].date = f.date /\ ledger'[i].rule = f.rule
        BY <1>1, <1>9, <3>2
      <4>2. FirstDay[1] <= f.date /\ f.date < FirstDay[LastMonth + 1]
        BY <1>6, <1>7, <1>8
      <4>3. QED
        BY <1>6, <4>1, <4>2 DEF OneTimer
    <3>3. QED
      BY <3>1, <3>2
  <2>2. ASSUME NEW i \in OfKind("rule"), NEW m \in 1 .. LastMonth,
               rules[e.rule].type \in Monthly, ledger[i].rule = e.rule,
               InMonth(ledger[i].date, m), InMonth(e.date, m)
        PROVE  FALSE
    <3>1. InMonth(e.date, month) /\ e.date \in Int
      BY <1>6, <1>9 DEF InMonth
    <3>2. m = month
      BY <1>4, <2>2, <3>1, OneMonth
    <3>3. ledger[i].date < FirstDay[month] /\ ledger[i].date \in Int
      BY <1>2, <1>5, <1>9, <2>2 DEF OrderInv, MonthlyBehind, f
    <3>4. QED
      BY <1>7, <2>2, <3>2, <3>3 DEF InMonth
  <2>3. ASSUME NEW i \in OfKind("rule") \cup {new}, NEW j \in OfKind("rule") \cup {new},
               NEW m \in 1 .. LastMonth, rules[ledger'[i].rule].type \in Monthly,
               ledger'[i].rule = ledger'[j].rule,
               InMonth(ledger'[i].date, m), InMonth(ledger'[j].date, m)
        PROVE  i = j
    <3>1. CASE i \in OfKind("rule") /\ j \in OfKind("rule")
      BY <1>2, <2>3, <3>1 DEF OrderInv, RulesInSeason
    <3>2. CASE i \in OfKind("rule") /\ j = new
      BY <1>1, <1>2, <2>2, <2>3, <3>2
    <3>3. CASE i = new /\ j \in OfKind("rule")
      BY <1>1, <1>2, <2>2, <2>3, <3>3
    <3>4. QED
      BY <2>3, <3>1, <3>2, <3>3
  <2>4. QED
    BY <1>1, <1>4, <2>1, <2>3 DEF RulesInSeason, InMonth
<1>20. QED
  BY <1>13, <1>14, <1>15, <1>16, <1>17, <1>18, <1>19 DEF OrderInv

LEMMA OrderNextMonth == ASSUME TypeInv, PlanInv, OrderInv, NextMonth PROVE PlanInv' /\ OrderInv'
<1>1. /\ rules' = rules /\ phase = "refunds" /\ firings' = <<>> /\ DOMAIN firings' = {}
      /\ UNCHANGED <<profile, settled, ledger>>
      /\ \/ phase' = "done" /\ month' = month
         \/ phase' = "plan" /\ month' = month + 1
  BY DEF NextMonth, rules
<1>2. OfKind("rule")' = OfKind("rule") /\ Ahead' = {}
  BY <1>1 DEF OfKind, Ahead
<1>3. PlanInv'
  BY <1>1 DEF PlanInv, FiringsDated, FiringsInOrder, FiringsSingle
<1>4. EntriesBehind'
  <2>1. \A i \in OfKind("rule") : ledger[i].date < FirstDay[month + 1]
    BY <1>1 DEF OrderInv, EntriesBehind
  <2>2. QED
    BY <1>1, <1>2, <2>1 DEF EntriesBehind
<1>5. OneTimeSettled'
  BY <1>1, <1>2 DEF OrderInv, OneTimeSettled
<1>6. MonthlyBehind'
  BY <1>2 DEF MonthlyBehind
<1>7. InDateOrder' /\ OneTimeOnce' /\ RulesInSeason'
  BY <1>1, <1>2 DEF OrderInv, InDateOrder, OneTimeOnce, RulesInSeason
<1>8. QED
  BY <1>3, <1>4, <1>5, <1>6, <1>7 DEF OrderInv

LEMMA OrderPostFiring == ASSUME TypeInv, PlanInv, OrderInv, PostFiring PROVE PlanInv' /\ OrderInv'
<1>1. /\ next \in DOMAIN firings /\ Amounts \subseteq Int
      /\ \A amount \in Int : FiringEntry(amount) \in EntryType
      /\ phase = "fire" /\ next \in Nat
  BY FiringPosted, Types DEF PostFiring, Firing, TypeInv
<1>2. PICK amount \in Amounts \ {0} :
        /\ \/ ledger' = Append(ledger, FiringEntry(amount))
           \/ ledger' = ledger /\ phase' = "failed"
        /\ phase' \in {"fire", "failed"}
        /\ phase' = "fire" => next' = next + 1
        /\ UNCHANGED <<profile, month, firings, settled>>
  BY <1>1 DEF PostFiring, Posted, NotPosted
<1> DEFINE e == FiringEntry(amount)
<1>3. /\ e \in EntryType /\ e.kind = "rule"
      /\ e.rule = firings[next].rule /\ e.date = firings[next].date
  BY <1>1 DEF FiringEntry, Entry
<1> HIDE DEF e
<1>4. CASE ledger' = Append(ledger, e)
  BY <1>1, <1>2, <1>3, <1>4, OrderFired
<1>5. CASE ledger' = ledger /\ phase' = "failed"
  BY <1>1, <1>2, <1>5, OrderKept
<1>6. QED
  BY <1>2, <1>4, <1>5 DEF e

\* The other steps post no rule's entry.
LEMMA OrderNext ==
    ASSUME TypeInv, PlanInv, OrderInv, [Next]_vars PROVE PlanInv' /\ OrderInv'
<1>1. next \in Nat
  BY Types DEF TypeInv
<1>2. CASE SkipFiring \/ RejectFiring
  BY <1>1, <1>2, OrderKept DEF SkipFiring, RejectFiring, Firing
<1>3. CASE StartInstallments \/ KeepInstallment \/ StartRefunds \/ DropRefund \/ KeepRefund
  BY <1>1, <1>3, OrderKept
  DEF StartInstallments, KeepInstallment, StartRefunds, DropRefund, KeepRefund, InRefunds
<1>4. CASE PostReaction
  <2>1. ReactionEntry \in EntryType /\ ReactionEntry.kind # "rule"
    BY <1>4, ReactionPosted DEF PostReaction, ReactionEntry, Entry
  <2>2. /\ UNCHANGED <<profile, month, next, firings, settled>>
        /\ ledger' = ledger \/ ledger' = Append(ledger, ReactionEntry)
        /\ phase = "fire" /\ phase' \in {"fire", "failed"}
    BY <1>4 DEF PostReaction, Posted, NotPosted
  <2>3. QED
    BY <1>1, <2>1, <2>2, OrderKept
<1>5. CASE PostInstallment
  <2> DEFINE e == InstallmentEntry(schedule[next])
  <2>1. e \in EntryType /\ e.kind # "rule"
    <3>1. next \in DOMAIN schedule
      BY <1>5, Types DEF PostInstallment, TypeInv
    <3>2. QED
      BY <3>1, InstallmentPosted DEF InstallmentEntry, Entry
  <2>2. /\ UNCHANGED <<profile, month, next, firings, settled>>
        /\ ledger' = ledger \/ ledger' = Append(ledger, e)
        /\ phase = "installments" /\ phase' \in {"installments", "failed"}
    BY <1>5 DEF PostInstallment, Posted, NotPosted
  <2> HIDE DEF e
  <2>3. QED
    BY <1>1, <2>1, <2>2, OrderKept
<1>6. CASE PostRefund
  <2>1. PICK date \in RefundDates(refunds[next]) :
          /\ UNCHANGED <<profile, month, next, firings, settled>>
          /\ \/ ledger' = ledger
             \/ ledger' = Append(ledger, RefundEntry(refunds[next], date))
          /\ phase = "refunds" /\ phase' \in {"refunds", "failed"}
    BY <1>6 DEF PostRefund, InRefunds, Posted, NotPosted
  <2> DEFINE e == RefundEntry(refunds[next], date)
  <2>2. e \in EntryType /\ e.kind # "rule"
    <3>1. next \in DOMAIN refunds
      BY <1>6, Types DEF PostRefund, InRefunds, TypeInv
    <3>2. QED
      BY <2>1, <3>1, RefundPosted DEF RefundEntry, Entry
  <2> HIDE DEF e
  <2>3. ledger' = ledger \/ ledger' = Append(ledger, e)
    BY <2>1 DEF e
  <2>4. QED
    BY <1>1, <2>1, <2>2, <2>3, OrderKept
<1>7. CASE UNCHANGED vars
  <2>1. UNCHANGED <<profile, month, phase, next, firings, settled, ledger>> /\ rules' = rules
    BY <1>7 DEF vars, rules
  <2>2. OfKind("rule")' = OfKind("rule") /\ Ahead' = Ahead
    BY <2>1 DEF OfKind, Ahead
  <2>3. PlanInv'
    BY <2>1 DEF PlanInv, FiringsDated, FiringsInOrder, FiringsSingle
  <2>4. EntriesBehind' /\ OneTimeSettled' /\ MonthlyBehind'
    BY <2>1, <2>2 DEF OrderInv, EntriesBehind, OneTimeSettled, MonthlyBehind
  <2>5. InDateOrder' /\ OneTimeOnce' /\ RulesInSeason'
    BY <2>1, <2>2 DEF OrderInv, InDateOrder, OneTimeOnce, RulesInSeason
  <2>6. QED
    BY <2>3, <2>4, <2>5 DEF OrderInv
<1>8. QED
  BY <1>2, <1>3, <1>4, <1>5, <1>6, <1>7, OrderPlanRule, OrderStartFiring, OrderPostFiring,
     OrderNextMonth DEF Next

LEMMA OrderInvariant == Spec => [](TypeInv /\ PlanInv /\ OrderInv)
<1>1. TypeInv /\ PlanInv /\ OrderInv /\ [Next]_vars => (TypeInv /\ PlanInv /\ OrderInv)'
  BY TypeNext, OrderNext
<1>2. Init => TypeInv /\ PlanInv /\ OrderInv
  BY TypeInit, OrderInit
<1>3. QED
  BY <1>1, <1>2, PTL DEF Spec

\* Over the whole date range the rules' own entries are posted in the order of
\* their dates, those of one day in the order the rules are declared: sorting
\* each month's firings is enough, because no firing leaves its month.
THEOREM RulesPostedInDateOrder == Spec => []InDateOrder
<1>1. OrderInv => InDateOrder
  BY DEF OrderInv
<1>2. QED
  BY <1>1, OrderInvariant, PTL

\* A one_time_in_range rule is posted once at most, although the decision and
\* the date are drawn anew every month: it is remembered when it is drawn.
THEOREM OneTimeRulesFireOnce == Spec => []OneTimeOnce
<1>1. OrderInv => OneTimeOnce
  BY DEF OrderInv
<1>2. QED
  BY <1>1, OrderInvariant, PTL

\* Rules are posted within the months of the range, all but one_time_in_range
\* rules up to its last day, and a monthly rule once in a month at most.
THEOREM RulesKeepToSeason == Spec => []RulesInSeason
<1>1. OrderInv => RulesInSeason
  BY DEF OrderInv
<1>2. QED
  BY <1>1, OrderInvariant, PTL

--------------------------------------------------------------------------------
\* The refunds that may come, and those that are posted

\* Where element k of a list stood before its element i was taken out.
Place(i, k) == IF k < i THEN k ELSE k + 1

LEMMA DelistedLemma ==
    ASSUME NEW T, NEW s \in Seq(T), NEW i \in DOMAIN s
    PROVE  /\ \A k \in DOMAIN Delisted(s, i) :
                Place(i, k) \in DOMAIN s \ {i} /\ Delisted(s, i)[k] = s[Place(i, k)]
           /\ \A j, k \in DOMAIN Delisted(s, i) : Place(i, j) = Place(i, k) => j = k
           /\ \A p \in DOMAIN s \ {i} : \E k \in DOMAIN Delisted(s, i) : Place(i, k) = p
<1> DEFINE d == Delisted(s, i)
<1>1. /\ d \in Seq(T) /\ Len(d) = Len(s) - 1
      /\ \A k \in DOMAIN d : d[k] = s[Place(i, k)]
  BY RemoveAtLemma DEF Place
<1> HIDE DEF d
<1>2. DOMAIN d = 1 .. Len(s) - 1 /\ DOMAIN s = 1 .. Len(s) /\ Len(s) \in Nat /\ i \in 1 .. Len(s)
  BY <1>1
<1>3. \A k \in DOMAIN d : Place(i, k) \in DOMAIN s \ {i}
  BY <1>2 DEF Place
<1>4. \A j, k \in DOMAIN d : Place(i, j) = Place(i, k) => j = k
  BY <1>2 DEF Place
<1>5. ASSUME NEW p \in DOMAIN s \ {i} PROVE \E k \in DOMAIN d : Place(i, k) = p
  <2>1. CASE p < i
    BY <1>2, <2>1 DEF Place
  <2>2. CASE i < p
    <3>1. p - 1 \in DOMAIN d /\ Place(i, p - 1) = p
      BY <1>2, <2>2 DEF Place
    <3>2. QED
      BY <3>1
  <2>3. QED
    BY <1>2, <2>1, <2>2
<1>6. QED
  BY <1>1, <1>3, <1>4, <1>5 DEF d

LEMMA RefundInit == Init => RefundInv
BY DEF Init, RefundInv, RefundsOpen, RefundsBacked, OfKind

\* What the entries of rules and the refunds say of one another stays true
\* while other entries are posted.
LEMMA RefundBackedKept ==
    ASSUME TypeInv, RefundsBacked, profile' = profile,
           \/ ledger' = ledger
           \/ \E e \in EntryType : e.kind # "refund" /\ ledger' = Append(ledger, e)
    PROVE  /\ OfKind("refund")' = OfKind("refund")
           /\ OfKind("rule") \subseteq OfKind("rule")'
           /\ \A i \in DOMAIN ledger : ledger'[i] = ledger[i] /\ BoughtOn(i)' = BoughtOn(i)
           /\ RefundsBacked'
<1>1. rules' = rules
  BY DEF rules
<1>2. /\ OfKind("refund")' = OfKind("refund")
      /\ OfKind("rule") \subseteq OfKind("rule")'
      /\ \A i \in DOMAIN ledger : ledger'[i] = ledger[i]
  <2>1. CASE ledger' = ledger
    BY <2>1 DEF OfKind
  <2>2. CASE \E e \in EntryType : e.kind # "refund" /\ ledger' = Append(ledger, e)
    <3>1. PICK e \in EntryType : e.kind # "refund" /\ ledger' = Append(ledger, e)
      BY <2>2
    <3>2. /\ \A i \in DOMAIN ledger : ledger'[i] = ledger[i]
          /\ \A kind : OfKind(kind)' =
               OfKind(kind) \cup (IF e.kind = kind THEN {Len(ledger')} ELSE {})
      BY <3>1, EntryAppended
    <3>3. QED
      BY <3>1, <3>2
  <2>3. QED
    BY <2>1, <2>2
<1>3. \A i \in DOMAIN ledger : BoughtOn(i)' = BoughtOn(i)
  BY <1>1, <1>2 DEF BoughtOn, AccountOf
<1>4. \A kind : OfKind(kind) \subseteq DOMAIN ledger
  BY DEF OfKind
<1>5. ASSUME NEW i \in OfKind("refund")
      PROVE  LET c == ledger'[i].cause
             IN  /\ c \in OfKind("rule")' /\ c < i
                 /\ ledger'[i].amount = ledger'[c].amount
                 /\ ledger'[i].destination = AccountOf(rules'[ledger'[c].rule])
                 /\ ledger'[c].date <= ledger'[i].date /\ ledger'[i].date <= End
                 /\ \A j \in OfKind("refund") :
                      ledger'[j].cause = c /\ ledger'[j].rule = ledger'[i].rule => i = j
  <2> DEFINE c == ledger[i].cause
  <2>1. /\ c \in OfKind("rule") /\ c < i
        /\ ledger[i].amount = ledger[c].amount
        /\ ledger[i].destination = BoughtOn(c)
        /\ ledger[c].date <= ledger[i].date /\ ledger[i].date <= End
        /\ \A j \in OfKind("refund") :
             ledger[j].cause = c /\ ledger[j].rule = ledger[i].rule => i = j
    BY DEF RefundsBacked
  <2>2. ledger'[i] = ledger[i] /\ ledger'[c] = ledger[c]
    BY <1>2, <1>4, <2>1
  <2>3. \A j \in OfKind("refund") : ledger'[j] = ledger[j]
    BY <1>2, <1>4
  <2>4. QED
    BY <1>1, <1>2, <2>1, <2>2, <2>3 DEF BoughtOn
<1>6. RefundsBacked'
  BY <1>2, <1>5 DEF RefundsBacked, BoughtOn
<1>7. QED
  BY <1>2, <1>3, <1>6

LEMMA RefundKept ==
    ASSUME TypeInv, RefundInv, UNCHANGED <<profile, refunds>>,
           \/ ledger' = ledger
           \/ \E e \in EntryType : e.kind # "refund" /\ ledger' = Append(ledger, e),
           phase = "failed" => phase' = "failed"
    PROVE  RefundInv'
<1>1. /\ OfKind("refund")' = OfKind("refund")
      /\ OfKind("rule") \subseteq OfKind("rule")'
      /\ \A i \in DOMAIN ledger : ledger'[i] = ledger[i] /\ BoughtOn(i)' = BoughtOn(i)
      /\ RefundsBacked'
  BY RefundBackedKept DEF RefundInv
<1>2. \A kind : OfKind(kind) \subseteq DOMAIN ledger
  BY DEF OfKind
<1>3. ASSUME NEW k \in DOMAIN refunds
      PROVE  /\ refunds[k].cause \in OfKind("rule")'
             /\ ledger'[refunds[k].cause].date = refunds[k].date
             /\ ledger'[refunds[k].cause].amount = Int32(refunds[k].amount)
             /\ BoughtOn(refunds[k].cause)' = refunds[k].account
  BY <1>1, <1>2 DEF RefundInv, RefundsOpen
<1>4. RefundsOpen'
  BY <1>1, <1>2, <1>3 DEF RefundInv, RefundsOpen
<1>5. QED
  BY <1>1, <1>4 DEF RefundInv

\* The elements of a list that another is appended to.
LEMMA ConcatLemma ==
    ASSUME NEW S, NEW s \in Seq(S), NEW T, NEW t \in Seq(T)
    PROVE  /\ Len(s) \in Nat /\ Len(t) \in Nat
           /\ DOMAIN s = 1 .. Len(s) /\ DOMAIN t = 1 .. Len(t)
           /\ DOMAIN (s \o t) = 1 .. Len(s) + Len(t)
           /\ \A k \in 1 .. Len(s) : (s \o t)[k] = s[k]
           /\ \A k \in 1 .. Len(t) : (s \o t)[Len(s) + k] = t[k]
           /\ \A k \in DOMAIN (s \o t) :
                \/ k \in 1 .. Len(s)
                \/ \E j \in 1 .. Len(t) : k = Len(s) + j
<1>1. s \in Seq(S \cup T) /\ t \in Seq(S \cup T)
  OBVIOUS
<1>2. /\ Len(s) \in Nat /\ Len(t) \in Nat
      /\ DOMAIN s = 1 .. Len(s) /\ DOMAIN t = 1 .. Len(t)
  OBVIOUS
<1>3. s \o t \in Seq(S \cup T) /\ Len(s \o t) = Len(s) + Len(t)
  BY <1>1
<1>4. DOMAIN (s \o t) = 1 .. Len(s) + Len(t)
  BY <1>3
<1>5. /\ \A k \in 1 .. Len(s) : (s \o t)[k] = s[k]
      /\ \A k \in 1 .. Len(t) : (s \o t)[Len(s) + k] = t[k]
  BY <1>1, <1>2
<1>6. ASSUME NEW k \in 1 .. Len(s) + Len(t), k \notin 1 .. Len(s)
      PROVE  \E j \in 1 .. Len(t) : k = Len(s) + j
  <2>1. k - Len(s) \in 1 .. Len(t) /\ k = Len(s) + (k - Len(s))
    BY <1>2, <1>6
  <2>2. QED
    BY <2>1
<1>7. QED
  BY <1>2, <1>4, <1>5, <1>6

LEMMA NewRefundsLemma ==
    ASSUME TypeInv, NEW amount, NEW cause
    PROVE  LET s == NewRefunds(amount, cause)
           IN  /\ s \in Seq(Range(s))
               /\ \A k \in DOMAIN s :
                    /\ s[k].date = firings[next].date /\ s[k].amount = amount
                    /\ s[k].account = AccountOf(FiredRule) /\ s[k].cause = cause
               /\ \A j, k \in DOMAIN s : s[j].rule = s[k].rule => j = k
<1> DEFINE shadows == Shadows(rules, FiredRule)
           s == NewRefunds(amount, cause)
           row(r) == [date |-> firings[next].date, account |-> AccountOf(FiredRule),
                      amount |-> amount, rule |-> r, cause |-> cause]
<1>1. /\ shadows \in Seq(DOMAIN rules)
      /\ \A i, j \in DOMAIN shadows : shadows[i] = shadows[j] => i = j
  BY ShadowsType, Types DEF TypeInv
<1>2. s = [k \in DOMAIN shadows |-> row(shadows[k])]
  BY DEF NewRefunds
<1>3. \A r : /\ row(r).date = firings[next].date /\ row(r).amount = amount
             /\ row(r).account = AccountOf(FiredRule) /\ row(r).cause = cause
             /\ row(r).rule = r
  OBVIOUS
<1> HIDE DEF shadows, s, row
<1>4. DOMAIN shadows = 1 .. Len(shadows) /\ Len(shadows) \in Nat
  BY <1>1
<1>5. DOMAIN s = 1 .. Len(shadows) /\ \A k \in DOMAIN s : s[k] = row(shadows[k])
  BY <1>2, <1>4
<1>6. s \in Seq(Range(s))
  BY <1>2, <1>4 DEF Range
<1>7. QED
  BY <1>1, <1>3, <1>4, <1>5, <1>6 DEF s

\* A firing that is posted adds one refund to come for each of its shadows.
LEMMA RefundFired ==
    ASSUME TypeInv, RefundInv, Firing, AccountOf(FiredRule) \in Accounts,
           NEW amount \in Int, ledger' = Append(ledger, FiringEntry(amount)),
           profile' = profile, phase' = phase,
           refunds' = refunds \o NewRefunds(amount, Len(ledger'))
    PROVE  RefundInv'
<1> DEFINE e == FiringEntry(amount)
           new == Len(ledger')
           more == NewRefunds(amount, new)
           f == firings[next]
<1>1. /\ e \in EntryType /\ e.kind = "rule" /\ e.rule = f.rule
      /\ e.date = f.date /\ e.amount = Int32(amount)
  BY FiringPosted DEF FiringEntry, Entry
<1>2. /\ OfKind("refund")' = OfKind("refund")
      /\ OfKind("rule") \subseteq OfKind("rule")'
      /\ \A i \in DOMAIN ledger : ledger'[i] = ledger[i] /\ BoughtOn(i)' = BoughtOn(i)
      /\ RefundsBacked'
  <2> HIDE DEF e
  <2>1. e.kind # "refund" /\ ledger' = Append(ledger, e)
    BY <1>1 DEF e
  <2>2. QED
    BY <1>1, <2>1, RefundBackedKept DEF RefundInv
<1>3. new \in OfKind("rule")' /\ new \notin DOMAIN ledger /\ ledger'[new] = e
  <2> HIDE DEF e
  <2>1. ledger' = Append(ledger, e)
    BY DEF e
  <2>2. QED
    BY <1>1, <2>1, EntryAppended
<1>4. rules' = rules /\ AccountOf(rules[e.rule]) = AccountOf(FiredRule)
  BY <1>1 DEF rules, FiredRule
<1>5. /\ \A k \in DOMAIN more :
           /\ more[k].date = f.date /\ more[k].amount = amount
           /\ more[k].account = AccountOf(FiredRule) /\ more[k].cause = new
      /\ \A j, k \in DOMAIN more : more[j].rule = more[k].rule => j = k
      /\ more \in Seq(Range(more))
  <2> HIDE DEF new
  <2>1. QED
    BY NewRefundsLemma
<1>6. \A kind : OfKind(kind) \subseteq DOMAIN ledger
  BY DEF OfKind
<1> DEFINE n == Len(refunds)
           d == Len(more)
<1>7. /\ n \in Nat /\ d \in Nat /\ DOMAIN refunds = 1 .. n /\ DOMAIN more = 1 .. d
      /\ DOMAIN refunds' = 1 .. n + d
      /\ \A k \in 1 .. n : refunds'[k] = refunds[k]
      /\ \A k \in 1 .. d : refunds'[n + k] = more[k]
      /\ \A k \in DOMAIN refunds' : k \in 1 .. n \/ \E j \in 1 .. d : k = n + j
  <2>1. refunds \in Seq(RefundType(ledger))
    BY Types DEF TypeInv
  <2>2. refunds' = refunds \o more
    OBVIOUS
  <2> HIDE DEF more
  <2>3. QED
    BY <1>5, <2>1, <2>2, ConcatLemma
<1> HIDE DEF e, new, more, f, n, d
<1>8. ASSUME NEW k \in 1 .. n
      PROVE  /\ refunds'[k].cause \in OfKind("rule")
             /\ ledger'[refunds'[k].cause].date = refunds'[k].date
             /\ ledger'[refunds'[k].cause].amount = Int32(refunds'[k].amount)
             /\ AccountOf(rules[ledger'[refunds'[k].cause].rule]) = refunds'[k].account
  <2>1. refunds[k].cause \in DOMAIN ledger
    BY <1>6, <1>7 DEF RefundInv, RefundsOpen
  <2>2. refunds'[k] = refunds[k] /\ k \in DOMAIN refunds
    BY <1>7
  <2>3. ledger'[refunds[k].cause] = ledger[refunds[k].cause]
    BY <1>2, <2>1
  <2>4. QED
    BY <2>2, <2>3 DEF RefundInv, RefundsOpen, BoughtOn
<1>9. ASSUME NEW k \in 1 .. d
      PROVE  /\ refunds'[n + k].cause = new
             /\ ledger'[new].date = refunds'[n + k].date
             /\ ledger'[new].amount = Int32(refunds'[n + k].amount)
             /\ AccountOf(rules[ledger'[new].rule]) = refunds'[n + k].account
             /\ refunds'[n + k] = more[k] /\ k \in DOMAIN more
  <2>1. k \in DOMAIN more /\ refunds'[n + k] = more[k]
    BY <1>7
  <2>2. /\ more[k].date = f.date /\ more[k].amount = amount
        /\ more[k].account = AccountOf(FiredRule) /\ more[k].cause = new
    BY <1>5, <2>1
  <2>3. /\ ledger'[new].date = f.date /\ ledger'[new].amount = Int32(amount)
        /\ AccountOf(rules[ledger'[new].rule]) = AccountOf(FiredRule)
    BY <1>1, <1>3, <1>4
  <2>4. QED
    BY <2>1, <2>2, <2>3
<1>10. ASSUME NEW k \in DOMAIN refunds'
       PROVE  /\ refunds'[k].cause \in OfKind("rule")'
              /\ ledger'[refunds'[k].cause].date = refunds'[k].date
              /\ ledger'[refunds'[k].cause].amount = Int32(refunds'[k].amount)
              /\ AccountOf(rules'[ledger'[refunds'[k].cause].rule]) = refunds'[k].account
  <2>1. CASE k \in 1 .. n
    BY <1>2, <1>4, <1>8, <2>1
  <2>2. CASE \E j \in 1 .. d : k = n + j
    <3>1. PICK j \in 1 .. d : k = n + j
      BY <2>2
    <3>2. /\ refunds'[k].cause = new
          /\ ledger'[new].date = refunds'[k].date
          /\ ledger'[new].amount = Int32(refunds'[k].amount)
          /\ AccountOf(rules[ledger'[new].rule]) = refunds'[k].account
      BY <1>9, <3>1
    <3>3. QED
      BY <1>3, <1>4, <3>2
  <2>3. QED
    BY <1>7, <2>1, <2>2
<1>11. ASSUME NEW j \in DOMAIN refunds', NEW k \in DOMAIN refunds',
              refunds'[j].cause = refunds'[k].cause, refunds'[j].rule = refunds'[k].rule
       PROVE  j = k
  <2>1. CASE j \in 1 .. n /\ k \in 1 .. n
    <3>1. refunds'[j] = refunds[j] /\ refunds'[k] = refunds[k]
          /\ j \in DOMAIN refunds /\ k \in DOMAIN refunds
      BY <1>7, <2>1
    <3>2. QED
      BY <1>11, <3>1 DEF RefundInv, RefundsOpen
  <2>2. \A i \in 1 .. n : refunds'[i].cause # new
    BY <1>3, <1>6, <1>8
  <2>3. \A i \in 1 .. d : refunds'[n + i].cause = new
    BY <1>9
  <2>4. ASSUME NEW a \in 1 .. d, NEW b \in 1 .. d, j = n + a, k = n + b PROVE j = k
    <3>1. /\ refunds'[n + a] = more[a] /\ refunds'[n + b] = more[b]
          /\ a \in DOMAIN more /\ b \in DOMAIN more
      BY <1>9
    <3>2. more[a].rule = more[b].rule
      BY <1>11, <2>4, <3>1
    <3>3. QED
      BY <1>5, <2>4, <3>1, <3>2
  <2>5. CASE refunds'[j].cause = new
    <3>1. j \notin 1 .. n /\ k \notin 1 .. n
      BY <1>11, <2>2, <2>5
    <3>2. (\E a \in 1 .. d : j = n + a) /\ (\E b \in 1 .. d : k = n + b)
      BY <1>7, <3>1
    <3>3. PICK a \in 1 .. d, b \in 1 .. d : j = n + a /\ k = n + b
      BY <3>2
    <3>4. QED
      BY <2>4, <3>3
  <2>6. CASE refunds'[j].cause # new
    <3>1. ASSUME NEW x \in DOMAIN refunds', refunds'[x].cause # new PROVE x \in 1 .. n
      <4>1. CASE \E i \in 1 .. d : x = n + i
        <5>1. PICK i \in 1 .. d : x = n + i
          BY <4>1
        <5>2. QED
          BY <2>3, <3>1, <5>1
      <4>2. QED
        BY <1>7, <4>1
    <3>2. j \in 1 .. n /\ k \in 1 .. n
      BY <1>11, <2>6, <3>1
    <3>3. QED
      BY <2>1, <3>2
  <2>7. QED
    BY <2>5, <2>6
<1>12. ASSUME NEW i \in OfKind("refund"), NEW k \in DOMAIN refunds'
       PROVE  ~(ledger'[i].cause = refunds'[k].cause /\ ledger'[i].rule = refunds'[k].rule)
  <2>1. /\ ledger'[i] = ledger[i] /\ ledger[i].cause \in DOMAIN ledger
    BY <1>2, <1>6 DEF RefundInv, RefundsBacked
  <2>2. CASE k \in 1 .. n
    <3>1. refunds'[k] = refunds[k] /\ k \in DOMAIN refunds
      BY <1>7, <2>2
    <3>2. QED
      BY <2>1, <3>1 DEF RefundInv, RefundsOpen, Firing
  <2>3. CASE \E j \in 1 .. d : k = n + j
    BY <1>3, <1>9, <2>1, <2>3
  <2>4. QED
    BY <1>7, <2>2, <2>3
<1>13. \A i \in OfKind("refund")', k \in DOMAIN refunds' :
         ~(ledger'[i].cause = refunds'[k].cause /\ ledger'[i].rule = refunds'[k].rule)
  BY <1>2, <1>12
<1>14. RefundsOpen'
  <2>1. \A k \in DOMAIN refunds' : AccountOf(rules'[ledger'[refunds'[k].cause].rule]) = refunds'[k].account
    BY <1>10
  <2>2. \A k \in DOMAIN refunds' :
          /\ refunds'[k].cause \in OfKind("rule")'
          /\ ledger'[refunds'[k].cause].date = refunds'[k].date
          /\ ledger'[refunds'[k].cause].amount = Int32(refunds'[k].amount)
    BY <1>10
  <2>3. \A j, k \in DOMAIN refunds' :
          refunds'[j].cause = refunds'[k].cause /\ refunds'[j].rule = refunds'[k].rule => j = k
    BY <1>11
  <2>4. QED
    BY <1>13, <2>1, <2>2, <2>3 DEF RefundsOpen, BoughtOn
<1>15. QED
  BY <1>2, <1>14 DEF RefundInv

\* Dropping a refund, or posting it, leaves the others open.
LEMMA RefundDelisted ==
    ASSUME TypeInv, RefundInv, next \in DOMAIN refunds,
           UNCHANGED <<profile, phase, ledger>>, refunds' = Delisted(refunds, next)
    PROVE  RefundInv'
<1>1. /\ \A k \in DOMAIN refunds' :
           Place(next, k) \in DOMAIN refunds /\ refunds'[k] = refunds[Place(next, k)]
      /\ \A j, k \in DOMAIN refunds' : Place(next, j) = Place(next, k) => j = k
  <2>1. refunds \in Seq(RefundType(ledger))
    BY Types DEF TypeInv
  <2>2. QED
    BY <2>1, DelistedLemma
<1>2. rules' = rules
  BY DEF rules
<1>3. RefundsBacked'
  BY <1>2 DEF RefundInv, RefundsBacked, OfKind, BoughtOn
<1>4. ASSUME NEW k \in DOMAIN refunds'
      PROVE  /\ refunds'[k].cause \in OfKind("rule")
             /\ ledger[refunds'[k].cause].date = refunds'[k].date
             /\ ledger[refunds'[k].cause].amount = Int32(refunds'[k].amount)
             /\ AccountOf(rules[ledger[refunds'[k].cause].rule]) = refunds'[k].account
  BY <1>1 DEF RefundInv, RefundsOpen, BoughtOn
<1>5. ASSUME NEW j \in DOMAIN refunds', NEW k \in DOMAIN refunds',
             refunds'[j].cause = refunds'[k].cause, refunds'[j].rule = refunds'[k].rule
      PROVE  j = k
  BY <1>1, <1>5 DEF RefundInv, RefundsOpen
<1>6. ASSUME phase # "failed", NEW i \in OfKind("refund"), NEW k \in DOMAIN refunds'
      PROVE  ~(ledger[i].cause = refunds'[k].cause /\ ledger[i].rule = refunds'[k].rule)
  BY <1>1, <1>6 DEF RefundInv, RefundsOpen
<1>7. OfKind("rule")' = OfKind("rule") /\ OfKind("refund")' = OfKind("refund")
  BY DEF OfKind
<1>8. RefundsOpen'
  BY <1>2, <1>4, <1>5, <1>6, <1>7 DEF RefundsOpen, BoughtOn
<1>9. QED
  BY <1>3, <1>8 DEF RefundInv

\* A refund that is posted, whether the seeder hears of it or not, is backed.
LEMMA RefundPosting ==
    ASSUME DelaysForward, TypeInv, RefundInv, profile' = profile, phase = "refunds",
           next \in DOMAIN refunds, NEW date \in RefundDates(refunds[next]),
           date <= MonthEnd(month),
           ledger' = Append(ledger, RefundEntry(refunds[next], date))
    PROVE  RefundsBacked'
<1> DEFINE e == RefundEntry(refunds[next], date)
           pr == refunds[next]
           new == Len(ledger')
<1>1. /\ e \in EntryType /\ e.kind = "refund" /\ e.destination = pr.account
      /\ e.amount = Int32(pr.amount) /\ e.rule = pr.rule /\ e.date = date
      /\ e.cause = pr.cause
  BY RefundPosted DEF RefundEntry, Entry
<1>2. /\ pr.cause \in OfKind("rule") /\ ledger[pr.cause].date = pr.date
      /\ ledger[pr.cause].amount = Int32(pr.amount)
      /\ BoughtOn(pr.cause) = pr.account
      /\ \A i \in OfKind("refund") :
           ~(ledger[i].cause = pr.cause /\ ledger[i].rule = pr.rule)
  BY DEF RefundInv, RefundsOpen
<1>3. pr.date <= date /\ date <= End
  <2>1. /\ pr.rule \in DOMAIN rules /\ pr.date \in Int
    BY RefundsTyped DEF TypeInv
  <2>2. /\ date \in Int /\ rules[pr.rule].refundDelay \in MinMax
        /\ date - pr.date >= rules[pr.rule].refundDelay.min
    BY DelayType DEF TypeInv
  <2>3. rules[pr.rule].refundDelay # Null
    BY DEF RefundDates
  <2>4. rules[pr.rule].refundDelay.min \in Int /\ rules[pr.rule].refundDelay.min >= 0
    BY <2>1, <2>2, <2>3, Types DEF TypeInv, MinMax, DelaysForward, rules
  <2>5. MonthEnd(month) \in Int /\ MonthEnd(month) <= End /\ End \in Int
    BY Types, Month, FirstDays DEF TypeInv
  <2> HIDE DEF pr
  <2>6. QED
    BY <2>1, <2>2, <2>4, <2>5
<1> HIDE DEF e, pr
<1>4. ledger' = Append(ledger, e)
  BY DEF e, pr
<1>5. /\ OfKind("refund")' = OfKind("refund") \cup {new}
      /\ OfKind("rule")' = OfKind("rule")
      /\ ledger'[new] = e /\ new \notin DOMAIN ledger
      /\ \A i \in DOMAIN ledger : ledger'[i] = ledger[i] /\ i < new
  <2>1. /\ DOMAIN ledger = 1 .. Len(ledger) /\ Len(ledger) \in Nat
        /\ new = Len(ledger) + 1
        /\ ledger'[new] = e /\ new \notin DOMAIN ledger
        /\ \A i \in DOMAIN ledger : ledger'[i] = ledger[i]
        /\ \A kind : OfKind(kind)' =
             OfKind(kind) \cup (IF e.kind = kind THEN {new} ELSE {})
    BY <1>1, <1>4, EntryAppended
  <2>2. /\ OfKind("refund")' = OfKind("refund") \cup {new}
        /\ OfKind("rule")' = OfKind("rule")
    BY <1>1, <2>1
  <2> HIDE DEF new
  <2>3. QED
    BY <2>1, <2>2
<1>6. rules' = rules
  BY DEF rules
<1>7. \A kind : OfKind(kind) \subseteq DOMAIN ledger
  BY DEF OfKind
<1> HIDE DEF new
<1>8. ASSUME NEW i \in OfKind("refund")
      PROVE  /\ ledger'[i].cause \in OfKind("rule") /\ ledger'[i].cause < i
             /\ ledger'[i].amount = ledger'[ledger'[i].cause].amount
             /\ ledger'[i].destination = AccountOf(rules[ledger'[ledger'[i].cause].rule])
             /\ ledger'[ledger'[i].cause].date <= ledger'[i].date /\ ledger'[i].date <= End
             /\ \A j \in OfKind("refund") \cup {new} :
                  ledger'[j].cause = ledger'[i].cause /\ ledger'[j].rule = ledger'[i].rule
                    => i = j
  <2> DEFINE c == ledger[i].cause
  <2>1. /\ c \in OfKind("rule") /\ c < i
        /\ ledger[i].amount = ledger[c].amount
        /\ ledger[i].destination = BoughtOn(c)
        /\ ledger[c].date <= ledger[i].date /\ ledger[i].date <= End
        /\ \A j \in OfKind("refund") :
             ledger[j].cause = c /\ ledger[j].rule = ledger[i].rule => i = j
    BY DEF RefundInv, RefundsBacked
  <2>2. ledger'[i] = ledger[i] /\ ledger'[c] = ledger[c]
    BY <1>5, <1>7, <2>1
  <2>3. \A j \in OfKind("refund") : ledger'[j] = ledger[j]
    BY <1>5, <1>7
  <2>4. ~(ledger'[new].cause = c /\ ledger'[new].rule = ledger[i].rule)
    BY <1>1, <1>2, <1>5
  <2>5. QED
    BY <2>1, <2>2, <2>3, <2>4 DEF BoughtOn
<1>9. /\ ledger'[new].cause = pr.cause /\ pr.cause \in OfKind("rule") /\ pr.cause < new
      /\ ledger'[new].amount = ledger'[pr.cause].amount
      /\ ledger'[new].destination = AccountOf(rules[ledger'[pr.cause].rule])
      /\ ledger'[pr.cause].date <= ledger'[new].date /\ ledger'[new].date <= End
      /\ \A j \in OfKind("refund") \cup {new} :
           ledger'[j].cause = pr.cause /\ ledger'[j].rule = ledger'[new].rule => new = j
  <2>1. pr.cause \in DOMAIN ledger /\ ledger'[pr.cause] = ledger[pr.cause] /\ pr.cause < new
    BY <1>2, <1>5, <1>7
  <2>2. \A j \in OfKind("refund") :
          ~(ledger'[j].cause = pr.cause /\ ledger'[j].rule = pr.rule)
    BY <1>2, <1>5, <1>7
  <2>3. QED
    BY <1>1, <1>2, <1>3, <1>5, <2>1, <2>2 DEF BoughtOn
<1> DEFINE Backed(i) ==
             /\ ledger'[i].cause \in OfKind("rule") /\ ledger'[i].cause < i
             /\ ledger'[i].amount = ledger'[ledger'[i].cause].amount
             /\ ledger'[i].destination = AccountOf(rules[ledger'[ledger'[i].cause].rule])
             /\ ledger'[ledger'[i].cause].date <= ledger'[i].date /\ ledger'[i].date <= End
             /\ \A j \in OfKind("refund") \cup {new} :
                  ledger'[j].cause = ledger'[i].cause /\ ledger'[j].rule = ledger'[i].rule
                    => i = j
<1>10. \A i \in OfKind("refund") : Backed(i)
  BY <1>8
<1>11. Backed(new)
  BY <1>9
<1>12. (\A i \in OfKind("refund") \cup {new} : Backed(i)) => RefundsBacked'
  BY <1>5, <1>6 DEF RefundsBacked, BoughtOn
<1> HIDE DEF Backed
<1>13. QED
  BY <1>10, <1>11, <1>12

\* The refunds that stay open are not the one that was posted.
LEMMA RefundPostedOpen ==
    ASSUME DelaysForward, TypeInv, RefundInv, profile' = profile, phase = "refunds",
           next \in DOMAIN refunds, NEW date \in RefundDates(refunds[next]),
           date <= MonthEnd(month),
           ledger' = Append(ledger, RefundEntry(refunds[next], date)),
           \/ refunds' = Delisted(refunds, next)
           \/ refunds' = refunds /\ phase' = "failed"
    PROVE  RefundInv'
<1>1. RefundsBacked'
  BY RefundPosting
<1> DEFINE e == RefundEntry(refunds[next], date)
           new == Len(ledger')
<1>2. /\ e \in EntryType /\ e.kind = "refund" /\ e.rule = refunds[next].rule
      /\ e.cause = refunds[next].cause /\ ledger' = Append(ledger, e)
  BY RefundPosted DEF RefundEntry, Entry
<1> HIDE DEF e
<1>3. /\ OfKind("refund")' = OfKind("refund") \cup {new}
      /\ OfKind("rule")' = OfKind("rule") /\ ledger'[new] = e
      /\ \A i \in DOMAIN ledger : ledger'[i] = ledger[i]
  <2>1. /\ ledger'[new] = e
        /\ \A i \in DOMAIN ledger : ledger'[i] = ledger[i]
        /\ \A kind : OfKind(kind)' =
             OfKind(kind) \cup (IF e.kind = kind THEN {new} ELSE {})
    BY <1>2, EntryAppended
  <2>2. QED
    BY <1>2, <2>1
<1>4. rules' = rules
  BY DEF rules
<1>5. \A kind : OfKind(kind) \subseteq DOMAIN ledger
  BY DEF OfKind
<1> HIDE DEF new
<1>6. ASSUME NEW k \in DOMAIN refunds
      PROVE  /\ refunds[k].cause \in OfKind("rule")'
             /\ ledger'[refunds[k].cause].date = refunds[k].date
             /\ ledger'[refunds[k].cause].amount = Int32(refunds[k].amount)
             /\ AccountOf(rules'[ledger'[refunds[k].cause].rule]) = refunds[k].account
  <2>1. refunds[k].cause \in OfKind("rule")
    BY DEF RefundInv, RefundsOpen
  <2>2. ledger'[refunds[k].cause] = ledger[refunds[k].cause]
    BY <1>3, <1>5, <2>1
  <2>3. QED
    BY <1>3, <1>4, <2>1, <2>2 DEF RefundInv, RefundsOpen, BoughtOn
<1>7. CASE refunds' = refunds /\ phase' = "failed"
  <2>1. RefundsOpen'
    BY <1>6, <1>7 DEF RefundInv, RefundsOpen, BoughtOn
  <2>2. QED
    BY <1>1, <2>1 DEF RefundInv
<1>8. CASE refunds' = Delisted(refunds, next)
  <2>1. /\ \A k \in DOMAIN refunds' : /\ Place(next, k) \in DOMAIN refunds \ {next}
                                      /\ refunds'[k] = refunds[Place(next, k)]
        /\ \A j, k \in DOMAIN refunds' : Place(next, j) = Place(next, k) => j = k
    <3>1. refunds \in Seq(RefundType(ledger))
      BY Types DEF TypeInv
    <3>2. QED
      BY <1>8, <3>1, DelistedLemma
  <2>2. \A j, k \in DOMAIN refunds :
          refunds[j].cause = refunds[k].cause /\ refunds[j].rule = refunds[k].rule => j = k
    BY DEF RefundInv, RefundsOpen
  <2>3. \A j, k \in DOMAIN refunds' :
          refunds'[j].cause = refunds'[k].cause /\ refunds'[j].rule = refunds'[k].rule => j = k
    BY <2>1, <2>2
  <2>4. ASSUME NEW i \in OfKind("refund"), NEW k \in DOMAIN refunds'
        PROVE  ~(ledger'[i].cause = refunds'[k].cause /\ ledger'[i].rule = refunds'[k].rule)
    <3>1. ledger'[i] = ledger[i]
      BY <1>3, <1>5
    <3>2. QED
      BY <2>1, <3>1 DEF RefundInv, RefundsOpen
  <2>5. ASSUME NEW k \in DOMAIN refunds'
        PROVE  ~(ledger'[new].cause = refunds'[k].cause /\ ledger'[new].rule = refunds'[k].rule)
    BY <1>2, <1>3, <2>1, <2>2
  <2>6. \A i \in OfKind("refund")', k \in DOMAIN refunds' :
          ~(ledger'[i].cause = refunds'[k].cause /\ ledger'[i].rule = refunds'[k].rule)
    BY <1>3, <2>4, <2>5
  <2>7. \A k \in DOMAIN refunds' :
          /\ refunds'[k].cause \in OfKind("rule")'
          /\ ledger'[refunds'[k].cause].date = refunds'[k].date
          /\ ledger'[refunds'[k].cause].amount = Int32(refunds'[k].amount)
          /\ AccountOf(rules'[ledger'[refunds'[k].cause].rule]) = refunds'[k].account
    <3>1. SUFFICES ASSUME NEW k \in DOMAIN refunds', NEW p \in DOMAIN refunds,
                          refunds'[k] = refunds[p]
                   PROVE  /\ refunds'[k].cause \in OfKind("rule")'
                          /\ ledger'[refunds'[k].cause].date = refunds'[k].date
                          /\ ledger'[refunds'[k].cause].amount = Int32(refunds'[k].amount)
                          /\ AccountOf(rules'[ledger'[refunds'[k].cause].rule])
                               = refunds'[k].account
      BY <2>1
    <3>2. QED
      BY <1>6, <3>1
  <2>8. RefundsOpen'
    BY <2>3, <2>6, <2>7 DEF RefundsOpen, BoughtOn
  <2>9. QED
    BY <1>1, <2>8 DEF RefundInv
<1>9. QED
  BY <1>7, <1>8

LEMMA RefundNext ==
    ASSUME DelaysForward, TypeInv, RefundInv, [Next]_vars PROVE RefundInv'
<1>1. CASE \/ PlanRule \/ StartFiring \/ SkipFiring \/ RejectFiring
           \/ StartInstallments \/ KeepInstallment \/ StartRefunds \/ KeepRefund
           \/ NextMonth \/ UNCHANGED vars
  <2>1. UNCHANGED <<profile, refunds, ledger>> /\ (phase = "failed" => phase' = "failed")
    BY <1>1
    DEF PlanRule, StartFiring, SkipFiring, RejectFiring, Firing, StartInstallments,
        KeepInstallment, StartRefunds, KeepRefund, InRefunds, NextMonth, vars
  <2>2. QED
    BY <2>1, RefundKept
<1>2. CASE PostFiring
  <2>1. /\ Firing /\ AccountOf(FiredRule) \in Accounts /\ phase = "fire"
        /\ Amounts \subseteq Int /\ \A amount \in Int : FiringEntry(amount) \in EntryType
    BY <1>2, FiringPosted DEF PostFiring, Firing
  <2>2. PICK amount \in Amounts \ {0} :
          /\ profile' = profile
          /\ \/ /\ ledger' = Append(ledger, FiringEntry(amount)) /\ phase' = phase
                /\ refunds' = refunds \o NewRefunds(amount, Len(ledger'))
             \/ ledger' \in {ledger, Append(ledger, FiringEntry(amount))} /\ refunds' = refunds
    BY <1>2 DEF PostFiring, Posted, NotPosted
  <2>3. amount \in Int
    BY <2>1
  <2>4. CASE /\ ledger' = Append(ledger, FiringEntry(amount)) /\ phase' = phase
             /\ refunds' = refunds \o NewRefunds(amount, Len(ledger'))
    BY <2>1, <2>2, <2>3, <2>4, RefundFired
  <2>5. CASE ledger' \in {ledger, Append(ledger, FiringEntry(amount))} /\ refunds' = refunds
    <3>1. FiringEntry(amount) \in EntryType /\ FiringEntry(amount).kind # "refund"
      BY <2>1, <2>3 DEF FiringEntry, Entry
    <3>2. QED
      BY <2>1, <2>2, <2>5, <3>1, RefundKept
  <2>6. QED
    BY <2>2, <2>4, <2>5
<1>3. CASE PostReaction
  <2>1. ReactionEntry \in EntryType /\ ReactionEntry.kind # "refund"
    BY <1>3, ReactionPosted DEF PostReaction, ReactionEntry, Entry
  <2>2. /\ UNCHANGED <<profile, refunds>> /\ phase = "fire"
        /\ ledger' = ledger \/ ledger' = Append(ledger, ReactionEntry)
    BY <1>3 DEF PostReaction, Posted, NotPosted
  <2>3. QED
    BY <2>1, <2>2, RefundKept
<1>4. CASE PostInstallment
  <2> DEFINE e == InstallmentEntry(schedule[next])
  <2>1. e \in EntryType /\ e.kind # "refund"
    <3>1. next \in DOMAIN schedule
      BY <1>4, Types DEF PostInstallment, TypeInv
    <3>2. QED
      BY <3>1, InstallmentPosted DEF InstallmentEntry, Entry
  <2>2. /\ UNCHANGED <<profile, refunds>> /\ phase = "installments"
        /\ ledger' = ledger \/ ledger' = Append(ledger, e)
    BY <1>4 DEF PostInstallment, Posted, NotPosted
  <2> HIDE DEF e
  <2>3. QED
    BY <2>1, <2>2, RefundKept
<1>5. CASE DropRefund
  <2>1. next \in DOMAIN refunds
    BY <1>5, Types DEF DropRefund, InRefunds, TypeInv
  <2>2. QED
    BY <1>5, <2>1, RefundDelisted DEF DropRefund
<1>6. CASE PostRefund
  <2>1. next \in DOMAIN refunds /\ phase = "refunds"
    BY <1>6, Types DEF PostRefund, InRefunds, TypeInv
  <2>2. PICK date \in RefundDates(refunds[next]) :
          /\ date <= MonthEnd(month) /\ profile' = profile
          /\ \/ /\ ledger' = Append(ledger, RefundEntry(refunds[next], date))
                /\ refunds' = Delisted(refunds, next) /\ phase' = phase
             \/ /\ ledger' = Append(ledger, RefundEntry(refunds[next], date))
                /\ refunds' = refunds /\ phase' = "failed"
             \/ UNCHANGED <<ledger, refunds>>
    BY <1>6 DEF PostRefund, Posted, NotPosted
  <2>3. CASE UNCHANGED <<ledger, refunds>>
    BY <2>1, <2>2, <2>3, RefundKept
  <2>4. CASE ledger' = Append(ledger, RefundEntry(refunds[next], date))
    BY <2>1, <2>2, <2>4, RefundPostedOpen
  <2>5. QED
    BY <2>2, <2>3, <2>4
<1>7. QED
  BY <1>1, <1>2, <1>3, <1>4, <1>5, <1>6 DEF Next

\* A refund is for the amount of an earlier purchase, to the account it was
\* bought on, within the range and at most once for each refund rule, if no
\* configured delay is negative.
THEOREM RefundsAreBacked == ASSUME DelaysForward PROVE Spec => []RefundsBacked
<1>1. TypeInv /\ RefundInv /\ [Next]_vars => (TypeInv /\ RefundInv)'
  BY TypeNext, RefundNext
<1>2. Init => TypeInv /\ RefundInv
  BY TypeInit, RefundInit
<1>3. RefundInv => RefundsBacked
  BY DEF RefundInv
<1>4. QED
  BY <1>1, <1>2, <1>3, PTL DEF Spec

--------------------------------------------------------------------------------
\* The installments of a purchase

LEMMA CausesKept ==
    ASSUME TypeInv, CausesBack,
           \/ ledger' = ledger
           \/ \E e \in EntryType : /\ e.cause \in {0} \cup DOMAIN ledger
                                   /\ ledger' = Append(ledger, e)
    PROVE  CausesBack'
<1>1. CASE ledger' = ledger
  BY <1>1 DEF CausesBack
<1>2. ASSUME NEW e \in EntryType, e.cause \in {0} \cup DOMAIN ledger,
             ledger' = Append(ledger, e)
      PROVE  CausesBack'
  <2>1. /\ DOMAIN ledger = 1 .. Len(ledger) /\ Len(ledger) \in Nat
        /\ Len(ledger') = Len(ledger) + 1
        /\ DOMAIN ledger' = DOMAIN ledger \cup {Len(ledger')}
        /\ ledger'[Len(ledger')] = e
        /\ \A i \in DOMAIN ledger : ledger'[i] = ledger[i]
    BY <1>2, EntryAppended
  <2>2. e.cause < Len(ledger')
    <3> DEFINE n == Len(ledger)
    <3>1. n \in Nat /\ e.cause \in {0} \cup 1 .. n /\ Len(ledger') = n + 1
      BY <1>2, <2>1
    <3> HIDE DEF n
    <3>2. QED
      BY <3>1
  <2>3. QED
    BY <2>1, <2>2 DEF CausesBack
<1>3. QED
  BY <1>1, <1>2

LEMMA CausesNext == ASSUME TypeInv, CausesBack, [Next]_vars PROVE CausesBack'
<1>1. CASE ledger' = ledger
  BY <1>1, CausesKept
<1>2. CASE PostFiring
  <2>1. Amounts \subseteq Int /\ \A amount \in Int : FiringEntry(amount) \in EntryType
    BY <1>2, FiringPosted DEF PostFiring
  <2>2. PICK amount \in Amounts \ {0} :
          ledger' \in {ledger, Append(ledger, FiringEntry(amount))}
    BY <1>2 DEF PostFiring, Posted, NotPosted
  <2>3. FiringEntry(amount) \in EntryType /\ FiringEntry(amount).cause = 0
    BY <2>1 DEF FiringEntry, Entry
  <2>4. QED
    BY <2>2, <2>3, CausesKept
<1>3. CASE PostReaction
  <2>1. /\ ReactionEntry \in EntryType /\ trigger.entry \in DOMAIN ledger
        /\ ReactionEntry.cause = trigger.entry
    BY <1>3, ReactionPosted DEF PostReaction, ReactionEntry, Entry
  <2>2. ledger' \in {ledger, Append(ledger, ReactionEntry)}
    BY <1>3 DEF PostReaction, Posted, NotPosted
  <2>3. QED
    BY <2>1, <2>2, CausesKept
<1>4. CASE PostInstallment
  <2> DEFINE e == InstallmentEntry(schedule[next])
  <2>1. e \in EntryType /\ e.cause \in DOMAIN ledger
    <3>1. next \in DOMAIN schedule
      BY <1>4, Types DEF PostInstallment, TypeInv
    <3>2. QED
      BY <3>1, InstallmentPosted, InstallmentsTyped DEF InstallmentEntry, Entry, TypeInv
  <2>2. ledger' \in {ledger, Append(ledger, e)}
    BY <1>4 DEF PostInstallment, Posted, NotPosted
  <2> HIDE DEF e
  <2>3. QED
    BY <2>1, <2>2, CausesKept
<1>5. CASE PostRefund
  <2>1. PICK date \in RefundDates(refunds[next]) :
          ledger' \in {ledger, Append(ledger, RefundEntry(refunds[next], date))}
    BY <1>5 DEF PostRefund, Posted, NotPosted
  <2> DEFINE e == RefundEntry(refunds[next], date)
  <2>2. e \in EntryType /\ e.cause \in DOMAIN ledger
    <3>1. next \in DOMAIN refunds
      BY <1>5, Types DEF PostRefund, InRefunds, TypeInv
    <3>2. QED
      BY <3>1, RefundPosted, RefundsTyped DEF RefundEntry, Entry, TypeInv
  <2> HIDE DEF e
  <2>3. ledger' \in {ledger, Append(ledger, e)}
    BY <2>1 DEF e
  <2>4. QED
    BY <2>2, <2>3, CausesKept
<1>6. QED
  BY <1>1, <1>2, <1>3, <1>4, <1>5
  DEF Next, vars, PlanRule, StartFiring, SkipFiring, RejectFiring, StartInstallments,
      KeepInstallment, StartRefunds, DropRefund, KeepRefund, NextMonth

\* The firing at hand adds one installment for each part of the plan, each in a
\* later month.
LEMMA NewInstallmentsLemma ==
    ASSUME TypeInv, Firing, AccountOf(FiredRule) \in Accounts, NEW amount, NEW cause
    PROVE  LET plan == profile.bnpl[AccountOf(FiredRule)]
               s    == NewInstallments(amount, cause)
           IN  /\ s \in Seq(Range(s))
               /\ plan = Null => Len(s) = 0
               /\ plan # Null => plan.count \in Nat /\ plan.day \in Int /\ Len(s) = plan.count
               /\ \A k \in DOMAIN s :
                    /\ plan # Null /\ s[k].cause = cause
                    /\ s[k].account = AccountOf(FiredRule)
                    /\ s[k].amount = Quotient(amount, plan.count)
                    /\ month + k \in 1 .. Len(FirstDay) /\ k \in Nat \ {0}
                    /\ s[k].date = FirstDay[month + k] + plan.day - 1
<1> DEFINE a == AccountOf(FiredRule)
           plan == profile.bnpl[a]
           s == NewInstallments(amount, cause)
<1>1. CASE plan = Null
  <2>1. s = <<>>
    BY <1>1 DEF NewInstallments
  <2>2. QED
    BY <1>1, <2>1
<1>2. CASE plan # Null
  <2> DEFINE n == plan.count
             part(k) == [date |-> Date(month + k, plan.day), account |-> a,
                         amount |-> Quotient(amount, n), cause |-> cause]
  <2>1. n \in Nat /\ plan.day \in Int /\ LastMonth + n <= Len(FirstDay)
    BY <1>2, ProfileTyped, Types DEF TypeInv
  <2>2. s = [k \in 1 .. n |-> part(k)]
    BY <1>2 DEF NewInstallments, Installments
  <2>3. \A k : /\ part(k).date = FirstDay[month + k] + plan.day - 1
               /\ part(k).account = a /\ part(k).amount = Quotient(amount, n)
               /\ part(k).cause = cause
    BY DEF Date
  <2>4. month \in 1 .. LastMonth /\ LastMonth \in Nat /\ Len(FirstDay) \in Nat
    BY Types, LastMonthLemma, FirstDays DEF TypeInv
  <2> HIDE DEF s, n, part
  <2>5. s \in Seq(Range(s)) /\ Len(s) = n /\ DOMAIN s = 1 .. n
    BY <2>1, <2>2 DEF Range
  <2>6. ASSUME NEW k \in 1 .. n PROVE month + k \in 1 .. Len(FirstDay) /\ k \in Nat \ {0}
    BY <2>1, <2>4
  <2>7. \A k \in 1 .. n : s[k] = part(k)
    BY <2>2
  <2>8. QED
    BY <1>2, <2>1, <2>3, <2>5, <2>6, <2>7 DEF s, n
<1>3. QED
  BY <1>1, <1>2


\* No installment is due before the month at hand, nor before the next one
\* once the walk of the list has passed it.
LEMMA DatedInit == Init => InstallmentsDated
BY DEF Init, InstallmentsDated

LEMMA DatedNext ==
    ASSUME InstallmentDaysForward, TypeInv, InstallmentsDated, [Next]_vars
    PROVE  InstallmentsDated'
<1>1. /\ month \in 1 .. LastMonth /\ month + 1 \in 1 .. Len(FirstDay)
      /\ FirstDay[month] \in Int /\ FirstDay[month + 1] \in Int
      /\ FirstDay[month] < FirstDay[month + 1] /\ next \in Nat \ {0}
  BY Types, Month DEF TypeInv
<1>2. /\ DOMAIN schedule = 1 .. Len(schedule) /\ Len(schedule) \in Nat
      /\ \A k \in DOMAIN schedule : schedule[k].date \in Int
  BY Types, InstallmentsTyped DEF TypeInv
<1>3. CASE phase' = "failed"
  BY <1>3 DEF InstallmentsDated
<1>4. CASE /\ UNCHANGED <<month, schedule>>
           /\ \/ phase \in {"plan", "fire"} /\ phase' \in {"plan", "fire"}
              \/ phase = "fire" /\ phase' = "installments" /\ next' = 1
              \/ phase = "installments" /\ phase' = "refunds" /\ next > Len(schedule)
              \/ phase = "refunds" /\ phase' \in {"refunds", "done"}
              \/ UNCHANGED <<phase, next>>
  BY <1>1, <1>2, <1>4 DEF InstallmentsDated
<1>5. CASE PlanRule \/ StartFiring \/ SkipFiring \/ RejectFiring \/ PostReaction
  BY <1>3, <1>4, <1>5
  DEF PlanRule, StartFiring, SkipFiring, RejectFiring, PostReaction, Firing, NotPosted
<1>6. CASE StartInstallments \/ StartRefunds \/ DropRefund \/ KeepRefund \/ PostRefund
  BY <1>3, <1>4, <1>6
  DEF StartInstallments, StartRefunds, DropRefund, KeepRefund, PostRefund, InRefunds,
      NotPosted
<1>7. CASE PostFiring
  <2>1. /\ Firing /\ phase = "fire" /\ AccountOf(FiredRule) \in Accounts
        /\ phase' = "failed" \/ phase' = "fire"
    BY <1>7 DEF PostFiring, Firing, NotPosted
  <2>2. SUFFICES ASSUME phase' = "fire" PROVE InstallmentsDated'
    BY <1>3, <2>1
  <2>3. PICK amount \in Amounts \ {0} :
          /\ schedule' = schedule \o NewInstallments(amount, Len(ledger'))
          /\ month' = month
    BY <1>7, <2>2 DEF PostFiring, NotPosted
  <2> DEFINE more == NewInstallments(amount, Len(ledger'))
             plan == profile.bnpl[AccountOf(FiredRule)]
  <2>4. /\ more \in Seq(Range(more))
        /\ plan # Null => plan.day \in Int
        /\ \A k \in DOMAIN more :
             /\ plan # Null /\ month + k \in 1 .. Len(FirstDay) /\ k \in Nat \ {0}
             /\ more[k].date = FirstDay[month + k] + plan.day - 1
    BY <2>1, NewInstallmentsLemma
  <2>5. plan # Null => plan.day >= 1
    BY <2>1, Types, ProfileTyped DEF TypeInv, InstallmentDaysForward, Accounts
  <2>6. ASSUME NEW k \in DOMAIN more PROVE more[k].date >= FirstDay[month]
    <3> DEFINE b == FirstDay[month + k]
    <3>1. month \in 1 .. Len(FirstDay) /\ month < month + k
      <4>1. month \in 1 .. Len(FirstDay)
        BY <1>1, FirstDays
      <4>2. k \in Nat \ {0}
        BY <2>4
      <4> HIDE DEF b, more, plan
      <4>3. QED
        BY <4>1, <4>2
    <3>2. FirstDay[month] < b /\ b \in Int
      BY <2>4, <3>1, FirstDays, MonthsInOrder
    <3>3. more[k].date = b + plan.day - 1 /\ plan.day \in Int /\ plan.day >= 1
      BY <2>4, <2>5
    <3> HIDE DEF b, more, plan
    <3>4. QED
      BY <1>1, <3>2, <3>3
  <2> HIDE DEF more, plan
  <2>7. /\ \A k \in 1 .. Len(schedule) : schedule'[k] = schedule[k]
        /\ \A k \in DOMAIN more : schedule'[Len(schedule) + k] = more[k]
        /\ \A k \in DOMAIN schedule' :
             k \in 1 .. Len(schedule) \/ \E j \in DOMAIN more : k = Len(schedule) + j
    <3>1. schedule \in Seq(InstallmentType(ledger)) /\ schedule' = schedule \o more
      BY <2>3, Types DEF TypeInv, more
    <3>2. more \in Seq(Range(more))
      BY <2>4
    <3>3. QED
      BY ONLY <3>1, <3>2, ConcatLemma
  <2>8. ASSUME NEW k \in DOMAIN schedule' PROVE schedule'[k].date >= FirstDay[month]
    <3>1. CASE k \in 1 .. Len(schedule)
      BY <1>2, <2>1, <2>7, <3>1 DEF InstallmentsDated
    <3>2. CASE \E j \in DOMAIN more : k = Len(schedule) + j
      BY <2>6, <2>7, <3>2
    <3>3. QED
      BY <2>7, <3>1, <3>2
  <2>9. QED
    BY <2>2, <2>3, <2>8 DEF InstallmentsDated
<1>8. CASE KeepInstallment
  <2>1. /\ phase = "installments" /\ next \in DOMAIN schedule /\ next' = next + 1
        /\ ~InMonth(schedule[next].date, month)
        /\ UNCHANGED <<phase, month, schedule>>
    BY <1>1, <1>2, <1>8 DEF KeepInstallment
  <2>2. schedule[next].date >= FirstDay[month + 1]
    BY <1>1, <1>2, <2>1 DEF InstallmentsDated, InMonth
  <2>3. \A k \in DOMAIN schedule : k < next + 1 => k < next \/ k = next
    BY <1>1, <1>2
  <2>4. QED
    BY <2>1, <2>2, <2>3 DEF InstallmentsDated
<1>9. CASE PostInstallment
  <2>1. /\ phase = "installments" /\ next \in DOMAIN schedule
        /\ \/ phase' = "failed"
           \/ schedule' = Delisted(schedule, next) /\ UNCHANGED <<phase, month, next>>
    BY <1>1, <1>2, <1>9 DEF PostInstallment, NotPosted
  <2>2. SUFFICES ASSUME schedule' = Delisted(schedule, next), UNCHANGED <<phase, month, next>>
                 PROVE  InstallmentsDated'
    BY <1>3, <2>1
  <2>3. \A k \in DOMAIN schedule' : /\ Place(next, k) \in DOMAIN schedule
                                    /\ schedule'[k] = schedule[Place(next, k)]
    <3>1. schedule \in Seq(InstallmentType(ledger))
      BY Types DEF TypeInv
    <3>2. QED
      BY <2>1, <2>2, <3>1, DelistedLemma
  <2>4. \A k : k < next => Place(next, k) < next
    BY DEF Place
  <2>5. QED
    BY <2>1, <2>2, <2>3, <2>4 DEF InstallmentsDated
<1>10. CASE NextMonth
  <2>1. /\ phase = "refunds" /\ schedule' = schedule
        /\ \/ phase' = "done" /\ month' = month
           \/ phase' = "plan" /\ month' = month + 1
    BY <1>10 DEF NextMonth
  <2>2. QED
    BY <2>1 DEF InstallmentsDated
<1>11. CASE UNCHANGED vars
  BY <1>11 DEF vars, InstallmentsDated
<1>12. QED
  BY <1>5, <1>6, <1>7, <1>8, <1>9, <1>10, <1>11 DEF Next


\* What one more entry changes.
LEMMA PartsAppended ==
    ASSUME TypeInv, NEW e \in EntryType, ledger' = Append(ledger, e), profile' = profile
    PROVE  /\ \A c \in DOMAIN ledger : AccountOf(rules'[ledger'[c].rule]) = BoughtOn(c)
           /\ Purchases' = Purchases \cup
                {c \in {Len(ledger')} : e.kind = "rule"
                                        /\ profile.bnpl[AccountOf(rules[e.rule])] # Null}
           /\ \A c : {i \in OfKind("installment")' : ledger'[i].cause = c} =
                InstallmentsOf(c) \cup
                  {i \in {Len(ledger')} : e.kind = "installment" /\ e.cause = c}
<1> DEFINE new == Len(ledger')
<1>1. /\ ledger'[new] = e /\ new \notin DOMAIN ledger
      /\ \A i \in DOMAIN ledger : ledger'[i] = ledger[i]
      /\ \A kind : OfKind(kind)' =
           OfKind(kind) \cup (IF e.kind = kind THEN {new} ELSE {})
  BY EntryAppended
<1> HIDE DEF new
<1>2. rules' = rules
  BY DEF rules
<1>3. \A kind : OfKind(kind) \subseteq DOMAIN ledger
  BY DEF OfKind
<1>4. \A c \in DOMAIN ledger : AccountOf(rules'[ledger'[c].rule]) = BoughtOn(c)
  BY <1>1, <1>2 DEF BoughtOn
<1>5. Purchases' = Purchases \cup
        {c \in {new} : e.kind = "rule" /\ profile.bnpl[AccountOf(rules[e.rule])] # Null}
  <2>1. Purchases' = {i \in OfKind("rule")' :
                        profile.bnpl[AccountOf(rules'[ledger'[i].rule])] # Null}
    BY DEF Purchases, BoughtOn
  <2>2. \A i \in OfKind("rule") : AccountOf(rules'[ledger'[i].rule]) = BoughtOn(i)
    BY <1>3, <1>4
  <2>3. AccountOf(rules'[ledger'[new].rule]) = AccountOf(rules[e.rule])
    BY <1>1, <1>2
  <2>4. OfKind("rule")' = OfKind("rule") \cup (IF e.kind = "rule" THEN {new} ELSE {})
    BY <1>1
  <2>5. QED
    BY <2>1, <2>2, <2>3, <2>4 DEF Purchases
<1>6. ASSUME NEW c
      PROVE  {i \in OfKind("installment")' : ledger'[i].cause = c} =
               InstallmentsOf(c) \cup
                 {i \in {new} : e.kind = "installment" /\ e.cause = c}
  <2>1. OfKind("installment")' =
          OfKind("installment") \cup (IF e.kind = "installment" THEN {new} ELSE {})
    BY <1>1
  <2>2. \A i \in OfKind("installment") : ledger'[i] = ledger[i]
    BY <1>1, <1>3
  <2>3. QED
    BY <1>1, <2>1, <2>2 DEF InstallmentsOf
<1>7. QED
  BY <1>4, <1>5, <1>6 DEF new

LEMMA PartsFinite ==
    ASSUME TypeInv, NEW c
    PROVE  /\ IsFiniteSet(InstallmentsOf(c)) /\ Cardinality(InstallmentsOf(c)) \in Nat
           /\ IsFiniteSet(PendingOf(c)) /\ Cardinality(PendingOf(c)) \in Nat
<1>1. /\ IsFiniteSet(DOMAIN ledger) /\ IsFiniteSet(DOMAIN schedule)
  BY Types, FS_Interval DEF TypeInv
<1>2. InstallmentsOf(c) \in SUBSET DOMAIN ledger /\ PendingOf(c) \in SUBSET DOMAIN schedule
  BY DEF InstallmentsOf, OfKind, PendingOf
<1>3. IsFiniteSet(InstallmentsOf(c)) /\ IsFiniteSet(PendingOf(c))
  BY <1>1, <1>2, FS_Subset
<1>4. QED
  BY <1>3, FS_CardinalityType

\* Taking one installment off the list moves the others up, whoever they
\* belong to.
LEMMA PendingDelisted ==
    ASSUME TypeInv, next \in DOMAIN schedule, schedule' = Delisted(schedule, next), NEW c
    PROVE  LET pending == {k \in DOMAIN schedule' : schedule'[k].cause = c}
               at      == [k \in pending |-> Place(next, k)]
           IN  /\ at \in Bijection(pending, PendingOf(c) \ {next})
               /\ IsFiniteSet(pending)
               /\ Cardinality(pending) = Cardinality(PendingOf(c) \ {next})
<1> DEFINE pending == {k \in DOMAIN schedule' : schedule'[k].cause = c}
           rest == PendingOf(c) \ {next}
           at == [k \in pending |-> Place(next, k)]
<1>1. /\ \A k \in DOMAIN schedule' : /\ Place(next, k) \in DOMAIN schedule \ {next}
                                     /\ schedule'[k] = schedule[Place(next, k)]
      /\ \A j, k \in DOMAIN schedule' : Place(next, j) = Place(next, k) => j = k
      /\ \A p \in DOMAIN schedule \ {next} : \E k \in DOMAIN schedule' : Place(next, k) = p
  <2>1. schedule \in Seq(InstallmentType(ledger))
    BY Types DEF TypeInv
  <2>2. QED
    BY <2>1, DelistedLemma
<1>2. \A k \in pending : Place(next, k) \in rest
  BY <1>1 DEF PendingOf
<1>3. \A p \in rest : \E k \in pending : Place(next, k) = p
  BY <1>1 DEF PendingOf
<1>4. \A j, k \in pending : Place(next, j) = Place(next, k) => j = k
  BY <1>1
<1> HIDE DEF pending, rest
<1>5. at \in [pending -> rest]
  BY <1>2
<1>6. at \in Bijection(pending, rest)
  BY <1>3, <1>4, <1>5
  DEF Bijection, Injection, Surjection, IsInjective
<1>7. IsFiniteSet(rest)
  BY PartsFinite, FS_RemoveElement DEF rest
<1> HIDE DEF at
<1>8. IsFiniteSet(pending)
  <2>1. at \in Injection(pending, rest)
    BY <1>6 DEF Bijection
  <2>2. QED
    BY <1>7, <2>1, FS_Injection
<1>9. Cardinality(pending) = Cardinality(rest)
  <2>1. ExistsBijection(pending, rest)
    BY <1>6 DEF ExistsBijection
  <2>2. QED
    BY <1>8, <2>1, FS_Bijection
<1>10. QED
  BY <1>6, <1>8, <1>9 DEF pending, rest, at


LEMMA CountedInit == Init => CausesBack /\ InstallmentsCounted
BY DEF Init, CausesBack, InstallmentsCounted, Purchases, OfKind

\* A step that deals with neither a purchase nor an installment.
LEMMA CountedKept ==
    ASSUME TypeInv, InstallmentsCounted, UNCHANGED <<profile, schedule>>,
           \/ ledger' = ledger
           \/ \E e \in EntryType : /\ e.kind \notin {"rule", "installment"}
                                   /\ ledger' = Append(ledger, e),
           phase = "failed" => phase' = "failed"
    PROVE  InstallmentsCounted'
<1>1. /\ Purchases' = Purchases
      /\ \A c \in Purchases : AccountOf(rules'[ledger'[c].rule]) = BoughtOn(c)
      /\ \A c : {i \in OfKind("installment")' : ledger'[i].cause = c} = InstallmentsOf(c)
  <2>1. CASE ledger' = ledger
    BY <2>1 DEF Purchases, OfKind, BoughtOn, rules, InstallmentsOf
  <2>2. ASSUME NEW e \in EntryType, e.kind \notin {"rule", "installment"},
               ledger' = Append(ledger, e)
        PROVE  /\ Purchases' = Purchases
               /\ \A c \in Purchases : AccountOf(rules'[ledger'[c].rule]) = BoughtOn(c)
               /\ \A c : {i \in OfKind("installment")' : ledger'[i].cause = c}
                           = InstallmentsOf(c)
    <3>1. /\ \A c \in DOMAIN ledger : AccountOf(rules'[ledger'[c].rule]) = BoughtOn(c)
          /\ Purchases' = Purchases \cup
               {c \in {Len(ledger')} : e.kind = "rule"
                                       /\ profile.bnpl[AccountOf(rules[e.rule])] # Null}
          /\ \A c : {i \in OfKind("installment")' : ledger'[i].cause = c} =
               InstallmentsOf(c) \cup
                 {i \in {Len(ledger')} : e.kind = "installment" /\ e.cause = c}
      BY <2>2, PartsAppended
    <3>2. Purchases \subseteq DOMAIN ledger
      BY DEF Purchases, OfKind
    <3>3. e.kind # "rule" /\ e.kind # "installment"
      BY <2>2
    <3>4. QED
      BY <3>1, <3>2, <3>3
  <2>3. QED
    BY <2>1, <2>2
<1>2. SUFFICES ASSUME phase # "failed", NEW c \in Purchases'
               PROVE  Cardinality({i \in OfKind("installment")' : ledger'[i].cause = c})
                        + Cardinality({k \in DOMAIN schedule' : schedule'[k].cause = c})
                        = profile'.bnpl[AccountOf(rules'[ledger'[c].rule])].count
  BY DEF InstallmentsCounted, InstallmentsOf, PendingOf, BoughtOn
<1>3. {k \in DOMAIN schedule' : schedule'[k].cause = c} = PendingOf(c)
  BY DEF PendingOf
<1>4. QED
  BY <1>1, <1>2, <1>3 DEF InstallmentsCounted

\* A purchase adds as many installments to come as its plan has parts.
LEMMA CountedFired ==
    ASSUME TypeInv, CausesBack, InstallmentsCounted, Firing,
           AccountOf(FiredRule) \in Accounts, NEW amount \in Int,
           ledger' = Append(ledger, FiringEntry(amount)), ~ Panics,
           schedule' = schedule \o NewInstallments(amount, Len(ledger')),
           profile' = profile, phase' = phase
    PROVE  InstallmentsCounted'
<1> DEFINE e == FiringEntry(amount)
           new == Len(ledger')
           more == NewInstallments(amount, new)
           a == AccountOf(FiredRule)
           plan == profile.bnpl[a]
           n == Len(schedule)
<1>1. /\ e \in EntryType /\ e.kind = "rule" /\ AccountOf(rules[e.rule]) = a
      /\ ledger' = Append(ledger, e)
  BY FiringPosted DEF FiringEntry, Entry, FiredRule
<1>2. /\ \A c \in DOMAIN ledger : AccountOf(rules'[ledger'[c].rule]) = BoughtOn(c)
      /\ Purchases' = Purchases \cup {c \in {new} : plan # Null}
      /\ \A c : {i \in OfKind("installment")' : ledger'[i].cause = c} = InstallmentsOf(c)
  <2> HIDE DEF e
  <2>1. /\ \A c \in DOMAIN ledger : AccountOf(rules'[ledger'[c].rule]) = BoughtOn(c)
        /\ Purchases' = Purchases \cup
             {c \in {new} : e.kind = "rule" /\ profile.bnpl[AccountOf(rules[e.rule])] # Null}
        /\ \A c : {i \in OfKind("installment")' : ledger'[i].cause = c} =
             InstallmentsOf(c) \cup {i \in {new} : e.kind = "installment" /\ e.cause = c}
    BY <1>1, PartsAppended
  <2>2. QED
    BY <1>1, <2>1
<1>3. /\ new \notin DOMAIN ledger /\ ledger'[new] = e /\ rules' = rules
      /\ new \in Nat /\ \A i \in DOMAIN ledger : i < new /\ i \in Nat
  <2> HIDE DEF e
  <2>1. /\ Len(ledger') = Len(ledger) + 1 /\ ledger'[new] = e /\ new \notin DOMAIN ledger
        /\ Len(ledger) \in Nat /\ DOMAIN ledger = 1 .. Len(ledger)
    BY <1>1, EntryAppended
  <2>2. QED
    BY <2>1 DEF rules
<1>4. /\ more \in Seq(Range(more))
      /\ plan = Null => Len(more) = 0
      /\ plan # Null => plan.count \in Nat /\ Len(more) = plan.count
      /\ \A k \in DOMAIN more : more[k].cause = new
  BY NewInstallmentsLemma
<1> HIDE DEF more, e, new
<1>5. /\ n \in Nat /\ Len(more) \in Nat /\ DOMAIN schedule = 1 .. n
      /\ DOMAIN more = 1 .. Len(more)
      /\ DOMAIN schedule' = 1 .. n + Len(more)
      /\ \A k \in 1 .. n : schedule'[k] = schedule[k]
      /\ \A k \in 1 .. Len(more) : schedule'[n + k] = more[k]
      /\ \A k \in DOMAIN schedule' : k \in 1 .. n \/ \E j \in 1 .. Len(more) : k = n + j
  <2>1. schedule \in Seq(InstallmentType(ledger)) /\ schedule' = schedule \o more
    BY Types DEF TypeInv, more, new
  <2>2. QED
    BY <1>4, <2>1, ConcatLemma
<1>6. \A k \in 1 .. n : schedule[k].cause \in DOMAIN ledger
  BY <1>5, InstallmentsTyped DEF TypeInv
<1> HIDE DEF plan, a, n
<1>7. SUFFICES ASSUME phase # "failed", NEW c \in Purchases'
               PROVE  Cardinality({i \in OfKind("installment")' : ledger'[i].cause = c})
                        + Cardinality({k \in DOMAIN schedule' : schedule'[k].cause = c})
                        = profile.bnpl[AccountOf(rules'[ledger'[c].rule])].count
  BY DEF InstallmentsCounted, InstallmentsOf, PendingOf, BoughtOn
<1> DEFINE pending == {k \in DOMAIN schedule' : schedule'[k].cause = c}
<1>8. CASE c \in Purchases
  <2>1. c \in DOMAIN ledger
    BY <1>8 DEF Purchases, OfKind
  <2>2. pending = PendingOf(c)
    <3>1. ASSUME NEW k \in DOMAIN schedule', schedule'[k].cause = c PROVE k \in 1 .. n
      <4>1. \A j \in 1 .. Len(more) : schedule'[n + j].cause = new
        BY <1>4, <1>5
      <4>2. c # new
        BY <1>3, <2>1
      <4>3. QED
        BY <1>5, <3>1, <4>1, <4>2
    <3>2. \A k \in 1 .. n : k \in DOMAIN schedule'
      BY <1>5
    <3>3. QED
      BY <1>5, <3>1, <3>2 DEF PendingOf
  <2>3. QED
    BY <1>2, <1>7, <1>8, <2>1, <2>2 DEF InstallmentsCounted
<1>9. CASE c = new /\ plan # Null
  <2>1. InstallmentsOf(c) = {}
    <3>1. \A i \in DOMAIN ledger : ledger[i].cause # new
      <4>1. \A i \in DOMAIN ledger : ledger[i].cause \in Nat /\ ledger[i].cause < i
        BY EntriesTyped DEF TypeInv, CausesBack
      <4>2. QED
        BY <1>3, <4>1
    <3>2. QED
      BY <1>9, <3>1 DEF InstallmentsOf, OfKind
  <2>2. pending = n + 1 .. n + Len(more)
    <3>1. \A k \in 1 .. n : schedule'[k].cause # new
      BY <1>3, <1>5, <1>6
    <3>2. ASSUME NEW k \in DOMAIN schedule'
          PROVE  schedule'[k].cause = new <=> k \notin 1 .. n
      <4>1. \A j \in 1 .. Len(more) : schedule'[n + j].cause = new
        BY <1>4, <1>5
      <4>2. QED
        BY <1>5, <3>1, <4>1
    <3>3. QED
      BY <1>5, <1>9, <3>2
  <2>3. Cardinality(pending) = Len(more)
    <3>1. Cardinality(n + 1 .. n + Len(more)) = Len(more)
      <4> DEFINE d == Len(more)
      <4>1. n \in Nat /\ d \in Nat /\ n + 1 \in Int /\ n + d \in Int
        BY <1>5
      <4> HIDE DEF d
      <4>2. Cardinality(n + 1 .. n + d) = IF n + 1 > n + d THEN 0 ELSE (n + d) - (n + 1) + 1
        BY <4>1, FS_Interval
      <4>3. Cardinality(n + 1 .. n + d) = d
        BY <4>1, <4>2
      <4>4. QED
        BY <4>3 DEF d
    <3>2. QED
      BY <2>2, <3>1
  <2>4. Cardinality(InstallmentsOf(c)) = 0
    BY <2>1, FS_EmptySet
  <2>5. profile.bnpl[AccountOf(rules'[ledger'[c].rule])] = plan
    BY <1>1, <1>3, <1>9 DEF plan
  <2>6. Cardinality({i \in OfKind("installment")' : ledger'[i].cause = c}) = 0
    BY <1>2, <2>4
  <2>7. plan.count \in Nat /\ Len(more) = plan.count
    BY <1>4, <1>9
  <2> HIDE DEF pending
  <2>8. 0 + Cardinality(pending) = plan.count
    BY <2>3, <2>7
  <2>9. QED
    BY <2>5, <2>6, <2>8 DEF pending
<1>10. QED
  BY <1>2, <1>7, <1>8, <1>9

\* An installment that is posted is taken off the list.
LEMMA CountedPosted ==
    ASSUME TypeInv, CausesBack, InstallmentsCounted, phase = "installments",
           next \in DOMAIN schedule, UNCHANGED <<profile, phase>>,
           ledger' = Append(ledger, InstallmentEntry(schedule[next])),
           schedule' = Delisted(schedule, next)
    PROVE  InstallmentsCounted'
<1> DEFINE e == InstallmentEntry(schedule[next])
           new == Len(ledger')
<1>1. /\ e \in EntryType /\ e.kind = "installment" /\ e.cause = schedule[next].cause
      /\ ledger' = Append(ledger, e)
  BY InstallmentPosted DEF InstallmentEntry, Entry
<1> HIDE DEF e
<1>2. /\ \A c \in DOMAIN ledger : AccountOf(rules'[ledger'[c].rule]) = BoughtOn(c)
      /\ Purchases' = Purchases
      /\ \A c : {i \in OfKind("installment")' : ledger'[i].cause = c} =
                  InstallmentsOf(c) \cup {i \in {new} : e.cause = c}
  <2>1. /\ \A c \in DOMAIN ledger : AccountOf(rules'[ledger'[c].rule]) = BoughtOn(c)
        /\ Purchases' = Purchases \cup
             {c \in {new} : e.kind = "rule" /\ profile.bnpl[AccountOf(rules[e.rule])] # Null}
        /\ \A c : {i \in OfKind("installment")' : ledger'[i].cause = c} =
             InstallmentsOf(c) \cup {i \in {new} : e.kind = "installment" /\ e.cause = c}
    BY <1>1, PartsAppended
  <2>2. QED
    BY <1>1, <2>1
<1>3. new \notin DOMAIN ledger
  BY <1>1, EntryAppended
<1> HIDE DEF new
<1>4. SUFFICES ASSUME NEW c \in Purchases
               PROVE  Cardinality({i \in OfKind("installment")' : ledger'[i].cause = c})
                        + Cardinality({k \in DOMAIN schedule' : schedule'[k].cause = c})
                        = profile.bnpl[AccountOf(rules'[ledger'[c].rule])].count
  BY <1>2 DEF InstallmentsCounted, InstallmentsOf, PendingOf, BoughtOn
<1> DEFINE pending == {k \in DOMAIN schedule' : schedule'[k].cause = c}
           paid == {i \in OfKind("installment")' : ledger'[i].cause = c}
<1>5. c \in DOMAIN ledger
  BY <1>4 DEF Purchases, OfKind
<1>6. /\ IsFiniteSet(InstallmentsOf(c)) /\ Cardinality(InstallmentsOf(c)) \in Nat
      /\ IsFiniteSet(PendingOf(c)) /\ Cardinality(PendingOf(c)) \in Nat
  BY PartsFinite
<1>7. Cardinality(pending) = Cardinality(PendingOf(c) \ {next})
  BY PendingDelisted
<1>8. Cardinality(InstallmentsOf(c)) + Cardinality(PendingOf(c))
        = profile.bnpl[BoughtOn(c)].count
  BY DEF InstallmentsCounted
<1>9. CASE e.cause = c
  <2>1. next \in PendingOf(c)
    BY <1>1, <1>9 DEF PendingOf
  <2>2. Cardinality(PendingOf(c) \ {next}) = Cardinality(PendingOf(c)) - 1
    BY <1>6, <2>1, FS_RemoveElement
  <2>3. paid = InstallmentsOf(c) \cup {new} /\ new \notin InstallmentsOf(c)
    <3>1. paid = InstallmentsOf(c) \cup {i \in {new} : e.cause = c}
      BY <1>2
    <3>2. new \notin InstallmentsOf(c)
      BY <1>3 DEF InstallmentsOf, OfKind
    <3> HIDE DEF paid
    <3>3. QED
      BY <1>9, <3>1, <3>2
  <2>4. Cardinality(paid) = Cardinality(InstallmentsOf(c)) + 1
    BY <1>6, <2>3, FS_AddElement
  <2> HIDE DEF paid, pending
  <2>5. Cardinality(paid) + Cardinality(pending) = profile.bnpl[BoughtOn(c)].count
    BY <1>6, <1>7, <1>8, <2>2, <2>4
  <2>6. QED
    BY <1>2, <1>5, <2>5 DEF paid, pending
<1>10. CASE e.cause # c
  <2>1. next \notin PendingOf(c)
    BY <1>1, <1>10 DEF PendingOf
  <2>2. PendingOf(c) \ {next} = PendingOf(c)
    BY <2>1
  <2>3. paid = InstallmentsOf(c)
    BY <1>2, <1>10
  <2> HIDE DEF paid, pending
  <2>4. Cardinality(paid) + Cardinality(pending) = profile.bnpl[BoughtOn(c)].count
    BY <1>7, <1>8, <2>2, <2>3
  <2>5. QED
    BY <1>2, <1>5, <2>4 DEF paid, pending
<1>11. QED
  BY <1>9, <1>10

LEMMA CountedNext ==
    ASSUME TypeInv, CausesBack, InstallmentsCounted, [Next]_vars PROVE InstallmentsCounted'
<1>1. CASE phase' = "failed"
  BY <1>1 DEF InstallmentsCounted
<1>2. CASE UNCHANGED <<profile, schedule, ledger>> /\ (phase = "failed" => phase' = "failed")
  BY <1>2, CountedKept
<1>3. CASE \/ PlanRule \/ StartFiring \/ SkipFiring \/ RejectFiring
           \/ StartInstallments \/ KeepInstallment \/ StartRefunds \/ KeepRefund
           \/ DropRefund \/ NextMonth \/ UNCHANGED vars
  <2>1. UNCHANGED <<profile, schedule, ledger>> /\ (phase = "failed" => phase' = "failed")
    BY <1>3
    DEF PlanRule, StartFiring, SkipFiring, RejectFiring, Firing, StartInstallments,
        KeepInstallment, StartRefunds, KeepRefund, DropRefund, InRefunds, NextMonth, vars
  <2>2. QED
    BY <1>2, <2>1
<1>4. CASE PostFiring
  <2>1. /\ Firing /\ AccountOf(FiredRule) \in Accounts /\ Amounts \subseteq Int
    BY <1>4, FiringPosted DEF PostFiring
  <2>2. SUFFICES ASSUME phase' # "failed" PROVE InstallmentsCounted'
    BY <1>1
  <2>3. PICK amount \in Amounts \ {0} :
          /\ ledger' = Append(ledger, FiringEntry(amount)) /\ ~ Panics
          /\ schedule' = schedule \o NewInstallments(amount, Len(ledger'))
          /\ profile' = profile /\ phase' = phase
    BY <1>4, <2>2 DEF PostFiring, Posted, NotPosted
  <2>4. QED
    BY <2>1, <2>3, CountedFired
<1>5. CASE PostReaction
  <2>1. ReactionEntry \in EntryType /\ ReactionEntry.kind \notin {"rule", "installment"}
    BY <1>5, ReactionPosted DEF PostReaction, ReactionEntry, Entry
  <2>2. /\ UNCHANGED <<profile, schedule>> /\ phase = "fire"
        /\ ledger' = ledger \/ ledger' = Append(ledger, ReactionEntry)
    BY <1>5 DEF PostReaction, Posted, NotPosted
  <2>3. QED
    BY <2>1, <2>2, CountedKept
<1>6. CASE PostInstallment
  <2>1. next \in DOMAIN schedule /\ phase = "installments"
    BY <1>6, Types DEF PostInstallment, TypeInv
  <2>2. SUFFICES ASSUME phase' # "failed" PROVE InstallmentsCounted'
    BY <1>1
  <2>3. /\ ledger' = Append(ledger, InstallmentEntry(schedule[next]))
        /\ schedule' = Delisted(schedule, next) /\ UNCHANGED <<profile, phase>>
    BY <1>6, <2>2 DEF PostInstallment, Posted, NotPosted
  <2>4. QED
    BY <2>1, <2>3, CountedPosted
<1>7. CASE PostRefund
  <2>1. PICK date \in RefundDates(refunds[next]) :
          /\ UNCHANGED <<profile, schedule>> /\ phase = "refunds"
          /\ \/ ledger' = ledger
             \/ ledger' = Append(ledger, RefundEntry(refunds[next], date))
    BY <1>7 DEF PostRefund, InRefunds, Posted, NotPosted
  <2>2. next \in DOMAIN refunds
    BY <1>7, Types DEF PostRefund, InRefunds, TypeInv
  <2> DEFINE e == RefundEntry(refunds[next], date)
  <2>3. e \in EntryType /\ e.kind \notin {"rule", "installment"}
    BY <2>1, <2>2, RefundPosted DEF RefundEntry, Entry
  <2> HIDE DEF e
  <2>4. ledger' = ledger \/ ledger' = Append(ledger, e)
    BY <2>1 DEF e
  <2>5. QED
    BY <2>1, <2>3, <2>4, CountedKept
<1>8. QED
  BY <1>3, <1>4, <1>5, <1>6, <1>7 DEF Next

\* The installments posted and to come are the number agreed, however the list
\* is walked and cut, and none is left behind in a month that is over, if no
\* configured day is before the first of the month.
THEOREM InstallmentsAreKept ==
    ASSUME InstallmentDaysForward PROVE Spec => []InstallmentsKept
<1>1. TypeInv /\ InstallmentInv /\ [Next]_vars => (TypeInv /\ InstallmentInv)'
  BY TypeNext, CausesNext, DatedNext, CountedNext DEF InstallmentInv
<1>2. Init => TypeInv /\ InstallmentInv
  BY TypeInit, DatedInit, CountedInit DEF InstallmentInv
<1>3. InstallmentInv => InstallmentsKept
  BY DEF InstallmentInv, InstallmentsDated, InstallmentsCounted, InstallmentsKept
<1>4. QED
  BY <1>1, <1>2, <1>3, PTL DEF Spec

--------------------------------------------------------------------------------
\* The seeder's balances

\* What the entries S of a ledger l come to.
SumIn(l, S) == SumFunctionOnSet([i \in DOMAIN l |-> l[i].amount], S)

\* The positions among the first n of what goes to an account, what leaves it,
\* and of its installments and refunds.
InTo(l, a, n)   == {i \in 1 .. n : l[i].destination = a}
OutOf(l, a, n)  == {i \in 1 .. n : l[i].source = a}
PaidBy(l, a, n) == {i \in 1 .. n : l[i].kind = "installment" /\ l[i].source = a}
BackTo(l, a, n) == {i \in 1 .. n : l[i].kind = "refund" /\ l[i].destination = a}

NetIn(l, a, n)  == SumIn(l, InTo(l, a, n)) - SumIn(l, OutOf(l, a, n))
Tracked(l, a, n) ==
    NetIn(l, a, n) + 2 * (SumIn(l, PaidBy(l, a, n)) - SumIn(l, BackTo(l, a, n)))

\* What an entry adds to an account's net, and to what the seeder tracks of it.
NetOfEntry(e, a) ==
    (IF e.destination = a THEN e.amount ELSE 0) - (IF e.source = a THEN e.amount ELSE 0)
TrackedOfEntry(e, a) ==
    NetOfEntry(e, a)
      + 2 * ((IF e.kind = "installment" /\ e.source = a THEN e.amount ELSE 0)
               - (IF e.kind = "refund" /\ e.destination = a THEN e.amount ELSE 0))

\* A list of entries with integer amounts.
Summed(l, n) ==
    /\ n \in Nat /\ DOMAIN l = 1 .. n
    /\ \A i \in DOMAIN l : l[i].amount \in Int

LEMMA SumInType ==
    ASSUME NEW l, NEW n, Summed(l, n), NEW S \in SUBSET (1 .. n)
    PROVE  IsFiniteSet(S) /\ SumIn(l, S) \in Int
<1> DEFINE f == [i \in DOMAIN l |-> l[i].amount]
<1>1. IsFiniteSet(S)
  <2>1. 1 \in Int /\ n \in Int
    BY DEF Summed
  <2>2. IsFiniteSet(1 .. n)
    BY <2>1, FS_Interval
  <2>3. QED
    BY <2>2, FS_Subset
<1>2. \A i \in S : f[i] \in Int
  BY DEF Summed
<1> HIDE DEF f
<1>3. SumFunctionOnSet(f, S) \in Int
  BY <1>1, <1>2, SumInt
<1>4. QED
  BY <1>1, <1>3 DEF SumIn, f

\* k is l with one more entry.
Longer(k, l, n) ==
    /\ Summed(l, n) /\ Summed(k, n + 1)
    /\ \A i \in 1 .. n : k[i] = l[i]

LEMMA SumInKept ==
    ASSUME NEW k, NEW l, NEW n, Longer(k, l, n), NEW S \in SUBSET (1 .. n)
    PROVE  SumIn(k, S) = SumIn(l, S)
<1> DEFINE f == [i \in DOMAIN k |-> k[i].amount]
           g == [i \in DOMAIN l |-> l[i].amount]
<1>1. n \in Nat /\ DOMAIN l = 1 .. n /\ DOMAIN k = 1 .. n + 1
  BY DEF Longer, Summed
<1>2. IsFiniteSet(S)
  BY SumInType DEF Longer
<1>3. \A i \in S : f[i] = g[i]
  BY <1>1 DEF Longer
<1> HIDE DEF f, g
<1>4. SumFunctionOnSet(f, S) = SumFunctionOnSet(g, S)
  BY <1>2, <1>3, SumCongruence
<1>5. QED
  BY <1>4 DEF SumIn, f, g

\* The sum over the entries with a property, one of which may be the last.
LEMMA SumInExtended ==
    ASSUME NEW k, NEW l, NEW n, Longer(k, l, n), NEW S \in SUBSET (1 .. n),
           NEW D \in SUBSET {n + 1}
    PROVE  SumIn(k, S \cup D) = SumIn(l, S) + (IF D = {} THEN 0 ELSE k[n + 1].amount)
<1>1. SumIn(k, S) = SumIn(l, S)
  BY SumInKept
<1>2. CASE D = {}
  <2>1. S \cup D = S
    BY <1>2
  <2>2. SumIn(l, S) \in Int
    BY SumInType DEF Longer
  <2>3. QED
    BY <1>1, <1>2, <2>1, <2>2
<1>3. CASE D # {}
  <2> DEFINE f == [i \in DOMAIN k |-> k[i].amount]
  <2>1. n \in Nat /\ DOMAIN k = 1 .. n + 1
    BY DEF Longer, Summed
  <2>2. IsFiniteSet(S)
    BY SumInType DEF Longer
  <2>3. n + 1 \notin S /\ \A i \in S \cup {n + 1} : f[i] \in Int
    BY <2>1 DEF Longer, Summed
  <2>4. f[n + 1] = k[n + 1].amount
    BY <2>1
  <2> HIDE DEF f
  <2>5. SumFunctionOnSet(f, S \cup {n + 1}) = SumFunctionOnSet(f, S) + f[n + 1]
    BY <2>2, <2>3, SumAdd
  <2>6. SumIn(k, S \cup {n + 1}) = SumIn(k, S) + k[n + 1].amount
    BY <2>4, <2>5 DEF SumIn, f
  <2>7. D = {n + 1}
    BY <1>3
  <2>8. QED
    BY <1>1, <1>3, <2>6, <2>7
<1>4. QED
  BY <1>2, <1>3

LEMMA TrackedType ==
    ASSUME NEW l, NEW n, Summed(l, n), NEW m \in Int, m <= n, NEW a
    PROVE  NetIn(l, a, m) \in Int /\ Tracked(l, a, m) \in Int
<1>1. n \in Nat
  BY DEF Summed
<1>2. /\ InTo(l, a, m) \in SUBSET (1 .. n) /\ OutOf(l, a, m) \in SUBSET (1 .. n)
      /\ PaidBy(l, a, m) \in SUBSET (1 .. n) /\ BackTo(l, a, m) \in SUBSET (1 .. n)
  BY <1>1 DEF InTo, OutOf, PaidBy, BackTo
<1>3. /\ SumIn(l, InTo(l, a, m)) \in Int /\ SumIn(l, OutOf(l, a, m)) \in Int
      /\ SumIn(l, PaidBy(l, a, m)) \in Int /\ SumIn(l, BackTo(l, a, m)) \in Int
  BY <1>2, SumInType
<1>4. QED
  BY <1>3 DEF NetIn, Tracked

\* What was there counts as before in a longer ledger.
LEMMA TrackedKept ==
    ASSUME NEW k, NEW l, NEW n, Longer(k, l, n), NEW m \in Int, m <= n, NEW a
    PROVE  /\ NetIn(k, a, m) = NetIn(l, a, m)
           /\ Tracked(k, a, m) = Tracked(l, a, m)
<1>1. n \in Nat /\ \A i \in 1 .. m : i \in 1 .. n /\ k[i] = l[i]
  BY DEF Longer, Summed
<1>2. /\ InTo(k, a, m) = InTo(l, a, m) /\ OutOf(k, a, m) = OutOf(l, a, m)
      /\ PaidBy(k, a, m) = PaidBy(l, a, m) /\ BackTo(k, a, m) = BackTo(l, a, m)
  BY <1>1 DEF InTo, OutOf, PaidBy, BackTo
<1>3. /\ InTo(l, a, m) \in SUBSET (1 .. n) /\ OutOf(l, a, m) \in SUBSET (1 .. n)
      /\ PaidBy(l, a, m) \in SUBSET (1 .. n) /\ BackTo(l, a, m) \in SUBSET (1 .. n)
  BY <1>1 DEF InTo, OutOf, PaidBy, BackTo
<1>4. \A S \in SUBSET (1 .. n) : SumIn(k, S) = SumIn(l, S)
  BY SumInKept
<1>5. QED
  BY <1>2, <1>3, <1>4 DEF NetIn, Tracked

\* One entry more counts for what it is.
LEMMA TrackedExtended ==
    ASSUME NEW k, NEW l, NEW n, Longer(k, l, n), NEW a
    PROVE  /\ NetIn(k, a, n + 1) = NetIn(l, a, n) + NetOfEntry(k[n + 1], a)
           /\ Tracked(k, a, n + 1) = Tracked(l, a, n) + TrackedOfEntry(k[n + 1], a)
<1> DEFINE e == k[n + 1]
<1>1. n \in Nat /\ 1 .. n + 1 = (1 .. n) \cup {n + 1} /\ \A i \in 1 .. n : k[i] = l[i]
  BY DEF Longer, Summed
<1>2. /\ InTo(k, a, n + 1) = InTo(l, a, n) \cup {i \in {n + 1} : e.destination = a}
      /\ OutOf(k, a, n + 1) = OutOf(l, a, n) \cup {i \in {n + 1} : e.source = a}
      /\ PaidBy(k, a, n + 1) = PaidBy(l, a, n)
           \cup {i \in {n + 1} : e.kind = "installment" /\ e.source = a}
      /\ BackTo(k, a, n + 1) = BackTo(l, a, n)
           \cup {i \in {n + 1} : e.kind = "refund" /\ e.destination = a}
  BY <1>1 DEF InTo, OutOf, PaidBy, BackTo
<1>3. /\ InTo(l, a, n) \in SUBSET (1 .. n) /\ OutOf(l, a, n) \in SUBSET (1 .. n)
      /\ PaidBy(l, a, n) \in SUBSET (1 .. n) /\ BackTo(l, a, n) \in SUBSET (1 .. n)
  BY DEF InTo, OutOf, PaidBy, BackTo
<1>4. /\ SumIn(l, InTo(l, a, n)) \in Int /\ SumIn(l, OutOf(l, a, n)) \in Int
      /\ SumIn(l, PaidBy(l, a, n)) \in Int /\ SumIn(l, BackTo(l, a, n)) \in Int
      /\ e.amount \in Int
  <2>1. Summed(l, n) /\ Summed(k, n + 1)
    BY DEF Longer
  <2>2. e.amount \in Int
    BY <1>1, <2>1 DEF Summed
  <2>3. QED
    BY <1>3, <2>1, <2>2, SumInType
<1> DEFINE In == e.destination = a
           Out == e.source = a
           Paid == e.kind = "installment" /\ e.source = a
           Back == e.kind = "refund" /\ e.destination = a
<1> HIDE DEF In, Out, Paid, Back
<1>6. ASSUME NEW S \in SUBSET (1 .. n), NEW D \in SUBSET {n + 1}
      PROVE  SumIn(k, S \cup D) = SumIn(l, S) + (IF D = {} THEN 0 ELSE e.amount)
  BY SumInExtended
<1>7. /\ SumIn(k, InTo(k, a, n + 1)) = SumIn(k, InTo(l, a, n) \cup {i \in {n + 1} : In})
      /\ SumIn(k, OutOf(k, a, n + 1)) = SumIn(k, OutOf(l, a, n) \cup {i \in {n + 1} : Out})
      /\ SumIn(k, PaidBy(k, a, n + 1)) = SumIn(k, PaidBy(l, a, n) \cup {i \in {n + 1} : Paid})
      /\ SumIn(k, BackTo(k, a, n + 1)) = SumIn(k, BackTo(l, a, n) \cup {i \in {n + 1} : Back})
  BY <1>2 DEF In, Out, Paid, Back
<1>8. /\ SumIn(k, InTo(k, a, n + 1)) = SumIn(l, InTo(l, a, n)) + (IF In THEN e.amount ELSE 0)
      /\ SumIn(k, OutOf(k, a, n + 1)) = SumIn(l, OutOf(l, a, n)) + (IF Out THEN e.amount ELSE 0)
      /\ SumIn(k, PaidBy(k, a, n + 1)) = SumIn(l, PaidBy(l, a, n)) + (IF Paid THEN e.amount ELSE 0)
      /\ SumIn(k, BackTo(k, a, n + 1)) = SumIn(l, BackTo(l, a, n)) + (IF Back THEN e.amount ELSE 0)
  <2>1. SumIn(k, InTo(l, a, n) \cup {i \in {n + 1} : In})
          = SumIn(l, InTo(l, a, n)) + (IF In THEN e.amount ELSE 0)
    <3> DEFINE D == {i \in {n + 1} : In}
    <3>1. D \in SUBSET {n + 1} /\ (D = {} <=> ~In)
      OBVIOUS
    <3> HIDE DEF D
    <3>2. QED
      BY <1>3, <1>6, <3>1 DEF D
  <2>2. SumIn(k, OutOf(l, a, n) \cup {i \in {n + 1} : Out})
          = SumIn(l, OutOf(l, a, n)) + (IF Out THEN e.amount ELSE 0)
    <3> DEFINE D == {i \in {n + 1} : Out}
    <3>1. D \in SUBSET {n + 1} /\ (D = {} <=> ~Out)
      OBVIOUS
    <3> HIDE DEF D
    <3>2. QED
      BY <1>3, <1>6, <3>1 DEF D
  <2>3. SumIn(k, PaidBy(l, a, n) \cup {i \in {n + 1} : Paid})
          = SumIn(l, PaidBy(l, a, n)) + (IF Paid THEN e.amount ELSE 0)
    <3> DEFINE D == {i \in {n + 1} : Paid}
    <3>1. D \in SUBSET {n + 1} /\ (D = {} <=> ~Paid)
      OBVIOUS
    <3> HIDE DEF D
    <3>2. QED
      BY <1>3, <1>6, <3>1 DEF D
  <2>4. SumIn(k, BackTo(l, a, n) \cup {i \in {n + 1} : Back})
          = SumIn(l, BackTo(l, a, n)) + (IF Back THEN e.amount ELSE 0)
    <3> DEFINE D == {i \in {n + 1} : Back}
    <3>1. D \in SUBSET {n + 1} /\ (D = {} <=> ~Back)
      OBVIOUS
    <3> HIDE DEF D
    <3>2. QED
      BY <1>3, <1>6, <3>1 DEF D
  <2>5. QED
    BY <1>7, <2>1, <2>2, <2>3, <2>4
<1> HIDE DEF e
<1>9. /\ NetOfEntry(e, a) = (IF In THEN e.amount ELSE 0) - (IF Out THEN e.amount ELSE 0)
      /\ TrackedOfEntry(e, a) = NetOfEntry(e, a)
           + 2 * ((IF Paid THEN e.amount ELSE 0) - (IF Back THEN e.amount ELSE 0))
  BY DEF NetOfEntry, TrackedOfEntry, In, Out, Paid, Back, e
<1>10. NetIn(k, a, n + 1) = NetIn(l, a, n) + NetOfEntry(e, a)
  BY <1>4, <1>8, <1>9 DEF NetIn
<1>11. Tracked(k, a, n + 1) = Tracked(l, a, n) + TrackedOfEntry(e, a)
  <2> DEFINE P == SumIn(l, PaidBy(l, a, n))
             B == SumIn(l, BackTo(l, a, n))
             p == IF Paid THEN e.amount ELSE 0
             b == IF Back THEN e.amount ELSE 0
             x == NetIn(l, a, n)
             y == NetOfEntry(e, a)
  <2>1. P \in Int /\ B \in Int /\ p \in Int /\ b \in Int /\ x \in Int /\ y \in Int
    BY <1>4, <1>9 DEF NetIn
  <2>2. Tracked(k, a, n + 1) = (x + y) + 2 * ((P + p) - (B + b))
    BY <1>8, <1>10 DEF Tracked
  <2>3. Tracked(l, a, n) = x + 2 * (P - B) /\ TrackedOfEntry(e, a) = y + 2 * (p - b)
    BY <1>9 DEF Tracked
  <2> HIDE DEF P, B, p, b, x, y
  <2>4. (x + y) + 2 * ((P + p) - (B + b)) = (x + 2 * (P - B)) + (y + 2 * (p - b))
    BY <2>1
  <2>5. QED
    BY <2>2, <2>3, <2>4
<1>12. QED
  BY <1>10, <1>11 DEF e

\* Rules that only attach to others are not fired themselves.
FiringsPostable == \A k \in DOMAIN firings : rules[firings[k].rule].type # "refund_shadow"

LEMMA PostableNext ==
    ASSUME TypeInv, FiringsPostable, [Next]_vars PROVE FiringsPostable'
<1>1. CASE UNCHANGED <<profile, firings>>
  BY <1>1 DEF FiringsPostable, rules
<1>2. CASE PlanRule
  <2>1. /\ next \in DOMAIN rules /\ rules' = rules
    BY <1>2, Types, ProfileTyped DEF TypeInv, PlanRule, rules
  <2>2. PICK drawn \in Drawn(next) : firings' = firings \o Added(next, drawn.dates)
    BY <1>2 DEF PlanRule, Added
  <2> DEFINE n == Len(firings)
             c == Len(drawn.dates)
  <2>3. /\ drawn.dates \in Seq(Int) /\ c \in Nat
    BY <2>1, DrawnLemma DEF TypeInv
  <2>4. rules[next].type = "refund_shadow" => drawn.dates = <<>>
    BY DEF Drawn, Dates
  <2>5. /\ n \in Nat /\ DOMAIN firings = 1 .. n /\ DOMAIN firings' = 1 .. n + c
        /\ \A k \in 1 .. n : firings'[k] = firings[k]
        /\ \A k \in 1 .. c : firings'[n + k].rule = next
    <3> DEFINE new == firings \o Added(next, drawn.dates)
    <3>1. n \in Nat /\ DOMAIN firings = 1 .. n
      BY Types DEF TypeInv
    <3>2. /\ new \in Seq(FiringType) /\ Len(new) = n + c
          /\ \A k \in DOMAIN firings : new[k] = firings[k]
          /\ \A k \in 1 .. c : new[n + k].rule = next
      <4>1. TypeOK /\ next \in DOMAIN rules /\ drawn.dates \in Seq(Int)
        BY <2>1, <2>3 DEF TypeInv
      <4>2. QED
        BY <4>1, AddedLemma
    <3>3. firings' = new
      BY <2>2
    <3> HIDE DEF new, n, c
    <3>4. DOMAIN new = 1 .. n + c
      BY <3>2
    <3>5. QED
      BY <3>1, <3>2, <3>3, <3>4
  <2>6. c > 0 => rules[next].type # "refund_shadow"
    BY <2>3, <2>4
  <2> HIDE DEF n, c
  <2>7. ASSUME NEW k \in 1 .. n + c PROVE rules'[firings'[k].rule].type # "refund_shadow"
    <3>1. CASE k \in 1 .. n
      BY <2>1, <2>5, <3>1 DEF FiringsPostable
    <3>2. CASE k \notin 1 .. n
      <4>1. c > 0 /\ \E j \in 1 .. c : k = n + j
        <5>1. k - n \in 1 .. c /\ k = n + (k - n)
          BY <2>3, <2>5, <3>2
        <5>2. c > 0
          BY <2>3, <5>1
        <5>3. QED
          BY <5>1, <5>2
      <4>2. firings'[k].rule = next
        BY <2>5, <4>1
      <4>3. QED
        BY <2>1, <2>6, <4>1, <4>2
    <3>3. QED
      BY <3>1, <3>2
  <2>8. QED
    BY <2>5, <2>7 DEF FiringsPostable
<1>3. CASE StartFiring
  <2> DEFINE n == Len(firings)
  <2>1. n \in Nat /\ DOMAIN firings = 1 .. n /\ rules' = rules
    BY <1>3, Types DEF TypeInv, StartFiring, rules
  <2>2. PICK q \in [1 .. n -> 1 .. n] : SortFirings(firings) = [i \in 1 .. n |-> firings[q[i]]]
    BY SortedLemma DEF TypeInv
  <2> HIDE DEF n
  <2>3. DOMAIN firings' = 1 .. n /\ \A i \in 1 .. n : q[i] \in 1 .. n /\ firings'[i] = firings[q[i]]
    BY <1>3, <2>2 DEF StartFiring
  <2>4. QED
    BY <2>1, <2>3 DEF FiringsPostable
<1>4. CASE NextMonth
  <2>1. DOMAIN firings' = {}
    BY <1>4 DEF NextMonth
  <2>2. QED
    BY <2>1 DEF FiringsPostable
<1>5. CASE ~ (PlanRule \/ StartFiring \/ NextMonth)
  <2>1. UNCHANGED <<profile, firings>>
    BY <1>5
    DEF Next, SkipFiring, RejectFiring, PostFiring, PostReaction, StartInstallments,
        KeepInstallment, PostInstallment, StartRefunds, DropRefund, KeepRefund, PostRefund,
        NotPosted, vars
  <2>2. QED
    BY <1>1, <2>1
<1>6. QED
  BY <1>2, <1>3, <1>4, <1>5

\* Amounts that fit 32 bits are sent as they are.
Int32s == -Half .. Half - 1

LEMMA RemainderOfSmall ==
    ASSUME NEW m \in Nat \ {0}, NEW x \in 0 .. m - 1 PROVE x % m = x
OBVIOUS

LEMMA Int32Fits == ASSUME NEW n \in Int32s PROVE n \in Int /\ Int32(n) = n
<1>1. Half \in Nat \ {0}
  BY SeedPlanAssumption
<1>2. n \in Int /\ 2 * Half \in Nat \ {0} /\ n + Half \in 0 .. (2 * Half) - 1
  BY <1>1 DEF Int32s
<1>3. (n + Half) % (2 * Half) = n + Half
  BY <1>2, RemainderOfSmall
<1>4. QED
  BY <1>1, <1>2, <1>3 DEF Int32

LEMMA QuotientBound ==
    ASSUME NEW x \in Nat, NEW b \in Nat \ {0}
    PROVE  x \div b \in 0 .. x /\ x - b * (x \div b) \in 0 .. b - 1
OBVIOUS

LEMMA QuotientFits ==
    ASSUME NEW a \in Int32s, NEW b \in Nat \ {0} PROVE Quotient(a, b) \in Int32s
<1>1. Half \in Nat \ {0} /\ a \in Int
  BY SeedPlanAssumption DEF Int32s
<1>2. CASE a >= 0
  <2>1. a \div b \in 0 .. a
    <3>1. a \in Nat
      BY <1>1, <1>2
    <3>2. QED
      BY <3>1, QuotientBound
  <2>2. QED
    BY <1>1, <1>2, <2>1 DEF Quotient, Int32s
<1>3. CASE a < 0
  <2>1. -a \in Nat
    BY <1>1, <1>3
  <2>2. (-a) \div b \in 0 .. -a
    BY <2>1, QuotientBound
  <2>3. Quotient(a, b) = -((-a) \div b)
    BY <1>1, <1>3 DEF Quotient
  <2> DEFINE q == (-a) \div b
  <2> HIDE DEF q
  <2>4. q \in 0 .. -a /\ Quotient(a, b) = -q
    BY <2>2, <2>3 DEF q
  <2>5. QED
    BY <1>1, <1>3, <2>4 DEF Int32s
<1>4. QED
  BY <1>1, <1>2, <1>3

\* What may still be posted of installments and refunds fits.
ListsFit ==
    /\ \A k \in DOMAIN schedule : schedule[k].amount \in Int32s
    /\ \A k \in DOMAIN refunds : refunds[k].amount \in Int32s

LEMMA ListsNext ==
    ASSUME TypeInv, ListsFit, AmountsFit, [Next]_vars PROVE ListsFit'
<1>1. CASE UNCHANGED <<schedule, refunds>>
  BY <1>1 DEF ListsFit
<1>2. CASE PostFiring
  <2>1. /\ Firing /\ AccountOf(FiredRule) \in Accounts
    BY <1>2 DEF PostFiring
  <2>2. CASE UNCHANGED <<schedule, refunds>>
    BY <1>1, <2>2
  <2>3. ASSUME ~ UNCHANGED <<schedule, refunds>> PROVE ListsFit'
    <3>1. PICK amount \in Amounts \ {0} :
            /\ ~ Panics
            /\ schedule' = schedule \o NewInstallments(amount, Len(ledger'))
            /\ refunds' = refunds \o NewRefunds(amount, Len(ledger'))
      BY <1>2, <2>3 DEF PostFiring, NotPosted
    <3>2. amount \in Int32s
      BY <2>1, <3>1 DEF AmountsFit, Int32s
    <3> DEFINE plan == profile.bnpl[AccountOf(FiredRule)]
               parts == NewInstallments(amount, Len(ledger'))
               backs == NewRefunds(amount, Len(ledger'))
    <3>3. /\ parts \in Seq(Range(parts))
          /\ \A k \in DOMAIN parts : parts[k].amount \in Int32s
      <4>1. /\ parts \in Seq(Range(parts))
            /\ plan # Null => plan.count \in Nat
            /\ \A k \in DOMAIN parts : plan # Null /\ parts[k].amount = Quotient(amount, plan.count)
        BY <2>1, NewInstallmentsLemma
      <4>2. plan # Null => plan.count # 0
        BY <3>1 DEF Panics
      <4> HIDE DEF parts, plan
      <4>3. QED
        BY <3>2, <4>1, <4>2, QuotientFits
    <3>4. /\ backs \in Seq(Range(backs))
          /\ \A k \in DOMAIN backs : backs[k].amount = amount
      BY NewRefundsLemma
    <3>5. /\ schedule \in Seq(InstallmentType(ledger)) /\ refunds \in Seq(RefundType(ledger))
          /\ schedule' = schedule \o parts /\ refunds' = refunds \o backs
      BY <3>1, Types DEF TypeInv
    <3> HIDE DEF parts, backs, plan
    <3>6. /\ DOMAIN schedule = 1 .. Len(schedule) /\ DOMAIN parts = 1 .. Len(parts)
          /\ \A k \in 1 .. Len(schedule) : schedule'[k] = schedule[k]
          /\ \A k \in 1 .. Len(parts) : schedule'[Len(schedule) + k] = parts[k]
          /\ \A k \in DOMAIN schedule' : \/ k \in 1 .. Len(schedule)
                                         \/ \E j \in 1 .. Len(parts) : k = Len(schedule) + j
      BY <3>3, <3>5, ConcatLemma
    <3>7. /\ DOMAIN refunds = 1 .. Len(refunds) /\ DOMAIN backs = 1 .. Len(backs)
          /\ \A k \in 1 .. Len(refunds) : refunds'[k] = refunds[k]
          /\ \A k \in 1 .. Len(backs) : refunds'[Len(refunds) + k] = backs[k]
          /\ \A k \in DOMAIN refunds' : \/ k \in 1 .. Len(refunds)
                                        \/ \E j \in 1 .. Len(backs) : k = Len(refunds) + j
      BY <3>4, <3>5, ConcatLemma
    <3>8. \A k \in DOMAIN schedule' : schedule'[k].amount \in Int32s
      BY <3>3, <3>6 DEF ListsFit
    <3>9. \A k \in DOMAIN refunds' : refunds'[k].amount \in Int32s
      <4>1. \A k \in 1 .. Len(refunds) : refunds'[k].amount \in Int32s
        BY <3>7 DEF ListsFit
      <4>2. ASSUME NEW j \in 1 .. Len(backs)
            PROVE  refunds'[Len(refunds) + j].amount \in Int32s
        <5>1. backs[j].amount \in Int32s
          BY <3>2, <3>4, <3>7
        <5>2. QED
          BY <3>7, <5>1
      <4>3. QED
        BY <3>7, <4>1, <4>2
    <3>10. QED
      BY <3>8, <3>9 DEF ListsFit
  <2>4. QED
    BY <2>2, <2>3
<1>3. CASE next \in DOMAIN schedule /\ schedule' = Delisted(schedule, next) /\ refunds' = refunds
  <2>1. schedule \in Seq(InstallmentType(ledger))
    BY Types DEF TypeInv
  <2>2. \A k \in DOMAIN schedule' :
          Place(next, k) \in DOMAIN schedule /\ schedule'[k] = schedule[Place(next, k)]
    BY <1>3, <2>1, DelistedLemma
  <2>3. QED
    BY <1>3, <2>2 DEF ListsFit
<1>4. CASE next \in DOMAIN refunds /\ refunds' = Delisted(refunds, next) /\ schedule' = schedule
  <2>1. refunds \in Seq(RefundType(ledger))
    BY Types DEF TypeInv
  <2>2. \A k \in DOMAIN refunds' :
          Place(next, k) \in DOMAIN refunds /\ refunds'[k] = refunds[Place(next, k)]
    BY <1>4, <2>1, DelistedLemma
  <2>3. QED
    BY <1>4, <2>2 DEF ListsFit
<1>5. CASE PostInstallment
  <2>1. next \in DOMAIN schedule
    BY <1>5, Types DEF TypeInv, PostInstallment
  <2>2. \/ UNCHANGED <<schedule, refunds>>
        \/ schedule' = Delisted(schedule, next) /\ refunds' = refunds
    BY <1>5 DEF PostInstallment, NotPosted
  <2>3. QED
    BY <1>1, <1>3, <2>1, <2>2
<1>6. CASE PostRefund \/ DropRefund
  <2>1. next \in DOMAIN refunds
    BY <1>6, Types DEF TypeInv, PostRefund, DropRefund, InRefunds
  <2>2. \/ UNCHANGED <<schedule, refunds>>
        \/ refunds' = Delisted(refunds, next) /\ schedule' = schedule
    BY <1>6 DEF PostRefund, DropRefund, NotPosted
  <2>3. QED
    BY <1>1, <1>4, <2>1, <2>2
<1>7. CASE \/ PlanRule \/ StartFiring \/ SkipFiring \/ RejectFiring \/ PostReaction
           \/ StartInstallments \/ KeepInstallment \/ StartRefunds \/ KeepRefund
           \/ NextMonth \/ UNCHANGED vars
  <2>1. UNCHANGED <<schedule, refunds>>
    BY <1>7
    DEF PlanRule, StartFiring, SkipFiring, RejectFiring, PostReaction, NotPosted,
        StartInstallments, KeepInstallment, StartRefunds, KeepRefund, NextMonth, vars
  <2>2. QED
    BY <1>1, <2>1
<1>8. QED
  BY <1>2, <1>5, <1>6, <1>7 DEF Next

\* The balances fit the first n entries.
BooksAt(n) ==
    \A a \in Accounts : balances[a] = profile.opening[a] + Tracked(ledger, a, n)

BooksInv == \E n \in KnownEntries : BooksAt(n)

\* A ledger with an entry appended, as the lemmas on sums want it.
LEMMA LongerLedger ==
    ASSUME TypeInv, NEW e \in EntryType, ledger' = Append(ledger, e)
    PROVE  /\ Longer(ledger', ledger, Len(ledger)) /\ ledger'[Len(ledger) + 1] = e
           /\ Len(ledger) \in Nat /\ Len(ledger') = Len(ledger) + 1
<1>1. /\ Len(ledger) \in Nat /\ DOMAIN ledger = 1 .. Len(ledger)
      /\ Len(ledger') = Len(ledger) + 1
      /\ DOMAIN ledger' = DOMAIN ledger \cup {Len(ledger')}
      /\ ledger'[Len(ledger')] = e
      /\ \A i \in DOMAIN ledger : ledger'[i] = ledger[i]
  BY EntryAppended
<1>2. /\ \A i \in DOMAIN ledger : ledger[i].amount \in Int
      /\ e.amount \in Int
  BY EntriesTyped, SeedPlanAssumption DEF TypeInv, EntryType
<1>3. DOMAIN ledger' = 1 .. Len(ledger) + 1
  BY <1>1
<1>4. Summed(ledger, Len(ledger)) /\ Summed(ledger', Len(ledger) + 1)
  BY <1>1, <1>2, <1>3 DEF Summed
<1>5. QED
  BY <1>1, <1>4 DEF Longer

LEMMA OneKnown ==
    ASSUME TypeInv, BooksInv, phase # "failed" PROVE BooksAt(Len(ledger))
BY DEF BooksInv, KnownEntries

LEMMA BooksKept ==
    ASSUME TypeInv, BooksInv, phase # "failed", UNCHANGED <<profile, balances>>,
           \/ ledger' = ledger
           \/ phase' = "failed" /\ \E e \in EntryType : ledger' = Append(ledger, e)
    PROVE  BooksInv'
<1>1. BooksAt(Len(ledger)) /\ Accounts' = Accounts
  BY OneKnown DEF Accounts
<1>2. CASE ledger' = ledger
  BY <1>1, <1>2 DEF BooksInv, BooksAt, KnownEntries
<1>3. ASSUME phase' = "failed", NEW e \in EntryType, ledger' = Append(ledger, e)
      PROVE  BooksInv'
  <2> DEFINE n == Len(ledger)
  <2>1. /\ Longer(ledger', ledger, n) /\ n \in Nat /\ Len(ledger') = n + 1
    BY <1>3, LongerLedger
  <2> HIDE DEF n
  <2>2. n \in KnownEntries'
    BY <1>3, <2>1 DEF KnownEntries
  <2>3. \A a : Tracked(ledger', a, n) = Tracked(ledger, a, n)
    BY <2>1, TrackedKept
  <2>4. \A a \in Accounts' : balances'[a] = profile'.opening[a] + Tracked(ledger', a, n)
    BY <1>1, <2>3 DEF BooksAt, n
  <2>5. QED
    BY <2>2, <2>4 DEF BooksInv, BooksAt
<1>4. QED
  BY <1>2, <1>3

LEMMA TrackedAppended ==
    ASSUME NEW n, Longer(ledger', ledger, n), NEW a
    PROVE  /\ NetIn(ledger', a, n + 1) = NetIn(ledger, a, n) + NetOfEntry(ledger'[n + 1], a)
           /\ Tracked(ledger', a, n + 1)
                = Tracked(ledger, a, n) + TrackedOfEntry(ledger'[n + 1], a)
           /\ n \in Nat /\ Tracked(ledger, a, n) \in Int
<1>1. Summed(ledger, n) /\ n \in Nat /\ n \in Int /\ n <= n
  BY DEF Longer, Summed
<1>2. Tracked(ledger, a, n) \in Int
  BY <1>1, TrackedType
<1>3. QED
  BY <1>1, <1>2, TrackedExtended

LEMMA BooksPosted ==
    ASSUME TypeInv, BooksInv, phase # "failed", profile' = profile,
           NEW e \in EntryType, ledger' = Append(ledger, e),
           \A a \in Accounts : balances'[a] = balances[a] + TrackedOfEntry(e, a)
    PROVE  BooksInv'
<1>1. PICK n \in Nat : n = Len(ledger)
  BY LongerLedger
<1>2. /\ Longer(ledger', ledger, n) /\ Len(ledger') = n + 1 /\ ledger'[n + 1] = e
  BY <1>1, LongerLedger
<1>3. BooksAt(n) /\ Accounts' = Accounts
  BY <1>1, OneKnown DEF Accounts
<1>4. n + 1 \in KnownEntries'
  BY <1>2 DEF KnownEntries
<1>5. ASSUME NEW a \in Accounts
      PROVE  balances'[a] = profile.opening[a] + Tracked(ledger', a, n + 1)
  <2> DEFINE o == profile.opening[a]
             t == Tracked(ledger, a, n)
             d == TrackedOfEntry(e, a)
  <2>1. o \in Int
    BY Types, ProfilesAssumption DEF TypeInv, Accounts
  <2>2. d \in Int
    <3>1. e.amount \in Int
      BY SeedPlanAssumption DEF EntryType
    <3>2. QED
      BY <3>1 DEF TrackedOfEntry, NetOfEntry
  <2>3. /\ Tracked(ledger', a, n + 1) = Tracked(ledger, a, n) + TrackedOfEntry(ledger'[n + 1], a)
        /\ Tracked(ledger, a, n) \in Int
    BY <1>2, TrackedAppended
  <2>4. balances[a] = o + t /\ balances'[a] = balances[a] + d
    BY <1>3 DEF BooksAt
  <2>5. t \in Int /\ Tracked(ledger', a, n + 1) = t + d
    BY <1>2, <2>3
  <2> HIDE DEF o, t, d
  <2>6. balances'[a] = o + (t + d)
    BY <2>1, <2>2, <2>4, <2>5
  <2>7. QED
    BY <2>5, <2>6 DEF o
<1>6. QED
  BY <1>3, <1>4, <1>5 DEF BooksInv, BooksAt

\* A rule that says which way its money goes.
Directed(rule) == rule.to # Null \/ rule.direction \in {"credit", "debit"}

\* A rule's amount is booked as it is posted.
LEMMA RuleBooked ==
    ASSUME NEW A, External \notin A, NEW rule, Postable(rule, A), Directed(rule),
           NEW b \in [A -> Int], NEW n \in Int32s, NEW kind \in {"rule", "reactive"},
           NEW r, NEW date, NEW cause, NEW a \in A
    PROVE  ApplyBalance(b, rule, n)[a]
             = b[a] + TrackedOfEntry(Entry(kind, Ends(rule), n, r, date, cause), a)
<1> DEFINE e == Entry(kind, Ends(rule), n, r, date, cause)
<1>1. /\ e.amount = n /\ n \in Int /\ b[a] \in Int
      /\ e.kind # "installment" /\ e.kind # "refund"
      /\ e.source = Ends(rule)[1] /\ e.destination = Ends(rule)[2]
  BY Int32Fits DEF Entry
<1> HIDE DEF e
<1>2. TrackedOfEntry(e, a) = (IF Ends(rule)[2] = a THEN n ELSE 0)
                               - (IF Ends(rule)[1] = a THEN n ELSE 0)
  BY <1>1 DEF TrackedOfEntry, NetOfEntry
<1>3. CASE rule.to # Null
  <2>1. rule.from \in A /\ rule.to \in A /\ Ends(rule)[1] = rule.from /\ Ends(rule)[2] = rule.to
    BY <1>3 DEF Postable, RuleTyped, Ends
  <2>2. ApplyBalance(b, rule, n)
          = [[b EXCEPT ![rule.from] = @ - n] EXCEPT ![rule.to] = @ + n]
    BY <1>3 DEF ApplyBalance
  <2>3. ApplyBalance(b, rule, n)[a]
          = (b[a] - (IF rule.from = a THEN n ELSE 0)) + (IF rule.to = a THEN n ELSE 0)
    BY <1>1, <2>1, <2>2
  <2>4. QED
    BY <1>1, <1>2, <2>1, <2>3 DEF e
<1>4. CASE rule.to = Null /\ rule.direction = "credit"
  <2>1. /\ AccountOf(rule) \in A
        /\ Ends(rule)[1] = External /\ Ends(rule)[2] = AccountOf(rule)
    BY <1>4 DEF Postable, Ends
  <2>2. ApplyBalance(b, rule, n)[a] = b[a] + (IF AccountOf(rule) = a THEN n ELSE 0)
    BY <1>1, <1>4, <2>1 DEF ApplyBalance
  <2>3. QED
    BY <1>1, <1>2, <2>1, <2>2 DEF e
<1>5. CASE rule.to = Null /\ rule.direction = "debit"
  <2>1. /\ AccountOf(rule) \in A
        /\ Ends(rule)[1] = AccountOf(rule) /\ Ends(rule)[2] = External
    BY <1>5 DEF Postable, Ends
  <2>2. ApplyBalance(b, rule, n)[a] = b[a] - (IF AccountOf(rule) = a THEN n ELSE 0)
    BY <1>1, <1>5, <2>1 DEF ApplyBalance
  <2>3. QED
    BY <1>1, <1>2, <2>1, <2>2 DEF e
<1>6. QED
  BY <1>3, <1>4, <1>5 DEF Directed

\* An installment is added where the ledger subtracts it, and a refund
\* subtracted where the ledger adds it.
LEMMA InstallmentBooked ==
    ASSUME TypeInv, NEW s, s.amount \in Int32s, NEW a \in Accounts
    PROVE  TrackedOfEntry(InstallmentEntry(s), a)
             = IF s.account = a THEN s.amount ELSE 0
<1> DEFINE e == InstallmentEntry(s)
           n == s.amount
<1>1. a # External
  BY ProfileTyped, Types DEF TypeInv
<1>2. /\ e.amount = n /\ n \in Int /\ e.kind = "installment" /\ e.kind # "refund"
      /\ e.source = s.account /\ e.destination = External
  BY Int32Fits DEF InstallmentEntry, Entry
<1> HIDE DEF e, n
<1>3. TrackedOfEntry(e, a)
        = (0 - (IF s.account = a THEN n ELSE 0))
            + 2 * ((IF s.account = a THEN n ELSE 0) - 0)
  BY <1>1, <1>2 DEF TrackedOfEntry, NetOfEntry
<1>4. QED
  BY <1>2, <1>3 DEF e, n

LEMMA RefundBooked ==
    ASSUME TypeInv, NEW pr, pr.amount \in Int32s, NEW date, NEW a \in Accounts
    PROVE  TrackedOfEntry(RefundEntry(pr, date), a)
             = IF pr.account = a THEN -pr.amount ELSE 0
<1> DEFINE e == RefundEntry(pr, date)
           n == pr.amount
<1>1. a # External
  BY ProfileTyped, Types DEF TypeInv
<1>2. /\ e.amount = n /\ n \in Int /\ e.kind = "refund" /\ e.kind # "installment"
      /\ e.source = External /\ e.destination = pr.account
  BY Int32Fits DEF RefundEntry, Entry
<1> HIDE DEF e, n
<1>3. TrackedOfEntry(e, a)
        = ((IF pr.account = a THEN n ELSE 0) - 0)
            + 2 * (0 - (IF pr.account = a THEN n ELSE 0))
  BY <1>1, <1>2 DEF TrackedOfEntry, NetOfEntry
<1>4. QED
  BY <1>2, <1>3 DEF e, n

\* The rules that are fired say which way their money goes.
LEMMA RuleDirected ==
    ASSUME DirectionsGiven, TypeInv, NEW r \in DOMAIN rules, rules[r].type # "refund_shadow"
    PROVE  Directed(rules[r])
BY Types DEF DirectionsGiven, TypeInv, rules, Directed

LEMMA BooksInit == Init => FiringsPostable /\ ListsFit /\ BooksInv
<1>1. SUFFICES ASSUME Init PROVE FiringsPostable /\ ListsFit /\ BooksInv
  OBVIOUS
<1>2. /\ TypeInv /\ DOMAIN ledger = {} /\ Len(ledger) = 0
      /\ DOMAIN firings = {} /\ DOMAIN schedule = {} /\ DOMAIN refunds = {}
      /\ balances = profile.opening
  BY <1>1, TypeInit DEF Init
<1>3. ASSUME NEW a \in Accounts
      PROVE  balances[a] = profile.opening[a] + Tracked(ledger, a, 0)
  <2>1. /\ InTo(ledger, a, 0) = {} /\ OutOf(ledger, a, 0) = {}
        /\ PaidBy(ledger, a, 0) = {} /\ BackTo(ledger, a, 0) = {}
    BY DEF InTo, OutOf, PaidBy, BackTo
  <2>2. SumIn(ledger, {}) = 0
    BY SumEmpty DEF SumIn
  <2>3. Tracked(ledger, a, 0) = 0
    BY <2>1, <2>2 DEF Tracked, NetIn
  <2>4. profile.opening[a] \in Int
    BY <1>2, Types, ProfileTyped DEF TypeInv
  <2>5. QED
    BY <1>2, <2>3, <2>4
<1>4. 0 \in KnownEntries
  BY <1>2 DEF KnownEntries
<1>5. QED
  BY <1>2, <1>3, <1>4 DEF FiringsPostable, ListsFit, BooksInv, BooksAt


LEMMA BooksFired ==
    ASSUME DirectionsGiven, TypeInv, FiringsPostable, AmountsFit, BooksInv, PostFiring
    PROVE  BooksInv'
<1>1. /\ Firing /\ AccountOf(FiredRule) \in Accounts /\ phase # "failed"
      /\ next \in DOMAIN firings /\ firings[next].rule \in DOMAIN rules
      /\ Postable(FiredRule, Accounts) /\ Amounts \subseteq Int
      /\ \A amount \in Int : FiringEntry(amount) \in EntryType
  BY FiringPosted DEF PostFiring, Firing
<1>2. PICK amount \in Amounts \ {0} :
        \/ /\ ledger' = Append(ledger, FiringEntry(amount)) /\ profile' = profile
           /\ balances' = ApplyBalance(balances, FiredRule, amount)
        \/ NotPosted(FiringEntry(amount))
  BY DEF PostFiring, Posted
<1>3. amount \in Int /\ amount \in Int32s /\ FiringEntry(amount) \in EntryType
  BY <1>1, <1>2 DEF AmountsFit, Int32s
<1>4. CASE NotPosted(FiringEntry(amount))
  BY <1>1, <1>3, <1>4, BooksKept DEF NotPosted
<1>5. CASE /\ ledger' = Append(ledger, FiringEntry(amount)) /\ profile' = profile
           /\ balances' = ApplyBalance(balances, FiredRule, amount)
  <2>1. Directed(FiredRule)
    BY <1>1, RuleDirected DEF FiringsPostable, FiredRule
  <2>2. External \notin Accounts /\ balances \in [Accounts -> Int]
    BY ProfileTyped, Types DEF TypeInv
  <2>3. ASSUME NEW a \in Accounts
        PROVE  balances'[a] = balances[a] + TrackedOfEntry(FiringEntry(amount), a)
    <3>1. FiringEntry(amount) = Entry("rule", Ends(FiredRule), amount, firings[next].rule,
                                      firings[next].date, 0)
      BY DEF FiringEntry, FiredRule
    <3>2. ApplyBalance(balances, FiredRule, amount)[a]
            = balances[a] + TrackedOfEntry(Entry("rule", Ends(FiredRule), amount,
                                 firings[next].rule, firings[next].date, 0), a)
      BY <1>1, <1>3, <2>1, <2>2, RuleBooked
    <3>3. QED
      BY <1>5, <3>1, <3>2
  <2>4. QED
    BY <1>1, <1>3, <1>5, <2>3, BooksPosted
<1>6. QED
  BY <1>2, <1>4, <1>5

LEMMA BooksReacted ==
    ASSUME DirectionsGiven, TypeInv, AmountsFit, BooksInv, PostReaction
    PROVE  BooksInv'
<1> DEFINE rule == rules[Head(queue)]
<1>1. /\ queue # <<>> /\ phase = "fire" /\ Head(queue) \in DOMAIN rules
      /\ Postable(rule, Accounts) /\ rule.type = "reactive_pct"
      /\ ReactionEntry \in EntryType
  <2>1. queue # <<>> /\ phase = "fire"
    BY DEF PostReaction
  <2>2. rule.type = "reactive_pct"
    <3>1. queue \in Seq(DOMAIN rules)
      BY Types DEF TypeInv
    <3>2. 1 \in DOMAIN queue /\ Head(queue) = queue[1]
      BY <2>1, <3>1
    <3>3. QED
      BY <3>2 DEF TypeInv, QueueTriggered
  <2>3. QED
    BY <2>1, <2>2, ReactionPosted
<1>2. ReactionAmount \in Int32s
  BY <1>1 DEF AmountsFit, Int32s
<1>3. CASE NotPosted(ReactionEntry)
  BY <1>1, <1>3, BooksKept DEF NotPosted
<1>4. CASE /\ ledger' = Append(ledger, ReactionEntry) /\ profile' = profile
           /\ balances' = ApplyBalance(balances, rule, ReactionAmount)
  <2>1. Directed(rule)
    BY <1>1, RuleDirected
  <2>2. External \notin Accounts /\ balances \in [Accounts -> Int]
    BY ProfileTyped, Types DEF TypeInv
  <2> DEFINE date == ledger[trigger.entry].date
  <2>3. ReactionEntry = Entry("reactive", Ends(rule), ReactionAmount, Head(queue), date,
                              trigger.entry)
    BY DEF ReactionEntry
  <2> HIDE DEF rule, date
  <2>4. ASSUME NEW a \in Accounts
        PROVE  balances'[a] = balances[a] + TrackedOfEntry(ReactionEntry, a)
    <3>1. ApplyBalance(balances, rule, ReactionAmount)[a]
            = balances[a] + TrackedOfEntry(Entry("reactive", Ends(rule), ReactionAmount,
                                 Head(queue), date, trigger.entry), a)
      BY <1>1, <1>2, <2>1, <2>2, RuleBooked
    <3>2. QED
      BY <1>4, <2>3, <3>1
  <2>5. QED
    BY <1>1, <1>4, <2>4, BooksPosted
<1>5. QED
  BY <1>3, <1>4 DEF PostReaction, Posted

LEMMA BooksInstallment ==
    ASSUME TypeInv, ListsFit, BooksInv, PostInstallment PROVE BooksInv'
<1> DEFINE s == schedule[next]
           e == InstallmentEntry(s)
<1>1. /\ next \in DOMAIN schedule /\ phase # "failed" /\ e \in EntryType
      /\ s.account \in Accounts /\ s.amount \in Int32s
  <2>1. next \in DOMAIN schedule /\ phase # "failed"
    BY Types DEF PostInstallment, TypeInv
  <2>2. QED
    BY <2>1, InstallmentPosted, InstallmentsTyped DEF TypeInv, ListsFit
<1>2. \/ /\ ledger' = Append(ledger, e) /\ profile' = profile
         /\ balances' = [balances EXCEPT ![s.account] = @ + s.amount]
      \/ NotPosted(e)
  BY DEF PostInstallment, Posted
<1>3. \A a \in Accounts : TrackedOfEntry(e, a) = IF s.account = a THEN s.amount ELSE 0
  BY <1>1, InstallmentBooked
<1> HIDE DEF e, s
<1>4. CASE NotPosted(e)
  BY <1>1, <1>4, BooksKept DEF NotPosted
<1>5. CASE /\ ledger' = Append(ledger, e) /\ profile' = profile
           /\ balances' = [balances EXCEPT ![s.account] = @ + s.amount]
  <2>1. balances \in [Accounts -> Int] /\ s.amount \in Int
    BY <1>1, Int32Fits, Types DEF TypeInv
  <2>2. \A a \in Accounts : balances'[a] = balances[a] + TrackedOfEntry(e, a)
    BY <1>1, <1>3, <1>5, <2>1
  <2>3. QED
    BY <1>1, <1>5, <2>2, BooksPosted
<1>6. QED
  BY <1>2, <1>4, <1>5

LEMMA BooksRefund ==
    ASSUME TypeInv, ListsFit, BooksInv, PostRefund PROVE BooksInv'
<1> DEFINE pr == refunds[next]
<1>1. next \in DOMAIN refunds /\ phase # "failed"
  BY Types DEF PostRefund, InRefunds, TypeInv
<1>2. pr.account \in Accounts /\ pr.amount \in Int32s
  BY <1>1, RefundsTyped DEF TypeInv, ListsFit
<1>3. PICK date \in RefundDates(pr) :
        \/ /\ ledger' = Append(ledger, RefundEntry(pr, date)) /\ profile' = profile
           /\ balances' = [balances EXCEPT ![pr.account] = @ - pr.amount]
        \/ NotPosted(RefundEntry(pr, date))
  BY DEF PostRefund, Posted
<1> DEFINE e == RefundEntry(pr, date)
<1>4. e \in EntryType
  BY <1>1, RefundPosted
<1>5. \A a \in Accounts : TrackedOfEntry(e, a) = IF pr.account = a THEN -pr.amount ELSE 0
  BY <1>2, RefundBooked
<1>6. \/ /\ ledger' = Append(ledger, e) /\ profile' = profile
         /\ balances' = [balances EXCEPT ![pr.account] = @ - pr.amount]
      \/ NotPosted(e)
  BY <1>3
<1> HIDE DEF e, pr
<1>7. CASE NotPosted(e)
  BY <1>1, <1>4, <1>7, BooksKept DEF NotPosted
<1>8. CASE /\ ledger' = Append(ledger, e) /\ profile' = profile
           /\ balances' = [balances EXCEPT ![pr.account] = @ - pr.amount]
  <2>1. balances \in [Accounts -> Int] /\ pr.amount \in Int
    BY <1>2, Int32Fits, Types DEF TypeInv
  <2>2. \A a \in Accounts : balances'[a] = balances[a] + TrackedOfEntry(e, a)
    BY <1>2, <1>5, <1>8, <2>1
  <2>3. QED
    BY <1>1, <1>4, <1>8, <2>2, BooksPosted
<1>9. QED
  BY <1>6, <1>7, <1>8

LEMMA BooksNext ==
    ASSUME DirectionsGiven, TypeInv, FiringsPostable, ListsFit, AmountsFit, BooksInv,
           [Next]_vars
    PROVE  BooksInv'
<1>1. CASE UNCHANGED vars
  BY <1>1 DEF vars, BooksInv, BooksAt, KnownEntries, Accounts
<1>2. CASE \/ PlanRule \/ StartFiring \/ SkipFiring \/ RejectFiring
           \/ StartInstallments \/ KeepInstallment \/ StartRefunds \/ KeepRefund
           \/ DropRefund \/ NextMonth
  <2>1. UNCHANGED <<profile, balances>> /\ ledger' = ledger /\ phase # "failed"
    BY <1>2
    DEF PlanRule, StartFiring, SkipFiring, RejectFiring, Firing, StartInstallments,
        KeepInstallment, StartRefunds, KeepRefund, DropRefund, InRefunds, NextMonth
  <2>2. QED
    BY <2>1, BooksKept
<1>3. QED
  BY <1>1, <1>2, BooksFired, BooksReacted, BooksInstallment, BooksRefund DEF Next

\* What the property says of the books.
LEMMA BooksSay ==
    ASSUME TypeInv, BooksInv PROVE BalancesFollowLedger
<1>1. PICK n \in KnownEntries : BooksAt(n)
  BY DEF BooksInv
<1>2. n \in Int /\ n <= Len(ledger) /\ Summed(ledger, Len(ledger))
  <2>1. Len(ledger) \in Nat /\ DOMAIN ledger = 1 .. Len(ledger)
    BY Types DEF TypeInv
  <2>2. n \in Int /\ n <= Len(ledger)
    BY <2>1 DEF KnownEntries
  <2>3. \A i \in DOMAIN ledger : ledger[i].amount \in Int
    BY EntriesTyped DEF TypeInv
  <2>4. QED
    BY <2>1, <2>2, <2>3 DEF Summed
<1>3. ASSUME NEW a \in Accounts
      PROVE  balances[a] = NetOf(a, n) + profile.opening[a] + 2 * Reversed(a, n)
  <2>1. \A S : Sum(S) = SumIn(ledger, S)
    BY DEF Sum, SumIn
  <2>2. /\ {i \in OfKind("installment") \cap 1 .. n : ledger[i].source = a} = PaidBy(ledger, a, n)
        /\ {i \in OfKind("refund") \cap 1 .. n : ledger[i].destination = a} = BackTo(ledger, a, n)
    <3>1. DOMAIN ledger = 1 .. Len(ledger) /\ Len(ledger) \in Nat
      BY Types DEF TypeInv
    <3>2. 1 .. n \subseteq DOMAIN ledger
      BY <1>2, <3>1
    <3>3. QED
      BY <3>2 DEF OfKind, PaidBy, BackTo
  <2>3. NetOf(a, n) = NetIn(ledger, a, n)
    BY <2>1 DEF NetOf, NetIn, InTo, OutOf
  <2>4. Reversed(a, n) = SumIn(ledger, PaidBy(ledger, a, n)) - SumIn(ledger, BackTo(ledger, a, n))
    BY <2>1, <2>2 DEF Reversed
  <2>5. Tracked(ledger, a, n) = NetOf(a, n) + 2 * Reversed(a, n)
    BY <2>3, <2>4 DEF Tracked
  <2>6. profile.opening[a] \in Int /\ NetOf(a, n) \in Int /\ Reversed(a, n) \in Int
    <3>1. NetIn(ledger, a, n) \in Int
      BY <1>2, TrackedType
    <3>2. profile.opening[a] \in Int
      BY ProfileTyped, Types DEF TypeInv
    <3>3. /\ PaidBy(ledger, a, n) \in SUBSET (1 .. Len(ledger))
          /\ BackTo(ledger, a, n) \in SUBSET (1 .. Len(ledger))
      BY <1>2, Types DEF PaidBy, BackTo, TypeInv
    <3>4. /\ SumIn(ledger, PaidBy(ledger, a, n)) \in Int
          /\ SumIn(ledger, BackTo(ledger, a, n)) \in Int
      BY <1>2, <3>3, SumInType
    <3>5. QED
      BY <2>3, <2>4, <3>1, <3>2, <3>4
  <2>7. balances[a] = profile.opening[a] + Tracked(ledger, a, n)
    BY <1>1 DEF BooksAt
  <2>8. QED
    BY <2>5, <2>6, <2>7
<1>4. QED
  BY <1>3 DEF BalancesFollowLedger

\* The seeder's balances follow the ledger, their opening and the sign of
\* installments and refunds apart, as long as no amount is cut off on its way
\* and every rule says which way its money goes.
THEOREM BalancesFollow ==
    ASSUME DirectionsGiven PROVE Spec /\ []AmountsFit => []BalancesFollowLedger
<1> DEFINE Inv == TypeInv /\ FiringsPostable /\ ListsFit /\ BooksInv
<1>1. Init => Inv
  BY TypeInit, BooksInit
<1>2. Inv /\ AmountsFit /\ [Next]_vars => Inv'
  BY TypeNext, PostableNext, ListsNext, BooksNext
<1>3. Inv => BalancesFollowLedger
  BY BooksSay
<1> HIDE DEF Inv
<1>4. QED
  BY <1>1, <1>2, <1>3, PTL DEF Spec


\* Among the first i entries of l, neither an installment nor a refund is a's.
PlainIn(l, a, i) ==
    \A j \in 1 .. i : l[j].kind \in {"installment", "refund"} =>
      l[j].source # a /\ l[j].destination # a

\* A settling rule's entry i leaves its account at zero, its opening balance
\* counted: the ledger, which never got that, is left at minus as much.
Settles(l, rs, opening, i) ==
    LET a == rs[l[i].rule].amount.account
    IN  /\ l[i].kind = "rule" /\ rs[l[i].rule].amount.mode = "settle" /\ PlainIn(l, a, i)
        => l[i].rule \in DOMAIN rs /\ opening[a] + NetIn(l, a, i) = 0

SettledInv == \A i \in DOMAIN ledger : Settles(ledger, rules, profile.opening, i)

LEMMA SettlesKept ==
    ASSUME NEW k, NEW l, NEW n, Longer(k, l, n), NEW rs, NEW opening, NEW i \in 1 .. n,
           Settles(l, rs, opening, i)
    PROVE  Settles(k, rs, opening, i)
<1>1. n \in Nat /\ i \in Int /\ i <= n /\ k[i] = l[i] /\ \A j \in 1 .. i : k[j] = l[j]
  BY DEF Longer, Summed
<1> DEFINE a == rs[l[i].rule].amount.account
<1>2. NetIn(k, a, i) = NetIn(l, a, i)
  <2> HIDE DEF a
  <2>1. QED
    BY <1>1, TrackedKept
<1>3. PlainIn(k, a, i) <=> PlainIn(l, a, i)
  BY <1>1 DEF PlainIn
<1>4. QED
  BY <1>1, <1>2, <1>3 DEF Settles

\* The ledger grows by an entry that settles, or needs not.
LEMMA SettledAppended ==
    ASSUME TypeInv, SettledInv, profile' = profile, NEW e \in EntryType,
           ledger' = Append(ledger, e),
           Settles(ledger', rules, profile.opening, Len(ledger) + 1)
    PROVE  SettledInv'
<1>1. PICK n \in Nat : n = Len(ledger)
  BY LongerLedger
<1>2. Longer(ledger', ledger, n) /\ DOMAIN ledger = 1 .. n /\ DOMAIN ledger' = 1 .. n + 1
  <2>1. Longer(ledger', ledger, n)
    BY <1>1, LongerLedger
  <2>2. QED
    BY <2>1 DEF Longer, Summed
<1>3. rules' = rules /\ profile'.opening = profile.opening
  BY DEF rules
<1>4. ASSUME NEW i \in 1 .. n PROVE Settles(ledger', rules, profile.opening, i)
  <2>1. Settles(ledger, rules, profile.opening, i)
    BY <1>2 DEF SettledInv
  <2>2. QED
    BY <1>2, <2>1, SettlesKept
<1>5. ASSUME NEW i \in 1 .. n + 1 PROVE Settles(ledger', rules, profile.opening, i)
  <2>1. CASE i \in 1 .. n
    BY <1>4, <2>1
  <2>2. CASE i = n + 1
    BY <1>1, <2>2
  <2>3. QED
    BY <2>1, <2>2
<1>6. QED
  BY <1>2, <1>3, <1>5 DEF SettledInv

\* A settling rule pays what its account is short of, no matter whether the
\* answer to its POST arrives.
LEMMA SettledFired ==
    ASSUME SettlingPaysIn, TypeInv, AmountsFit, BooksInv, SettledInv, Firing,
           AccountOf(FiredRule) \in Accounts, NEW amount \in Amounts \ {0},
           profile' = profile, ledger' = Append(ledger, FiringEntry(amount))
    PROVE  SettledInv'
<1> DEFINE e == FiringEntry(amount)
           spec == FiredRule.amount
           a == spec.account
<1>1. /\ phase = "fire" /\ firings[next].rule \in DOMAIN rules
      /\ Postable(FiredRule, Accounts) /\ e \in EntryType /\ amount \in Int32s
  <2>1. Amounts \subseteq Int /\ amount \in Amounts
    BY FiringPosted
  <2>2. amount \in Int32s /\ amount \in Int
    BY <2>1 DEF AmountsFit, Int32s
  <2>3. QED
    BY <2>2, FiringPosted DEF Firing
<1>2. /\ e.kind = "rule" /\ rules[e.rule] = FiredRule /\ e.amount = amount
      /\ e.rule \in DOMAIN rules
      /\ e.source = Ends(FiredRule)[1] /\ e.destination = Ends(FiredRule)[2]
  BY <1>1, Int32Fits DEF FiringEntry, Entry, FiredRule
<1>3. PICK n \in Nat : n = Len(ledger)
  BY LongerLedger, <1>1
<1>4. Longer(ledger', ledger, n) /\ ledger'[n + 1] = e
  BY <1>1, <1>3, LongerLedger
<1>5. BooksAt(n)
  BY <1>1, <1>3, OneKnown
<1> HIDE DEF e
<1>6. ASSUME spec.mode = "settle", PlainIn(ledger', a, n + 1)
      PROVE  profile.opening[a] + NetIn(ledger', a, n + 1) = 0
  <2>1. /\ a \in Accounts /\ External \notin Accounts
        /\ balances[a] \in Int /\ profile.opening[a] \in Int
    BY <1>1, <1>6, ProfileTyped, Types DEF TypeInv, Postable, RuleTyped
  <2>2. amount = -balances[a]
    BY <1>6, <2>1 DEF Amounts, ResolveAmount, Outstanding
  <2>3. e.destination = a /\ e.source # a
    <3>1. IF FiredRule.to # Null THEN FiredRule.to = a /\ FiredRule.from # FiredRule.to
          ELSE FiredRule.direction = "credit" /\ AccountOf(FiredRule) = a
      BY <1>1, <1>6, Types DEF SettlingPaysIn, TypeInv, FiredRule, rules
    <3>2. QED
      BY <1>2, <2>1, <3>1 DEF Ends
  <2>4. NetOfEntry(e, a) = amount
    BY <1>2, <2>1, <2>2, <2>3 DEF NetOfEntry
  <2>5. /\ NetIn(ledger', a, n + 1) = NetIn(ledger, a, n) + amount
        /\ NetIn(ledger, a, n) \in Int
    <3>1. Summed(ledger, n) /\ n \in Int /\ n <= n
      BY <1>4 DEF Longer
    <3>2. NetIn(ledger, a, n) \in Int
      BY <3>1, TrackedType
    <3>3. NetIn(ledger', a, n + 1) = NetIn(ledger, a, n) + NetOfEntry(ledger'[n + 1], a)
      <4> HIDE DEF a
      <4>1. QED
        BY <1>4, TrackedAppended
    <3>4. QED
      BY <1>4, <2>4, <3>2, <3>3
  <2>6. PaidBy(ledger, a, n) = {} /\ BackTo(ledger, a, n) = {}
    <3>1. \A j \in 1 .. n : ledger'[j] = ledger[j]
      BY <1>4 DEF Longer
    <3>2. \A j \in 1 .. n : j \in 1 .. n + 1
      BY <1>3
    <3>3. QED
      BY <1>6, <3>1, <3>2 DEF PlainIn, PaidBy, BackTo
  <2>7. Tracked(ledger, a, n) = NetIn(ledger, a, n)
    <3>1. SumIn(ledger, {}) = 0
      BY SumEmpty DEF SumIn
    <3>2. QED
      BY <2>5, <2>6, <3>1 DEF Tracked
  <2>8. balances[a] = profile.opening[a] + NetIn(ledger, a, n)
    BY <1>5, <2>1, <2>7 DEF BooksAt
  <2> DEFINE b == balances[a]
             o == profile.opening[a]
             x == NetIn(ledger, a, n)
  <2>9. b \in Int /\ o \in Int /\ x \in Int /\ b = o + x
    BY <2>1, <2>5, <2>8
  <2> HIDE DEF b, o, x
  <2>10. o + (x + (-b)) = 0
    BY <2>9
  <2>11. QED
    BY <2>2, <2>5, <2>10 DEF b, o, x
<1>7. Settles(ledger', rules, profile.opening, n + 1)
  BY <1>2, <1>4, <1>6 DEF Settles
<1>8. QED
  BY <1>1, <1>3, <1>7, SettledAppended DEF e

LEMMA SettledOther ==
    ASSUME TypeInv, SettledInv, profile' = profile,
           \/ ledger' = ledger
           \/ \E e \in EntryType : e.kind # "rule" /\ ledger' = Append(ledger, e)
    PROVE  SettledInv'
<1>1. CASE ledger' = ledger
  BY <1>1 DEF SettledInv, rules
<1>2. ASSUME NEW e \in EntryType, e.kind # "rule", ledger' = Append(ledger, e)
      PROVE  SettledInv'
  <2>1. ledger'[Len(ledger) + 1].kind # "rule"
    BY <1>2, LongerLedger
  <2>2. Settles(ledger', rules, profile.opening, Len(ledger) + 1)
    BY <2>1 DEF Settles
  <2>3. QED
    BY <1>2, <2>2, SettledAppended
<1>3. QED
  BY <1>1, <1>2

LEMMA SettledNext ==
    ASSUME SettlingPaysIn, TypeInv, AmountsFit, BooksInv, SettledInv, [Next]_vars
    PROVE  SettledInv'
<1>1. CASE \/ PlanRule \/ StartFiring \/ SkipFiring \/ RejectFiring
           \/ StartInstallments \/ KeepInstallment \/ StartRefunds \/ KeepRefund
           \/ DropRefund \/ NextMonth \/ UNCHANGED vars
  <2>1. profile' = profile /\ ledger' = ledger
    BY <1>1
    DEF PlanRule, StartFiring, SkipFiring, RejectFiring, StartInstallments,
        KeepInstallment, StartRefunds, KeepRefund, DropRefund, NextMonth, vars
  <2>2. QED
    BY <2>1, SettledOther
<1>2. CASE PostFiring
  <2>1. Firing /\ AccountOf(FiredRule) \in Accounts
    BY <1>2 DEF PostFiring
  <2>2. PICK amount \in Amounts \ {0} :
          /\ profile' = profile
          /\ ledger' = ledger \/ ledger' = Append(ledger, FiringEntry(amount))
    BY <1>2 DEF PostFiring, Posted, NotPosted
  <2>3. QED
    BY <2>1, <2>2, SettledFired, SettledOther
<1>3. CASE PostReaction
  <2>1. ReactionEntry \in EntryType /\ ReactionEntry.kind # "rule"
    BY <1>3, ReactionPosted DEF PostReaction, ReactionEntry, Entry
  <2>2. /\ profile' = profile
        /\ ledger' = ledger \/ ledger' = Append(ledger, ReactionEntry)
    BY <1>3 DEF PostReaction, Posted, NotPosted
  <2>3. QED
    BY <2>1, <2>2, SettledOther
<1>4. CASE PostInstallment
  <2> DEFINE e == InstallmentEntry(schedule[next])
  <2>1. e \in EntryType /\ e.kind # "rule"
    <3>1. next \in DOMAIN schedule
      BY <1>4, Types DEF PostInstallment, TypeInv
    <3>2. QED
      BY <3>1, InstallmentPosted DEF InstallmentEntry, Entry
  <2>2. profile' = profile /\ (ledger' = ledger \/ ledger' = Append(ledger, e))
    BY <1>4 DEF PostInstallment, Posted, NotPosted
  <2> HIDE DEF e
  <2>3. QED
    BY <2>1, <2>2, SettledOther
<1>5. CASE PostRefund
  <2>1. PICK date \in RefundDates(refunds[next]) :
          /\ profile' = profile
          /\ \/ ledger' = ledger
             \/ ledger' = Append(ledger, RefundEntry(refunds[next], date))
    BY <1>5 DEF PostRefund, Posted, NotPosted
  <2> DEFINE e == RefundEntry(refunds[next], date)
  <2>2. e \in EntryType /\ e.kind # "rule"
    <3>1. next \in DOMAIN refunds
      BY <1>5, Types DEF PostRefund, InRefunds, TypeInv
    <3>2. QED
      BY <3>1, RefundPosted DEF RefundEntry, Entry
  <2> HIDE DEF e
  <2>3. ledger' = ledger \/ ledger' = Append(ledger, e)
    BY <2>1 DEF e
  <2>4. QED
    BY <2>1, <2>2, <2>3, SettledOther
<1>6. QED
  BY <1>1, <1>2, <1>3, <1>4, <1>5 DEF Next

LEMMA SettledSay ==
    ASSUME SettledOpenAtZero, TypeInv, SettledInv PROVE SettledInFull
<1>1. \A S : Sum(S) = SumIn(ledger, S)
  BY DEF Sum, SumIn
<1>2. \A a, n : NetOf(a, n) = NetIn(ledger, a, n)
  BY <1>1 DEF NetOf, NetIn, InTo, OutOf
<1>3. ASSUME NEW i \in DOMAIN ledger, NEW a, Plain(a, i) PROVE PlainIn(ledger, a, i)
  <2>1. 1 .. i \subseteq DOMAIN ledger
    BY Types DEF TypeInv
  <2>2. QED
    BY <1>3, <2>1 DEF Plain, PlainIn, OfKind
<1>4. ASSUME NEW i \in OfKind("rule"), rules[ledger[i].rule].amount.mode = "settle",
             Plain(rules[ledger[i].rule].amount.account, i)
      PROVE  NetOf(rules[ledger[i].rule].amount.account, i) = 0
  <2> DEFINE a == rules[ledger[i].rule].amount.account
  <2>1. i \in DOMAIN ledger /\ ledger[i].kind = "rule"
    BY DEF OfKind
  <2>2. ledger[i].rule \in DOMAIN rules /\ profile.opening[a] + NetIn(ledger, a, i) = 0
    <3>1. Settles(ledger, rules, profile.opening, i) /\ PlainIn(ledger, a, i)
      BY <1>3, <1>4, <2>1 DEF SettledInv
    <3>2. QED
      BY <1>4, <2>1, <3>1 DEF Settles
  <2>3. profile.opening[a] = 0
    <3>1. profile \in Profiles
      BY Types DEF TypeInv
    <3>2. QED
      BY <1>4, <2>2, <3>1 DEF SettledOpenAtZero, rules
  <2>4. NetIn(ledger, a, i) \in Int
    <3>1. DOMAIN ledger = 1 .. Len(ledger) /\ Len(ledger) \in Nat
      BY Types DEF TypeInv
    <3>2. \A j \in DOMAIN ledger : ledger[j].amount \in Int
      BY EntriesTyped DEF TypeInv
    <3>3. Summed(ledger, Len(ledger)) /\ i \in Int /\ i <= Len(ledger)
      BY <2>1, <3>1, <3>2 DEF Summed
    <3>4. QED
      BY <3>3, TrackedType
  <2>5. QED
    BY <1>2, <2>2, <2>3, <2>4
<1>5. QED
  BY <1>4 DEF SettledInFull

\* A settling rule that pays into its account leaves it at zero in the ledger,
\* whatever was posted before, if the account opens at zero and no amount is
\* cut off on its way.
THEOREM SettlesInFull ==
    ASSUME DirectionsGiven, SettlingPaysIn, SettledOpenAtZero
    PROVE  Spec /\ []AmountsFit => []SettledInFull
<1> DEFINE Inv == TypeInv /\ FiringsPostable /\ ListsFit /\ BooksInv /\ SettledInv
<1>1. Init => Inv
  <2>1. Init => SettledInv
    BY DEF Init, SettledInv
  <2>2. QED
    BY <2>1, TypeInit, BooksInit
<1>2. Inv /\ AmountsFit /\ [Next]_vars => Inv'
  BY TypeNext, PostableNext, ListsNext, BooksNext, SettledNext
<1>3. Inv => SettledInFull
  BY SettledSay
<1> HIDE DEF Inv
<1>4. QED
  BY <1>1, <1>2, <1>3, PTL DEF Spec


--------------------------------------------------------------------------------
\* What the parts of a purchase come to

\* The purchases of a ledger l made with profile p, the number of parts of one,
\* and what each part comes to.
Bought(l, p) ==
    {c \in DOMAIN l : l[c].kind = "rule" /\ p.bnpl[AccountOf(p.rules[l[c].rule])] # Null}
Count(l, p, c) == p.bnpl[AccountOf(p.rules[l[c].rule])].count
Part(l, p, c)  == Quotient(l[c].amount, Count(l, p, c))

\* The parts of a purchase are equal, whether posted or in the list s to come.
EqualIn(l, s, p) ==
    /\ \A c \in Bought(l, p) : Count(l, p, c) \in Nat \ {0} /\ l[c].amount \in Nat
    /\ \A i \in DOMAIN l : l[i].kind = "installment" /\ l[i].cause \in Bought(l, p) =>
         l[i].amount = Part(l, p, l[i].cause)
    /\ \A k \in DOMAIN s : s[k].cause \in Bought(l, p) => s[k].amount = Part(l, p, s[k].cause)

PartsEqual == phase # "failed" => EqualIn(ledger, schedule, profile)

\* No firing is posted for less than nothing.
LEMMA AmountsNat ==
    ASSUME AmountsNotNegative, TypeInv, Firing, AccountOf(FiredRule) \in Accounts
    PROVE  Amounts \subseteq Nat
<1> DEFINE spec == FiredRule.amount
<1>1. /\ RuleTyped(FiredRule, Accounts) /\ firings[next].rule \in DOMAIN rules
      /\ profile \in Profiles
  BY FiringPosted, Types DEF Postable, TypeInv
<1>2. /\ spec.min \in Int /\ spec.max \in Int /\ spec.min >= 0
      /\ spec.mode = "settle" => balances[spec.account] \in Int
  BY <1>1, Types DEF RuleTyped, AmountsNotNegative, FiredRule, rules, TypeInv
<1> HIDE DEF spec
<1>3. RandInt(spec.min, spec.max) \subseteq Nat
  BY <1>2 DEF RandInt
<1>4. spec.mode = "settle" => Outstanding(balances[spec.account]) \subseteq Nat
  BY <1>2 DEF Outstanding
<1>5. ResolveAmount(spec, balances) \subseteq Nat
  BY <1>2, <1>3, <1>4 DEF ResolveAmount
<1>6. QED
  BY <1>5 DEF Amounts, spec

LEMMA EqualInit == Init => PartsEqual
BY DEF Init, PartsEqual, EqualIn, Bought

\* One more entry leaves the parts equal, if it is no unequal part itself.
LEMMA EqualLonger ==
    ASSUME NEW l, NEW n, NEW k, Longer(k, l, n), NEW s, NEW p, EqualIn(l, s, p),
           \A i \in 1 .. n + 1 : k[i].cause \in Nat /\ k[i].cause < i,
           \A j \in DOMAIN s : s[j].cause \in 1 .. n,
           n + 1 \in Bought(k, p) => Count(k, p, n + 1) \in Nat \ {0} /\ k[n + 1].amount \in Nat,
           k[n + 1].kind = "installment" /\ k[n + 1].cause \in Bought(l, p) =>
             k[n + 1].amount = Part(l, p, k[n + 1].cause)
    PROVE  EqualIn(k, s, p)
<1>1. /\ n \in Nat /\ DOMAIN l = 1 .. n /\ DOMAIN k = 1 .. n + 1
      /\ \A i \in 1 .. n : k[i] = l[i] /\ i \in DOMAIN k
  BY DEF Longer, Summed
<1>2. /\ \A c \in 1 .. n : Count(k, p, c) = Count(l, p, c) /\ Part(k, p, c) = Part(l, p, c)
      /\ \A c \in 1 .. n : c \in Bought(k, p) <=> c \in Bought(l, p)
  BY <1>1 DEF Count, Part, Bought
<1>3. Bought(l, p) \subseteq 1 .. n /\ Bought(k, p) \subseteq 1 .. n + 1
  BY <1>1 DEF Bought
<1>4. ASSUME NEW c \in Bought(k, p) PROVE Count(k, p, c) \in Nat \ {0} /\ k[c].amount \in Nat
  <2>1. CASE c = n + 1
    BY <1>4, <2>1
  <2>2. CASE c \in 1 .. n
    BY <1>1, <1>2, <1>4, <2>2 DEF EqualIn
  <2>3. QED
    BY <1>1, <1>3, <2>1, <2>2
<1>5. ASSUME NEW i \in DOMAIN k, k[i].kind = "installment", k[i].cause \in Bought(k, p)
      PROVE  k[i].amount = Part(k, p, k[i].cause)
  <2>1. k[i].cause \in 1 .. n
    BY <1>1, <1>3, <1>5
  <2>2. k[i].cause \in Bought(l, p) /\ Part(k, p, k[i].cause) = Part(l, p, k[i].cause)
    BY <1>2, <1>5, <2>1
  <2>3. CASE i = n + 1
    BY <1>5, <2>2, <2>3
  <2>4. CASE i \in 1 .. n
    <3>1. k[i] = l[i] /\ i \in DOMAIN l
      BY <1>1, <2>4
    <3>2. l[i].amount = Part(l, p, l[i].cause)
      BY <1>5, <2>2, <3>1 DEF EqualIn
    <3>3. QED
      BY <2>2, <3>1, <3>2
  <2>5. QED
    BY <1>1, <2>3, <2>4
<1>6. ASSUME NEW j \in DOMAIN s, s[j].cause \in Bought(k, p)
      PROVE  s[j].amount = Part(k, p, s[j].cause)
  BY <1>2, <1>6 DEF EqualIn
<1>7. QED
  BY <1>4, <1>5, <1>6 DEF EqualIn

\* A list of the same installments, or of equal ones.
LEMMA EqualListed ==
    ASSUME NEW l, NEW s, NEW p, EqualIn(l, s, p), NEW t,
           \A j \in DOMAIN t : \/ \E k \in DOMAIN s : t[j] = s[k]
                               \/ t[j].amount = Part(l, p, t[j].cause)
    PROVE  EqualIn(l, t, p)
BY DEF EqualIn

\* What the ledger and the list offer to these.
LEMMA EqualPosted ==
    ASSUME TypeInv, CausesBack, PartsEqual, phase # "failed", NEW e \in EntryType,
           e.cause \in {0} \cup DOMAIN ledger, ledger' = Append(ledger, e),
           e.kind = "rule" /\ profile.bnpl[AccountOf(rules[e.rule])] # Null =>
             /\ profile.bnpl[AccountOf(rules[e.rule])].count \in Nat \ {0}
             /\ e.amount \in Nat,
           e.kind = "installment" /\ e.cause \in Bought(ledger, profile) =>
             e.amount = Part(ledger, profile, e.cause)
    PROVE  EqualIn(ledger', schedule, profile)
<1>1. PICK n \in Nat : n = Len(ledger)
  BY LongerLedger
<1>2. Longer(ledger', ledger, n) /\ ledger'[n + 1] = e /\ Len(ledger') = n + 1
  BY <1>1, LongerLedger
<1>3. /\ DOMAIN ledger = 1 .. n /\ DOMAIN ledger' = 1 .. n + 1
      /\ \A i \in 1 .. n : ledger'[i] = ledger[i]
  BY <1>2 DEF Longer, Summed
<1>4. \A i \in 1 .. n + 1 : ledger'[i].cause \in Nat /\ ledger'[i].cause < i
  <2>1. CausesBack'
    <3>1. \E d \in EntryType : d.cause \in {0} \cup DOMAIN ledger /\ ledger' = Append(ledger, d)
      OBVIOUS
    <3>2. QED
      BY <3>1, CausesKept
  <2>2. \A i \in 1 .. n + 1 : ledger'[i].cause < i
    BY <1>3, <2>1 DEF CausesBack
  <2>3. \A i \in 1 .. n : ledger'[i].cause \in Nat
    BY <1>3, EntriesTyped DEF TypeInv
  <2>4. ledger'[n + 1].cause \in Nat
    BY <1>2 DEF EntryType
  <2>5. \A i \in 1 .. n + 1 : i \in 1 .. n \/ i = n + 1
    OBVIOUS
  <2>6. \A i \in 1 .. n + 1 : ledger'[i].cause \in Nat
    BY <2>3, <2>4, <2>5
  <2>7. QED
    BY <2>2, <2>6
<1>5. \A j \in DOMAIN schedule : schedule[j].cause \in 1 .. n
  BY <1>3, InstallmentsTyped DEF TypeInv
<1>6. n + 1 \in Bought(ledger', profile) =>
        Count(ledger', profile, n + 1) \in Nat \ {0} /\ ledger'[n + 1].amount \in Nat
  BY <1>2 DEF Bought, Count, rules
<1>7. EqualIn(ledger, schedule, profile)
  BY DEF PartsEqual
<1>8. QED
  BY <1>2, <1>4, <1>5, <1>6, <1>7, EqualLonger


\* Another entry, or none, and the same list.
LEMMA EqualKept ==
    ASSUME TypeInv, CausesBack, PartsEqual, UNCHANGED <<profile, schedule>>,
           \/ ledger' = ledger
           \/ \E e \in EntryType : /\ e.kind \notin {"rule", "installment"}
                                   /\ e.cause \in {0} \cup DOMAIN ledger
                                   /\ ledger' = Append(ledger, e),
           phase = "failed" => phase' = "failed"
    PROVE  PartsEqual'
<1>1. CASE ledger' = ledger
  BY <1>1 DEF PartsEqual
<1>2. ASSUME NEW e \in EntryType, e.kind \notin {"rule", "installment"},
             e.cause \in {0} \cup DOMAIN ledger, ledger' = Append(ledger, e),
             phase # "failed"
      PROVE  PartsEqual'
  <2>1. EqualIn(ledger', schedule, profile)
    BY <1>2, EqualPosted
  <2>2. QED
    BY <2>1 DEF PartsEqual
<1>3. CASE phase = "failed"
  BY <1>3 DEF PartsEqual
<1>4. QED
  BY <1>1, <1>2, <1>3

LEMMA EqualFired ==
    ASSUME AmountsNotNegative, TypeInv, CausesBack, AmountsFit, PartsEqual, Firing,
           AccountOf(FiredRule) \in Accounts, NEW amount \in Amounts \ {0},
           ledger' = Append(ledger, FiringEntry(amount)), ~ Panics,
           schedule' = schedule \o NewInstallments(amount, Len(ledger')),
           profile' = profile, phase' = phase
    PROVE  PartsEqual'
<1> DEFINE e == FiringEntry(amount)
           new == Len(ledger')
           more == NewInstallments(amount, new)
           plan == profile.bnpl[AccountOf(FiredRule)]
<1>1. /\ amount \in Nat /\ amount \in Int32s /\ Int32(amount) = amount /\ phase # "failed"
  <2>1. amount \in Nat /\ amount \in Int32s
    BY AmountsNat DEF AmountsFit, Int32s
  <2>2. QED
    BY <2>1, Int32Fits DEF Firing
<1>2. /\ e \in EntryType /\ e.kind = "rule" /\ rules[e.rule] = FiredRule
      /\ e.amount = amount /\ e.cause = 0 /\ ledger' = Append(ledger, e)
  BY <1>1, FiringPosted DEF FiringEntry, Entry, FiredRule
<1>3. plan # Null => plan.count \in Nat \ {0}
  BY ProfileTyped, Types DEF TypeInv, Panics
<1>4. /\ more \in Seq(Range(more))
      /\ \A k \in DOMAIN more : /\ plan # Null /\ more[k].cause = new
                                /\ more[k].amount = Quotient(amount, plan.count)
  BY NewInstallmentsLemma
<1>5. ledger'[new] = e /\ profile.rules[e.rule] = FiredRule
  <2> HIDE DEF e
  <2>1. ledger'[new] = e
    BY <1>2, EntryAppended
  <2>2. QED
    BY <1>2, <2>1 DEF rules
<1>6. schedule \in Seq(InstallmentType(ledger)) /\ schedule' = schedule \o more
  BY Types DEF TypeInv
<1> HIDE DEF e, more, new
<1>7. EqualIn(ledger', schedule, profile)
  <2>1. /\ e.kind = "rule" /\ profile.bnpl[AccountOf(rules[e.rule])] # Null =>
             profile.bnpl[AccountOf(rules[e.rule])].count \in Nat \ {0} /\ e.amount \in Nat
        /\ e.kind # "installment" /\ e.cause \in {0} \cup DOMAIN ledger
    BY <1>1, <1>2, <1>3
  <2>2. QED
    BY <1>1, <1>2, <2>1, EqualPosted
<1>8. ASSUME NEW j \in DOMAIN schedule'
      PROVE  \/ \E k \in DOMAIN schedule : schedule'[j] = schedule[k]
             \/ schedule'[j].amount = Part(ledger', profile, schedule'[j].cause)
  <2> DEFINE n == Len(schedule)
  <2>1. /\ DOMAIN schedule = 1 .. n /\ DOMAIN more = 1 .. Len(more)
        /\ \A k \in 1 .. n : schedule'[k] = schedule[k]
        /\ \A k \in 1 .. Len(more) : schedule'[n + k] = more[k]
        /\ \A k \in DOMAIN schedule' : k \in 1 .. n \/ \E i \in 1 .. Len(more) : k = n + i
    BY <1>4, <1>6, ConcatLemma
  <2> HIDE DEF n
  <2>2. CASE j \in 1 .. n
    BY <2>1, <2>2
  <2>3. ASSUME NEW i \in 1 .. Len(more), j = n + i
        PROVE  schedule'[j].amount = Part(ledger', profile, schedule'[j].cause)
    <3>1. schedule'[j].cause = new /\ schedule'[j].amount = Quotient(amount, plan.count)
      BY <1>4, <2>1, <2>3
    <3>2. Part(ledger', profile, new) = Quotient(amount, plan.count)
      BY <1>2, <1>5 DEF Part, Count
    <3>3. QED
      BY <3>1, <3>2
  <2>4. CASE \E i \in 1 .. Len(more) : j = n + i
    <3>1. PICK i \in 1 .. Len(more) : j = n + i
      BY <2>4
    <3>2. QED
      BY <2>3, <3>1
  <2>5. QED
    BY <2>1, <2>2, <2>4
<1>9. EqualIn(ledger', schedule', profile)
  <2>1. \A j \in DOMAIN schedule' :
          \/ \E k \in DOMAIN schedule : schedule'[j] = schedule[k]
          \/ schedule'[j].amount = Part(ledger', profile, schedule'[j].cause)
    BY <1>8
  <2>2. QED
    BY ONLY <1>7, <2>1, EqualListed
<1>10. QED
  BY <1>9 DEF PartsEqual

LEMMA EqualInstalled ==
    ASSUME TypeInv, CausesBack, ListsFit, PartsEqual, phase = "installments",
           next \in DOMAIN schedule, UNCHANGED <<profile, phase>>,
           ledger' = Append(ledger, InstallmentEntry(schedule[next])),
           schedule' = Delisted(schedule, next)
    PROVE  PartsEqual'
<1> DEFINE s == schedule[next]
           e == InstallmentEntry(s)
<1>1. s.amount \in Int32s /\ Int32(s.amount) = s.amount
  BY Int32Fits DEF ListsFit
<1>2. /\ e \in EntryType /\ e.kind = "installment" /\ e.cause = s.cause
      /\ e.amount = s.amount /\ ledger' = Append(ledger, e) /\ s.cause \in DOMAIN ledger
  BY <1>1, InstallmentPosted, InstallmentsTyped DEF InstallmentEntry, Entry, TypeInv
<1> HIDE DEF e
<1>3. s.cause \in Bought(ledger, profile) => s.amount = Part(ledger, profile, s.cause)
  BY DEF PartsEqual, EqualIn
<1> HIDE DEF s
<1>4. EqualIn(ledger', schedule, profile)
  <2>1. /\ e.kind # "rule" /\ e.cause \in {0} \cup DOMAIN ledger
        /\ e.cause \in Bought(ledger, profile) => e.amount = Part(ledger, profile, e.cause)
    BY <1>2, <1>3
  <2>2. QED
    BY <1>2, <2>1, EqualPosted
<1>5. \A j \in DOMAIN schedule' : \E k \in DOMAIN schedule : schedule'[j] = schedule[k]
  <2>1. schedule \in Seq(InstallmentType(ledger))
    BY Types DEF TypeInv
  <2>2. \A j \in DOMAIN schedule' :
          Place(next, j) \in DOMAIN schedule /\ schedule'[j] = schedule[Place(next, j)]
    BY <2>1, DelistedLemma
  <2>3. QED
    BY <2>2
<1>6. EqualIn(ledger', schedule', profile)
  BY <1>4, <1>5, EqualListed
<1>7. QED
  BY <1>6 DEF PartsEqual


LEMMA EqualNext ==
    ASSUME AmountsNotNegative, TypeInv, CausesBack, ListsFit, AmountsFit, PartsEqual,
           [Next]_vars
    PROVE  PartsEqual'
<1>1. CASE phase' = "failed"
  BY <1>1 DEF PartsEqual
<1>2. CASE \/ PlanRule \/ StartFiring \/ SkipFiring \/ RejectFiring
           \/ StartInstallments \/ KeepInstallment \/ StartRefunds \/ KeepRefund
           \/ DropRefund \/ NextMonth \/ UNCHANGED vars
  <2>1. UNCHANGED <<profile, schedule, ledger>> /\ (phase = "failed" => phase' = "failed")
    BY <1>2
    DEF PlanRule, StartFiring, SkipFiring, RejectFiring, Firing, StartInstallments,
        KeepInstallment, StartRefunds, KeepRefund, DropRefund, InRefunds, NextMonth, vars
  <2>2. QED
    BY <2>1, EqualKept
<1>3. CASE PostFiring
  <2>1. Firing /\ AccountOf(FiredRule) \in Accounts
    BY <1>3 DEF PostFiring
  <2>2. SUFFICES ASSUME phase' # "failed" PROVE PartsEqual'
    BY <1>1
  <2>3. PICK amount \in Amounts \ {0} :
          /\ ledger' = Append(ledger, FiringEntry(amount)) /\ ~ Panics
          /\ schedule' = schedule \o NewInstallments(amount, Len(ledger'))
          /\ profile' = profile /\ phase' = phase
    BY <1>3, <2>2 DEF PostFiring, Posted, NotPosted
  <2>4. QED
    BY <2>1, <2>3, EqualFired
<1>4. CASE PostReaction
  <2>1. /\ ReactionEntry \in EntryType /\ ReactionEntry.kind \notin {"rule", "installment"}
        /\ ReactionEntry.cause \in {0} \cup DOMAIN ledger
    BY <1>4, ReactionPosted DEF PostReaction, ReactionEntry, Entry
  <2>2. /\ UNCHANGED <<profile, schedule>> /\ phase = "fire"
        /\ ledger' = ledger \/ ledger' = Append(ledger, ReactionEntry)
    BY <1>4 DEF PostReaction, Posted, NotPosted
  <2>3. QED
    BY <2>1, <2>2, EqualKept
<1>5. CASE PostInstallment
  <2>1. next \in DOMAIN schedule /\ phase = "installments"
    BY <1>5, Types DEF PostInstallment, TypeInv
  <2>2. SUFFICES ASSUME phase' # "failed" PROVE PartsEqual'
    BY <1>1
  <2>3. /\ ledger' = Append(ledger, InstallmentEntry(schedule[next]))
        /\ schedule' = Delisted(schedule, next) /\ UNCHANGED <<profile, phase>>
    BY <1>5, <2>2 DEF PostInstallment, Posted, NotPosted
  <2>4. QED
    BY <2>1, <2>3, EqualInstalled
<1>6. CASE PostRefund
  <2>1. PICK date \in RefundDates(refunds[next]) :
          /\ UNCHANGED <<profile, schedule>> /\ phase = "refunds"
          /\ \/ ledger' = ledger
             \/ ledger' = Append(ledger, RefundEntry(refunds[next], date))
    BY <1>6 DEF PostRefund, InRefunds, Posted, NotPosted
  <2>2. next \in DOMAIN refunds
    BY <1>6, Types DEF PostRefund, InRefunds, TypeInv
  <2> DEFINE e == RefundEntry(refunds[next], date)
  <2>3. /\ e \in EntryType /\ e.kind \notin {"rule", "installment"}
        /\ e.cause \in {0} \cup DOMAIN ledger
    BY <2>1, <2>2, RefundPosted, RefundsTyped DEF RefundEntry, Entry, TypeInv
  <2> HIDE DEF e
  <2>4. ledger' = ledger \/ ledger' = Append(ledger, e)
    BY <2>1 DEF e
  <2>5. QED
    BY <2>1, <2>3, <2>4, EqualKept
<1>7. QED
  BY <1>2, <1>3, <1>4, <1>5, <1>6 DEF Next

LEMMA Remainder ==
    ASSUME NEW x \in Nat, NEW n \in Nat \ {0}, NEW i \in Nat, NEW j \in Nat, i + j = n
    PROVE  x - (i * Quotient(x, n) + j * Quotient(x, n)) \in 0 .. n - 1
<1> DEFINE q == x \div n
<1>1. q \in Int /\ x - n * q \in 0 .. n - 1 /\ Quotient(x, n) = q
  BY QuotientBound DEF Quotient
<1> HIDE DEF q
<1>2. i * q + j * q = n * q
  BY <1>1
<1>3. QED
  BY <1>1, <1>2

LEMMA PartsSay ==
    ASSUME TypeInv, InstallmentsCounted, PartsEqual PROVE PartsFallShort
<1>1. SUFFICES ASSUME phase # "failed", NEW c \in Purchases
               PROVE  ledger[c].amount
                        - (Sum(InstallmentsOf(c))
                             + SumFunctionOnSet([i \in DOMAIN schedule |-> schedule[i].amount],
                                                PendingOf(c)))
                        \in 0 .. profile.bnpl[BoughtOn(c)].count - 1
  BY DEF PartsFallShort
<1> DEFINE x == ledger[c].amount
           n == profile.bnpl[BoughtOn(c)].count
           q == Quotient(x, n)
           f == [i \in DOMAIN ledger |-> ledger[i].amount]
           g == [i \in DOMAIN schedule |-> schedule[i].amount]
           I == InstallmentsOf(c)
           J == PendingOf(c)
<1>2. /\ c \in Bought(ledger, profile) /\ n = Count(ledger, profile, c)
      /\ q = Part(ledger, profile, c)
  BY DEF Purchases, OfKind, BoughtOn, Bought, Count, Part, rules
<1>3. n \in Nat \ {0} /\ x \in Nat
  BY <1>1, <1>2 DEF PartsEqual, EqualIn
<1>4. (\A i \in I : f[i] = q) /\ (\A j \in J : g[j] = q)
  BY <1>1, <1>2 DEF PartsEqual, EqualIn, InstallmentsOf, PendingOf, OfKind
<1>5. /\ IsFiniteSet(I) /\ Cardinality(I) \in Nat
      /\ IsFiniteSet(J) /\ Cardinality(J) \in Nat
  BY PartsFinite
<1>6. Cardinality(I) + Cardinality(J) = n
  BY <1>1 DEF InstallmentsCounted
<1>7. Sum(I) = SumFunctionOnSet(f, I)
  BY DEF Sum
<1>8. q \in Int
  BY <1>3, QuotientType
<1>9. x - (Cardinality(I) * q + Cardinality(J) * q) \in 0 .. n - 1
  <2> HIDE DEF x, n, I, J
  <2>1. QED
    BY <1>3, <1>5, <1>6, Remainder
<1> HIDE DEF x, n, q, f, g, I, J
<1>10. SumFunctionOnSet(f, I) = Cardinality(I) * q
  BY <1>4, <1>5, <1>8, SumConst
<1>11. SumFunctionOnSet(g, J) = Cardinality(J) * q
  BY <1>4, <1>5, <1>8, SumConst
<1>12. QED
  BY <1>7, <1>9, <1>10, <1>11 DEF x, n, g, I, J

\* What is charged in parts for a purchase falls short of its amount by less
\* than one unit a part, and never exceeds it, if no rule has a negative
\* amount and none is cut off on its way.
THEOREM PartsMakeUpPurchases ==
    ASSUME AmountsNotNegative PROVE Spec /\ []AmountsFit => []PartsFallShort
<1> DEFINE Inv == TypeInv /\ CausesBack /\ ListsFit /\ InstallmentsCounted /\ PartsEqual
<1>1. Init => Inv
  BY TypeInit, BooksInit, CountedInit, EqualInit
<1>2. Inv /\ AmountsFit /\ [Next]_vars => Inv'
  BY TypeNext, CausesNext, ListsNext, CountedNext, EqualNext
<1>3. Inv => PartsFallShort
  BY PartsSay
<1> HIDE DEF Inv
<1>4. QED
  BY <1>1, <1>2, <1>3, PTL DEF Spec

--------------------------------------------------------------------------------
\* Amounts that fit

\* The latest firing was posted for an amount that fits.
TriggerFits == trigger.amount \in Int32s

\* A part of a hundred is no more than the whole.
LEMMA PercentFits == ASSUME NEW a \in Int32s, NEW b \in 0 .. 100 PROVE Percent(a, b) \in Int32s
<1>1. Half \in Nat \ {0} /\ a \in Int /\ b \in Int
  BY SeedPlanAssumption DEF Int32s
<1> DEFINE ab == a * b
           twice == 2 * a * b
<1>2. ab \in Int /\ twice = 2 * ab
  BY <1>1
<1>3. IF a >= 0 THEN 0 <= ab /\ ab <= 100 * a ELSE 100 * a <= ab /\ ab <= 0
  BY <1>1
<1>4. Percent(a, b) = IF twice >= 0 THEN (twice + 100) \div 200 ELSE -((100 - twice) \div 200)
  BY DEF Percent
<1> HIDE DEF ab, twice
<1>5. IF a >= 0 THEN Percent(a, b) \in 0 .. a ELSE Percent(a, b) \in a .. 0
  BY <1>1, <1>2, <1>3, <1>4
<1>6. QED
  BY <1>1, <1>5 DEF Int32s

\* What a firing may be posted for.
LEMMA FiringFits ==
    ASSUME AmountsInRange, TypeInv, DebtsFit, Firing PROVE Amounts \subseteq Int32s
<1> DEFINE spec == FiredRule.amount
<1>1. /\ firings[next].rule \in DOMAIN rules /\ profile \in Profiles
      /\ RuleTyped(FiredRule, Accounts) /\ balances \in [Accounts -> Int]
  <2>1. next \in DOMAIN firings
    BY Types DEF TypeInv, Firing
  <2>2. QED
    BY <2>1, FiringsTyped, ProfileTyped, Types DEF TypeInv, FiredRule
<1>2. spec.min \in Int32s /\ spec.max \in Int32s
  BY <1>1 DEF AmountsInRange, FiredRule, rules, Int32s
<1>3. RandInt(spec.min, spec.max) \subseteq Int32s
  <2>1. spec.min \in Int /\ spec.max \in Int /\ Half \in Int
    BY <1>2, SeedPlanAssumption DEF Int32s
  <2>2. ASSUME NEW n \in RandInt(spec.min, spec.max) PROVE n \in Int32s
    <3> HIDE DEF spec
    <3>1. n \in Int /\ (n = spec.min \/ (spec.min <= n /\ n <= spec.max))
      BY <2>1 DEF RandInt
    <3>2. QED
      BY <1>2, <2>1, <3>1 DEF Int32s
  <2>3. QED
    BY <2>2
<1>4. CASE spec.mode = "settle"
  <2>1. balances[spec.account] \in Int /\ balances[spec.account] > -Half
    BY <1>1, <1>4 DEF DebtsFit, RuleTyped
  <2>2. Outstanding(balances[spec.account]) \subseteq Int32s
    <3> DEFINE b == balances[spec.account]
    <3> HIDE DEF b
    <3>1. ASSUME b \in Int, b > -Half, NEW n \in Outstanding(b) PROVE n \in Int32s
      BY <3>1, SeedPlanAssumption DEF Outstanding, Int32s
    <3>2. QED
      BY <2>1, <3>1 DEF b
  <2>3. QED
    BY <1>4, <2>2 DEF Amounts, ResolveAmount
<1>5. QED
  BY <1>2, <1>3, <1>4 DEF Amounts, ResolveAmount

LEMMA TriggerNext ==
    ASSUME AmountsInRange, TypeInv, DebtsFit, TriggerFits, [Next]_vars PROVE TriggerFits'
<1>1. CASE UNCHANGED trigger
  BY <1>1 DEF TriggerFits
<1>2. CASE PostFiring /\ ~UNCHANGED trigger
  <2>1. Firing /\ \E amount \in Amounts : trigger'.amount = amount
    BY <1>2 DEF PostFiring, NotPosted
  <2>2. QED
    BY <2>1, FiringFits DEF TriggerFits
<1>3. CASE NextMonth
  BY <1>3, SeedPlanAssumption DEF NextMonth, NoTrigger, TriggerFits, Int32s
<1>4. CASE UNCHANGED vars
  BY <1>1, <1>4 DEF vars
<1>5. CASE PostReaction \/ PostInstallment \/ PostRefund
  BY <1>1, <1>5 DEF PostReaction, PostInstallment, PostRefund, NotPosted
<1>6. CASE Next /\ ~PostFiring /\ ~NextMonth /\ ~PostReaction /\ ~PostInstallment /\ ~PostRefund
  BY <1>1, <1>6 DEF Next, PlanRule, StartFiring, SkipFiring, RejectFiring,
     StartInstallments, KeepInstallment, StartRefunds, DropRefund, KeepRefund
<1>7. QED
  BY <1>1, <1>2, <1>3, <1>4, <1>5, <1>6

LEMMA FitsSay ==
    ASSUME AmountsInRange, TypeInv, DebtsFit, TriggerFits PROVE AmountsFit
<1>1. Firing => Amounts \subseteq -Half .. Half - 1
  BY FiringFits DEF Int32s
<1>2. ASSUME queue # <<>> PROVE ReactionAmount \in -Half .. Half - 1
  <2>1. Head(queue) \in DOMAIN rules /\ profile \in Profiles
    BY <1>2, ReactionPosted, Types DEF TypeInv
  <2>2. rules[Head(queue)].amount.pct \in 0 .. 100
    BY <2>1 DEF AmountsInRange, rules
  <2>3. QED
    BY <2>2, PercentFits DEF TriggerFits, ReactionAmount, Int32s
<1>3. QED
  BY <1>1, <1>2 DEF AmountsFit

LEMMA TriggerInit == Init => TriggerFits
  BY SeedPlanAssumption DEF Init, NoTrigger, TriggerFits, Int32s

\* As long as the rules' own amounts fit in 32 bits and no reactive rule makes
\* more of an amount than it is, there is one way for an amount to be cut off:
\* what has run up on an account when a rule settles it.
THEOREM AmountsStayFit ==
    ASSUME AmountsInRange PROVE Spec /\ []DebtsFit => []AmountsFit
<1>1. Init => TypeInv /\ TriggerFits
  BY TypeInit, TriggerInit
<1>2. TypeInv /\ TriggerFits /\ DebtsFit /\ [Next]_vars => (TypeInv /\ TriggerFits)'
  BY TypeNext, TriggerNext
<1>3. TypeInv /\ TriggerFits /\ DebtsFit => AmountsFit
  BY FitsSay
<1>4. QED
  BY <1>1, <1>2, <1>3, PTL DEF Spec

\* A profile that has a settling rule.
Settling == \E r \in DOMAIN rules : rules[r].amount.mode = "settle"

\* In a profile without settling rules no amount is ever cut off.
THEOREM AmountsFitUnsettled ==
    ASSUME AmountsInRange PROVE Spec => [](~Settling => AmountsFit)
<1> DEFINE Inv == TypeInv /\ (~Settling => TriggerFits)
<1>1. ASSUME TypeInv, ~Settling PROVE DebtsFit
  <2>1. ASSUME Firing PROVE firings[next].rule \in DOMAIN rules
    <3>1. next \in DOMAIN firings
      BY <1>1, <2>1, Types DEF TypeInv, Firing
    <3>2. QED
      BY <1>1, <3>1, FiringsTyped DEF TypeInv
  <2>2. QED
    BY <1>1, <2>1 DEF DebtsFit, Settling, FiredRule
<1>2. Init => Inv
  BY TypeInit, TriggerInit
<1>3. Inv /\ [Next]_vars => Inv'
  <2> SUFFICES ASSUME Inv, [Next]_vars PROVE Inv'
    OBVIOUS
  <2>1. TypeInv'
    BY TypeNext
  <2>2. profile' = profile
    BY DEF Next, vars, PlanRule, StartFiring, SkipFiring, RejectFiring, PostFiring,
       PostReaction, StartInstallments, KeepInstallment, PostInstallment, StartRefunds,
       DropRefund, KeepRefund, PostRefund, NextMonth, NotPosted
  <2>3. Settling' = Settling
    BY <2>2 DEF Settling, rules
  <2>4. QED
    BY <1>1, <2>1, <2>3, TriggerNext
<1>4. Inv => (~Settling => AmountsFit)
  BY <1>1, FitsSay
<1> HIDE DEF Inv
<1>5. QED
  BY <1>2, <1>3, <1>4, PTL DEF Spec

--------------------------------------------------------------------------------
\* The way to the end

\* One step of a walk: the index moves on, or the element at it is taken out.
Walked(n, l, m, k) == n <= l /\ ((m = n + 1 /\ k = l) \/ (m = n /\ k = l - 1))

LEMMA WalkedLess ==
    ASSUME NEW n \in Nat \ {0}, NEW l \in Nat, NEW m, NEW k, Walked(n, l, m, k)
    PROVE  k + 1 - m \in 0 .. (l + 1 - n) - 1
  BY DEF Walked

Forward ==
    \/ month' \in month + 1 .. LastMonth
    \/ month' = month /\ Turn(phase') > Turn(phase)
    \/ /\ month' = month /\ phase' = phase
       /\ \/ LeftToDo' \in 0 .. LeftToDo - 1
          \/ LeftToDo' = LeftToDo /\ Len(queue') < Len(queue)

LEMMA GivesUp ==
    ASSUME month' = month, phase' = "failed",
           phase \in {"plan", "fire", "installments", "refunds"}
    PROVE  Forward
  BY DEF Turn, Forward

LEMMA ForwardNext == ASSUME TypeInv, Next PROVE Forward
<1> USE DEF LeftToDo
<1>1. /\ month \in 1 .. LastMonth /\ next \in Nat \ {0} /\ LastMonth \in Int
      /\ Len(firings) \in Nat /\ Len(schedule) \in Nat /\ Len(refunds) \in Nat
      /\ Len(rules) \in Nat /\ queue \in Seq(DOMAIN rules)
  BY Types, ProfileTyped, LastMonthLemma DEF TypeInv
<1>2. TypeInv'
  BY TypeNext
<1>3. CASE PlanRule
  <2>1. /\ month' = month /\ phase' = phase /\ phase = "plan" /\ rules' = rules
        /\ Walked(next, Len(rules), next', Len(rules))
    BY <1>3 DEF PlanRule, Walked, rules
  <2>2. QED
    BY <1>1, <2>1, WalkedLess DEF Forward
<1>4. CASE SkipFiring
  <2>1. /\ month' = month /\ phase' = phase /\ phase = "fire"
        /\ Walked(next, Len(firings), next', Len(firings'))
    BY <1>4 DEF SkipFiring, Firing, Walked
  <2>2. QED
    BY <1>1, <2>1, WalkedLess DEF Forward
<1>5. CASE PostFiring
  <2>1. CASE phase' = "failed"
    BY <1>5, <2>1, GivesUp DEF PostFiring, Firing, NotPosted
  <2>2. CASE phase' # "failed"
    <3>1. /\ month' = month /\ phase' = phase /\ phase = "fire"
          /\ Walked(next, Len(firings), next', Len(firings'))
      BY <1>5, <2>2 DEF PostFiring, Firing, NotPosted, Walked
    <3>2. QED
      BY <1>1, <3>1, WalkedLess DEF Forward
  <2>3. QED
    BY <2>1, <2>2
<1>6. CASE PostReaction
  <2>1. CASE phase' = "failed"
    BY <1>6, <2>1, GivesUp DEF PostReaction, NotPosted
  <2>2. CASE phase' # "failed"
    <3>1. /\ month' = month /\ phase' = phase /\ phase = "fire"
          /\ next' = next /\ firings' = firings /\ queue # <<>> /\ queue' = Tail(queue)
      BY <1>6, <2>2 DEF PostReaction, NotPosted
    <3>2. Len(queue') < Len(queue)
      BY <1>1, <3>1
    <3>3. QED
      BY <3>1, <3>2 DEF Forward
  <2>3. QED
    BY <2>1, <2>2
<1>7. CASE KeepInstallment
  <2>1. /\ month' = month /\ phase' = phase /\ phase = "installments"
        /\ Walked(next, Len(schedule), next', Len(schedule'))
    BY <1>7 DEF KeepInstallment, Walked
  <2>2. QED
    BY <1>1, <2>1, WalkedLess DEF Forward
<1>8. CASE PostInstallment
  <2>1. CASE phase' = "failed"
    BY <1>8, <2>1, GivesUp DEF PostInstallment, NotPosted
  <2>2. CASE phase' # "failed"
    <3>1. /\ month' = month /\ phase' = phase /\ phase = "installments" /\ next' = next
          /\ next <= Len(schedule) /\ schedule' = Delisted(schedule, next)
      BY <1>8, <2>2 DEF PostInstallment, NotPosted
    <3>2. schedule \in Seq(InstallmentType(ledger)) /\ next \in DOMAIN schedule
      BY <1>1, <3>1, Types DEF TypeInv
    <3>3. Len(schedule') = Len(schedule) - 1
      BY <3>1, <3>2, RemoveAtLemma
    <3>4. Walked(next, Len(schedule), next', Len(schedule'))
      BY <3>1, <3>3 DEF Walked
    <3>5. Len(schedule') + 1 - next' \in 0 .. (Len(schedule) + 1 - next) - 1
      BY <1>1, <3>4, WalkedLess
    <3>6. QED
      BY <3>1, <3>5 DEF Forward
  <2>3. QED
    BY <2>1, <2>2
<1>9. CASE KeepRefund
  <2>1. /\ month' = month /\ phase' = phase /\ phase = "refunds"
        /\ Walked(next, Len(refunds), next', Len(refunds'))
    BY <1>9 DEF KeepRefund, InRefunds, Walked
  <2>2. QED
    BY <1>1, <2>1, WalkedLess DEF Forward
<1>10. CASE DropRefund \/ PostRefund
  <2>1. CASE phase' = "failed" /\ PostRefund
    BY <2>1, GivesUp DEF PostRefund, InRefunds, NotPosted
  <2>2. CASE DropRefund \/ phase' # "failed"
    <3>1. /\ month' = month /\ phase' = phase /\ phase = "refunds" /\ next' = next
          /\ next <= Len(refunds) /\ refunds' = Delisted(refunds, next)
      BY <1>10, <2>2 DEF DropRefund, PostRefund, InRefunds, NotPosted
    <3>2. refunds \in Seq(RefundType(ledger)) /\ next \in DOMAIN refunds
      BY <1>1, <3>1, Types DEF TypeInv
    <3>3. Len(refunds') = Len(refunds) - 1
      BY <3>1, <3>2, RemoveAtLemma
    <3>4. Walked(next, Len(refunds), next', Len(refunds'))
      BY <3>1, <3>3 DEF Walked
    <3>5. Len(refunds') + 1 - next' \in 0 .. (Len(refunds) + 1 - next) - 1
      BY <1>1, <3>4, WalkedLess
    <3>6. QED
      BY <3>1, <3>5 DEF Forward
  <2>3. QED
    BY <1>10, <2>1, <2>2
<1>11. CASE StartFiring \/ StartInstallments \/ StartRefunds
  BY <1>11 DEF StartFiring, StartInstallments, StartRefunds, Turn, Forward
<1>12. CASE RejectFiring
  BY <1>12, GivesUp DEF RejectFiring, Firing
<1>13. CASE NextMonth
  <2>1. month' \in 1 .. LastMonth
    BY <1>2 DEF TypeInv, TypeOK
  <2>2. CASE Over(month)
    BY <1>13, <2>2 DEF NextMonth, Turn, Forward
  <2>3. CASE ~Over(month)
    <3>1. month' = month + 1
      BY <1>13, <2>3 DEF NextMonth
    <3>2. month' \in month + 1 .. LastMonth
      BY <1>1, <2>1, <3>1
    <3>3. QED
      BY <3>2 DEF Forward
  <2>4. QED
    BY <2>2, <2>3
<1>14. QED
  BY <1>3, <1>4, <1>5, <1>6, <1>7, <1>8, <1>9, <1>10, <1>11, <1>12, <1>13 DEF Next

\* Every step descends in an order that has no infinite descent: later months of
\* the range, later phases, less left to walk, fewer reactive rules waiting.  So
\* no profile, no draw and no list keeps the seeder going forever.
THEOREM SeederMovesForward == Spec => StepsForward
<1>1. TypeInv /\ [Next]_vars => TypeInv' /\ (Forward \/ UNCHANGED vars)
  BY TypeNext, ForwardNext
<1>2. Spec => [][Forward]_vars
  BY <1>1, TypeInit, PTL DEF Spec
<1>3. QED
  BY <1>2 DEF StepsForward, Forward

================================================================================
