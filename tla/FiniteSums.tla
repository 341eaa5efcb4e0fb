------------------------------ MODULE FiniteSums ------------------------------
(****************************************************************************)
(* Induction, and what SumFunctionOnSet of the community modules adds up to *)
(* over a finite set.                                                       *)
(*                                                                          *)
(* The library states induction for an operator P(_).  Here it is stated    *)
(* for a set, from the least element a set of naturals has (WFMin), so that *)
(* a first-order prover can use it: to show P for all n, take the set of    *)
(* the n with P(n).                                                         *)
(****************************************************************************)
EXTENDS Integers, FiniteSetsExt, FiniteSetTheorems, WellFoundedInduction, TLAPS

\* Induction over the naturals.
LEMMA NatInduct ==
    ASSUME NEW T, 0 \in T, \A n \in Nat : n \in T => n + 1 \in T
    PROVE  Nat \subseteq T
<1> DEFINE Out == Nat \ T
<1>1. SUFFICES ASSUME Out # {} PROVE FALSE
  OBVIOUS
<1>2. PICK n \in Out : \A m \in Out : ~ (<<m, n>> \in OpToRel(<, Nat))
  <2>1. Out \subseteq Nat
    OBVIOUS
  <2> HIDE DEF Out
  <2>2. QED
  BY <1>1, <2>1, NatLessThanWellFounded, WFMin
<1>3. \A m \in Out : ~(m < n)
  <2>1. \A m \in Out : m \in Nat /\ n \in Nat
    OBVIOUS
  <2>2. \A m \in Out : ~ (<<m, n>> \in {ss \in Nat \X Nat : ss[1] < ss[2]})
    BY <1>2, Zenon DEF OpToRel
  <2> HIDE DEF Out
  <2>3. QED
    BY <2>1, <2>2
<1>4. n - 1 \in Nat /\ n - 1 \notin Out
  BY <1>3
<1>5. QED
  BY <1>4

\* Finite sets, one element after the other.
LEMMA FiniteInduct ==
    ASSUME NEW S, IsFiniteSet(S), NEW F, {} \in F,
           \A T \in SUBSET S, x \in S : T \in F => T \cup {x} \in F
    PROVE  S \in F
<1> DEFINE OfSize(n) == {T \in SUBSET S : Cardinality(T) = n}
           N == {n \in Nat : OfSize(n) \subseteq F}
<1>1. \A T \in SUBSET S : IsFiniteSet(T) /\ Cardinality(T) \in Nat
  BY FS_Subset, FS_CardinalityType
<1>2. 0 \in N
  BY <1>1, FS_EmptySet
<1>3. ASSUME NEW n \in Nat, n \in N PROVE n + 1 \in N
  <2>1. SUFFICES ASSUME NEW T \in SUBSET S, Cardinality(T) = n + 1 PROVE T \in F
    OBVIOUS
  <2>2. T # {}
    BY <2>1, FS_EmptySet, 0 # n + 1
  <2>3. PICK x \in T : TRUE
    BY <2>2
  <2>4. Cardinality(T \ {x}) = n
    <3>1. IsFiniteSet(T)
      BY <1>1, <2>1, FS_Subset
    <3>2. Cardinality(T \ {x}) = Cardinality(T) - 1
      BY <2>3, <3>1, FS_RemoveElement
    <3>3. QED
      BY <2>1, <3>2
  <2>5. T \ {x} \in F
    BY <1>3, <2>4
  <2>6. (T \ {x}) \cup {x} \in F /\ (T \ {x}) \cup {x} = T
    BY <2>5
  <2>7. QED
    BY <2>6
<1> HIDE DEF N
<1>4. Nat \subseteq N
  BY <1>2, <1>3, NatInduct
<1>5. Cardinality(S) \in N
  BY <1>1, <1>4
<1>6. QED
  BY <1>5 DEF N


--------------------------------------------------------------------------------
\* The recursive definition of the sum has a solution over a finite set

\* The element SumFunctionOnSet takes first.
Pick(s) == CHOOSE x \in s : TRUE

\* g adds up f over every set of the family D.
IsFold(g, f, D) ==
    g = [s \in D |-> IF s = {} THEN 0 ELSE f[Pick(s)] + g[s \ {Pick(s)}]]

\* The library's definition, with its helpers expanded.
LEMMA SumIsFold ==
    ASSUME NEW S, NEW f
    PROVE  SumFunctionOnSet(f, S) = (CHOOSE g : IsFold(g, f, SUBSET S))[S]
BY DEF SumFunctionOnSet, FoldFunctionOnSet, MapThenFoldSet, IsFold, Pick

LEMMA Picked == ASSUME NEW s, s # {} PROVE Pick(s) \in s
BY DEF Pick

\* A fold over a family extends to the sets with one element more.
LEMMA FoldExtends ==
    ASSUME NEW f, NEW D, NEW E, D \subseteq E, NEW g, IsFold(g, f, D),
           \A s \in E : s # {} => s \ {Pick(s)} \in D
    PROVE  \E h : IsFold(h, f, E)
<1> DEFINE h == [s \in E |-> IF s = {} THEN 0 ELSE f[Pick(s)] + g[s \ {Pick(s)}]]
<1>1. \A s \in D : g[s] = IF s = {} THEN 0 ELSE f[Pick(s)] + g[s \ {Pick(s)}]
  BY DEF IsFold
<1>2. \A s \in E : h[s] = IF s = {} THEN 0 ELSE f[Pick(s)] + g[s \ {Pick(s)}]
  OBVIOUS
<1>3. \A s \in D : g[s] = h[s]
  BY <1>1, <1>2
<1>4. h = [s \in E |-> IF s = {} THEN 0 ELSE f[Pick(s)] + h[s \ {Pick(s)}]]
  BY <1>3
<1> HIDE DEF h
<1>5. QED
  BY <1>4 DEF IsFold

\* By induction over the size of the subsets.
LEMMA FoldExists ==
    ASSUME NEW S, IsFiniteSet(S), NEW f
    PROVE  \E g : IsFold(g, f, SUBSET S)
<1> DEFINE UpTo(n) == {T \in SUBSET S : Cardinality(T) <= n}
           N == {n \in Nat : \E g : IsFold(g, f, UpTo(n))}
<1>1. \A T \in SUBSET S : IsFiniteSet(T) /\ Cardinality(T) \in Nat
  BY FS_Subset, FS_CardinalityType
<1>2. 0 \in N
  <2>1. \A T \in UpTo(0) : T = {}
    BY <1>1, FS_EmptySet
  <2>2. IsFold([s \in UpTo(0) |-> 0], f, UpTo(0))
    BY <2>1 DEF IsFold
  <2>3. QED
    BY <2>2
<1>3. ASSUME NEW n \in Nat, n \in N PROVE n + 1 \in N
  <2>1. PICK g : IsFold(g, f, UpTo(n))
    BY <1>3
  <2>2. UpTo(n) \subseteq UpTo(n + 1)
    BY <1>1
  <2>3. ASSUME NEW s \in UpTo(n + 1), s # {} PROVE s \ {Pick(s)} \in UpTo(n)
    <3>1. Pick(s) \in s
      BY <2>3, Picked
    <3>2. Cardinality(s \ {Pick(s)}) = Cardinality(s) - 1
      BY <1>1, <3>1, FS_RemoveElement
    <3>3. QED
      BY <1>1, <3>2
  <2> HIDE DEF UpTo
  <2>4. \E h : IsFold(h, f, UpTo(n + 1))
    BY <2>1, <2>2, <2>3, FoldExtends
  <2>5. QED
    BY <2>4
<1>4. Nat \subseteq N
  <2> HIDE DEF N
  <2>1. QED
    BY <1>2, <1>3, NatInduct
<1>5. \E g : IsFold(g, f, UpTo(Cardinality(S)))
  BY <1>1, <1>4
<1>6. UpTo(Cardinality(S)) = SUBSET S
  BY <1>1, FS_Subset
<1>7. QED
  BY <1>5, <1>6

\* Folds agree wherever their functions do.
LEMMA FoldsAgree ==
    ASSUME NEW f, NEW D, NEW g, IsFold(g, f, D),
           NEW e, NEW E, NEW h, IsFold(h, e, E),
           NEW T, IsFiniteSet(T), SUBSET T \subseteq D, SUBSET T \subseteq E,
           \A x \in T : f[x] = e[x]
    PROVE  g[T] = h[T]
<1> DEFINE OfSize(n) == {s \in SUBSET T : Cardinality(s) = n}
           N == {n \in Nat : \A s \in OfSize(n) : g[s] = h[s]}
<1>1. \A s \in SUBSET T : IsFiniteSet(s) /\ Cardinality(s) \in Nat
  BY FS_Subset, FS_CardinalityType
<1>2. /\ \A s \in D : g[s] = IF s = {} THEN 0 ELSE f[Pick(s)] + g[s \ {Pick(s)}]
      /\ \A s \in E : h[s] = IF s = {} THEN 0 ELSE e[Pick(s)] + h[s \ {Pick(s)}]
  BY DEF IsFold
<1>3. 0 \in N
  BY <1>1, <1>2, FS_EmptySet
<1>4. ASSUME NEW n \in Nat, n \in N PROVE n + 1 \in N
  <2>1. SUFFICES ASSUME NEW s \in SUBSET T, Cardinality(s) = n + 1 PROVE g[s] = h[s]
    OBVIOUS
  <2>2. s # {}
    BY <2>1, FS_EmptySet, 0 # n + 1
  <2>3. Pick(s) \in s
    BY <2>2, Picked
  <2>4. Cardinality(s \ {Pick(s)}) = n
    <3>1. IsFiniteSet(s)
      BY <1>1
    <3>2. Cardinality(s \ {Pick(s)}) = Cardinality(s) - 1
      BY <3>1, <2>3, FS_RemoveElement
    <3>3. QED
      BY <2>1, <3>2
  <2>5. g[s \ {Pick(s)}] = h[s \ {Pick(s)}]
    BY <1>4, <2>4
  <2>6. QED
    BY <1>2, <2>2, <2>3, <2>5
<1>5. Nat \subseteq N
  <2> HIDE DEF N
  <2>1. QED
    BY <1>3, <1>4, NatInduct
<1>6. QED
  BY <1>1, <1>5

--------------------------------------------------------------------------------
\* Sums over finite sets

LEMMA SumPicks ==
    ASSUME NEW S, IsFiniteSet(S), NEW f, S # {}
    PROVE  SumFunctionOnSet(f, S) = f[Pick(S)] + SumFunctionOnSet(f, S \ {Pick(S)})
<1> DEFINE R == S \ {Pick(S)}
           g == CHOOSE h : IsFold(h, f, SUBSET S)
           k == CHOOSE h : IsFold(h, f, SUBSET R)
<1>1. IsFiniteSet(R) /\ R \subseteq S
  BY FS_Subset
<1>2. IsFold(g, f, SUBSET S) /\ IsFold(k, f, SUBSET R)
  BY <1>1, FoldExists
<1>3. SumFunctionOnSet(f, S) = g[S] /\ SumFunctionOnSet(f, R) = k[R]
  BY SumIsFold
<1> HIDE DEF g, k
<1>4. g[S] = f[Pick(S)] + g[R]
  BY <1>2 DEF IsFold
<1>5. g[R] = k[R]
  <2> HIDE DEF R
  <2>1. QED
    BY <1>1, <1>2, FoldsAgree
<1>6. QED
  BY <1>3, <1>4, <1>5

LEMMA SumEmpty == ASSUME NEW f PROVE SumFunctionOnSet(f, {}) = 0
<1> DEFINE g == CHOOSE h : IsFold(h, f, SUBSET {})
<1>1. IsFold(g, f, SUBSET {}) /\ SumFunctionOnSet(f, {}) = g[{}]
  BY FoldExists, FS_EmptySet, SumIsFold
<1> HIDE DEF g
<1>2. QED
  BY <1>1 DEF IsFold

\* The sum depends on the function's values on the set alone.
LEMMA SumCongruence ==
    ASSUME NEW S, IsFiniteSet(S), NEW f, NEW e, \A x \in S : f[x] = e[x]
    PROVE  SumFunctionOnSet(f, S) = SumFunctionOnSet(e, S)
<1> DEFINE g == CHOOSE h : IsFold(h, f, SUBSET S)
           k == CHOOSE h : IsFold(h, e, SUBSET S)
<1>1. IsFold(g, f, SUBSET S) /\ IsFold(k, e, SUBSET S)
  BY FoldExists
<1>2. SumFunctionOnSet(f, S) = g[S] /\ SumFunctionOnSet(e, S) = k[S]
  BY SumIsFold
<1> HIDE DEF g, k
<1>3. g[S] = k[S]
  BY <1>1, FoldsAgree
<1>4. QED
  BY <1>2, <1>3

\* The sum of integers is an integer.
LEMMA SumInt ==
    ASSUME NEW S, IsFiniteSet(S), NEW f, \A x \in S : f[x] \in Int
    PROVE  SumFunctionOnSet(f, S) \in Int
<1> DEFINE Sum(T) == SumFunctionOnSet(f, T)
           OfSize(n) == {T \in SUBSET S : Cardinality(T) = n}
           N == {n \in Nat : \A T \in OfSize(n) : Sum(T) \in Int}
<1>1. \A T \in SUBSET S : IsFiniteSet(T) /\ Cardinality(T) \in Nat
  BY FS_Subset, FS_CardinalityType
<1>2. 0 \in N
  BY <1>1, FS_EmptySet, SumEmpty
<1>3. ASSUME NEW n \in Nat, n \in N PROVE n + 1 \in N
  <2>1. SUFFICES ASSUME NEW T \in SUBSET S, Cardinality(T) = n + 1 PROVE Sum(T) \in Int
    OBVIOUS
  <2>2. IsFiniteSet(T) /\ T # {}
    BY <1>1, <2>1, FS_EmptySet, 0 # n + 1
  <2>3. Pick(T) \in T /\ Sum(T) = f[Pick(T)] + Sum(T \ {Pick(T)})
    BY <2>2, Picked, SumPicks
  <2>4. Cardinality(T \ {Pick(T)}) = n
    <3>1. Cardinality(T \ {Pick(T)}) = Cardinality(T) - 1
      BY <2>2, <2>3, FS_RemoveElement
    <3>2. QED
      BY <2>1, <3>1
  <2>5. Sum(T \ {Pick(T)}) \in Int
    BY <1>3, <2>4
  <2>6. QED
    BY <2>3, <2>5
<1>4. Nat \subseteq N
  <2> HIDE DEF N
  <2>1. QED
    BY <1>2, <1>3, NatInduct
<1>5. QED
  BY <1>1, <1>4

\* Whichever element is taken out, the sum is its value and the sum of the rest.
LEMMA SumRemove ==
    ASSUME NEW S, IsFiniteSet(S), NEW f, \A x \in S : f[x] \in Int, NEW x \in S
    PROVE  SumFunctionOnSet(f, S) = f[x] + SumFunctionOnSet(f, S \ {x})
<1> DEFINE Sum(T) == SumFunctionOnSet(f, T)
           Removes(T) == \A y \in T : Sum(T) = f[y] + Sum(T \ {y})
           N == {n \in Nat : \A T \in SUBSET S : Cardinality(T) = n => Removes(T)}
<1>1. \A T \in SUBSET S : IsFiniteSet(T) /\ Cardinality(T) \in Nat
  BY FS_Subset, FS_CardinalityType
<1>2. \A T \in SUBSET S : Sum(T) \in Int
  BY <1>1, SumInt
<1>3. 0 \in N
  BY <1>1, FS_EmptySet
<1>4. ASSUME NEW n \in Nat, n \in N PROVE n + 1 \in N
  <2>1. SUFFICES ASSUME NEW T \in SUBSET S, Cardinality(T) = n + 1, NEW y \in T
                 PROVE  Sum(T) = f[y] + Sum(T \ {y})
    OBVIOUS
  <2> DEFINE p == Pick(T)
             R == T \ {p}
             Q == T \ {y}
  <2>2. IsFiniteSet(T) /\ T # {}
    BY <1>1
  <2>3. p \in T /\ Sum(T) = f[p] + Sum(R)
    BY <2>2, Picked, SumPicks
  <2>4. Cardinality(R) = n /\ Cardinality(Q) = n /\ R \in SUBSET S /\ Q \in SUBSET S
    <3>1. Cardinality(R) = Cardinality(T) - 1 /\ Cardinality(Q) = Cardinality(T) - 1
      BY <2>2, <2>3, FS_RemoveElement
    <3>2. QED
      BY <2>1, <3>1
  <2>5. CASE y = p
    BY <2>3, <2>5
  <2>6. CASE y # p
    <3>1. y \in R /\ p \in Q /\ R \ {y} = Q \ {p}
      BY <2>3, <2>6
    <3>2. Removes(R) /\ Removes(Q)
      BY <1>4, <2>4
    <3>3. Sum(R) = f[y] + Sum(R \ {y}) /\ Sum(Q) = f[p] + Sum(Q \ {p})
      BY <3>1, <3>2
    <3>4. f[y] \in Int /\ f[p] \in Int /\ Sum(Q \ {p}) \in Int
      BY <1>2, <2>3
    <3> HIDE DEF Sum, p, R, Q
    <3>5. Sum(Q \ {p}) = Sum(R \ {y})
      BY <3>1
    <3>6. Sum(T) = f[y] + Sum(Q)
      BY <2>3, <3>3, <3>4, <3>5
    <3>7. QED
      BY <3>6 DEF Q
  <2>7. QED
    BY <2>5, <2>6
<1>5. Nat \subseteq N
  <2> HIDE DEF N
  <2>1. QED
    BY <1>3, <1>4, NatInduct
<1>6. QED
  BY <1>1, <1>5

LEMMA SumAdd ==
    ASSUME NEW S, IsFiniteSet(S), NEW x, x \notin S, NEW f,
           \A y \in S \cup {x} : f[y] \in Int
    PROVE  SumFunctionOnSet(f, S \cup {x}) = SumFunctionOnSet(f, S) + f[x]
<1> DEFINE U == S \cup {x}
<1>1. IsFiniteSet(U) /\ U \ {x} = S /\ x \in U
  BY FS_AddElement
<1>2. f[x] \in Int /\ SumFunctionOnSet(f, S) \in Int
  BY SumInt
<1> HIDE DEF U
<1>3. SumFunctionOnSet(f, U) = f[x] + SumFunctionOnSet(f, U \ {x})
  BY <1>1, SumRemove DEF U
<1>4. SumFunctionOnSet(f, U) = SumFunctionOnSet(f, S) + f[x]
  <2>1. SumFunctionOnSet(f, U \ {x}) = SumFunctionOnSet(f, S)
    BY <1>1
  <2>2. QED
    BY <1>2, <1>3, <2>1
<1>5. QED
  BY <1>4 DEF U

\* Sums over disjoint sets add up.
LEMMA SumUnion ==
    ASSUME NEW S, IsFiniteSet(S), NEW T, IsFiniteSet(T), S \cap T = {}, NEW f,
           \A x \in S \cup T : f[x] \in Int
    PROVE  SumFunctionOnSet(f, S \cup T) = SumFunctionOnSet(f, S) + SumFunctionOnSet(f, T)
<1> DEFINE Sum(R) == SumFunctionOnSet(f, R)
           F == {R \in SUBSET T : Sum(S \cup R) = Sum(S) + Sum(R)}
<1>1. \A R \in SUBSET T : IsFiniteSet(R) /\ IsFiniteSet(S \cup R)
  BY FS_Subset, FS_Union
<1>2. Sum(S) \in Int /\ \A R \in SUBSET T : Sum(R) \in Int
  BY <1>1, SumInt
<1>3. {} \in F
  BY <1>2, SumEmpty
<1>4. ASSUME NEW R \in SUBSET T, NEW x \in T, R \in F PROVE R \cup {x} \in F
  <2>1. CASE x \in R
    BY <1>4, <2>1
  <2>2. CASE x \notin R
    <3>1. Sum(R \cup {x}) = Sum(R) + f[x]
      BY <1>1, <2>2, SumAdd
    <3>2. Sum((S \cup R) \cup {x}) = Sum(S \cup R) + f[x]
      BY <1>1, <2>2, SumAdd
    <3>3. (S \cup R) \cup {x} = S \cup (R \cup {x})
      OBVIOUS
    <3>4. f[x] \in Int /\ Sum(R) \in Int /\ Sum(S \cup R) = Sum(S) + Sum(R)
      BY <1>2, <1>4
    <3> HIDE DEF Sum
    <3>5. Sum(S \cup (R \cup {x})) = Sum(S) + Sum(R \cup {x})
      BY <1>2, <3>1, <3>2, <3>3, <3>4
    <3>6. QED
      BY <3>5
  <2>3. QED
    BY <2>1, <2>2
<1>5. T \in F
  <2> HIDE DEF F
  <2>1. QED
    BY <1>3, <1>4, FiniteInduct
<1>6. QED
  BY <1>5

\* A sum of equal parts is a product.
LEMMA SumConst ==
    ASSUME NEW S, IsFiniteSet(S), NEW f, NEW p \in Int, \A x \in S : f[x] = p
    PROVE  SumFunctionOnSet(f, S) = Cardinality(S) * p
<1> DEFINE Sum(T) == SumFunctionOnSet(f, T)
           F == {T \in SUBSET S : Sum(T) = Cardinality(T) * p}
<1>1. \A T \in SUBSET S : IsFiniteSet(T) /\ Cardinality(T) \in Nat
  BY FS_Subset, FS_CardinalityType
<1>2. {} \in F
  <2>1. Sum({}) = 0 /\ Cardinality({}) = 0 /\ 0 * p = 0
    BY SumEmpty, FS_EmptySet
  <2>2. QED
    BY <2>1
<1>3. ASSUME NEW T \in SUBSET S, NEW x \in S, T \in F PROVE T \cup {x} \in F
  <2>1. CASE x \in T
    <3>1. T \cup {x} = T
      BY <2>1
    <3>2. QED
      BY <1>3, <3>1
  <2>2. CASE x \notin T
    <3>1. Sum(T \cup {x}) = Sum(T) + f[x]
      BY <1>1, <2>2, SumAdd
    <3>2. Cardinality(T \cup {x}) = Cardinality(T) + 1
      BY <1>1, <2>2, FS_AddElement
    <3>3. Sum(T) = Cardinality(T) * p /\ f[x] = p
      BY <1>3
    <3> DEFINE n == Cardinality(T)
    <3>4. n \in Nat
      BY <1>1
    <3> HIDE DEF n
    <3>5. n * p + p = (n + 1) * p
      BY <3>4
    <3>6. Sum(T \cup {x}) = Cardinality(T \cup {x}) * p
      BY <3>1, <3>2, <3>3, <3>5 DEF n
    <3>7. QED
      BY <3>6
  <2>3. QED
    BY <2>1, <2>2
<1>4. S \in F
  <2> HIDE DEF F
  <2>1. QED
    BY <1>1, <1>2, <1>3, FiniteInduct
<1>5. QED
  BY <1>4

================================================================================
