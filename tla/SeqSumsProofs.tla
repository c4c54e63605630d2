---------------------------- MODULE SeqSumsProofs ----------------------------
(***************************************************************************)
(* What Total and SumFunction return.  A recursive function is a CHOOSE,   *)
(* so the first lemmas show that a function satisfying the recursion       *)
(* exists; the rest follows by looking at a least index, or a smallest     *)
(* set, where the claim would fail.  NumberOf, at the end, counts the      *)
(* elements of a list that are in a set.                                   *)
(***************************************************************************)
EXTENDS SeqSums, Functions, SequenceTheorems, FiniteSetTheorems, WellFoundedInduction, TLAPS

\* The recursion RunningTotals is defined by, as a property of T on 0 .. n.
AddsUp(T, s, n) ==
  T = [m \in 0 .. n |-> IF m = 0 THEN 0 ELSE T[m - 1] + s[m]]

\* A nonempty set of naturals has a least element.
LEMMA LeastElement ==
  ASSUME NEW S \in SUBSET Nat, S # {}
  PROVE  \E x \in S : \A y \in S : x <= y
<1>1. PICK x \in S : \A y \in S : ~ (<<y, x>> \in OpToRel(<, Nat))
  BY WFMin, NatLessThanWellFounded
<1>2. ASSUME NEW y \in S PROVE x <= y
  <2>1. <<y, x>> \notin OpToRel(<, Nat)
    BY <1>1
  <2>2. ~ (y < x)
    BY <2>1 DEF OpToRel
  <2> QED BY <2>2
<1> QED BY <1>2

\* Totals over every prefix exist, with integer values.
LEMMA RunningTotalsExist ==
  ASSUME NEW s \in Seq(Int), NEW n \in 0 .. Len(s)
  PROVE  \E T \in [0 .. n -> Int] : AddsUp(T, s, n)
<1> DEFINE Bad == {m \in 0 .. Len(s) : ~ \E T \in [0 .. m -> Int] : AddsUp(T, s, m)}
<1>1. SUFFICES ASSUME Bad # {} PROVE FALSE
  OBVIOUS
<1>2. Bad \in SUBSET Nat
  OBVIOUS
<1>3. PICK m \in Bad : \A k \in Bad : m <= k
  BY <1>1, <1>2, LeastElement
<1>4. m # 0
  <2> DEFINE T == [k \in 0 .. 0 |-> 0]
  <2>1. T \in [0 .. 0 -> Int] /\ AddsUp(T, s, 0)
    BY DEF AddsUp
  <2> QED BY <2>1
<1>5. m - 1 \in 0 .. Len(s) /\ m - 1 \notin Bad
  <2>1. m \in 0 .. Len(s)
    OBVIOUS
  <2>2. m - 1 \in 0 .. Len(s)
    BY <2>1, <1>4
  <2>3. ASSUME m - 1 \in Bad PROVE FALSE
    <3>1. m <= m - 1
      BY <1>3, <2>3
    <3> QED BY <3>1, <2>1
  <2> QED BY <2>2, <2>3
<1>6. PICK T \in [0 .. m - 1 -> Int] : AddsUp(T, s, m - 1)
  BY <1>5
<1> DEFINE U == [k \in 0 .. m |-> IF k = m THEN T[m - 1] + s[m] ELSE T[k]]
<1>7. U \in [0 .. m -> Int]
  BY <1>4
<1>8. ASSUME NEW k \in 0 .. m
      PROVE  U[k] = IF k = 0 THEN 0 ELSE U[k - 1] + s[k]
  <2>1. CASE k = m
    BY <2>1, <1>4
  <2>2. CASE k # m
    <3>1. k \in 0 .. m - 1
      BY <2>2
    <3>2. T[k] = IF k = 0 THEN 0 ELSE T[k - 1] + s[k]
      BY <3>1, <1>6 DEF AddsUp
    <3> QED BY <3>1, <3>2
  <2> QED BY <2>1, <2>2
<1>9. AddsUp(U, s, m)
  BY <1>8 DEF AddsUp
<1> QED BY <1>7, <1>9

\* RunningTotals satisfies its recursion.
LEMMA RunningTotalsRecursion ==
  ASSUME NEW s \in Seq(Int)
  PROVE  AddsUp(RunningTotals(s), s, Len(s))
<1>1. Len(s) \in 0 .. Len(s)
  OBVIOUS
<1>2. \E T : AddsUp(T, s, Len(s))
  BY <1>1, RunningTotalsExist
<1>3. RunningTotals(s) = CHOOSE T : AddsUp(T, s, Len(s))
  BY DEF RunningTotals, AddsUp
<1> QED BY <1>2, <1>3

\* Every running total is an integer.
LEMMA RunningTotalsType ==
  ASSUME NEW s \in Seq(Int)
  PROVE  RunningTotals(s) \in [0 .. Len(s) -> Int]
<1> DEFINE R == RunningTotals(s)
           Bad == {m \in 0 .. Len(s) : R[m] \notin Int}
<1>1. R = [m \in 0 .. Len(s) |-> IF m = 0 THEN 0 ELSE R[m - 1] + s[m]]
  BY RunningTotalsRecursion DEF AddsUp
<1> HIDE DEF R
<1>2. SUFFICES Bad = {}
  BY <1>1 DEF R
<1>3. SUFFICES ASSUME Bad # {} PROVE FALSE
  OBVIOUS
<1>4. PICK m \in Bad : \A k \in Bad : m <= k
  <2>1. Bad \in SUBSET Nat
    OBVIOUS
  <2> QED BY <2>1, <1>3, LeastElement
<1>5. m # 0
  BY <1>1
<1>6. m - 1 \in 0 .. Len(s)
  BY <1>5
<1>7. R[m - 1] \in Int
  BY <1>4, <1>6
<1>8. R[m] = R[m - 1] + s[m] /\ s[m] \in Int
  BY <1>1, <1>5
<1> QED BY <1>7, <1>8

\* Two sequences that agree up to n have the same running totals up to n.
LEMMA RunningTotalsAgree ==
  ASSUME NEW s \in Seq(Int), NEW t \in Seq(Int), Len(s) <= Len(t),
         \A i \in 1 .. Len(s) : s[i] = t[i],
         NEW n \in 0 .. Len(s)
  PROVE  RunningTotals(s)[n] = RunningTotals(t)[n]
<1> DEFINE R == RunningTotals(s)
           Q == RunningTotals(t)
           Bad == {m \in 0 .. Len(s) : R[m] # Q[m]}
<1>1. /\ R = [m \in 0 .. Len(s) |-> IF m = 0 THEN 0 ELSE R[m - 1] + s[m]]
      /\ Q = [m \in 0 .. Len(t) |-> IF m = 0 THEN 0 ELSE Q[m - 1] + t[m]]
  BY RunningTotalsRecursion DEF AddsUp
<1> HIDE DEF R, Q
<1>2. SUFFICES ASSUME Bad # {} PROVE FALSE
  BY DEF R, Q
<1>3. PICK m \in Bad : \A k \in Bad : m <= k
  <2>1. Bad \in SUBSET Nat
    OBVIOUS
  <2> QED BY <2>1, <1>2, LeastElement
<1>4. m \in 0 .. Len(s) /\ m \in 0 .. Len(t)
  OBVIOUS
<1>5. m # 0
  BY <1>1, <1>4
<1>6. m - 1 \in 0 .. Len(s)
  BY <1>4, <1>5
<1>7. R[m - 1] = Q[m - 1]
  BY <1>3, <1>6
<1>8. R[m] = R[m - 1] + s[m]
  BY <1>1, <1>4, <1>5
<1>9. Q[m] = Q[m - 1] + t[m]
  BY <1>1, <1>4, <1>5
<1>10. s[m] = t[m]
  BY <1>4, <1>5
<1> QED BY <1>7, <1>8, <1>9, <1>10

\* The three facts about Total that the ledger proofs use.
LEMMA TotalType ==
  ASSUME NEW s \in Seq(Int)
  PROVE  Total(s) \in Int
BY RunningTotalsType DEF Total

LEMMA TotalEmpty == Total(<<>>) = 0
<1>1. <<>> \in Seq(Int) /\ Len(<<>>) = 0
  OBVIOUS
<1>2. RunningTotals(<<>>) = [m \in 0 .. 0 |-> IF m = 0 THEN 0 ELSE RunningTotals(<<>>)[m - 1] + <<>>[m]]
  BY <1>1, RunningTotalsRecursion DEF AddsUp
<1> QED BY <1>1, <1>2 DEF Total

LEMMA TotalAppend ==
  ASSUME NEW s \in Seq(Int), NEW x \in Int
  PROVE  Total(Append(s, x)) = Total(s) + x
<1> DEFINE t == Append(s, x)
           Q == RunningTotals(t)
<1>1. t \in Seq(Int) /\ Len(t) = Len(s) + 1 /\ t[Len(t)] = x /\ \A i \in 1 .. Len(s) : s[i] = t[i]
  OBVIOUS
<1>2. Q = [m \in 0 .. Len(t) |-> IF m = 0 THEN 0 ELSE Q[m - 1] + t[m]]
  BY <1>1, RunningTotalsRecursion DEF AddsUp
<1>3. Len(s) \in 0 .. Len(s) /\ Len(t) \in 0 .. Len(t) /\ Len(t) # 0 /\ Len(t) - 1 = Len(s)
  BY <1>1
<1> HIDE DEF t, Q
<1>4. Q[Len(t)] = Q[Len(s)] + x
  BY <1>1, <1>2, <1>3
<1>5. RunningTotals(s)[Len(s)] = RunningTotals(t)[Len(s)]
  <2>1. Len(s) <= Len(t) /\ Len(s) \in 0 .. Len(s) /\ t \in Seq(Int)
    BY <1>1, <1>3
  <2>2. \A i \in 1 .. Len(s) : s[i] = t[i]
    BY <1>1
  <2> HIDE <1>1, <1>2, <1>3, <1>4
  <2> QED BY <2>1, <2>2, RunningTotalsAgree
<1> QED BY <1>4, <1>5 DEF Total, Q, t

\* Short sequences, written out.
LEMMA TotalOfTwo ==
  ASSUME NEW x \in Int, NEW y \in Int
  PROVE  Total(<<x, y>>) = x + y
<1> DEFINE none == <<>>
           one  == <<x>>
           two  == <<x, y>>
<1>1. none \in Seq(Int) /\ one \in Seq(Int)
  OBVIOUS
<1>2. one = Append(none, x) /\ two = Append(one, y)
  OBVIOUS
<1>3. Total(none) = 0
  BY TotalEmpty
<1> HIDE DEF none, one, two
<1>4. Total(one) = x
  BY <1>1, <1>2, <1>3, TotalAppend
<1>5. Total(two) = x + y
  BY <1>1, <1>2, <1>4, TotalAppend
<1> QED BY <1>5 DEF two

LEMMA TotalOfThree ==
  ASSUME NEW x \in Int, NEW y \in Int, NEW z \in Int
  PROVE  Total(<<x, y, z>>) = x + y + z
<1>1. <<x, y>> \in Seq(Int) /\ <<x, y, z>> = Append(<<x, y>>, z)
  OBVIOUS
<1>2. Total(Append(<<x, y>>, z)) = Total(<<x, y>>) + z
  BY <1>1, TotalAppend
<1> QED BY <1>1, <1>2, TotalOfTwo

\* A sequence that is pointwise smaller has the smaller total.
LEMMA TotalMonotone ==
  ASSUME NEW s \in Seq(Int), NEW t \in Seq(Int), Len(s) = Len(t),
         \A i \in 1 .. Len(s) : s[i] <= t[i]
  PROVE  Total(s) <= Total(t)
<1> DEFINE R == RunningTotals(s)
           Q == RunningTotals(t)
           Bad == {m \in 0 .. Len(s) : ~ (R[m] <= Q[m])}
<1>1. /\ R = [m \in 0 .. Len(s) |-> IF m = 0 THEN 0 ELSE R[m - 1] + s[m]]
      /\ Q = [m \in 0 .. Len(s) |-> IF m = 0 THEN 0 ELSE Q[m - 1] + t[m]]
  BY RunningTotalsRecursion DEF AddsUp
<1>2. R \in [0 .. Len(s) -> Int] /\ Q \in [0 .. Len(s) -> Int]
  BY RunningTotalsType
<1> HIDE DEF R, Q
<1>3. Bad = {}
  <2>1. SUFFICES ASSUME Bad # {} PROVE FALSE
    OBVIOUS
  <2>2. PICK m \in Bad : \A k \in Bad : m <= k
    <3>1. Bad \in SUBSET Nat
      OBVIOUS
    <3> QED BY <3>1, <2>1, LeastElement
  <2>3. m \in 0 .. Len(s)
    OBVIOUS
  <2>4. m # 0
    BY <1>1, <2>3
  <2>5. m - 1 \in 0 .. Len(s)
    BY <2>3, <2>4
  <2>6. R[m - 1] <= Q[m - 1]
    BY <2>2, <2>5
  <2>7. R[m] = R[m - 1] + s[m] /\ Q[m] = Q[m - 1] + t[m]
    BY <1>1, <2>3, <2>4
  <2>8. s[m] <= t[m] /\ s[m] \in Int /\ t[m] \in Int
    BY <2>3, <2>4
  <2>9. R[m - 1] \in Int /\ Q[m - 1] \in Int
    BY <1>2, <2>5
  <2> QED BY <2>6, <2>7, <2>8, <2>9
<1>4. Len(s) \in 0 .. Len(s)
  OBVIOUS
<1>5. R[Len(s)] <= Q[Len(s)]
  BY <1>3, <1>4
<1> QED BY <1>5 DEF Total, R, Q

\* Negating every element negates the total.
LEMMA TotalNegated ==
  ASSUME NEW s \in Seq(Int)
  PROVE  Total([i \in DOMAIN s |-> 0 - s[i]]) = 0 - Total(s)
<1> DEFINE t == [i \in DOMAIN s |-> 0 - s[i]]
           R == RunningTotals(s)
           Q == RunningTotals(t)
           Bad == {m \in 0 .. Len(s) : Q[m] # 0 - R[m]}
<1>1. t \in Seq(Int) /\ Len(t) = Len(s) /\ \A i \in 1 .. Len(s) : t[i] = 0 - s[i]
  OBVIOUS
<1>2. /\ R = [m \in 0 .. Len(s) |-> IF m = 0 THEN 0 ELSE R[m - 1] + s[m]]
      /\ Q = [m \in 0 .. Len(s) |-> IF m = 0 THEN 0 ELSE Q[m - 1] + t[m]]
  BY <1>1, RunningTotalsRecursion DEF AddsUp
<1>3. R \in [0 .. Len(s) -> Int]
  BY RunningTotalsType
<1> HIDE DEF R, Q, t
<1>4. Bad = {}
  <2>1. SUFFICES ASSUME Bad # {} PROVE FALSE
    OBVIOUS
  <2>2. PICK m \in Bad : \A k \in Bad : m <= k
    <3>1. Bad \in SUBSET Nat
      OBVIOUS
    <3> QED BY <3>1, <2>1, LeastElement
  <2>3. m \in 0 .. Len(s)
    OBVIOUS
  <2>4. m # 0
    BY <1>2, <2>3
  <2>5. m - 1 \in 0 .. Len(s)
    BY <2>3, <2>4
  <2>6. Q[m - 1] = 0 - R[m - 1]
    BY <2>2, <2>5
  <2>7. R[m] = R[m - 1] + s[m] /\ Q[m] = Q[m - 1] + t[m]
    BY <1>2, <2>3, <2>4
  <2>8. t[m] = 0 - s[m] /\ s[m] \in Int
    BY <1>1, <2>3, <2>4
  <2>9. R[m - 1] \in Int
    BY <1>3, <2>5
  <2>10. Q[m] = 0 - R[m]
    <3>1. ASSUME NEW r \in Int, NEW x \in Int
          PROVE  (0 - r) + (0 - x) = 0 - (r + x)
      OBVIOUS
    <3>2. (0 - R[m - 1]) + (0 - s[m]) = 0 - (R[m - 1] + s[m])
      BY <2>8, <2>9, <3>1
    <3> QED BY <2>6, <2>7, <2>8, <3>2
  <2> QED BY <2>10
<1>5. Len(s) \in 0 .. Len(s)
  OBVIOUS
<1>6. Q[Len(s)] = 0 - R[Len(s)]
  BY <1>4, <1>5
<1> QED BY <1>1, <1>6 DEF Total, R, Q, t

\* A sequence of zeros totals zero.
LEMMA TotalOfZeros ==
  ASSUME NEW s \in Seq(Int), \A i \in 1 .. Len(s) : s[i] = 0
  PROVE  Total(s) = 0
<1>1. [i \in DOMAIN s |-> 0 - s[i]] = s
  OBVIOUS
<1>2. Total(s) = 0 - Total(s) /\ Total(s) \in Int
  BY <1>1, TotalNegated, TotalType
<1> QED BY <1>2

-----------------------------------------------------------------------------
(* Sums of functions over finite sets: SumFunction, of the module          *)
(* Functions, is a CHOOSE as well.                                         *)

\* The element SumFunction takes next.
Some(S) == CHOOSE x \in S : TRUE

\* The recursion SumFunction is defined by, as a property of T on subsets of S.
Sums(T, g, D) ==
  T = [S \in D |-> IF S = {} THEN 0 ELSE g[Some(S)] + T[S \ {Some(S)}]]

SumsSubsets(T, g, S) == Sums(T, g, SUBSET S)

\* A solution that gives SumFunction over every subset of S.
Solves(T, g, S) ==
  /\ T \in [SUBSET S -> Int]
  /\ Sums(T, g, SUBSET S)
  /\ \A R \in SUBSET S : SumFunction(Restrict(g, R)) = T[R]

\* The subsets of S with at most n elements.
UpTo(S, n) == {R \in SUBSET S : Cardinality(R) <= n}

\* Subsets of a finite set, and what removing an element does to their size.
LEMMA SubsetCardinality ==
  ASSUME NEW S, IsFiniteSet(S), NEW R \in SUBSET S
  PROVE  /\ IsFiniteSet(R) /\ Cardinality(R) \in Nat
         /\ R # {} => /\ Some(R) \in R /\ Cardinality(R) # 0
         /\ \A x \in R : Cardinality(R \ {x}) = Cardinality(R) - 1
<1>1. IsFiniteSet(R)
  BY FS_Subset
<1>2. Cardinality(R) \in Nat
  BY <1>1, FS_CardinalityType
<1>3. R # {} => Cardinality(R) # 0
  BY <1>1, FS_EmptySet
<1>4. \A x \in R : Cardinality(R \ {x}) = Cardinality(R) - 1
  BY <1>1, FS_RemoveElement
<1> QED BY <1>1, <1>2, <1>3, <1>4 DEF Some

\* Sums over the subsets of up to n elements exist, with integer values.
LEMMA SumsExist ==
  ASSUME NEW S, IsFiniteSet(S), NEW g \in [S -> Int], NEW n \in Nat
  PROVE  \E T \in [UpTo(S, n) -> Int] : Sums(T, g, UpTo(S, n))
<1> DEFINE Good(m) == \E T \in [UpTo(S, m) -> Int] : Sums(T, g, UpTo(S, m))
           Bad == {m \in Nat : ~ Good(m)}
<1>1. SUFFICES ASSUME Bad # {} PROVE FALSE
  OBVIOUS
<1>2. PICK m \in Bad : \A k \in Bad : m <= k
  <2>1. Bad \in SUBSET Nat
    OBVIOUS
  <2> HIDE DEF Bad
  <2> QED BY <1>1, <2>1, LeastElement
<1>3. m # 0
  <2> DEFINE T == [R \in UpTo(S, 0) |-> 0]
  <2>1. \A R \in UpTo(S, 0) : R = {}
    BY SubsetCardinality DEF UpTo
  <2>2. T \in [UpTo(S, 0) -> Int] /\ Sums(T, g, UpTo(S, 0))
    BY <2>1 DEF Sums
  <2> QED BY <2>2
<1>4. m - 1 \in Nat /\ Good(m - 1)
  BY <1>2, <1>3
<1>5. PICK T \in [UpTo(S, m - 1) -> Int] : Sums(T, g, UpTo(S, m - 1))
  BY <1>4
<1> DEFINE U == [R \in UpTo(S, m) |->
                   IF R = {} THEN 0 ELSE g[Some(R)] + T[R \ {Some(R)}]]
<1>6. ASSUME NEW R \in UpTo(S, m), R # {}
      PROVE  Some(R) \in S /\ R \ {Some(R)} \in UpTo(S, m - 1)
  <2>1. Some(R) \in R /\ Cardinality(R \ {Some(R)}) = Cardinality(R) - 1 /\ Cardinality(R) \in Nat
    BY <1>6, SubsetCardinality DEF UpTo
  <2>2. Cardinality(R) <= m /\ m \in Nat
    BY DEF UpTo
  <2> QED BY <2>1, <2>2 DEF UpTo
<1>7. U \in [UpTo(S, m) -> Int]
  BY <1>6
<1>8. ASSUME NEW R \in UpTo(S, m - 1) PROVE U[R] = T[R]
  <2>1. R \in UpTo(S, m)
    <3>1. Cardinality(R) \in Nat /\ Cardinality(R) <= m - 1 /\ m \in Nat /\ R \in SUBSET S
      BY SubsetCardinality DEF UpTo
    <3> QED BY <3>1 DEF UpTo
  <2> QED BY <1>5, <2>1 DEF Sums
<1>9. Sums(U, g, UpTo(S, m))
  <2>1. ASSUME NEW R \in UpTo(S, m)
        PROVE  U[R] = IF R = {} THEN 0 ELSE g[Some(R)] + U[R \ {Some(R)}]
    BY <1>6, <1>8
  <2> QED BY <2>1 DEF Sums
<1> QED BY <1>2, <1>7, <1>9

\* Two solutions of the recursion agree where their summands do.
LEMMA SumsAgree ==
  ASSUME NEW S, IsFiniteSet(S), NEW R \in SUBSET S, NEW g \in [S -> Int],
         NEW h, \A x \in R : g[x] = h[x],
         NEW T, SumsSubsets(T, g, S),
         NEW U, SumsSubsets(U, h, R)
  PROVE  T[R] = U[R]
<1> DEFINE Bad == {n \in Nat : \E Q \in SUBSET R : Cardinality(Q) = n /\ T[Q] # U[Q]}
<1>1. IsFiniteSet(R) /\ Cardinality(R) \in Nat
  BY SubsetCardinality
<1>2. SUFFICES ASSUME Bad # {} PROVE FALSE
  BY <1>1
<1>3. PICK n \in Bad : \A k \in Bad : n <= k
  <2>1. Bad \in SUBSET Nat
    OBVIOUS
  <2> HIDE DEF Bad
  <2> QED BY <1>2, <2>1, LeastElement
<1>4. PICK Q \in SUBSET R : Cardinality(Q) = n /\ T[Q] # U[Q]
  OBVIOUS
<1>5. Q # {}
  BY <1>4 DEF SumsSubsets, Sums
<1>6. /\ Some(Q) \in Q /\ Cardinality(Q \ {Some(Q)}) = n - 1 /\ n \in Nat /\ n # 0
  BY <1>1, <1>4, <1>5, SubsetCardinality
<1>7. T[Q \ {Some(Q)}] = U[Q \ {Some(Q)}]
  <2>1. n - 1 \in Nat /\ n - 1 \notin Bad /\ Q \ {Some(Q)} \in SUBSET R
    BY <1>3, <1>6
  <2> QED BY <2>1, <1>6
<1>8. T[Q] = g[Some(Q)] + T[Q \ {Some(Q)}]
  BY <1>5 DEF SumsSubsets, Sums
<1>9. U[Q] = h[Some(Q)] + U[Q \ {Some(Q)}]
  BY <1>5 DEF SumsSubsets, Sums
<1> QED BY <1>4, <1>6, <1>7, <1>8, <1>9

\* SumFunction over a subset is what one solution of the recursion says.
LEMMA SumRecursion ==
  ASSUME NEW S, IsFiniteSet(S), NEW g \in [S -> Int]
  PROVE  \E T : Solves(T, g, S)
<1>1. \A R \in SUBSET S : UpTo(R, Cardinality(R)) = SUBSET R
  <2> TAKE R \in SUBSET S
  <2>1. IsFiniteSet(R)
    BY FS_Subset
  <2> QED BY <2>1, FS_Subset DEF UpTo
<1>2. \A R \in SUBSET S : \E T \in [UpTo(R, Cardinality(R)) -> Int] :
                             Sums(T, Restrict(g, R), UpTo(R, Cardinality(R)))
  <2> TAKE R \in SUBSET S
  <2>1. IsFiniteSet(R) /\ Cardinality(R) \in Nat
    BY SubsetCardinality
  <2>2. Restrict(g, R) \in [R -> Int]
    BY DEF Restrict
  <2> QED BY <2>1, <2>2, SumsExist
<1>3. \A R \in SUBSET S : \E T \in [SUBSET R -> Int] : Sums(T, Restrict(g, R), SUBSET R)
  BY <1>1, <1>2
<1>4. PICK T \in [SUBSET S -> Int] : Sums(T, g, SUBSET S)
  <2>1. Restrict(g, S) = g
    BY DEF Restrict
  <2>2. \E T \in [SUBSET S -> Int] : Sums(T, Restrict(g, S), SUBSET S)
    BY <1>3
  <2> QED BY <2>1, <2>2
<1>5. ASSUME NEW R \in SUBSET S
      PROVE  SumFunction(Restrict(g, R)) = T[R]
  <2> DEFINE h == Restrict(g, R)
             C == CHOOSE U : Sums(U, h, SUBSET R)
  <2>1. \E U : Sums(U, h, SUBSET R)
    BY <1>3
  <2>2. Sums(C, h, SUBSET R)
    BY <2>1
  <2>3. SumFunction(h) = C[R]
    <3>1. DOMAIN h = R
      BY DEF Restrict
    <3> HIDE DEF h
    <3> QED BY <3>1 DEF SumFunction, SumFunctionOnSet, FoldFunctionOnSet, MapThenFoldSet, Sums, Some
  <2>4. \A x \in R : g[x] = h[x]
    BY DEF Restrict
  <2>5. SumsSubsets(T, g, S) /\ SumsSubsets(C, h, R)
    BY <1>4, <2>2 DEF SumsSubsets
  <2> HIDE DEF C, h
  <2>6. T[R] = C[R]
    BY <2>4, <2>5, SumsAgree
  <2> QED BY <2>3, <2>6 DEF h
<1> QED BY <1>4, <1>5 DEF Solves

\* The sum over a set of a function's arguments.
LEMMA SumOnSet ==
  ASSUME NEW S, IsFiniteSet(S), NEW g \in [S -> Int], NEW R \in SUBSET S
  PROVE  SumFunctionOnSet(g, R) = SumFunction(Restrict(g, R))
<1> DEFINE C == CHOOSE U : Sums(U, g, SUBSET R)
<1>1. PICK T : Solves(T, g, S)
  BY SumRecursion
<1>2. Sums([Q \in SUBSET R |-> T[Q]], g, SUBSET R)
  BY <1>1 DEF Solves, Sums
<1>3. Sums(C, g, SUBSET R)
  BY <1>2
<1>4. SumFunctionOnSet(g, R) = C[R]
  BY DEF SumFunctionOnSet, FoldFunctionOnSet, MapThenFoldSet, Sums, Some
<1>5. SumsSubsets(T, g, S) /\ SumsSubsets(C, g, R)
  BY <1>1, <1>3 DEF SumsSubsets, Solves
<1> HIDE DEF C
<1>6. T[R] = C[R]
  BY <1>5, SumsAgree
<1> QED BY <1>1, <1>4, <1>6 DEF Solves

\* A sum of integers is an integer, and an empty sum zero.
LEMMA SumType ==
  ASSUME NEW S, IsFiniteSet(S), NEW g \in [S -> Int]
  PROVE  SumFunction(g) \in Int
<1>1. Restrict(g, S) = g
  BY DEF Restrict
<1>2. PICK T : Solves(T, g, S)
  BY SumRecursion
<1> QED BY <1>1, <1>2 DEF Solves

LEMMA SumEmpty ==
  ASSUME NEW g, DOMAIN g = {}, g = [x \in DOMAIN g |-> g[x]]
  PROVE  SumFunction(g) = 0
<1>1. g \in [{} -> Int] /\ IsFiniteSet({}) /\ Restrict(g, {}) = g
  BY FS_EmptySet DEF Restrict
<1>2. PICK T : Solves(T, g, {})
  BY <1>1, SumRecursion
<1>3. SumFunction(g) = T[{}]
  BY <1>1, <1>2 DEF Solves
<1> QED BY <1>2, <1>3 DEF Solves, Sums

\* A sum is any of its summands and the sum of the others.
LEMMA SumWithout ==
  ASSUME NEW S, IsFiniteSet(S), NEW g \in [S -> Int], NEW y \in S
  PROVE  SumFunction(g) = g[y] + SumFunction(Restrict(g, S \ {y}))
<1>1. PICK T : Solves(T, g, S)
  BY SumRecursion
<1> DEFINE Bad == {n \in Nat : \E R \in SUBSET S :
                     Cardinality(R) = n /\ \E z \in R : T[R] # g[z] + T[R \ {z}]}
<1>2. Bad = {}
  <2>1. SUFFICES ASSUME Bad # {} PROVE FALSE
    OBVIOUS
  <2>2. PICK n \in Bad : \A k \in Bad : n <= k
    <3>1. Bad \in SUBSET Nat
      OBVIOUS
    <3> HIDE DEF Bad
    <3> QED BY <2>1, <3>1, LeastElement
  <2>3. PICK R \in SUBSET S : Cardinality(R) = n /\ \E z \in R : T[R] # g[z] + T[R \ {z}]
    OBVIOUS
  <2>4. PICK z \in R : T[R] # g[z] + T[R \ {z}]
    BY <2>3
  <2> DEFINE w == Some(R)
  <2>5. w \in R /\ Cardinality(R \ {w}) = n - 1 /\ n - 1 \in Nat
    BY <2>3, <2>4, SubsetCardinality
  <2>6. T[R] = g[w] + T[R \ {w}]
    BY <1>1, <2>5 DEF Solves, Sums
  <2> HIDE DEF w
  <2>7. z # w
    BY <2>4, <2>6
  <2>8. T[R \ {w}] = g[z] + T[(R \ {w}) \ {z}]
    <3>1. n - 1 \notin Bad /\ R \ {w} \in SUBSET S /\ z \in R \ {w}
      BY <2>2, <2>5, <2>7
    <3> QED BY <3>1, <2>5
  <2>9. T[R \ {z}] = g[w] + T[(R \ {z}) \ {w}]
    <3>1. Cardinality(R \ {z}) = n - 1
      BY <2>3, SubsetCardinality
    <3>2. n - 1 \notin Bad /\ R \ {z} \in SUBSET S /\ w \in R \ {z}
      BY <2>2, <2>5, <2>7
    <3> QED BY <3>1, <3>2, <2>5
  <2>10. (R \ {w}) \ {z} = (R \ {z}) \ {w}
    OBVIOUS
  <2> DEFINE rest == T[(R \ {w}) \ {z}]
  <2>11. rest \in Int /\ g[w] \in Int /\ g[z] \in Int
    BY <1>1, <2>5 DEF Solves
  <2>12. T[R] = g[w] + (g[z] + rest) /\ T[R \ {z}] = g[w] + rest
    BY <2>6, <2>8, <2>9, <2>10
  <2> HIDE DEF rest
  <2> QED BY <2>4, <2>11, <2>12
<1>3. Cardinality(S) \in Nat /\ S \in SUBSET S
  BY FS_CardinalityType
<1>4. T[S] = g[y] + T[S \ {y}]
  BY <1>2, <1>3
<1>5. Restrict(g, S) = g
  BY DEF Restrict
<1>6. SumFunction(Restrict(g, S \ {y})) = T[S \ {y}]
  BY <1>1 DEF Solves
<1>7. SumFunction(Restrict(g, S)) = T[S]
  BY <1>1 DEF Solves
<1> QED BY <1>4, <1>5, <1>6, <1>7

\* Induction over the subsets of a finite set, for a set F of them.
LEMMA SubsetInduction ==
  ASSUME NEW S, IsFiniteSet(S), NEW F, {} \in F,
         \A R \in SUBSET S : \A x \in S \ R : R \in F => R \cup {x} \in F
  PROVE  S \in F
<1> DEFINE Bad == {n \in Nat : \E R \in SUBSET S : Cardinality(R) = n /\ R \notin F}
<1>1. Cardinality(S) \in Nat
  BY FS_CardinalityType
<1>2. SUFFICES ASSUME Bad # {} PROVE FALSE
  BY <1>1
<1>3. PICK n \in Bad : \A k \in Bad : n <= k
  <2>1. Bad \in SUBSET Nat
    OBVIOUS
  <2> HIDE DEF Bad
  <2> QED BY <1>2, <2>1, LeastElement
<1>4. PICK R \in SUBSET S : Cardinality(R) = n /\ R \notin F
  OBVIOUS
<1>5. PICK x \in R : TRUE
  BY <1>4
<1>6. Cardinality(R \ {x}) = n - 1 /\ n - 1 \in Nat
  BY <1>4, SubsetCardinality
<1>7. R \ {x} \in F
  <2>1. n - 1 \notin Bad /\ R \ {x} \in SUBSET S
    BY <1>3, <1>6
  <2> QED BY <1>6, <2>1
<1>8. (R \ {x}) \cup {x} = R /\ x \in S \ (R \ {x}) /\ R \ {x} \in SUBSET S
  OBVIOUS
<1> QED BY <1>4, <1>7, <1>8

\* A partial sum with one more summand.
LEMMA SumExtend ==
  ASSUME NEW S, IsFiniteSet(S), NEW g \in [S -> Int]
  PROVE  \A R \in SUBSET S :
           /\ SumFunction(Restrict(g, R)) \in Int
           /\ \A x \in S \ R :
                SumFunction(Restrict(g, R \cup {x})) = g[x] + SumFunction(Restrict(g, R))
<1>1. ASSUME NEW R \in SUBSET S
      PROVE  SumFunction(Restrict(g, R)) \in Int
  <2>1. IsFiniteSet(R) /\ Restrict(g, R) \in [R -> Int]
    BY FS_Subset DEF Restrict
  <2> QED BY <2>1, SumType
<1>2. ASSUME NEW R \in SUBSET S, NEW x \in S \ R
      PROVE  SumFunction(Restrict(g, R \cup {x})) = g[x] + SumFunction(Restrict(g, R))
  <2> DEFINE Q == R \cup {x}
             h == Restrict(g, Q)
  <2>1. IsFiniteSet(Q)
    BY FS_Subset
  <2>2. h \in [Q -> Int] /\ h[x] = g[x]
    BY DEF Restrict
  <2>3. Restrict(h, Q \ {x}) = Restrict(g, R)
    BY DEF Restrict
  <2> HIDE DEF h
  <2>4. SumFunction(h) = h[x] + SumFunction(Restrict(h, Q \ {x}))
    BY <2>1, <2>2, SumWithout
  <2> QED BY <2>2, <2>3, <2>4 DEF h
<1> QED BY <1>1, <1>2

\* The empty partial sum, and the full one.
LEMMA SumBounds ==
  ASSUME NEW S, IsFiniteSet(S), NEW g \in [S -> Int]
  PROVE  /\ SumFunction(Restrict(g, {})) = 0
         /\ Restrict(g, S) = g
         /\ SumFunction(g) \in Int
<1>1. DOMAIN Restrict(g, {}) = {} /\ Restrict(g, {}) = [x \in DOMAIN Restrict(g, {}) |-> Restrict(g, {})[x]]
  BY DEF Restrict
<1>2. SumFunction(Restrict(g, {})) = 0
  BY <1>1, SumEmpty
<1>3. Restrict(g, S) = g
  BY DEF Restrict
<1> QED BY <1>2, <1>3, SumType

\* Zeros add up to zero.
LEMMA SumOfZeros ==
  ASSUME NEW S, IsFiniteSet(S), NEW g \in [S -> Int], \A x \in S : g[x] = 0
  PROVE  SumFunction(g) = 0
<1> DEFINE F == {R \in SUBSET S : SumFunction(Restrict(g, R)) = 0}
<1>1. {} \in F
  BY SumBounds
<1>2. \A R \in SUBSET S : \A x \in S \ R : R \in F => R \cup {x} \in F
  BY SumExtend
<1>3. S \in F
  <2> HIDE DEF F
  <2> QED BY <1>1, <1>2, SubsetInduction
<1> QED BY <1>3, SumBounds

\* Sums of functions that agree except at y.
LEMMA SumChange ==
  ASSUME NEW S, IsFiniteSet(S), NEW g \in [S -> Int], NEW h \in [S -> Int], NEW y \in S,
         \A x \in S \ {y} : h[x] = g[x]
  PROVE  SumFunction(h) = SumFunction(g) + (h[y] - g[y])
<1>1. Restrict(h, S \ {y}) = Restrict(g, S \ {y})
  BY DEF Restrict
<1>2. /\ SumFunction(g) = g[y] + SumFunction(Restrict(g, S \ {y}))
      /\ SumFunction(h) = h[y] + SumFunction(Restrict(h, S \ {y}))
  BY SumWithout
<1>3. SumFunction(Restrict(g, S \ {y})) \in Int
  BY SumExtend
<1> QED BY <1>1, <1>2, <1>3

\* A function that is zero except at y.
LEMMA SumOfOne ==
  ASSUME NEW S, IsFiniteSet(S), NEW h \in [S -> Int], NEW y \in S,
         \A x \in S \ {y} : h[x] = 0
  PROVE  SumFunction(h) = h[y]
<1> DEFINE g == [x \in S |-> 0]
<1>1. g \in [S -> Int] /\ g[y] = 0 /\ \A x \in S : g[x] = 0
  OBVIOUS
<1>2. \A x \in S \ {y} : h[x] = g[x]
  OBVIOUS
<1> HIDE DEF g
<1>3. SumFunction(g) = 0
  BY <1>1, SumOfZeros
<1>4. SumFunction(h) = SumFunction(g) + (h[y] - g[y])
  BY <1>1, <1>2, SumChange
<1> QED BY <1>1, <1>3, <1>4

\* The sum of a pointwise sum.
AddUp(S, f, g, h) == \A x \in S : h[x] = f[x] + g[x]

LEMMA SumPlus ==
  ASSUME NEW S, IsFiniteSet(S), NEW f \in [S -> Int], NEW g \in [S -> Int], NEW h \in [S -> Int],
         AddUp(S, f, g, h)
  PROVE  SumFunction(h) = SumFunction(f) + SumFunction(g)
<1> DEFINE part(k, R) == SumFunction(Restrict(k, R))
           F == {R \in SUBSET S : part(h, R) = part(f, R) + part(g, R)}
<1>1. {} \in F
  BY SumBounds
<1>2. ASSUME NEW R \in SUBSET S, NEW x \in S \ R, R \in F PROVE R \cup {x} \in F
  <2>1. part(f, R) \in Int /\ part(f, R \cup {x}) = f[x] + part(f, R)
    BY SumExtend
  <2>2. part(g, R) \in Int /\ part(g, R \cup {x}) = g[x] + part(g, R)
    BY SumExtend
  <2>3. part(h, R \cup {x}) = h[x] + part(h, R)
    BY SumExtend
  <2>4. part(h, R) = part(f, R) + part(g, R) /\ h[x] = f[x] + g[x]
    BY <1>2 DEF AddUp
  <2>5. f[x] \in Int /\ g[x] \in Int
    OBVIOUS
  <2> HIDE DEF part
  <2>6. part(h, R \cup {x}) = part(f, R \cup {x}) + part(g, R \cup {x})
    BY <2>1, <2>2, <2>3, <2>4, <2>5
  <2> QED BY <2>6
<1>3. S \in F
  <2> HIDE DEF F
  <2> QED BY <1>1, <1>2, SubsetInduction
<1> QED BY <1>3, SumBounds

\* Dropping zeros from a sum.
LEMMA SumSupport ==
  ASSUME NEW S, IsFiniteSet(S), NEW g \in [S -> Int], NEW R \in SUBSET S,
         \A x \in S \ R : g[x] = 0
  PROVE  SumFunction(Restrict(g, R)) = SumFunction(g)
<1> DEFINE F == {Q \in SUBSET (S \ R) : SumFunction(Restrict(g, R \cup Q)) = SumFunction(Restrict(g, R))}
<1>1. {} \in F
  <2>1. R \cup {} = R
    OBVIOUS
  <2> QED BY <2>1
<1>2. ASSUME NEW Q \in SUBSET (S \ R), NEW x \in (S \ R) \ Q, Q \in F
      PROVE  Q \cup {x} \in F
  <2>1. R \cup (Q \cup {x}) = (R \cup Q) \cup {x} /\ R \cup Q \in SUBSET S /\ x \in S \ (R \cup Q)
    OBVIOUS
  <2> DEFINE P == R \cup Q
  <2>2. /\ SumFunction(Restrict(g, P)) \in Int
        /\ SumFunction(Restrict(g, P \cup {x})) = g[x] + SumFunction(Restrict(g, P))
    BY <2>1, SumExtend
  <2>3. g[x] = 0
    OBVIOUS
  <2>4. SumFunction(Restrict(g, P \cup {x})) = SumFunction(Restrict(g, R))
    BY <1>2, <2>2, <2>3
  <2>5. R \cup (Q \cup {x}) = P \cup {x}
    OBVIOUS
  <2> QED BY <2>4, <2>5
<1>3. IsFiniteSet(S \ R)
  BY FS_Subset
<1>4. S \ R \in F
  <2> HIDE DEF F
  <2> QED BY <1>1, <1>2, <1>3, SubsetInduction
<1>5. R \cup (S \ R) = S
  OBVIOUS
<1> QED BY <1>4, <1>5, SumBounds

\* The total of a pointwise sum.
LEMMA TotalPlus ==
  ASSUME NEW s \in Seq(Int), NEW t \in Seq(Int), NEW u \in Seq(Int),
         Len(t) = Len(s), Len(u) = Len(s),
         AddUp(1 .. Len(s), s, t, u)
  PROVE  Total(u) = Total(s) + Total(t)
<1> DEFINE S == RunningTotals(s)
           T == RunningTotals(t)
           U == RunningTotals(u)
           Bad == {m \in 0 .. Len(s) : U[m] # S[m] + T[m]}
<1>1. /\ S = [m \in 0 .. Len(s) |-> IF m = 0 THEN 0 ELSE S[m - 1] + s[m]]
      /\ T = [m \in 0 .. Len(s) |-> IF m = 0 THEN 0 ELSE T[m - 1] + t[m]]
      /\ U = [m \in 0 .. Len(s) |-> IF m = 0 THEN 0 ELSE U[m - 1] + u[m]]
  BY RunningTotalsRecursion DEF AddsUp
<1>2. S \in [0 .. Len(s) -> Int] /\ T \in [0 .. Len(s) -> Int]
  BY RunningTotalsType
<1> HIDE DEF S, T, U
<1>3. Bad = {}
  <2>1. SUFFICES ASSUME Bad # {} PROVE FALSE
    OBVIOUS
  <2>2. PICK m \in Bad : \A k \in Bad : m <= k
    <3>1. Bad \in SUBSET Nat
      OBVIOUS
    <3> QED BY <3>1, <2>1, LeastElement
  <2>3. m \in 0 .. Len(s)
    OBVIOUS
  <2>4. m # 0
    BY <1>1, <2>3
  <2>5. m - 1 \in 0 .. Len(s)
    BY <2>3, <2>4
  <2>6. U[m - 1] = S[m - 1] + T[m - 1]
    BY <2>2, <2>5
  <2> DEFINE a == S[m - 1]
             b == T[m - 1]
             x == s[m]
             y == t[m]
  <2>7. S[m] = a + x /\ T[m] = b + y /\ U[m] = U[m - 1] + u[m]
    BY <1>1, <2>3, <2>4
  <2>8. u[m] = x + y /\ x \in Int /\ y \in Int
    BY <2>3, <2>4 DEF AddUp
  <2>9. a \in Int /\ b \in Int /\ U[m - 1] = a + b
    BY <1>2, <2>5, <2>6
  <2>10. U[m] = (a + b) + (x + y)
    BY <2>7, <2>8, <2>9
  <2> HIDE DEF a, b, x, y
  <2>11. (a + b) + (x + y) = (a + x) + (b + y)
    BY <2>8, <2>9
  <2>12. U[m] = S[m] + T[m]
    BY <2>7, <2>10, <2>11
  <2> QED BY <2>12
<1>4. Len(s) \in 0 .. Len(s)
  OBVIOUS
<1>5. U[Len(s)] = S[Len(s)] + T[Len(s)]
  BY <1>3, <1>4
<1> QED BY <1>5 DEF Total, S, T, U

\* A table with a row of n integers for every x of S: row[x] adds up to t[x],
\* and column i, col[i], to c[i].
Table(S, n, row, t, col, c) ==
  /\ row \in [S -> Seq(Int)] /\ \A x \in S : Len(row[x]) = n
  /\ t \in [S -> Int] /\ \A x \in S : t[x] = Total(row[x])
  /\ \A i \in 1 .. n : col[i] \in [S -> Int] /\ \A x \in S : col[i][x] = row[x][i]
  /\ c \in Seq(Int) /\ Len(c) = n
  /\ \A i \in 1 .. n : c[i] = SumFunction(col[i])

\* Its rows and its columns have the same sum.
LEMMA SumOfTotals ==
  ASSUME NEW S, IsFiniteSet(S), NEW n \in Nat,
         NEW row, NEW t, NEW col, NEW c, Table(S, n, row, t, col, c)
  PROVE  SumFunction(t) = Total(c)
<1> DEFINE part(R) == [i \in 1 .. n |-> SumFunction(Restrict(col[i], R))]
           F == {R \in SUBSET S : SumFunction(Restrict(t, R)) = Total(part(R))}
<1>1. t \in [S -> Int] /\ \A i \in 1 .. n : col[i] \in [S -> Int]
  BY DEF Table
<1>2. \A R \in SUBSET S :
        /\ SumFunction(Restrict(t, R)) \in Int
        /\ \A x \in S \ R :
             SumFunction(Restrict(t, R \cup {x})) = t[x] + SumFunction(Restrict(t, R))
  BY <1>1, SumExtend
<1>3. ASSUME NEW i \in 1 .. n
      PROVE  \A R \in SUBSET S :
               /\ SumFunction(Restrict(col[i], R)) \in Int
               /\ \A x \in S \ R :
                    SumFunction(Restrict(col[i], R \cup {x}))
                      = col[i][x] + SumFunction(Restrict(col[i], R))
  BY <1>1, SumExtend
<1>4. ASSUME NEW R \in SUBSET S
      PROVE  part(R) \in Seq(Int) /\ Len(part(R)) = n
  BY <1>3
<1>5. {} \in F
  <2>1. \A i \in 1 .. n : part({})[i] = 0
    BY <1>1, SumBounds
  <2>2. part({}) \in Seq(Int) /\ Len(part({})) = n
    BY <1>4
  <2>3. SumFunction(Restrict(t, {})) = 0
    BY <1>1, SumBounds
  <2> HIDE DEF part
  <2>4. Total(part({})) = 0
    BY <2>1, <2>2, TotalOfZeros
  <2> QED BY <2>3, <2>4
<1>6. ASSUME NEW R \in SUBSET S, NEW x \in S \ R, R \in F PROVE R \cup {x} \in F
  <2> DEFINE p == part(R)
             q == part(R \cup {x})
             r == row[x]
  <2>1. p \in Seq(Int) /\ Len(p) = n /\ q \in Seq(Int) /\ Len(q) = n
    BY <1>4
  <2>2. r \in Seq(Int) /\ Len(r) = n /\ t[x] = Total(r)
    BY DEF Table
  <2>3. \A i \in 1 .. n : q[i] = r[i] + p[i]
    <3> TAKE i \in 1 .. n
    <3>1. q[i] = SumFunction(Restrict(col[i], R \cup {x})) /\ p[i] = SumFunction(Restrict(col[i], R))
      OBVIOUS
    <3>2. col[i][x] = r[i]
      BY DEF Table
    <3>3. SumFunction(Restrict(col[i], R \cup {x})) = col[i][x] + SumFunction(Restrict(col[i], R))
      BY <1>3
    <3> HIDE DEF p, q, r
    <3> QED BY <3>1, <3>2, <3>3
  <2>4. SumFunction(Restrict(t, R)) = Total(p)
    BY <1>6
  <2> HIDE DEF p, q, r
  <2>5. Total(q) = Total(r) + Total(p)
    <3>1. Len(p) = Len(r) /\ Len(q) = Len(r)
      BY <2>1, <2>2
    <3>2. AddUp(1 .. Len(r), r, p, q)
      BY <2>2, <2>3 DEF AddUp
    <3> QED BY <2>1, <2>2, <3>1, <3>2, TotalPlus
  <2>6. SumFunction(Restrict(t, R \cup {x})) = Total(q)
    BY <1>2, <2>2, <2>4, <2>5
  <2> QED BY <2>6 DEF q
<1>7. S \in F
  <2> HIDE DEF F
  <2> QED BY <1>5, <1>6, SubsetInduction
<1>8. part(S) = c
  <2>1. \A i \in 1 .. n : part(S)[i] = c[i]
    <3> TAKE i \in 1 .. n
    <3>1. Restrict(col[i], S) = col[i]
      BY <1>1, SumBounds
    <3>2. c[i] = SumFunction(col[i])
      BY DEF Table
    <3> QED BY <3>1, <3>2
  <2>2. part(S) \in Seq(Int) /\ Len(part(S)) = n
    BY <1>4
  <2>3. c \in Seq(Int) /\ Len(c) = n
    BY DEF Table
  <2> HIDE DEF part
  <2> QED BY <2>1, <2>2, <2>3
<1>9. Restrict(t, S) = t
  BY <1>1, SumBounds
<1> QED BY <1>7, <1>8, <1>9

-----------------------------------------------------------------------------
(* Loops.                                                                  *)

\* Induction over 0 .. n, for a set F of naturals.
LEMMA PrefixInduction ==
  ASSUME NEW n \in Nat, NEW F, 0 \in F, \A m \in 1 .. n : m - 1 \in F => m \in F
  PROVE  \A m \in 0 .. n : m \in F
<1> DEFINE Bad == {m \in 0 .. n : m \notin F}
<1>1. SUFFICES ASSUME Bad # {} PROVE FALSE
  OBVIOUS
<1>2. PICK m \in Bad : \A k \in Bad : m <= k
  <2>1. Bad \in SUBSET Nat
    OBVIOUS
  <2> HIDE DEF Bad
  <2> QED BY <1>1, <2>1, LeastElement
<1>3. m \in 1 .. n /\ m - 1 \in 0 .. n
  OBVIOUS
<1>4. m - 1 \in F
  BY <1>2, <1>3
<1> QED BY <1>3, <1>4

\* A loop of n rounds over values of X has a run: step says what round m makes
\* of the value before it.
Rounds(T, start, step, n) ==
  T = [m \in 0 .. n |-> IF m = 0 THEN start ELSE step[<<T[m - 1], m>>]]

LEMMA RoundsExist ==
  ASSUME NEW X, NEW start \in X, NEW n \in Nat, NEW step \in [X \X (1 .. n) -> X]
  PROVE  \E T \in [0 .. n -> X] : Rounds(T, start, step, n)
<1> DEFINE F == {m \in 0 .. n : \E T \in [0 .. m -> X] : Rounds(T, start, step, m)}
<1>1. 0 \in F
  <2> DEFINE T == [k \in 0 .. 0 |-> start]
  <2>1. T \in [0 .. 0 -> X] /\ Rounds(T, start, step, 0)
    BY DEF Rounds
  <2> QED BY <2>1
<1>2. ASSUME NEW m \in 1 .. n, m - 1 \in F PROVE m \in F
  <2>1. PICK T \in [0 .. m - 1 -> X] : Rounds(T, start, step, m - 1)
    BY <1>2
  <2> DEFINE U == [k \in 0 .. m |-> IF k = m THEN step[<<T[m - 1], m>>] ELSE T[k]]
  <2>2. step[<<T[m - 1], m>>] \in X
    OBVIOUS
  <2>3. U \in [0 .. m -> X]
    BY <2>2
  <2>4. ASSUME NEW k \in 0 .. m
        PROVE  U[k] = IF k = 0 THEN start ELSE step[<<U[k - 1], k>>]
    <3>1. CASE k = m
      <4>1. k # 0 /\ k - 1 \in 0 .. m /\ k - 1 # m
        BY <3>1
      <4>2. U[k] = step[<<T[k - 1], k>>] /\ U[k - 1] = T[k - 1]
        BY <3>1, <4>1
      <4> QED BY <4>1, <4>2
    <3>2. CASE k # m /\ k # 0
      <4>1. k \in 0 .. m - 1 /\ k - 1 \in 0 .. m /\ k - 1 # m
        BY <3>2
      <4>2. T[k] = step[<<T[k - 1], k>>]
        BY <2>1, <3>2, <4>1 DEF Rounds
      <4>3. U[k] = T[k] /\ U[k - 1] = T[k - 1]
        BY <3>2, <4>1
      <4> QED BY <3>2, <4>2, <4>3
    <3>3. CASE k # m /\ k = 0
      <4>1. k \in 0 .. m - 1
        BY <3>3
      <4>2. T[k] = start /\ U[k] = T[k]
        BY <2>1, <3>3, <4>1 DEF Rounds
      <4> QED BY <3>3, <4>2
    <3> QED BY <3>1, <3>2, <3>3
  <2>5. Rounds(U, start, step, m)
    BY <2>4 DEF Rounds
  <2> QED BY <2>3, <2>5
<1>3. n \in F
  <2> HIDE DEF F
  <2>1. \A m \in 0 .. n : m \in F
    BY <1>1, <1>2, PrefixInduction
  <2> QED BY <2>1
<1> QED BY <1>3

\* The running totals, round by round.
LEMMA RunningTotalsStep ==
  ASSUME NEW s \in Seq(Int)
  PROVE  /\ RunningTotals(s)[0] = 0
         /\ \A m \in 0 .. Len(s) : RunningTotals(s)[m] \in Int
         /\ \A m \in 1 .. Len(s) : RunningTotals(s)[m] = RunningTotals(s)[m - 1] + s[m]
<1> DEFINE R == RunningTotals(s)
<1>1. R = [m \in 0 .. Len(s) |-> IF m = 0 THEN 0 ELSE R[m - 1] + s[m]]
  BY RunningTotalsRecursion DEF AddsUp
<1>2. R \in [0 .. Len(s) -> Int]
  BY RunningTotalsType
<1> HIDE DEF R
<1>3. R[0] = 0 /\ \A m \in 1 .. Len(s) : R[m] = R[m - 1] + s[m]
  <2>1. 0 \in 0 .. Len(s)
    OBVIOUS
  <2>2. \A m \in 1 .. Len(s) : m \in 0 .. Len(s) /\ m # 0
    OBVIOUS
  <2> QED BY <1>1, <2>1, <2>2
<1> QED BY <1>2, <1>3 DEF R

\* A total when one element changes.
LEMMA TotalChange ==
  ASSUME NEW s \in Seq(Int), NEW t \in Seq(Int), Len(t) = Len(s), NEW k \in 1 .. Len(s),
         \A i \in 1 .. Len(s) : i # k => t[i] = s[i]
  PROVE  Total(t) = Total(s) + (t[k] - s[k])
<1> DEFINE S == RunningTotals(s)
           T == RunningTotals(t)
           F == {m \in 0 .. Len(s) : T[m] = S[m] + (IF m < k THEN 0 ELSE t[k] - s[k])}
<1>1. /\ S[0] = 0 /\ T[0] = 0
      /\ \A m \in 0 .. Len(s) : S[m] \in Int /\ T[m] \in Int
      /\ \A m \in 1 .. Len(s) : S[m] = S[m - 1] + s[m] /\ T[m] = T[m - 1] + t[m]
  BY RunningTotalsStep
<1> HIDE DEF S, T
<1>2. 0 \in F
  BY <1>1
<1>3. ASSUME NEW m \in 1 .. Len(s), m - 1 \in F PROVE m \in F
  <2>1. T[m - 1] = S[m - 1] + (IF m - 1 < k THEN 0 ELSE t[k] - s[k])
    BY <1>3
  <2>2. /\ S[m - 1] \in Int /\ S[m] = S[m - 1] + s[m] /\ T[m] = T[m - 1] + t[m]
        /\ s[m] \in Int /\ t[m] \in Int /\ s[k] \in Int /\ t[k] \in Int
    BY <1>1
  <2>3. CASE m = k
    BY <2>1, <2>2, <2>3
  <2>4. CASE m # k
    <3>1. t[m] = s[m] /\ (m - 1 < k <=> m < k)
      BY <2>4
    <3> DEFINE d == IF m < k THEN 0 ELSE t[k] - s[k]
    <3>2. d \in Int /\ T[m - 1] = S[m - 1] + d
      BY <2>1, <2>2, <3>1
    <3> HIDE DEF d
    <3>3. T[m] = S[m] + d
      BY <2>2, <3>1, <3>2
    <3> QED BY <3>3 DEF d
  <2> QED BY <2>3, <2>4
<1>4. \A m \in 0 .. Len(s) : m \in F
  <2> HIDE DEF F
  <2>1. Len(s) \in Nat
    OBVIOUS
  <2> QED BY <1>2, <1>3, <2>1, PrefixInduction
<1>5. Len(s) \in F
  BY <1>4
<1> QED BY <1>5 DEF Total, S, T

\* A sequence of equal elements.
LEMMA TotalOfEqual ==
  ASSUME NEW s \in Seq(Int), NEW c \in Int, \A i \in 1 .. Len(s) : s[i] = c
  PROVE  Total(s) = c * Len(s)
<1> DEFINE S == RunningTotals(s)
           F == {m \in 0 .. Len(s) : S[m] = c * m}
<1>1. /\ S[0] = 0 /\ Len(s) \in Nat
      /\ \A m \in 1 .. Len(s) : S[m] = S[m - 1] + s[m]
  BY RunningTotalsStep
<1> HIDE DEF S
<1>2. 0 \in F
  BY <1>1
<1>3. ASSUME NEW m \in 1 .. Len(s), m - 1 \in F PROVE m \in F
  <2>1. S[m] = c * (m - 1) + c
    BY <1>1, <1>3
  <2>2. c * (m - 1) + c = c * m
    OBVIOUS
  <2> QED BY <2>1, <2>2
<1>4. \A m \in 0 .. Len(s) : m \in F
  <2> HIDE DEF F
  <2> QED BY <1>1, <1>2, <1>3, PrefixInduction
<1>5. Len(s) \in 0 .. Len(s)
  BY <1>1
<1> QED BY <1>4, <1>5 DEF Total, S

-----------------------------------------------------------------------------
(* Lists.  W is any set.                                                   *)

\* Where s, a list or a function, holds an element of W, and how often.
Hits(s, W) == {i \in DOMAIN s : s[i] \in W}
NumberOf(s, W) == Cardinality(Hits(s, W))

LEMMA HitsFinite ==
  ASSUME NEW R, NEW s \in Seq(R), NEW W
  PROVE  IsFiniteSet(Hits(s, W)) /\ NumberOf(s, W) \in Nat
<1>1. IsFiniteSet(1 .. Len(s))
  BY FS_Interval
<1>2. Hits(s, W) \in SUBSET (1 .. Len(s))
  BY DEF Hits
<1> QED BY <1>1, <1>2, SubsetCardinality DEF NumberOf

\* Two lists together hold what they hold.
LEMMA ConcatNumber ==
  ASSUME NEW R, NEW s \in Seq(R), NEW t \in Seq(R), NEW W
  PROVE  s \o t \in Seq(R) /\ NumberOf(s \o t, W) = NumberOf(s, W) + NumberOf(t, W)
<1> DEFINE A == Hits(s, W)
           B == Hits(t, W)
           C == {i \in DOMAIN (s \o t) : i > Len(s) /\ (s \o t)[i] \in W}
           shift == [i \in B |-> Len(s) + i]
<1>1. IsFiniteSet(A) /\ IsFiniteSet(B)
  BY HitsFinite
<1>2. A \in SUBSET (1 .. Len(s)) /\ B \in SUBSET (1 .. Len(t))
  BY DEF Hits
<1>3. \A i \in 1 .. Len(t) : (s \o t)[Len(s) + i] = t[i] /\ Len(s) + i \in DOMAIN (s \o t)
  OBVIOUS
<1>4. \A i \in DOMAIN (s \o t) : i > Len(s) => i - Len(s) \in 1 .. Len(t) /\ (s \o t)[i] = t[i - Len(s)]
  OBVIOUS
<1>5. shift \in Surjection(B, C)
  <2>1. \A i \in B : Len(s) + i \in C
    BY <1>3 DEF Hits
  <2>2. \A j \in C : j - Len(s) \in B /\ j = Len(s) + (j - Len(s))
    BY <1>4 DEF Hits
  <2> QED BY <2>1, <2>2 DEF Surjection
<1>6. shift \in Injection(B, C)
  <2>1. \A i, j \in B : Len(s) + i = Len(s) + j => i = j
    BY <1>2
  <2> QED BY <1>5, <2>1 DEF Injection, Surjection, IsInjective
<1>7. IsFiniteSet(C) /\ Cardinality(C) = Cardinality(B)
  BY <1>1, <1>5, <1>6, FS_Surjection
<1>8. A \cap C = {}
  BY <1>2
<1>9. Hits(s \o t, W) = A \cup C
  <2>1. \A i \in DOMAIN (s \o t) : i <= Len(s) <=> i \in DOMAIN s
    OBVIOUS
  <2>2. \A i \in DOMAIN s : i \in DOMAIN (s \o t) /\ (s \o t)[i] = s[i]
    OBVIOUS
  <2>3. \A i \in DOMAIN (s \o t) : i \in Int /\ Len(s) \in Int
    OBVIOUS
  <2> QED BY <2>1, <2>2, <2>3 DEF Hits
<1>10. Cardinality(A \cup C) = Cardinality(A) + Cardinality(C) - Cardinality({})
  <2> HIDE DEF A, C
  <2> QED BY <1>1, <1>7, <1>8, FS_Union
<1>11. Cardinality({}) = 0 /\ Cardinality(A) \in Nat /\ Cardinality(B) \in Nat
  BY <1>1, FS_EmptySet, FS_CardinalityType
<1>12. s \o t \in Seq(R)
  OBVIOUS
<1>13. NumberOf(s, W) = Cardinality(A) /\ NumberOf(t, W) = Cardinality(B)
       /\ NumberOf(s \o t, W) = Cardinality(A \cup C)
  BY <1>9 DEF NumberOf
<1> HIDE DEF A, B, C
<1> QED BY <1>7, <1>10, <1>11, <1>12, <1>13
=============================================================================
