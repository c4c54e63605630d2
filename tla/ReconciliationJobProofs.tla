----------------------- MODULE ReconciliationJobProofs -----------------------
(***************************************************************************)
(* What the nightly reconciliation job stores: lists of rows and what they *)
(* hold, the matching built from them, then the runs.                      *)
(***************************************************************************)
EXTENDS ReconciliationJob, SeqSumsProofs

-----------------------------------------------------------------------------
(* Lists.  W is a set such as the rows about one record.                   *)

\* The positions of f up to k that hold an element of W.
HitsUpTo(f, k, W) == {x \in DOMAIN f : x <= k /\ f[x] \in W}

\* Pushed is a loop that appends.
PushedUpTo(T, f, n) ==
  /\ T[0] = <<>>
  /\ \A k \in 1 .. n : T[k] = IF k \in DOMAIN f THEN Append(T[k - 1], f[k]) ELSE T[k - 1]

LEMMA PushedRounds ==
  ASSUME NEW n \in Nat, NEW R, NEW D \in SUBSET (1 .. n), NEW f \in [D -> R]
  PROVE  \E T : Pushed(f, n) = T[n] /\ PushedUpTo(T, f, n)
<1> DEFINE X == Seq(R)
           after(s, k) == IF k \in DOMAIN f THEN Append(s, f[k]) ELSE s
           step == [p \in X \X (1 .. n) |-> after(p[1], p[2])]
           Is(T) == T = [k \in 0 .. n |-> IF k = 0 THEN <<>> ELSE after(T[k - 1], k)]
           T1 == CHOOSE T0 : Is(T0)
<1>1. ASSUME NEW s \in X, NEW k \in 1 .. n PROVE after(s, k) \in X
  OBVIOUS
<1>2. Pushed(f, n) = T1[n]
  <2>1. Is(CHOOSE T0 : Is(T0)) => TRUE
    OBVIOUS
  <2> QED BY DEF Pushed
<1> HIDE DEF after
<1>3. step \in [X \X (1 .. n) -> X]
  BY <1>1
<1>4. <<>> \in X
  OBVIOUS
<1>5. \A s \in X : \A k \in 1 .. n : step[<<s, k>>] = after(s, k)
  OBVIOUS
<1> HIDE DEF step, X
<1>6. PICK T \in [0 .. n -> X] : Rounds(T, <<>>, step, n)
  BY <1>3, <1>4, RoundsExist
<1>7. Is(T)
  <2>1. ASSUME NEW k \in 0 .. n
        PROVE  T[k] = IF k = 0 THEN <<>> ELSE after(T[k - 1], k)
    <3>1. T[k] = IF k = 0 THEN <<>> ELSE step[<<T[k - 1], k>>]
      BY <1>6 DEF Rounds
    <3>2. k # 0 => T[k - 1] \in X /\ k \in 1 .. n
      OBVIOUS
    <3> QED BY <1>5, <3>1, <3>2
  <2> QED BY <2>1
<1>8. Is(T1)
  <2> HIDE DEF Is
  <2> QED BY <1>7
<1>9. 0 \in 0 .. n /\ \A k \in 1 .. n : k \in 0 .. n /\ k # 0
  OBVIOUS
<1>10. PushedUpTo(T1, f, n)
  <2> HIDE DEF T1
  <2> QED BY <1>8, <1>9 DEF PushedUpTo, after
<1> QED BY <1>2, <1>10

\* What Pushed lists is what f holds.
LEMMA PushedNumber ==
  ASSUME NEW n \in Nat, NEW R, NEW D \in SUBSET (1 .. n), NEW f \in [D -> R]
  PROVE  /\ Pushed(f, n) \in Seq(R)
         /\ \A W : NumberOf(Pushed(f, n), W) = NumberOf(f, W)
<1>1. PICK T : Pushed(f, n) = T[n] /\ PushedUpTo(T, f, n)
  BY PushedRounds
<1>0. DOMAIN f = D /\ \A x \in D : x \in Int /\ 1 <= x /\ x <= n
  OBVIOUS
<1>m. \A k \in Int : \A W, x : x \in HitsUpTo(f, k, W) <=> x \in D /\ x <= k /\ f[x] \in W
  BY <1>0 DEF HitsUpTo
<1>f. ASSUME NEW k \in Int, NEW W PROVE IsFiniteSet(HitsUpTo(f, k, W))
  <2>1. HitsUpTo(f, k, W) \in SUBSET (1 .. n)
    BY <1>0 DEF HitsUpTo
  <2>2. IsFiniteSet(1 .. n)
    BY FS_Interval
  <2> QED BY <2>1, <2>2, FS_Subset
<1> DEFINE F == {k \in 0 .. n :
                   T[k] \in Seq(R) /\ \A W : NumberOf(T[k], W) = Cardinality(HitsUpTo(f, k, W))}
<1>2. 0 \in F
  <2>1. T[0] = <<>>
    BY <1>1 DEF PushedUpTo
  <2>2. ASSUME NEW W PROVE NumberOf(T[0], W) = Cardinality(HitsUpTo(f, 0, W))
    <3>1. HitsUpTo(f, 0, W) = {}
      <4>1. ASSUME NEW x \in HitsUpTo(f, 0, W) PROVE FALSE
        <5>1. x \in D /\ x <= 0
          BY <1>m
        <5> QED BY <1>0, <5>1
      <4> QED BY <4>1
    <3>2. Hits(T[0], W) = {}
      BY <2>1 DEF Hits
    <3> QED BY <3>1, <3>2 DEF NumberOf
  <2>3. T[0] \in Seq(R)
    BY <2>1
  <2> QED BY <2>2, <2>3
<1>3. ASSUME NEW k \in 1 .. n, k - 1 \in F PROVE k \in F
  <2>1. T[k] = IF k \in D THEN Append(T[k - 1], f[k]) ELSE T[k - 1]
    BY <1>1 DEF PushedUpTo
  <2> DEFINE s == T[k - 1]
  <2>2. s \in Seq(R) /\ \A W : NumberOf(s, W) = Cardinality(HitsUpTo(f, k - 1, W))
    BY <1>3
  <2>3. T[k] = IF k \in D THEN Append(s, f[k]) ELSE s
    BY <2>1
  <2> HIDE DEF s
  <2>4. T[k] \in Seq(R)
    BY <2>2, <2>3
  <2>5. k \in Int /\ k - 1 \in Int
    OBVIOUS
  <2>6. ASSUME NEW W PROVE NumberOf(T[k], W) = Cardinality(HitsUpTo(f, k, W))
    <3>1. NumberOf(s, W) = Cardinality(HitsUpTo(f, k - 1, W))
      BY <2>2
    <3>2. CASE k \in D /\ f[k] \in W
      <4>1. ASSUME NEW x \in D
            PROVE  x \in HitsUpTo(f, k, W) <=> x \in HitsUpTo(f, k - 1, W) \/ x = k
        <5>1. x <= k <=> x <= k - 1 \/ x = k
          BY <1>0
        <5> QED BY <1>m, <2>5, <3>2, <5>1
      <4>2. HitsUpTo(f, k, W) \subseteq D /\ HitsUpTo(f, k - 1, W) \subseteq D
        BY <1>0 DEF HitsUpTo
      <4>3. k \notin HitsUpTo(f, k - 1, W)
        <5>1. ~ (k <= k - 1)
          OBVIOUS
        <5> QED BY <1>m, <2>5, <5>1
      <4>4. HitsUpTo(f, k, W) = HitsUpTo(f, k - 1, W) \cup {k}
        BY <3>2, <4>1, <4>2
      <4>5. Cardinality(HitsUpTo(f, k, W)) = Cardinality(HitsUpTo(f, k - 1, W)) + 1
        BY <1>f, <2>5, <4>3, <4>4, FS_AddElement
      <4>6. Hits(T[k], W) = Hits(s, W) \cup {Len(s) + 1} /\ Len(s) + 1 \notin Hits(s, W)
        BY <2>2, <2>3, <3>2 DEF Hits
      <4>7. IsFiniteSet(Hits(s, W))
        BY <2>2, HitsFinite
      <4>8. NumberOf(T[k], W) = NumberOf(s, W) + 1
        BY <4>6, <4>7, FS_AddElement DEF NumberOf
      <4> QED BY <3>1, <4>5, <4>8
    <3>3. CASE ~ (k \in D /\ f[k] \in W)
      <4>1. ASSUME NEW x \in D, f[x] \in W
            PROVE  x <= k <=> x <= k - 1
        <5>1. x # k
          BY <3>3, <4>1
        <5>2. x \in Int /\ k \in Int
          BY <1>0
        <5> QED BY <5>1, <5>2
      <4>2. \A x : x \in HitsUpTo(f, k, W) <=> x \in HitsUpTo(f, k - 1, W)
        BY <1>m, <2>5, <4>1
      <4>3. HitsUpTo(f, k, W) = HitsUpTo(f, k - 1, W)
        BY <4>2
      <4>4. Hits(T[k], W) = Hits(s, W)
        BY <2>2, <2>3, <3>3 DEF Hits
      <4> QED BY <3>1, <4>3, <4>4 DEF NumberOf
    <3> QED BY <3>2, <3>3
  <2> QED BY <2>4, <2>6
<1>4. n \in F
  <2> HIDE DEF F
  <2>1. \A k \in 0 .. n : k \in F
    BY <1>2, <1>3, PrefixInduction
  <2> QED BY <2>1
<1>5. \A W : HitsUpTo(f, n, W) = Hits(f, W)
  BY <1>0 DEF HitsUpTo, Hits
<1> QED BY <1>1, <1>4, <1>5 DEF NumberOf

-----------------------------------------------------------------------------
(* The matching.                                                           *)

Positions(left, right) == [DOMAIN left -> 0 .. Len(right)]

\* No id of the right list has two partners.
Fair(f, left, right) ==
  /\ f \in Positions(left, right)
  /\ \A i, k \in DOMAIN left :
       f[i] # 0 /\ f[k] # 0 /\ right[f[i]].id = right[f[k]].id => i = k

\* Who has a partner keeps it.
Kept(before, f, left) == \A i \in DOMAIN left : before[i] # 0 => f[i] = before[i]

LEMMA TakeFirstFair ==
  ASSUME NEW L, NEW left \in Seq(L), NEW R, NEW right \in Seq(R), NEW fits,
         NEW i \in DOMAIN left, NEW f \in Positions(left, right)
  PROVE  LET g == TakeFirst(i, left, right, fits)[f]
         IN  /\ g \in Positions(left, right)
             /\ Kept(f, g, left)
             /\ Fair(f, left, right) => Fair(g, left, right)
<1> DEFINE free == FreeFor(i, f, right, fits)
           j == Min(free)
           g == TakeFirst(i, left, right, fits)[f]
<1>1. g = IF f[i] # 0 \/ free = {} THEN f ELSE [f EXCEPT ![i] = j]
  BY DEF TakeFirst, Positions
<1>2. CASE f[i] # 0 \/ free = {}
  <2>1. g = f
    BY <1>1, <1>2
  <2> QED BY <2>1 DEF Kept
<1>3. CASE ~ (f[i] # 0 \/ free = {})
  <2>1. j \in free
    <3>1. free \in SUBSET Nat
      BY DEF FreeFor
    <3>2. \E x \in free : \A y \in free : x <= y
      <4> HIDE DEF free
      <4> QED BY <1>3, <3>1, LeastElement
    <3> HIDE DEF free
    <3> QED BY <3>2 DEF Min
  <2>2. j \in 1 .. Len(right) /\ right[j].id \notin UsedIds(right, Range(f))
    BY <2>1 DEF FreeFor
  <2> HIDE DEF free, j
  <2>3. g = [f EXCEPT ![i] = j]
    BY <1>1, <1>3
  <2> HIDE DEF g
  <2>4. g \in Positions(left, right) /\ g[i] = j
    BY <2>2, <2>3 DEF Positions
  <2>5. \A k \in DOMAIN left : k # i => g[k] = f[k]
    BY <2>3 DEF Positions
  <2>6. Kept(f, g, left)
    BY <1>3, <2>5 DEF Kept
  <2>7. \A k \in DOMAIN left : f[k] # 0 => right[f[k]].id # right[j].id
    <3>1. \A k \in DOMAIN left : f[k] \in Range(f)
      BY DEF Range, Positions
    <3>2. \A k \in DOMAIN left : f[k] # 0 => right[f[k]].id \in UsedIds(right, Range(f))
      BY <3>1 DEF UsedIds
    <3> QED BY <2>2, <3>2
  <2>8. ASSUME Fair(f, left, right) PROVE Fair(g, left, right)
    <3>1. ASSUME NEW a \in DOMAIN left, NEW b \in DOMAIN left, g[a] # 0, g[b] # 0,
                 right[g[a]].id = right[g[b]].id
          PROVE  a = b
      <4>1. CASE a = i /\ b # i
        BY <2>4, <2>5, <2>7, <3>1, <4>1
      <4>2. CASE a # i /\ b = i
        BY <2>4, <2>5, <2>7, <3>1, <4>2
      <4>3. CASE a # i /\ b # i
        BY <2>5, <2>8, <3>1, <4>3 DEF Fair
      <4> QED BY <4>1, <4>2, <4>3
    <3> QED BY <2>4, <3>1 DEF Fair
  <2> QED BY <2>4, <2>6, <2>8 DEF g
<1> QED BY <1>2, <1>3

LEMMA PartnersFair ==
  ASSUME NEW L, NEW left \in Seq(L), NEW R, NEW right \in Seq(R), NEW fits,
         NEW before, Fair(before, left, right)
  PROVE  LET f == Partners(left, right, before, fits)
         IN  Fair(f, left, right) /\ Kept(before, f, left)
<1> DEFINE n == Len(left)
           X == Positions(left, right)
           after(f, i) == TakeFirst(i, left, right, fits)[f]
           step == [p \in X \X (1 .. n) |-> after(p[1], p[2])]
           Is(T) == T = [i \in 0 .. n |-> IF i = 0 THEN before ELSE after(T[i - 1], i)]
           T1 == CHOOSE T0 : Is(T0)
<1>1. Partners(left, right, before, fits) = T1[n]
  BY DEF Partners
<1>2. ASSUME NEW f \in X, NEW i \in 1 .. n
      PROVE  /\ after(f, i) \in X /\ Kept(f, after(f, i), left)
             /\ Fair(f, left, right) => Fair(after(f, i), left, right)
  <2>1. i \in DOMAIN left
    OBVIOUS
  <2> QED BY <2>1, TakeFirstFair
<1> HIDE DEF after
<1>3. step \in [X \X (1 .. n) -> X]
  BY <1>2
<1>4. before \in X /\ n \in Nat
  BY DEF Fair
<1>5. \A f \in X : \A i \in 1 .. n : step[<<f, i>>] = after(f, i)
  OBVIOUS
<1> HIDE DEF step, X
<1>6. PICK T \in [0 .. n -> X] : Rounds(T, before, step, n)
  BY <1>3, <1>4, RoundsExist
<1>7. Is(T)
  <2>1. ASSUME NEW i \in 0 .. n
        PROVE  T[i] = IF i = 0 THEN before ELSE after(T[i - 1], i)
    <3>1. T[i] = IF i = 0 THEN before ELSE step[<<T[i - 1], i>>]
      BY <1>6 DEF Rounds
    <3>2. i # 0 => T[i - 1] \in X /\ i \in 1 .. n
      BY <1>4
    <3> QED BY <1>5, <3>1, <3>2
  <2> QED BY <2>1
<1>8. Is(T1)
  <2> HIDE DEF Is
  <2> QED BY <1>7
<1>9. 0 \in 0 .. n /\ \A i \in 1 .. n : i \in 0 .. n /\ i # 0
  BY <1>4
<1>10. T1[0] = before /\ \A i \in 1 .. n : T1[i] = after(T1[i - 1], i)
  <2> HIDE DEF T1
  <2> QED BY <1>8, <1>9
<1> HIDE DEF T1
<1> DEFINE F == {i \in 0 .. n : Fair(T1[i], left, right) /\ Kept(before, T1[i], left)}
<1>11. 0 \in F
  BY <1>9, <1>10 DEF Kept
<1>12. ASSUME NEW i \in 1 .. n, i - 1 \in F PROVE i \in F
  <2> DEFINE f == T1[i - 1]
  <2>1. Fair(f, left, right) /\ Kept(before, f, left) /\ T1[i] = after(f, i)
    BY <1>10, <1>12
  <2> HIDE DEF f
  <2>2. f \in X
    BY <2>1 DEF Fair, X
  <2>3. Fair(T1[i], left, right) /\ Kept(f, T1[i], left)
    BY <1>2, <2>1, <2>2
  <2>4. Kept(before, T1[i], left)
    BY <2>1, <2>3 DEF Kept
  <2> QED BY <1>9, <2>3, <2>4
<1>13. n \in F
  <2> HIDE DEF F, n
  <2>1. \A i \in 0 .. n : i \in F
    BY <1>4, <1>11, <1>12, PrefixInduction
  <2> QED BY <1>4, <2>1
<1> QED BY <1>1, <1>13

\* The rows of each loop, by the positions that push one.
ExactRows(ledger, psp, exact) ==
  [i \in {i \in DOMAIN ledger : exact[i] # 0} |->
     Row(ledger[i].id, psp[exact[i]].id, "none", "exact", "exact_match", 0)]

FuzzyRows(ledger, psp, exact, all) ==
  [i \in {i \in DOMAIN ledger : exact[i] = 0 /\ all[i] # 0} |->
     Row(ledger[i].id, psp[all[i]].id, "none", "fuzzy", "fuzzy_match",
         Distance(ledger[i].amount, psp[all[i]].amount))]

MissingRow(l, p, amount) == Row(l, p, "none", "many_to_one", "unmatched", amount)

LedgerRows(ledger, all) ==
  [i \in {i \in DOMAIN ledger : all[i] = 0} |-> MissingRow(ledger[i].id, "none", ledger[i].amount)]

PspRows(psp, all) ==
  [j \in {j \in DOMAIN psp : psp[j].id \notin UsedIds(psp, Range(all))} |->
     MissingRow("none", psp[j].id, psp[j].amount)]

BankRows(batches, bank, match) ==
  [i \in {i \in DOMAIN batches : match[i] # 0} |->
     Row("none", batches[i].id, bank[match[i]].id, "exact", "exact_match", 0)]

\* What a pass of matching pushes, and what is stored after the patterns.
Pairing ==
  {m \in Match : \/ m.type = "exact" /\ m.status = "exact_match"
                 \/ m.type = "fuzzy" /\ m.status = "fuzzy_match"}
RawMatch == Pairing \cup {m \in Match : m.type = "many_to_one" /\ m.status = "unmatched"}
StoredMatch ==
  Pairing \cup {m \in Match : m.type = "many_to_one" /\ m.status \in {"unmatched", "auto_resolved"}}

LEMMA RecordTypes ==
  ASSUME NEW list \in Seq(JobRecord), NEW i \in DOMAIN list
  PROVE  /\ list[i].id \in STRING /\ list[i].id # "none" /\ list[i].amount \in Int
         /\ list[i].user \in STRING
<1>1. list[i] \in JobRecord
  OBVIOUS
<1> DEFINE x == list[i]
<1> HIDE DEF x
<1>2. x \in JobRecord => x.id \in STRING /\ x.id # "none" /\ x.amount \in Int /\ x.user \in STRING
  BY DEF JobRecord
<1> QED BY <1>1, <1>2 DEF x

LEMMA RowInRaw ==
  ASSUME NEW l \in Column, NEW p \in Column, NEW b \in Column, NEW d \in Int
  PROVE  /\ Row(l, p, b, "exact", "exact_match", 0) \in RawMatch
         /\ Row(l, p, b, "fuzzy", "fuzzy_match", d) \in RawMatch
         /\ Row(l, p, b, "many_to_one", "unmatched", d) \in RawMatch
<1>1. ASSUME NEW type \in {"exact", "fuzzy", "many_to_one"}, NEW x \in Int,
             NEW status \in {"exact_match", "fuzzy_match", "many_to_one", "auto_resolved",
                             "exception", "unmatched"}
      PROVE  /\ Row(l, p, b, type, status, x) \in Match
             /\ Row(l, p, b, type, status, x).type = type
             /\ Row(l, p, b, type, status, x).status = status
  BY DEF Row, Match
<1>2. ASSUME NEW m \in Match
      PROVE  /\ m.type = "exact" /\ m.status = "exact_match" => m \in RawMatch
             /\ m.type = "fuzzy" /\ m.status = "fuzzy_match" => m \in RawMatch
             /\ m.type = "many_to_one" /\ m.status = "unmatched" => m \in RawMatch
  <2>1. m.type = "exact" /\ m.status = "exact_match" => m \in Pairing
    BY DEF Pairing
  <2>2. m.type = "fuzzy" /\ m.status = "fuzzy_match" => m \in Pairing
    BY DEF Pairing
  <2>3. m \in Pairing => m \in RawMatch
    BY DEF RawMatch
  <2>4. m.type = "many_to_one" /\ m.status = "unmatched" => m \in RawMatch
    BY DEF RawMatch
  <2> QED BY <2>1, <2>2, <2>3, <2>4
<1>3. /\ Row(l, p, b, "exact", "exact_match", 0) \in RawMatch
      /\ Row(l, p, b, "fuzzy", "fuzzy_match", d) \in RawMatch
  BY <1>1, <1>2
<1>4. Row(l, p, b, "many_to_one", "unmatched", d) \in RawMatch
  BY <1>1, <1>2
<1> QED BY <1>3, <1>4

LEMMA RowTypes ==
  ASSUME NEW ledger \in Seq(JobRecord), NEW psp \in Seq(JobRecord),
         NEW exact, Fair(exact, ledger, psp), NEW all, Fair(all, ledger, psp)
  PROVE  /\ \E D \in SUBSET (1 .. Len(ledger)) : ExactRows(ledger, psp, exact) \in [D -> RawMatch]
         /\ \E D \in SUBSET (1 .. Len(ledger)) : FuzzyRows(ledger, psp, exact, all) \in [D -> RawMatch]
         /\ \E D \in SUBSET (1 .. Len(ledger)) : LedgerRows(ledger, all) \in [D -> RawMatch]
         /\ \E D \in SUBSET (1 .. Len(psp)) : PspRows(psp, all) \in [D -> RawMatch]
<1>1. \A i \in DOMAIN ledger : ledger[i].id \in STRING /\ ledger[i].amount \in Int
  BY RecordTypes
<1>2. \A j \in DOMAIN psp : psp[j].id \in STRING /\ psp[j].amount \in Int
  BY RecordTypes
<1>3. \A i \in DOMAIN ledger :
        /\ exact[i] # 0 => exact[i] \in DOMAIN psp
        /\ all[i] # 0 => all[i] \in DOMAIN psp
  BY DEF Fair, Positions
<1>p. \A i \in DOMAIN ledger :
        /\ exact[i] # 0 => psp[exact[i]].id \in STRING
        /\ all[i] # 0 => psp[all[i]].id \in STRING /\ psp[all[i]].amount \in Int
  <2>1. ASSUME NEW i \in DOMAIN ledger, exact[i] # 0 PROVE psp[exact[i]].id \in STRING
    <3>1. exact[i] \in DOMAIN psp
      BY <1>3, <2>1
    <3> DEFINE j == exact[i]
    <3>2. j \in DOMAIN psp
      BY <3>1
    <3> HIDE DEF j
    <3>3. psp[j].id \in STRING
      BY <1>2, <3>2
    <3> QED BY <3>3 DEF j
  <2>2. ASSUME NEW i \in DOMAIN ledger, all[i] # 0
        PROVE  psp[all[i]].id \in STRING /\ psp[all[i]].amount \in Int
    <3>1. all[i] \in DOMAIN psp
      BY <1>3, <2>2
    <3> DEFINE j == all[i]
    <3>2. j \in DOMAIN psp
      BY <3>1
    <3> HIDE DEF j
    <3>3. psp[j].id \in STRING /\ psp[j].amount \in Int
      BY <1>2, <3>2
    <3> QED BY <3>3 DEF j
  <2> QED BY <2>1, <2>2
<1>4. ASSUME NEW l \in Column, NEW p \in Column, NEW d \in Int
      PROVE  /\ Row(l, p, "none", "exact", "exact_match", 0) \in RawMatch
             /\ Row(l, p, "none", "fuzzy", "fuzzy_match", d) \in RawMatch
             /\ MissingRow(l, p, d) \in RawMatch
  <2>1. "none" \in Column
    BY DEF Column
  <2> QED BY <2>1, RowInRaw DEF MissingRow
<1>n. "none" \in Column /\ STRING \subseteq Column
  BY DEF Column
<1>5. \A a, b \in Int : Distance(a, b) \in Int
  BY DEF Distance
<1>6. DOMAIN ledger = 1 .. Len(ledger) /\ DOMAIN psp = 1 .. Len(psp)
  OBVIOUS
<1>7. ExactRows(ledger, psp, exact) \in [{i \in DOMAIN ledger : exact[i] # 0} -> RawMatch]
  <2>1. \A i \in DOMAIN ledger : exact[i] # 0 =>
          Row(ledger[i].id, psp[exact[i]].id, "none", "exact", "exact_match", 0) \in RawMatch
    BY <1>1, <1>p, <1>4, <1>n
  <2> HIDE DEF RawMatch
  <2> QED BY <2>1 DEF ExactRows
<1>8. FuzzyRows(ledger, psp, exact, all)
        \in [{i \in DOMAIN ledger : exact[i] = 0 /\ all[i] # 0} -> RawMatch]
  <2>1. \A i \in DOMAIN ledger : all[i] # 0 =>
          Distance(ledger[i].amount, psp[all[i]].amount) \in Int
    BY <1>1, <1>p, <1>5
  <2>2. \A i \in DOMAIN ledger : all[i] # 0 =>
          Row(ledger[i].id, psp[all[i]].id, "none", "fuzzy", "fuzzy_match",
              Distance(ledger[i].amount, psp[all[i]].amount)) \in RawMatch
    BY <1>1, <1>p, <1>4, <1>n, <2>1
  <2> QED BY <2>2 DEF FuzzyRows
<1>9. LedgerRows(ledger, all) \in [{i \in DOMAIN ledger : all[i] = 0} -> RawMatch]
  <2>1. \A i \in DOMAIN ledger : MissingRow(ledger[i].id, "none", ledger[i].amount) \in RawMatch
    BY <1>1, <1>4, <1>n
  <2> QED BY <2>1 DEF LedgerRows
<1>10. PspRows(psp, all)
         \in [{j \in DOMAIN psp : psp[j].id \notin UsedIds(psp, Range(all))} -> RawMatch]
  <2>1. \A j \in DOMAIN psp : MissingRow("none", psp[j].id, psp[j].amount) \in RawMatch
    BY <1>2, <1>4, <1>n
  <2> QED BY <2>1 DEF PspRows
<1>11. /\ {i \in DOMAIN ledger : exact[i] # 0} \in SUBSET (1 .. Len(ledger))
       /\ {i \in DOMAIN ledger : exact[i] = 0 /\ all[i] # 0} \in SUBSET (1 .. Len(ledger))
       /\ {i \in DOMAIN ledger : all[i] = 0} \in SUBSET (1 .. Len(ledger))
       /\ {j \in DOMAIN psp : psp[j].id \notin UsedIds(psp, Range(all))} \in SUBSET (1 .. Len(psp))
  BY <1>6
<1> QED BY <1>7, <1>8, <1>9, <1>10, <1>11

\* How many rows of any kind there are: the sum over the four loops.
LEMMA LedgerToPSPNumbers ==
  ASSUME NEW ledger \in Seq(JobRecord), NEW psp \in Seq(JobRecord)
  PROVE  \E exact, all :
           /\ Fair(exact, ledger, psp) /\ Fair(all, ledger, psp) /\ Kept(exact, all, ledger)
           /\ MatchLedgerToPSP(ledger, psp) \in Seq(RawMatch)
           /\ \A W : NumberOf(MatchLedgerToPSP(ledger, psp), W)
                      = NumberOf(ExactRows(ledger, psp, exact), W)
                        + NumberOf(FuzzyRows(ledger, psp, exact, all), W)
                        + NumberOf(LedgerRows(ledger, all), W) + NumberOf(PspRows(psp, all), W)
<1> DEFINE exact == Partners(ledger, psp, Nobody(ledger), ExactPairsOf(ledger, psp))
           all == Partners(ledger, psp, exact, FuzzyPairsOf(ledger, psp))
           e == Pushed(ExactRows(ledger, psp, exact), Len(ledger))
           f == Pushed(FuzzyRows(ledger, psp, exact, all), Len(ledger))
           l == Pushed(LedgerRows(ledger, all), Len(ledger))
           p == Pushed(PspRows(psp, all), Len(psp))
<1>1. MatchLedgerToPSP(ledger, psp) = e \o f \o l \o p
  BY DEF MatchLedgerToPSP, ExactRows, FuzzyRows, LedgerRows, PspRows, MissingRow
<1>2. Fair(Nobody(ledger), ledger, psp)
  BY DEF Fair, Nobody, Positions
<1> HIDE DEF exact, all
<1>3. Fair(exact, ledger, psp)
  BY <1>2, PartnersFair DEF exact
<1>4. Fair(all, ledger, psp) /\ Kept(exact, all, ledger)
  BY <1>3, PartnersFair DEF all
<1>5. Len(ledger) \in Nat /\ Len(psp) \in Nat
  OBVIOUS
<1>13. /\ \E D \in SUBSET (1 .. Len(ledger)) : ExactRows(ledger, psp, exact) \in [D -> RawMatch]
       /\ \E D \in SUBSET (1 .. Len(ledger)) : FuzzyRows(ledger, psp, exact, all) \in [D -> RawMatch]
       /\ \E D \in SUBSET (1 .. Len(ledger)) : LedgerRows(ledger, all) \in [D -> RawMatch]
       /\ \E D \in SUBSET (1 .. Len(psp)) : PspRows(psp, all) \in [D -> RawMatch]
  BY <1>3, <1>4, RowTypes
<1>6. e \in Seq(RawMatch) /\ \A W : NumberOf(e, W) = NumberOf(ExactRows(ledger, psp, exact), W)
  BY <1>5, <1>13, PushedNumber
<1>7. f \in Seq(RawMatch) /\ \A W : NumberOf(f, W) = NumberOf(FuzzyRows(ledger, psp, exact, all), W)
  BY <1>5, <1>13, PushedNumber
<1>8. l \in Seq(RawMatch) /\ \A W : NumberOf(l, W) = NumberOf(LedgerRows(ledger, all), W)
  BY <1>5, <1>13, PushedNumber
<1>9. p \in Seq(RawMatch) /\ \A W : NumberOf(p, W) = NumberOf(PspRows(psp, all), W)
  BY <1>5, <1>13, PushedNumber
<1> HIDE DEF e, f, l, p
<1>10. e \o f \in Seq(RawMatch) /\ \A W : NumberOf(e \o f, W) = NumberOf(e, W) + NumberOf(f, W)
  BY <1>6, <1>7, ConcatNumber
<1> DEFINE ef == e \o f
<1>11. ef \in Seq(RawMatch) /\ \A W : NumberOf(ef, W) = NumberOf(e, W) + NumberOf(f, W)
  BY <1>10
<1>12. MatchLedgerToPSP(ledger, psp) = ef \o l \o p
  BY <1>1
<1> HIDE DEF ef
<1>14. ef \o l \in Seq(RawMatch) /\ \A W : NumberOf(ef \o l, W) = NumberOf(ef, W) + NumberOf(l, W)
  BY <1>8, <1>11, ConcatNumber
<1> DEFINE efl == ef \o l
<1>15. efl \in Seq(RawMatch) /\ \A W : NumberOf(efl, W) = NumberOf(ef, W) + NumberOf(l, W)
  BY <1>14
<1>16. MatchLedgerToPSP(ledger, psp) = efl \o p
  BY <1>12
<1> HIDE DEF efl
<1>17. efl \o p \in Seq(RawMatch) /\ \A W : NumberOf(efl \o p, W) = NumberOf(efl, W) + NumberOf(p, W)
  BY <1>9, <1>15, ConcatNumber
<1> QED BY <1>3, <1>4, <1>6, <1>7, <1>8, <1>9, <1>11, <1>15, <1>16, <1>17

\* The batches: a user for an id, and an amount.
LEMMA BatchesType ==
  ASSUME NEW psp \in Seq(JobRecord)
  PROVE  Batches(psp) \in Seq([id : STRING, amount : Int])
<1> DEFINE Of(j) == {k \in DOMAIN psp : psp[k].user = psp[j].user}
           D == {j \in DOMAIN psp : \A k \in Of(j) : j <= k}
           sum(j) == SumFunction([k \in Of(j) |-> psp[k].amount])
           f == [j \in D |-> [id |-> psp[j].user, amount |-> sum(j)]]
<1>1. Batches(psp) = Pushed(f, Len(psp))
  BY DEF Batches
<1>2. ASSUME NEW j \in DOMAIN psp PROVE sum(j) \in Int
  <2>1. Of(j) \in SUBSET (1 .. Len(psp)) /\ IsFiniteSet(1 .. Len(psp))
    BY FS_Interval
  <2>2. IsFiniteSet(Of(j))
    BY <2>1, FS_Subset
  <2>3. \A k \in Of(j) : psp[k].amount \in Int
    BY RecordTypes
  <2> DEFINE S == Of(j)
             g == [k \in S |-> psp[k].amount]
  <2>4. g \in [S -> Int] /\ IsFiniteSet(S)
    BY <2>2, <2>3
  <2> HIDE DEF g, S
  <2>5. SumFunction(g) \in Int
    BY <2>4, SumType
  <2> QED BY <2>5 DEF g, S
<1> HIDE DEF sum
<1>3. \A j \in DOMAIN psp : [id |-> psp[j].user, amount |-> sum(j)] \in [id : STRING, amount : Int]
  BY <1>2, RecordTypes
<1>4. f \in [D -> [id : STRING, amount : Int]]
  BY <1>3
<1>5. D \in SUBSET (1 .. Len(psp)) /\ Len(psp) \in Nat
  OBVIOUS
<1> HIDE DEF f, D
<1> QED BY <1>1, <1>4, <1>5, PushedNumber

LEMMA PSPToBankNumbers ==
  ASSUME NEW psp \in Seq(JobRecord), NEW bank \in Seq(Deposit)
  PROVE  \E batches \in Seq([id : STRING, amount : Int]) : \E match :
           /\ Fair(match, batches, bank)
           /\ MatchPSPToBank(psp, bank) \in Seq(RawMatch)
           /\ \A W : NumberOf(MatchPSPToBank(psp, bank), W) = NumberOf(BankRows(batches, bank, match), W)
<1> DEFINE batches == Batches(psp)
           match == Partners(batches, bank, Nobody(batches), BankPairs(batches, bank))
           D == {i \in DOMAIN batches : match[i] # 0}
<1>1. MatchPSPToBank(psp, bank) = Pushed(BankRows(batches, bank, match), Len(batches))
  BY DEF MatchPSPToBank, BankRows
<1>2. batches \in Seq([id : STRING, amount : Int])
  BY BatchesType
<1> HIDE DEF batches
<1>3. Fair(Nobody(batches), batches, bank)
  BY <1>2 DEF Fair, Nobody, Positions
<1>4. Fair(match, batches, bank)
  BY <1>2, <1>3, PartnersFair
<1> HIDE DEF match
<1>5. D \in SUBSET (1 .. Len(batches)) /\ Len(batches) \in Nat
  BY <1>2
<1>6. BankRows(batches, bank, match) \in [D -> RawMatch]
  <2>1. ASSUME NEW i \in D
        PROVE  Row("none", batches[i].id, bank[match[i]].id, "exact", "exact_match", 0) \in RawMatch
    <3> DEFINE j == match[i]
    <3>1. j \in DOMAIN bank
      BY <1>4 DEF Fair, Positions
    <3> HIDE DEF j
    <3>2. bank[j] \in Deposit
      BY <3>1
    <3>3. bank[j].id \in Column
      BY <3>2 DEF Deposit, Column
    <3>4. batches[i].id \in Column
      <4>1. i \in DOMAIN batches
        OBVIOUS
      <4>2. batches[i] \in [id : STRING, amount : Int]
        <5> DEFINE B == [id : STRING, amount : Int]
        <5>1. batches \in Seq(B)
          BY <1>2
        <5> HIDE DEF B
        <5>2. batches[i] \in B
          BY <4>1, <5>1
        <5> QED BY <5>2 DEF B
      <4>3. batches[i].id \in STRING
        BY <4>2
      <4> QED BY <4>3 DEF Column
    <3>5. "none" \in Column
      BY DEF Column
    <3>6. Row("none", batches[i].id, bank[j].id, "exact", "exact_match", 0) \in RawMatch
      BY <3>3, <3>4, <3>5, RowInRaw
    <3> QED BY <3>6 DEF j
  <2> QED BY <2>1 DEF BankRows
<1> HIDE DEF D
<1> DEFINE p == Pushed(BankRows(batches, bank, match), Len(batches))
<1>7. p \in Seq(RawMatch) /\ \A W : NumberOf(p, W) = NumberOf(BankRows(batches, bank, match), W)
  BY <1>5, <1>6, PushedNumber
<1>8. MatchPSPToBank(psp, bank) = p
  BY <1>1
<1> HIDE DEF p
<1> QED BY <1>2, <1>4, <1>7, <1>8

\* The patterns change no column that says what a row is about.
LEMMA PatternKeeps ==
  ASSUME NEW m \in RawMatch
  PROVE  LET r == AutoResolvePattern(m)
         IN  /\ r \in StoredMatch /\ m \in Match
             /\ r.ledger = m.ledger /\ r.psp = m.psp /\ r.bank = m.bank
<1> DEFINE r == AutoResolvePattern(m)
<1>1. m \in Match
  BY DEF RawMatch, Pairing
<1>2. CASE r = m
  <2>1. m \in StoredMatch
    BY DEF RawMatch, StoredMatch
  <2> QED BY <1>1, <1>2, <2>1
<1>3. CASE r # m
  <2>1. r = [m EXCEPT !.status = "auto_resolved"] /\ m.status = "unmatched"
    BY <1>3 DEF AutoResolvePattern
  <2>2. m.type = "many_to_one"
    BY <2>1 DEF RawMatch, Pairing
  <2> HIDE DEF r
  <2>3. /\ r \in Match /\ r.type = m.type /\ r.status = "auto_resolved"
        /\ r.ledger = m.ledger /\ r.psp = m.psp /\ r.bank = m.bank
    BY <1>1, <2>1 DEF Match
  <2>4. r \in StoredMatch
    BY <2>2, <2>3 DEF StoredMatch
  <2> QED BY <1>1, <2>3, <2>4 DEF r
<1> QED BY <1>2, <1>3

\* A set of rows that is told by those columns.
Columnwise(W) ==
  \A m \in RawMatch : AutoResolvePattern(m) \in W <=> m \in W

LEMMA PatternsNumber ==
  ASSUME NEW s \in Seq(RawMatch)
  PROVE  /\ AutoResolvePatterns[s] \in Seq(StoredMatch)
         /\ \A W : Columnwise(W) => NumberOf(AutoResolvePatterns[s], W) = NumberOf(s, W)
<1>1. \A m \in RawMatch : m \in Match
  BY DEF RawMatch, Pairing
<1>2. s \in Seq(Match)
  BY <1>1
<1> DEFINE t == [i \in DOMAIN s |-> AutoResolvePattern(s[i])]
<1>3. AutoResolvePatterns[s] = t
  BY <1>2 DEF AutoResolvePatterns
<1>4. \A i \in 1 .. Len(s) : s[i] \in RawMatch
  OBVIOUS
<1>5. \A i \in 1 .. Len(s) : AutoResolvePattern(s[i]) \in StoredMatch
  BY <1>4, PatternKeeps
<1>6. t \in [1 .. Len(s) -> StoredMatch]
  BY <1>5
<1>7. t \in Seq(StoredMatch)
  <2> HIDE DEF t
  <2> QED BY <1>6
<1>8. ASSUME NEW W, Columnwise(W) PROVE NumberOf(t, W) = NumberOf(s, W)
  <2>1. \A i \in 1 .. Len(s) : t[i] \in W <=> s[i] \in W
    BY <1>4, <1>8 DEF Columnwise
  <2>2. DOMAIN t = 1 .. Len(s) /\ DOMAIN s = 1 .. Len(s)
    OBVIOUS
  <2> HIDE DEF t
  <2>3. Hits(t, W) = Hits(s, W)
    BY <2>1, <2>2 DEF Hits
  <2> QED BY <2>3 DEF NumberOf
<1> QED BY <1>3, <1>7, <1>8

\* The columns of the rows of each loop.
HaveExactColumns(g, ledger, psp, exact) ==
  /\ DOMAIN g = {i \in DOMAIN ledger : exact[i] # 0}
  /\ \A i \in DOMAIN g :
       /\ g[i] \in Match /\ g[i].ledger = ledger[i].id
       /\ g[i].psp = psp[exact[i]].id /\ g[i].bank = "none"

HaveFuzzyColumns(g, ledger, psp, exact, all) ==
  /\ DOMAIN g = {i \in DOMAIN ledger : exact[i] = 0 /\ all[i] # 0}
  /\ \A i \in DOMAIN g :
       /\ g[i] \in Match /\ g[i].ledger = ledger[i].id
       /\ g[i].psp = psp[all[i]].id /\ g[i].bank = "none"

HaveLedgerColumns(g, ledger, all) ==
  /\ DOMAIN g = {i \in DOMAIN ledger : all[i] = 0}
  /\ \A i \in DOMAIN g :
       /\ g[i] \in Match /\ g[i].ledger = ledger[i].id
       /\ g[i].psp = "none" /\ g[i].bank = "none"

HavePspColumns(g, psp, all) ==
  /\ DOMAIN g = {i \in DOMAIN psp : psp[i].id \notin UsedIds(psp, Range(all))}
  /\ \A i \in DOMAIN g :
       /\ g[i] \in Match /\ g[i].ledger = "none"
       /\ g[i].psp = psp[i].id /\ g[i].bank = "none"

HaveBankColumns(g, batches, bank, match) ==
  /\ DOMAIN g = {i \in DOMAIN batches : match[i] # 0}
  /\ \A i \in DOMAIN g :
       g[i].ledger = "none" /\ g[i].bank = bank[match[i]].id /\ g[i].bank # "none"
  /\ \A i, k \in DOMAIN g : g[i].bank = g[k].bank => i = k

LEMMA ExactColumns ==
  ASSUME NEW ledger \in Seq(JobRecord), NEW psp \in Seq(JobRecord),
         NEW exact, Fair(exact, ledger, psp), NEW all, Fair(all, ledger, psp)
  PROVE  HaveExactColumns(ExactRows(ledger, psp, exact), ledger, psp, exact)
<1> DEFINE g == ExactRows(ledger, psp, exact)
<1>1. RawMatch \subseteq Match
  BY DEF RawMatch, Pairing
<1>2. PICK D \in SUBSET (1 .. Len(ledger)) : g \in [D -> RawMatch]
  BY RowTypes
<1>3. /\ DOMAIN g = {i \in DOMAIN ledger : exact[i] # 0}
      /\ \A i \in DOMAIN g :
           g[i].ledger = ledger[i].id /\ g[i].psp = psp[exact[i]].id /\ g[i].bank = "none"
  BY DEF ExactRows, Row
<1> HIDE DEF g
<1>4. \A i \in DOMAIN g : g[i] \in Match
  BY <1>1, <1>2
<1> QED BY <1>3, <1>4 DEF g, HaveExactColumns

LEMMA FuzzyColumns ==
  ASSUME NEW ledger \in Seq(JobRecord), NEW psp \in Seq(JobRecord),
         NEW exact, Fair(exact, ledger, psp), NEW all, Fair(all, ledger, psp)
  PROVE  HaveFuzzyColumns(FuzzyRows(ledger, psp, exact, all), ledger, psp, exact, all)
<1> DEFINE g == FuzzyRows(ledger, psp, exact, all)
<1>1. RawMatch \subseteq Match
  BY DEF RawMatch, Pairing
<1>2. PICK D \in SUBSET (1 .. Len(ledger)) : g \in [D -> RawMatch]
  BY RowTypes
<1>3. /\ DOMAIN g = {i \in DOMAIN ledger : exact[i] = 0 /\ all[i] # 0}
      /\ \A i \in DOMAIN g :
           g[i].ledger = ledger[i].id /\ g[i].psp = psp[all[i]].id /\ g[i].bank = "none"
  BY DEF FuzzyRows, Row
<1> HIDE DEF g
<1>4. \A i \in DOMAIN g : g[i] \in Match
  BY <1>1, <1>2
<1> QED BY <1>3, <1>4 DEF g, HaveFuzzyColumns

LEMMA LedgerColumns ==
  ASSUME NEW ledger \in Seq(JobRecord), NEW psp \in Seq(JobRecord),
         NEW exact, Fair(exact, ledger, psp), NEW all, Fair(all, ledger, psp)
  PROVE  HaveLedgerColumns(LedgerRows(ledger, all), ledger, all)
<1> DEFINE g == LedgerRows(ledger, all)
<1>1. RawMatch \subseteq Match
  BY DEF RawMatch, Pairing
<1>2. PICK D \in SUBSET (1 .. Len(ledger)) : g \in [D -> RawMatch]
  BY RowTypes
<1>3. /\ DOMAIN g = {i \in DOMAIN ledger : all[i] = 0}
      /\ \A i \in DOMAIN g :
           g[i].ledger = ledger[i].id /\ g[i].psp = "none" /\ g[i].bank = "none"
  BY DEF LedgerRows, Row, MissingRow
<1> HIDE DEF g
<1>4. \A i \in DOMAIN g : g[i] \in Match
  BY <1>1, <1>2
<1> QED BY <1>3, <1>4 DEF g, HaveLedgerColumns

LEMMA PspColumns ==
  ASSUME NEW ledger \in Seq(JobRecord), NEW psp \in Seq(JobRecord),
         NEW exact, Fair(exact, ledger, psp), NEW all, Fair(all, ledger, psp)
  PROVE  HavePspColumns(PspRows(psp, all), psp, all)
<1> DEFINE g == PspRows(psp, all)
<1>1. RawMatch \subseteq Match
  BY DEF RawMatch, Pairing
<1>2. PICK D \in SUBSET (1 .. Len(psp)) : g \in [D -> RawMatch]
  BY RowTypes
<1>3. /\ DOMAIN g = {i \in DOMAIN psp : psp[i].id \notin UsedIds(psp, Range(all))}
      /\ \A i \in DOMAIN g :
           g[i].ledger = "none" /\ g[i].psp = psp[i].id /\ g[i].bank = "none"
  BY DEF PspRows, Row, MissingRow
<1> HIDE DEF g
<1>4. \A i \in DOMAIN g : g[i] \in Match
  BY <1>1, <1>2
<1> QED BY <1>3, <1>4 DEF g, HavePspColumns

\* A bank row has a deposit of its own.
LEMMA BankColumns ==
  ASSUME NEW bank \in Seq(Deposit), NEW batches \in Seq([id : STRING, amount : Int]),
         NEW match, Fair(match, batches, bank)
  PROVE  HaveBankColumns(BankRows(batches, bank, match), batches, bank, match)
<1> DEFINE b == BankRows(batches, bank, match)
<1>1. /\ DOMAIN b = {i \in DOMAIN batches : match[i] # 0}
      /\ \A i \in DOMAIN b : b[i].ledger = "none" /\ b[i].bank = bank[match[i]].id
  BY DEF BankRows, Row
<1> HIDE DEF b
<1>2. ASSUME NEW i \in DOMAIN b PROVE bank[match[i]].id # "none"
  <2> DEFINE j == match[i]
  <2>1. j \in DOMAIN bank
    BY <1>1 DEF Fair, Positions
  <2> HIDE DEF j
  <2>2. bank[j] \in Deposit
    BY <2>1
  <2>3. bank[j].id # "none"
    BY <2>2 DEF Deposit
  <2> QED BY <2>3 DEF j
<1>3. \A i, k \in DOMAIN b : b[i].bank = b[k].bank => i = k
  BY <1>1 DEF Fair
<1> QED BY <1>1, <1>2, <1>3 DEF b, HaveBankColumns

\* How many rows of any kind there are: the sum over all loops.
Explains(rows, ledger, psp, bank, exact, all, batches, match) ==
  /\ Fair(exact, ledger, psp) /\ Fair(all, ledger, psp) /\ Kept(exact, all, ledger)
  /\ batches \in Seq([id : STRING, amount : Int]) /\ Fair(match, batches, bank)
  /\ \A W : Columnwise(W) =>
       NumberOf(rows, W)
         = NumberOf(ExactRows(ledger, psp, exact), W)
           + NumberOf(FuzzyRows(ledger, psp, exact, all), W)
           + NumberOf(LedgerRows(ledger, all), W) + NumberOf(PspRows(psp, all), W)
           + NumberOf(BankRows(batches, bank, match), W)

LEMMA MatchedNumbers ==
  ASSUME NEW ledger \in Seq(JobRecord), NEW psp \in Seq(JobRecord), NEW bank \in Seq(Deposit)
  PROVE  /\ Matched(ledger, psp, bank) \in Seq(StoredMatch)
         /\ \E exact, all, batches, match :
              Explains(Matched(ledger, psp, bank), ledger, psp, bank, exact, all, batches, match)
<1> DEFINE a == MatchLedgerToPSP(ledger, psp)
           b == MatchPSPToBank(psp, bank)
<1>1. PICK exact, all :
        /\ Fair(exact, ledger, psp) /\ Fair(all, ledger, psp) /\ Kept(exact, all, ledger)
        /\ a \in Seq(RawMatch)
        /\ \A W : NumberOf(a, W) = NumberOf(ExactRows(ledger, psp, exact), W)
                     + NumberOf(FuzzyRows(ledger, psp, exact, all), W)
                     + NumberOf(LedgerRows(ledger, all), W) + NumberOf(PspRows(psp, all), W)
  BY LedgerToPSPNumbers
<1>2. PICK batches, match :
        /\ batches \in Seq([id : STRING, amount : Int])
        /\ Fair(match, batches, bank)
        /\ b \in Seq(RawMatch)
        /\ \A W : NumberOf(b, W) = NumberOf(BankRows(batches, bank, match), W)
  BY PSPToBankNumbers
<1>3. Matched(ledger, psp, bank) = AutoResolvePatterns[a \o b]
  BY DEF Matched
<1> HIDE DEF a, b
<1>4. a \o b \in Seq(RawMatch) /\ \A W : NumberOf(a \o b, W) = NumberOf(a, W) + NumberOf(b, W)
  BY <1>1, <1>2, ConcatNumber
<1> DEFINE c == a \o b
<1>5. c \in Seq(RawMatch) /\ \A W : NumberOf(c, W) = NumberOf(a, W) + NumberOf(b, W)
  BY <1>4
<1> HIDE DEF c
<1>6. /\ AutoResolvePatterns[c] \in Seq(StoredMatch)
      /\ \A W : Columnwise(W) => NumberOf(AutoResolvePatterns[c], W) = NumberOf(c, W)
  BY <1>5, PatternsNumber
<1>7. Matched(ledger, psp, bank) = AutoResolvePatterns[c]
  BY <1>3 DEF c
<1>8. \A W : Columnwise(W) =>
        NumberOf(Matched(ledger, psp, bank), W)
          = NumberOf(ExactRows(ledger, psp, exact), W)
            + NumberOf(FuzzyRows(ledger, psp, exact, all), W)
            + NumberOf(LedgerRows(ledger, all), W) + NumberOf(PspRows(psp, all), W)
            + NumberOf(BankRows(batches, bank, match), W)
  BY <1>1, <1>2, <1>5, <1>6, <1>7
<1>9. Matched(ledger, psp, bank) \in Seq(StoredMatch)
  BY <1>6, <1>7
<1>10. Explains(Matched(ledger, psp, bank), ledger, psp, bank, exact, all, batches, match)
  BY <1>1, <1>2, <1>8 DEF Explains
<1> QED BY <1>9, <1>10

\* The rows about a ledger entry, a processor's id and a deposit.
AboutEntry(v) == {m \in Match : m.ledger = v}
AboutPsp(v) == {m \in Match : m.psp = v /\ m.bank = "none"}
PairedPsp(v) == {m \in Match : m.psp = v /\ m.bank = "none" /\ m.ledger # "none"}
AboutDeposit(v) == {m \in Match : m.bank = v}

LEMMA AboutColumnwise ==
  ASSUME NEW v
  PROVE  /\ Columnwise(AboutEntry(v)) /\ Columnwise(AboutPsp(v))
         /\ Columnwise(PairedPsp(v)) /\ Columnwise(AboutDeposit(v))
<1>1. StoredMatch \subseteq Match
  BY DEF StoredMatch, Pairing
<1>2. ASSUME NEW m \in RawMatch
      PROVE  LET r == AutoResolvePattern(m)
             IN  /\ r \in Match /\ m \in Match
                 /\ r.ledger = m.ledger /\ r.psp = m.psp /\ r.bank = m.bank
  BY <1>1, PatternKeeps
<1>3. Columnwise(AboutEntry(v)) /\ Columnwise(AboutPsp(v))
  BY <1>2 DEF Columnwise, AboutEntry, AboutPsp
<1>4. Columnwise(PairedPsp(v)) /\ Columnwise(AboutDeposit(v))
  BY <1>2 DEF Columnwise, PairedPsp, AboutDeposit
<1> QED BY <1>3, <1>4

\* No hits are none, one hit is one.
LEMMA NumberOfHits ==
  ASSUME NEW s, NEW W
  PROVE  /\ Hits(s, W) = {} => NumberOf(s, W) = 0
         /\ \A i : Hits(s, W) = {i} => NumberOf(s, W) = 1
         /\ IsFiniteSet(Hits(s, W)) /\ NumberOf(s, W) = 1 => \E i : Hits(s, W) = {i}
         /\ IsFiniteSet(Hits(s, W)) /\ NumberOf(s, W) = 0 => Hits(s, W) = {}
  BY FS_EmptySet, FS_Singleton DEF NumberOf

\* What FetchedAccountedFor says of the rows of one run.
Accounted(stored, ledger, psp) ==
  LET OfLedger(id) == {i \in DOMAIN stored : stored[i].ledger = id}
      OfPsp(id) == {i \in DOMAIN stored : stored[i].psp = id /\ stored[i].bank = "none"}
  IN  /\ \A l \in Range(ledger) : \E i \in DOMAIN stored : OfLedger(l.id) = {i}
      /\ \A p \in Range(psp) :
           \/ \E i \in DOMAIN stored : OfPsp(p.id) = {i}
           \/ OfPsp(p.id) # {} /\ \A i \in OfPsp(p.id) : stored[i].ledger = "none"
      /\ \A i, j \in DOMAIN stored :
           i # j /\ stored[i].bank # "none" => stored[i].bank # stored[j].bank

LEMMA MatchedAccounted ==
  ASSUME NEW ledger \in Seq(JobRecord), NEW psp \in Seq(JobRecord), NEW bank \in Seq(Deposit),
         \A i, j \in DOMAIN ledger : ledger[i].id = ledger[j].id => i = j
  PROVE  Accounted(Matched(ledger, psp, bank), ledger, psp)
<1> DEFINE rows == Matched(ledger, psp, bank)
<1>0. PICK exact, all, batches, match :
        Explains(rows, ledger, psp, bank, exact, all, batches, match)
  BY MatchedNumbers
<1>1. /\ Fair(exact, ledger, psp) /\ Fair(all, ledger, psp) /\ Kept(exact, all, ledger)
      /\ batches \in Seq([id : STRING, amount : Int]) /\ Fair(match, batches, bank)
  BY <1>0 DEF Explains
<1>2. rows \in Seq(StoredMatch) /\ StoredMatch \subseteq Match
  BY MatchedNumbers DEF StoredMatch, Pairing
<1> HIDE DEF rows
<1> DEFINE e == ExactRows(ledger, psp, exact)
           f == FuzzyRows(ledger, psp, exact, all)
           l == LedgerRows(ledger, all)
           p == PspRows(psp, all)
           b == BankRows(batches, bank, match)
<1>c. /\ HaveExactColumns(e, ledger, psp, exact) /\ HaveFuzzyColumns(f, ledger, psp, exact, all)
      /\ HaveLedgerColumns(l, ledger, all) /\ HavePspColumns(p, psp, all)
      /\ HaveBankColumns(b, batches, bank, match)
  BY <1>1, ExactColumns, FuzzyColumns, LedgerColumns, PspColumns, BankColumns
<1>8. \A W : Columnwise(W) =>
        NumberOf(rows, W) = NumberOf(e, W) + NumberOf(f, W) + NumberOf(l, W)
                            + NumberOf(p, W) + NumberOf(b, W)
  BY <1>0 DEF Explains
<1> HIDE DEF e, f, l, p, b
<1>3. /\ DOMAIN e = {i \in DOMAIN ledger : exact[i] # 0}
      /\ \A i \in DOMAIN e :
           /\ e[i] \in Match /\ e[i].ledger = ledger[i].id
           /\ e[i].psp = psp[exact[i]].id /\ e[i].bank = "none"
  BY <1>c DEF HaveExactColumns
<1>4. /\ DOMAIN f = {i \in DOMAIN ledger : exact[i] = 0 /\ all[i] # 0}
      /\ \A i \in DOMAIN f :
           /\ f[i] \in Match /\ f[i].ledger = ledger[i].id
           /\ f[i].psp = psp[all[i]].id /\ f[i].bank = "none"
  BY <1>c DEF HaveFuzzyColumns
<1>5. /\ DOMAIN l = {i \in DOMAIN ledger : all[i] = 0}
      /\ \A i \in DOMAIN l :
           /\ l[i] \in Match /\ l[i].ledger = ledger[i].id
           /\ l[i].psp = "none" /\ l[i].bank = "none"
  BY <1>c DEF HaveLedgerColumns
<1>6. /\ DOMAIN p = {i \in DOMAIN psp : psp[i].id \notin UsedIds(psp, Range(all))}
      /\ \A i \in DOMAIN p :
           /\ p[i] \in Match /\ p[i].ledger = "none"
           /\ p[i].psp = psp[i].id /\ p[i].bank = "none"
  BY <1>c DEF HavePspColumns
<1>7. /\ DOMAIN b = {i \in DOMAIN batches : match[i] # 0}
      /\ \A i \in DOMAIN b : b[i].ledger = "none" /\ b[i].bank # "none"
      /\ \A i, k \in DOMAIN b : b[i].bank = b[k].bank => i = k
  BY <1>c DEF HaveBankColumns
<1>9. \A i \in DOMAIN ledger : exact[i] # 0 => all[i] = exact[i]
  BY <1>1 DEF Kept
<1>16. \A i \in DOMAIN e : i \in DOMAIN ledger /\ exact[i] # 0 /\ all[i] # 0 /\ e[i].psp = psp[all[i]].id
  <2>1. ASSUME NEW i \in DOMAIN e
        PROVE  i \in DOMAIN ledger /\ exact[i] # 0 /\ e[i].psp = psp[exact[i]].id
    BY <1>3
  <2> QED BY <1>9, <2>1
<1>17. \A i \in DOMAIN f :
         i \in DOMAIN ledger /\ exact[i] = 0 /\ all[i] # 0 /\ f[i].psp = psp[all[i]].id
  BY <1>4
<1>10. \A i \in DOMAIN rows : rows[i] \in Match
  BY <1>2
<1>11. \A W : IsFiniteSet(Hits(rows, W))
  BY <1>2, HitsFinite
<1>14. \A W : IsFiniteSet(Hits(p, W)) /\ NumberOf(p, W) \in Nat
  <2>1. DOMAIN p \in SUBSET (1 .. Len(psp)) /\ IsFiniteSet(1 .. Len(psp))
    <3>1. DOMAIN psp = 1 .. Len(psp) /\ Len(psp) \in Nat
      OBVIOUS
    <3>2. IsFiniteSet(1 .. Len(psp))
      BY <3>1, FS_Interval
    <3>3. DOMAIN p \in SUBSET DOMAIN psp
      BY <1>6
    <3> QED BY <3>1, <3>2, <3>3
  <2>2. \A W : Hits(p, W) \in SUBSET (1 .. Len(psp))
    BY <2>1 DEF Hits
  <2> QED BY <2>1, <2>2, SubsetCardinality DEF NumberOf
<1>12. ASSUME NEW i \in DOMAIN ledger
       PROVE  \E k \in DOMAIN rows : {x \in DOMAIN rows : rows[x].ledger = ledger[i].id} = {k}
  <2> DEFINE v == ledger[i].id
             W == AboutEntry(v)
  <2>1. v # "none"
    BY RecordTypes
  <2>2. \A x \in DOMAIN ledger : ledger[x].id = v <=> x = i
    OBVIOUS
  <2> HIDE DEF v
  <2>3. Hits(p, W) = {} /\ Hits(b, W) = {}
    BY <1>6, <1>7, <2>1 DEF Hits, AboutEntry
  <2>4. Hits(e, W) = IF exact[i] # 0 THEN {i} ELSE {}
    BY <1>3, <2>2 DEF Hits, AboutEntry
  <2>5. Hits(f, W) = IF exact[i] = 0 /\ all[i] # 0 THEN {i} ELSE {}
    BY <1>4, <2>2 DEF Hits, AboutEntry
  <2>6. Hits(l, W) = IF all[i] = 0 THEN {i} ELSE {}
    BY <1>5, <2>2 DEF Hits, AboutEntry
  <2>7. NumberOf(p, W) = 0 /\ NumberOf(b, W) = 0
    BY <2>3, NumberOfHits
  <2>8. NumberOf(e, W) = IF exact[i] # 0 THEN 1 ELSE 0
    BY <2>4, NumberOfHits
  <2>9. NumberOf(f, W) = IF exact[i] = 0 /\ all[i] # 0 THEN 1 ELSE 0
    BY <2>5, NumberOfHits
  <2>10. NumberOf(l, W) = IF all[i] = 0 THEN 1 ELSE 0
    BY <2>6, NumberOfHits
  <2>11. Columnwise(W)
    BY AboutColumnwise
  <2>12. NumberOf(rows, W) = 1
    BY <1>8, <1>9, <2>7, <2>8, <2>9, <2>10, <2>11
  <2>13. PICK k : Hits(rows, W) = {k}
    BY <1>11, <2>12, NumberOfHits
  <2>14. Hits(rows, W) = {x \in DOMAIN rows : rows[x].ledger = v}
    BY <1>10 DEF Hits, AboutEntry
  <2> QED BY <2>13, <2>14 DEF v
<1>13. ASSUME NEW j \in DOMAIN psp
       PROVE  LET OfPsp(id) == {x \in DOMAIN rows : rows[x].psp = id /\ rows[x].bank = "none"}
              IN  \/ \E k \in DOMAIN rows : OfPsp(psp[j].id) = {k}
                  \/ /\ OfPsp(psp[j].id) # {}
                     /\ \A x \in OfPsp(psp[j].id) : rows[x].ledger = "none"
  <2> DEFINE v == psp[j].id
             U == UsedIds(psp, Range(all))
             W == AboutPsp(v)
             Q == PairedPsp(v)
  <2>1. v # "none"
    BY RecordTypes
  <2>2. \A i \in DOMAIN ledger : all[i] # 0 => psp[all[i]].id \in U
    <3>1. DOMAIN all = DOMAIN ledger
      BY <1>1 DEF Fair, Positions
    <3> QED BY <3>1 DEF UsedIds, Range
  <2>3. \A x \in U : \E i \in DOMAIN ledger : all[i] # 0 /\ psp[all[i]].id = x
    <3>1. DOMAIN all = DOMAIN ledger
      BY <1>1 DEF Fair, Positions
    <3> QED BY <3>1 DEF UsedIds, Range
  <2>4. DOMAIN p = {x \in DOMAIN psp : psp[x].id \notin U}
    BY <1>6
  <2>5. j \in DOMAIN psp /\ (v \notin U => j \in DOMAIN p) /\ psp[j].id = v
    BY <2>4
  <2>6. Columnwise(W) /\ Columnwise(Q)
    BY AboutColumnwise
  <2> HIDE DEF v, U
  <2>7. Hits(rows, W) = {x \in DOMAIN rows : rows[x].psp = v /\ rows[x].bank = "none"}
    BY <1>10 DEF Hits, AboutPsp
  <2>8. Hits(l, W) = {} /\ Hits(b, W) = {}
    BY <1>5, <1>7, <2>1 DEF Hits, AboutPsp
  <2>9. NumberOf(l, W) = 0 /\ NumberOf(b, W) = 0
    BY <2>8, NumberOfHits
  <2>10. CASE v \in U
    <3>1. PICK i \in DOMAIN ledger : all[i] # 0 /\ psp[all[i]].id = v
      BY <2>3, <2>10
    <3>2. \A x \in DOMAIN ledger : all[x] # 0 /\ psp[all[x]].id = v => x = i
      BY <1>1, <3>1 DEF Fair
    <3>3. Hits(e, W) = IF exact[i] # 0 THEN {i} ELSE {}
      <4>1. \A x \in DOMAIN e : e[x] \in W <=> e[x].psp = v
        BY <1>3 DEF AboutPsp
      <4>2. \A x \in DOMAIN e : e[x] \in W => x = i
        BY <1>16, <3>2, <4>1
      <4>3. exact[i] # 0 => i \in DOMAIN e
        BY <1>3
      <4>4. exact[i] # 0 => e[i].psp = v
        BY <1>16, <3>1, <4>3
      <4>5. i \in DOMAIN e => exact[i] # 0
        BY <1>16
      <4> QED BY <4>1, <4>2, <4>3, <4>4, <4>5 DEF Hits
    <3>4. Hits(f, W) = IF exact[i] # 0 THEN {} ELSE {i}
      <4>1. \A x \in DOMAIN f : f[x] \in W <=> f[x].psp = v
        BY <1>4 DEF AboutPsp
      <4>2. \A x \in DOMAIN f : f[x] \in W => x = i
        BY <1>17, <3>2, <4>1
      <4>3. exact[i] = 0 => i \in DOMAIN f
        BY <1>4, <3>1
      <4>4. exact[i] = 0 => f[i].psp = v
        BY <1>17, <3>1, <4>3
      <4>5. i \in DOMAIN f => exact[i] = 0
        BY <1>17
      <4> QED BY <4>1, <4>2, <4>3, <4>4, <4>5 DEF Hits
    <3>5. Hits(p, W) = {}
      <4>1. \A x \in DOMAIN p : p[x].psp = psp[x].id /\ psp[x].id \notin U
        BY <1>6, <2>4
      <4>2. \A x \in DOMAIN p : p[x].psp # v
        BY <2>10, <4>1
      <4> QED BY <4>2 DEF Hits, AboutPsp
    <3>6. NumberOf(e, W) = IF exact[i] # 0 THEN 1 ELSE 0
      BY <3>3, NumberOfHits
    <3>7. NumberOf(f, W) = IF exact[i] # 0 THEN 0 ELSE 1
      BY <3>4, NumberOfHits
    <3>8. NumberOf(p, W) = 0
      BY <3>5, NumberOfHits
    <3>9. NumberOf(rows, W) = 1
      BY <1>8, <2>6, <2>9, <3>6, <3>7, <3>8
    <3>10. PICK k : Hits(rows, W) = {k}
      BY <1>11, <3>9, NumberOfHits
    <3> QED BY <2>7, <3>10 DEF v
  <2>11. CASE v \notin U
    <3>0. (\A x \in DOMAIN e : e[x].psp # v) /\ (\A x \in DOMAIN f : f[x].psp # v)
      BY <1>16, <1>17, <2>2, <2>11
    <3>1. Hits(e, W) = {} /\ Hits(f, W) = {}
      BY <3>0 DEF Hits, AboutPsp
    <3>2. NumberOf(e, W) = 0 /\ NumberOf(f, W) = 0
      BY <3>1, NumberOfHits
    <3>3. NumberOf(rows, W) = NumberOf(p, W)
      <4>1. NumberOf(rows, W) = 0 + 0 + 0 + NumberOf(p, W) + 0
        BY <1>8, <2>6, <2>9, <3>2
      <4>2. NumberOf(p, W) \in Nat
        BY <1>14
      <4> QED BY <4>1, <4>2
    <3>4. Hits(p, W) # {}
      BY <1>6, <2>5, <2>11 DEF Hits, AboutPsp
    <3>5. Hits(rows, W) # {}
      BY <1>14, <3>3, <3>4, NumberOfHits
    <3>6. /\ Hits(e, Q) = {} /\ Hits(f, Q) = {} /\ Hits(l, Q) = {}
          /\ Hits(p, Q) = {} /\ Hits(b, Q) = {}
      <4>1. Hits(e, Q) = {} /\ Hits(f, Q) = {}
        BY <3>0 DEF Hits, PairedPsp
      <4>2. Hits(l, Q) = {} /\ Hits(p, Q) = {} /\ Hits(b, Q) = {}
        BY <1>5, <1>6, <1>7, <2>1 DEF Hits, PairedPsp
      <4> QED BY <4>1, <4>2
    <3>7. NumberOf(rows, Q) = 0
      BY <1>8, <2>6, <3>6, NumberOfHits
    <3>8. Hits(rows, Q) = {}
      BY <1>11, <3>7, NumberOfHits
    <3>9. \A x \in Hits(rows, W) : rows[x].ledger = "none"
      BY <1>10, <3>8 DEF Hits, AboutPsp, PairedPsp
    <3> QED BY <2>7, <3>5, <3>9 DEF v
  <2> QED BY <2>10, <2>11
<1>15. ASSUME NEW i \in DOMAIN rows, NEW k \in DOMAIN rows, i # k, rows[i].bank # "none"
       PROVE  rows[i].bank # rows[k].bank
  <2> DEFINE v == rows[i].bank
             W == AboutDeposit(v)
  <2>1. v # "none"
    BY <1>15
  <2>2. Columnwise(W)
    BY AboutColumnwise
  <2>3. i \in Hits(rows, W) /\ (rows[k].bank = v => k \in Hits(rows, W))
    BY <1>10 DEF Hits, AboutDeposit
  <2> HIDE DEF v
  <2>4. Hits(e, W) = {} /\ Hits(f, W) = {} /\ Hits(l, W) = {} /\ Hits(p, W) = {}
    BY <1>3, <1>4, <1>5, <1>6, <2>1 DEF Hits, AboutDeposit
  <2>5. \A x, y \in Hits(b, W) : x = y
    BY <1>7 DEF Hits, AboutDeposit
  <2>6. Hits(b, W) = {} \/ \E x : Hits(b, W) = {x}
    <3> DEFINE H == Hits(b, W)
    <3>1. \A x, y \in H : x = y
      BY <2>5
    <3> HIDE DEF H
    <3>2. ASSUME H # {} PROVE \E x : H = {x}
      <4>1. PICK x \in H : TRUE
        BY <3>2
      <4>2. H = {x}
        BY <3>1, <4>1
      <4> QED BY <4>2
    <3> QED BY <3>2 DEF H
  <2>7. NumberOf(b, W) \in {0, 1}
    BY <2>6, NumberOfHits
  <2>8. NumberOf(rows, W) \in {0, 1}
    BY <1>8, <2>2, <2>4, <2>7, NumberOfHits
  <2>9. Hits(rows, W) = {} \/ \E x : Hits(rows, W) = {x}
    BY <1>11, <2>8, NumberOfHits
  <2> QED BY <1>15, <2>3, <2>9 DEF v
<1> QED BY <1>12, <1>13, <1>15 DEF Accounted, Range, rows

-----------------------------------------------------------------------------
(* The runs.  A run's rows are stored one after the other, then the        *)
(* exceptions of those that are open, and only then it gets its numbers;   *)
(* what it has stored stays as it is wherever the run stops.               *)

Places == {"idle", "insert", "ledger", "psp", "bank", "store", "except", "finalize",
           "catch", "ended", "died"}
Fetching == {"idle", "insert", "ledger", "psp", "bank"}
Stopped == {"catch", "ended", "died"}

RunState ==
  [pc : Places, ledger : Seq(JobRecord), psp : Seq(JobRecord), rows : Seq(StoredMatch)]

\* The rows are those of the records the run has fetched.
Computed(run) ==
  \E n \in Nights, l \in 0 .. Len(Deposits) :
    run.rows = MatchedRows[<<n, l>>] /\ run.ledger = n.ledger /\ run.psp = n.psp

\* What is stored (m) and raised (x) are the first of a run's rows and of its
\* open rows, as far as its place says.
Stored(rows, m) ==
  /\ Len(m) <= Len(rows)
  /\ \A i \in 1 .. Len(m) : m[i] = rows[i]

Raised(rows, m, x) ==
  /\ Len(x) <= Len(Open(rows))
  /\ \A i \in 1 .. Len(x) : x[i] = Open(rows)[i].delta
  /\ Len(x) # 0 => Len(m) = Len(rows)

Placed(run, m, x, n) ==
  /\ run.pc \in Fetching => Len(m) = 0 /\ Len(x) = 0
  /\ run.pc \in {"psp", "bank"} => run.ledger = n.ledger
  /\ run.pc = "bank" => run.psp = n.psp
  /\ run.pc = "store" => Len(m) < Len(run.rows) /\ Len(x) = 0
  /\ run.pc = "except" => Len(m) = Len(run.rows) /\ Len(x) < Len(Open(run.rows))
  /\ run.pc = "finalize" => Len(m) = Len(run.rows) /\ Len(x) = Len(Open(run.rows))
  /\ run.pc \in {"store", "except", "finalize"} => Computed(run)

Reported(run, m, x, stats) ==
  /\ run.pc \in Stopped /\ Computed(run)
  /\ Len(m) = Len(run.rows) /\ Len(x) = Len(Open(run.rows))
  /\ stats = Stats(run.rows)

\* The numbers of a run, those it has not got yet included.
StatsOf(table, r) == IF r \in DOMAIN table THEN table[r].stats ELSE NoStats

RunInv(run, m, x, n, stats) ==
  /\ Stored(run.rows, m)
  /\ Raised(run.rows, m, x)
  /\ Placed(run, m, x, n)
  /\ stats.rated => Reported(run, m, x, stats)

JobTypes ==
  /\ night \in Nights /\ posted \in 0 .. Len(Deposits)
  /\ DOMAIN reconciliation_runs \subseteq Runs
  /\ reconciliation_matches \in [Runs -> Seq(StoredMatch)]
  /\ reconciliation_exceptions \in [Runs -> Seq(Int)]
  /\ runs \in [Runs -> RunState]

\* The inductive invariant.
JobInv ==
  /\ JobTypes
  /\ \A r \in Runs :
       RunInv(runs[r], reconciliation_matches[r], reconciliation_exceptions[r], night,
              StatsOf(reconciliation_runs, r))

LEMMA OpenType ==
  ASSUME NEW rows \in Seq(StoredMatch)
  PROVE  Open(rows) \in Seq(StoredMatch) /\ Len(Open(rows)) \in Nat
<1> DEFINE D == OfStatus(rows, "unmatched")
           f == [i \in D |-> rows[i]]
<1>1. D \in SUBSET (1 .. Len(rows)) /\ Len(rows) \in Nat
  BY DEF OfStatus
<1>2. \A i \in 1 .. Len(rows) : rows[i] \in StoredMatch
  OBVIOUS
<1>3. f \in [D -> StoredMatch]
  BY <1>1, <1>2
<1> HIDE DEF D, f
<1>4. Pushed(f, Len(rows)) \in Seq(StoredMatch)
  BY <1>1, <1>3, PushedNumber
<1>5. Open(rows) = Pushed(f, Len(rows))
  BY DEF Open, f, D
<1> QED BY <1>4, <1>5

\* What a run computes from a night.
LEMMA RowsOfNight ==
  ASSUME NEW n \in Nights, NEW l \in 0 .. Len(Deposits)
  PROVE  /\ n \in [ledger : Seq(JobRecord), psp : Seq(JobRecord)]
         /\ MatchedRows[<<n, l>>] \in Seq(StoredMatch)
         /\ Accounted(MatchedRows[<<n, l>>], n.ledger, n.psp)
<1> DEFINE bank == SubSeq(Deposits, 1, l)
<1>1. n \in [ledger : Seq(JobRecord), psp : Seq(JobRecord)]
  BY JobAssumption
<1>2. n.ledger \in Seq(JobRecord) /\ n.psp \in Seq(JobRecord)
  BY <1>1
<1>3. \A i, j \in DOMAIN n.ledger : n.ledger[i].id = n.ledger[j].id => i = j
  BY JobAssumption
<1>4. Deposits \in Seq(Deposit)
  BY JobAssumption
<1>5. bank \in Seq(Deposit)
  BY <1>4
<1>6. MatchedRows[<<n, l>>] = Matched(n.ledger, n.psp, bank)
  BY DEF MatchedRows
<1> HIDE DEF bank
<1> DEFINE a == n.ledger
           b == n.psp
<1>8. a \in Seq(JobRecord) /\ b \in Seq(JobRecord)
      /\ \A i, j \in DOMAIN a : a[i].id = a[j].id => i = j
  BY <1>2, <1>3
<1>9. MatchedRows[<<n, l>>] = Matched(a, b, bank)
  BY <1>6
<1> HIDE DEF a, b
<1>10. Matched(a, b, bank) \in Seq(StoredMatch)
  BY <1>5, <1>8, MatchedNumbers
<1>11. Accounted(Matched(a, b, bank), a, b)
  BY <1>5, <1>8, MatchedAccounted
<1> QED BY <1>1, <1>9, <1>10, <1>11 DEF a, b

\* Where the loops go on.
LEMMA AfterRowsPlace ==
  ASSUME NEW rows \in Seq(StoredMatch),
         NEW stored \in 0 .. Len(rows), NEW raised \in 0 .. Len(Open(rows))
  PROVE  LET pc == AfterRows(rows, stored, raised)
         IN  /\ pc \in {"store", "except", "finalize"}
             /\ pc = "store" => stored < Len(rows)
             /\ pc = "except" => stored = Len(rows) /\ raised < Len(Open(rows))
             /\ pc = "finalize" => stored = Len(rows) /\ raised = Len(Open(rows))
<1>1. Len(rows) \in Nat /\ Len(Open(rows)) \in Nat
  BY OpenType
<1>2. CASE stored < Len(rows)
  <2>1. AfterRows(rows, stored, raised) = "store"
    BY <1>2 DEF AfterRows
  <2> QED BY <1>2, <2>1
<1>3. CASE ~ (stored < Len(rows)) /\ raised < Len(Open(rows))
  <2>1. AfterRows(rows, stored, raised) = "except"
    BY <1>3 DEF AfterRows
  <2>2. stored = Len(rows)
    BY <1>1, <1>3
  <2> QED BY <1>3, <2>1, <2>2
<1>4. CASE ~ (stored < Len(rows)) /\ ~ (raised < Len(Open(rows)))
  <2>1. AfterRows(rows, stored, raised) = "finalize"
    BY <1>4 DEF AfterRows
  <2>2. stored = Len(rows) /\ raised = Len(Open(rows))
    BY <1>1, <1>4
  <2> QED BY <2>1, <2>2
<1> QED BY <1>2, <1>3, <1>4

\* A step to another place.
LEMMA GotoPlace ==
  ASSUME runs \in [Runs -> RunState], NEW r \in Runs, NEW pc \in Places, Goto(r, pc)
  PROVE  /\ runs' \in [Runs -> RunState]
         /\ runs'[r].pc = pc /\ runs'[r].rows = runs[r].rows
         /\ runs'[r].ledger = runs[r].ledger /\ runs'[r].psp = runs[r].psp
         /\ \A q \in Runs : q # r => runs'[q] = runs[q]
  BY DEF Goto, RunState

LEMMA ContinuePlace ==
  ASSUME NEW r \in Runs, NEW pc \in Places, Continue(r, pc)
  PROVE  \E at \in {pc, "catch"} : Goto(r, at) /\ at \in Places
  BY DEF Continue, Places

\* A step of run r leaves the others alone.
OthersAlone(r) ==
  \A q \in Runs : q # r =>
    /\ runs'[q] = runs[q]
    /\ reconciliation_matches'[q] = reconciliation_matches[q]
    /\ reconciliation_exceptions'[q] = reconciliation_exceptions[q]
    /\ StatsOf(reconciliation_runs', q) = StatsOf(reconciliation_runs, q)

LEMMA OneRunMoves ==
  ASSUME JobInv, JobTypes', NEW r \in Runs, night' = night, OthersAlone(r),
         RunInv(runs'[r], reconciliation_matches'[r], reconciliation_exceptions'[r], night,
                StatsOf(reconciliation_runs', r))
  PROVE  JobInv'
  BY DEF JobInv, OthersAlone

\* A run that stops where it is.
LEMMA StopKeeps ==
  ASSUME NEW run, NEW to, NEW m, NEW x, NEW n, NEW stats, RunInv(run, m, x, n, stats),
         to.pc \in Stopped, to.rows = run.rows, to.ledger = run.ledger, to.psp = run.psp
  PROVE  RunInv(to, m, x, n, stats)
<1>1. Stored(to.rows, m) /\ Raised(to.rows, m, x)
  BY DEF RunInv
<1>2. Placed(to, m, x, n)
  BY DEF Placed, Stopped, Fetching
<1>3. stats.rated => Reported(to, m, x, stats)
  <2>1. stats.rated => Reported(run, m, x, stats)
    BY DEF RunInv
  <2> QED BY <2>1 DEF Reported, Computed
<1> QED BY <1>1, <1>2, <1>3 DEF RunInv

LEMMA NotStopped ==
  ASSUME NEW run, NEW m, NEW x, NEW n, NEW stats, RunInv(run, m, x, n, stats),
         run.pc \notin Stopped
  PROVE  ~ stats.rated
  BY DEF RunInv, Reported

\* A step to the end or to the catch block.
LEMMA StopStep ==
  ASSUME JobInv, NEW r \in Runs, NEW pc \in Stopped, Goto(r, pc),
         UNCHANGED <<night, posted, reconciliation_matches, reconciliation_exceptions>>,
         DOMAIN reconciliation_runs' \subseteq Runs,
         \A q \in Runs : StatsOf(reconciliation_runs', q) = StatsOf(reconciliation_runs, q)
  PROVE  JobInv'
<1>1. pc \in Places /\ runs \in [Runs -> RunState]
  BY DEF Stopped, Places, JobInv, JobTypes
<1>2. /\ runs' \in [Runs -> RunState]
      /\ runs'[r].pc = pc /\ runs'[r].rows = runs[r].rows
      /\ runs'[r].ledger = runs[r].ledger /\ runs'[r].psp = runs[r].psp
      /\ \A q \in Runs : q # r => runs'[q] = runs[q]
  BY <1>1, GotoPlace
<1>3. JobTypes'
  BY <1>2 DEF JobInv, JobTypes
<1>4. OthersAlone(r)
  BY <1>2 DEF OthersAlone
<1>5. RunInv(runs[r], reconciliation_matches[r], reconciliation_exceptions[r], night,
             StatsOf(reconciliation_runs, r))
  BY DEF JobInv
<1>6. RunInv(runs'[r], reconciliation_matches[r], reconciliation_exceptions[r], night,
             StatsOf(reconciliation_runs, r))
  BY <1>2, <1>5, StopKeeps
<1> QED BY <1>3, <1>4, <1>6, OneRunMoves

LEMMA RaisesStep ==
  ASSUME JobInv, NEW r \in Runs, Raises(r) \/ Die(r)
  PROVE  JobInv'
<1>1. Goto(r, "catch") \/ Goto(r, "died")
  BY DEF Raises, Die
<1>2. UNCHANGED <<night, posted, tables>> /\ DOMAIN reconciliation_runs \subseteq Runs
  BY DEF Raises, Die, JobInv, JobTypes
<1> QED BY <1>1, <1>2, StopStep DEF Stopped, tables

LEMMA CatchStep ==
  ASSUME JobInv, NEW r \in Runs, Catch(r)
  PROVE  JobInv'
<1>1. Goto(r, "ended") /\ DOMAIN reconciliation_runs \subseteq Runs
      /\ UNCHANGED <<night, posted, reconciliation_matches, reconciliation_exceptions>>
  BY DEF Catch, JobInv, JobTypes
<1>2. /\ DOMAIN reconciliation_runs' = DOMAIN reconciliation_runs
      /\ \A q \in DOMAIN reconciliation_runs :
           reconciliation_runs'[q].stats = reconciliation_runs[q].stats
  BY DEF Catch
<1>3. \A q \in Runs : StatsOf(reconciliation_runs', q) = StatsOf(reconciliation_runs, q)
  BY <1>2 DEF StatsOf
<1> QED BY <1>1, <1>2, <1>3, StopStep DEF Stopped

\* A run that is started, or that has inserted its row.
LEMMA FetchingStep ==
  ASSUME JobInv, NEW r \in Runs, NEW pc \in {"insert", "ledger", "catch"}, Goto(r, pc),
         runs[r].pc \in {"idle", "insert"},
         UNCHANGED <<night, posted, reconciliation_matches, reconciliation_exceptions>>,
         DOMAIN reconciliation_runs' \subseteq Runs, ~ StatsOf(reconciliation_runs', r).rated,
         \A q \in Runs \ {r} : StatsOf(reconciliation_runs', q) = StatsOf(reconciliation_runs, q)
  PROVE  JobInv'
<1>1. pc \in Places /\ runs \in [Runs -> RunState]
  BY DEF Places, JobInv, JobTypes
<1>2. /\ runs' \in [Runs -> RunState]
      /\ runs'[r].pc = pc /\ runs'[r].rows = runs[r].rows
      /\ \A q \in Runs : q # r => runs'[q] = runs[q]
  BY <1>1, GotoPlace
<1>3. JobTypes'
  BY <1>2 DEF JobInv, JobTypes
<1>4. OthersAlone(r)
  BY <1>2 DEF OthersAlone
<1> DEFINE m == reconciliation_matches[r]
           x == reconciliation_exceptions[r]
<1>5. RunInv(runs[r], m, x, night, StatsOf(reconciliation_runs, r))
  BY DEF JobInv
<1>6. Len(m) = 0 /\ Len(x) = 0
  BY <1>5 DEF RunInv, Placed, Fetching
<1>7. Stored(runs'[r].rows, m) /\ Raised(runs'[r].rows, m, x)
  BY <1>2, <1>5 DEF RunInv
<1>8. Placed(runs'[r], m, x, night)
  BY <1>2, <1>6 DEF Placed
<1>9. RunInv(runs'[r], m, x, night, StatsOf(reconciliation_runs', r))
  BY <1>7, <1>8 DEF RunInv
<1> QED BY <1>3, <1>4, <1>9, OneRunMoves

LEMMA TriggerStep ==
  ASSUME JobInv, NEW r \in Runs, Trigger(r)
  PROVE  JobInv'
<1>1. runs[r].pc = "idle" /\ Goto(r, "insert") /\ UNCHANGED <<night, posted, tables>>
      /\ DOMAIN reconciliation_runs \subseteq Runs
  BY DEF Trigger, At, JobInv, JobTypes
<1>2. RunInv(runs[r], reconciliation_matches[r], reconciliation_exceptions[r], night,
             StatsOf(reconciliation_runs, r))
  BY DEF JobInv
<1>3. ~ StatsOf(reconciliation_runs, r).rated
  BY <1>1, <1>2, NotStopped DEF Stopped
<1> QED BY <1>1, <1>3, FetchingStep DEF tables

LEMMA InsertRunStep ==
  ASSUME JobInv, NEW r \in Runs, InsertRun(r)
  PROVE  JobInv'
<1>1. /\ runs[r].pc = "insert" /\ DOMAIN reconciliation_runs \subseteq Runs
      /\ UNCHANGED <<night, posted, reconciliation_matches, reconciliation_exceptions>>
  BY DEF InsertRun, At, JobInv, JobTypes
<1>2. PICK pc \in {"ledger", "catch"} : Goto(r, pc)
  BY DEF InsertRun, Continue
<1>3. /\ DOMAIN reconciliation_runs' = DOMAIN reconciliation_runs \cup {r}
      /\ reconciliation_runs'[r].stats = NoStats
      /\ \A q \in DOMAIN reconciliation_runs \ {r} :
           reconciliation_runs'[q] = reconciliation_runs[q]
  BY DEF InsertRun
<1>4. \A q \in Runs \ {r} : StatsOf(reconciliation_runs', q) = StatsOf(reconciliation_runs, q)
  BY <1>3 DEF StatsOf
<1>5. ~ StatsOf(reconciliation_runs', r).rated
  BY <1>3 DEF StatsOf, NoStats
<1> QED BY <1>1, <1>2, <1>3, <1>4, <1>5, FetchingStep

LEMMA FetchLedgerStep ==
  ASSUME JobInv, NEW r \in Runs, FetchLedger(r) \/ FetchPSP(r)
  PROVE  JobInv'
<1> DEFINE m == reconciliation_matches[r]
           x == reconciliation_exceptions[r]
           stats == StatsOf(reconciliation_runs, r)
<1>1. UNCHANGED <<night, posted, tables>>
  BY DEF FetchLedger, FetchPSP
<1>2. runs[r] \in RunState /\ runs \in [Runs -> RunState] /\ night \in Nights
  BY DEF JobInv, JobTypes
<1>3. night \in [ledger : Seq(JobRecord), psp : Seq(JobRecord)]
  BY <1>2, JobAssumption
<1>4. night.ledger \in Seq(JobRecord) /\ night.psp \in Seq(JobRecord)
  BY <1>3
<1>5. /\ runs[r].pc \in {"ledger", "psp"} /\ runs'[r] \in RunState
      /\ runs'[r].pc \in {"psp", "bank"} /\ runs'[r].rows = runs[r].rows
      /\ runs[r].pc = "ledger" => runs'[r].pc = "psp" /\ runs'[r].ledger = night.ledger
      /\ runs[r].pc = "psp" => runs'[r].ledger = runs[r].ledger /\ runs'[r].psp = night.psp
      /\ runs'[r].pc = "bank" => runs[r].pc = "psp"
  <2>1. CASE FetchLedger(r)
    <3>1. runs[r].pc = "ledger" /\ runs'[r] = [runs[r] EXCEPT !.pc = "psp", !.ledger = night.ledger]
      BY <1>2, <2>1 DEF FetchLedger, At
    <3> QED BY <1>2, <1>4, <3>1 DEF RunState, Places
  <2>2. CASE FetchPSP(r)
    <3>1. runs[r].pc = "psp" /\ runs'[r] = [runs[r] EXCEPT !.pc = "bank", !.psp = night.psp]
      BY <1>2, <2>2 DEF FetchPSP, At
    <3> QED BY <1>2, <1>4, <3>1 DEF RunState, Places
  <2> QED BY <2>1, <2>2
<1>6. /\ runs' \in [Runs -> RunState]
      /\ \A q \in Runs : q # r => runs'[q] = runs[q]
  BY <1>2, <1>5 DEF FetchLedger, FetchPSP
<1>7. JobTypes'
  BY <1>1, <1>6 DEF JobInv, JobTypes, tables
<1>8. OthersAlone(r)
  BY <1>1, <1>6 DEF OthersAlone, tables
<1>9. RunInv(runs[r], m, x, night, stats)
  BY DEF JobInv
<1> HIDE DEF m, x, stats
<1>10. ~ stats.rated
  BY <1>5, <1>9, NotStopped DEF Stopped
<1>11. /\ Stored(runs[r].rows, m) /\ Raised(runs[r].rows, m, x)
       /\ Placed(runs[r], m, x, night)
  BY <1>9 DEF RunInv
<1>12. Len(m) = 0 /\ Len(x) = 0 /\ (runs[r].pc = "psp" => runs[r].ledger = night.ledger)
  BY <1>5, <1>11 DEF Placed, Fetching
<1>13. Placed(runs'[r], m, x, night)
  BY <1>5, <1>12 DEF Placed
<1>14. RunInv(runs'[r], m, x, night, stats)
  BY <1>5, <1>10, <1>11, <1>13 DEF RunInv
<1> QED BY <1>1, <1>7, <1>8, <1>14, OneRunMoves DEF tables, m, x, stats

\* Nothing is stored of rows that are only now computed.
LEMMA FetchBankStep ==
  ASSUME JobInv, NEW r \in Runs, FetchBank(r)
  PROVE  JobInv'
<1> DEFINE m == reconciliation_matches[r]
           x == reconciliation_exceptions[r]
           stats == StatsOf(reconciliation_runs, r)
           rows == MatchedRows[<<night, posted>>]
           pc == AfterRows(rows, 0, 0)
<1>1. UNCHANGED <<night, posted, tables>> /\ runs[r].pc = "bank"
  BY DEF FetchBank, At
<1>2. /\ runs[r] \in RunState /\ runs \in [Runs -> RunState]
      /\ night \in Nights /\ posted \in 0 .. Len(Deposits)
      /\ m \in Seq(StoredMatch) /\ x \in Seq(Int)
  BY DEF JobInv, JobTypes
<1>3. /\ night \in [ledger : Seq(JobRecord), psp : Seq(JobRecord)]
      /\ rows \in Seq(StoredMatch)
  BY <1>2, RowsOfNight
<1>4. RunInv(runs[r], m, x, night, stats)
  BY DEF JobInv
<1>5. runs[r].ledger = night.ledger /\ runs[r].psp = night.psp /\ Len(m) = 0 /\ Len(x) = 0
  BY <1>1, <1>4 DEF RunInv, Placed, Fetching
<1>6. [ledger |-> runs[r].ledger, psp |-> runs[r].psp] = night
  BY <1>3, <1>5
<1>7. runs' = [runs EXCEPT ![r] = [@ EXCEPT !.pc = pc, !.rows = rows]]
  BY <1>6 DEF FetchBank
<1>8. ~ stats.rated
  BY <1>1, <1>4, NotStopped DEF Stopped
<1> HIDE DEF m, x, stats
<1>9. /\ pc \in {"store", "except", "finalize"}
      /\ pc = "store" => 0 < Len(rows)
      /\ pc = "except" => 0 = Len(rows) /\ 0 < Len(Open(rows))
      /\ pc = "finalize" => 0 = Len(rows) /\ 0 = Len(Open(rows))
  <2>1. Len(rows) \in Nat /\ Len(Open(rows)) \in Nat
    BY <1>3, OpenType
  <2>2. 0 \in 0 .. Len(rows) /\ 0 \in 0 .. Len(Open(rows))
    BY <2>1
  <2> HIDE DEF rows
  <2> QED BY <1>3, <2>2, AfterRowsPlace
<1>10. Computed([runs[r] EXCEPT !.pc = pc, !.rows = rows])
  <2>1. [runs[r] EXCEPT !.pc = pc, !.rows = rows].rows = rows
    BY <1>2 DEF RunState
  <2>2. /\ [runs[r] EXCEPT !.pc = pc, !.rows = rows].ledger = night.ledger
        /\ [runs[r] EXCEPT !.pc = pc, !.rows = rows].psp = night.psp
    BY <1>2, <1>5 DEF RunState
  <2> QED BY <1>2, <2>1, <2>2 DEF Computed
<1> HIDE DEF pc, rows
<1>11. /\ runs'[r] = [runs[r] EXCEPT !.pc = pc, !.rows = rows]
       /\ \A q \in Runs : q # r => runs'[q] = runs[q]
  BY <1>2, <1>7
<1>12. runs'[r] \in RunState /\ runs'[r].pc = pc /\ runs'[r].rows = rows
  BY <1>2, <1>3, <1>9, <1>11 DEF RunState, Places
<1>13. runs' \in [Runs -> RunState]
  BY <1>2, <1>7, <1>11, <1>12
<1>14. JobTypes'
  BY <1>1, <1>13 DEF JobInv, JobTypes, tables
<1>15. OthersAlone(r)
  BY <1>1, <1>11 DEF OthersAlone, tables
<1>16. Computed(runs'[r])
  BY <1>10, <1>11
<1>17. Len(rows) \in Nat /\ Len(Open(rows)) \in Nat
  BY <1>3, OpenType
<1>18. Stored(rows, m)
  BY <1>5, <1>17 DEF Stored
<1>19. Raised(rows, m, x)
  BY <1>5, <1>17 DEF Raised
<1>20. Placed(runs'[r], m, x, night)
  BY <1>5, <1>9, <1>12, <1>16 DEF Placed, Fetching
<1>21. RunInv(runs'[r], m, x, night, stats)
  BY <1>8, <1>12, <1>18, <1>19, <1>20 DEF RunInv
<1> QED BY <1>1, <1>14, <1>15, <1>21, OneRunMoves DEF tables, m, x, stats

\* A row more is stored, whatever the answer.
LEMMA StoreMatchStep ==
  ASSUME JobInv, NEW r \in Runs, StoreMatch(r)
  PROVE  JobInv'
<1> DEFINE m == reconciliation_matches[r]
           x == reconciliation_exceptions[r]
           stats == StatsOf(reconciliation_runs, r)
           rows == runs[r].rows
           k == Len(m) + 1
           pc == AfterRows(rows, k, 0)
           m1 == Append(m, rows[k])
<1>1. /\ UNCHANGED <<night, posted, reconciliation_runs, reconciliation_exceptions>>
      /\ reconciliation_matches' = [reconciliation_matches EXCEPT ![r] = m1]
      /\ runs[r].pc = "store" /\ Continue(r, pc)
  BY DEF StoreMatch, At
<1>2. /\ runs[r] \in RunState /\ runs \in [Runs -> RunState]
      /\ reconciliation_matches \in [Runs -> Seq(StoredMatch)]
      /\ m \in Seq(StoredMatch) /\ x \in Seq(Int)
  BY DEF JobInv, JobTypes
<1>3. rows \in Seq(StoredMatch)
  BY <1>2 DEF RunState
<1>4. RunInv(runs[r], m, x, night, stats)
  BY DEF JobInv
<1>5. /\ Stored(rows, m) /\ Len(m) < Len(rows) /\ Len(x) = 0 /\ Computed(runs[r])
      /\ ~ stats.rated
  BY <1>1, <1>4, NotStopped DEF RunInv, Placed, Stopped
<1> HIDE DEF m, x, stats, rows
<1>6. k \in 1 .. Len(rows) /\ Len(rows) \in Nat /\ Len(Open(rows)) \in Nat
  BY <1>2, <1>3, <1>5, OpenType
<1>7. /\ m1 \in Seq(StoredMatch) /\ Len(m1) = k
      /\ \A i \in 1 .. Len(m1) : m1[i] = rows[i]
  BY <1>2, <1>3, <1>5, <1>6 DEF Stored
<1> HIDE DEF m1
<1>8. /\ pc \in {"store", "except", "finalize"}
      /\ pc = "store" => k < Len(rows)
      /\ pc = "except" => k = Len(rows) /\ 0 < Len(Open(rows))
      /\ pc = "finalize" => k = Len(rows) /\ 0 = Len(Open(rows))
  <2>1. k \in 0 .. Len(rows) /\ 0 \in 0 .. Len(Open(rows))
    BY <1>6
  <2> HIDE DEF k
  <2> QED BY <1>3, <2>1, AfterRowsPlace
<1> HIDE DEF pc, k
<1>9. pc \in Places
  BY <1>8 DEF Places
<1>10. PICK at \in {pc, "catch"} : Goto(r, at) /\ at \in Places
  BY <1>1, <1>9, ContinuePlace
<1>11. /\ runs' \in [Runs -> RunState]
       /\ runs'[r].pc = at /\ runs'[r].rows = rows
       /\ runs'[r].ledger = runs[r].ledger /\ runs'[r].psp = runs[r].psp
       /\ \A q \in Runs : q # r => runs'[q] = runs[q]
  BY <1>2, <1>10, GotoPlace DEF rows
<1>12. /\ reconciliation_matches' \in [Runs -> Seq(StoredMatch)]
       /\ reconciliation_matches'[r] = m1
       /\ \A q \in Runs : q # r => reconciliation_matches'[q] = reconciliation_matches[q]
  BY <1>1, <1>2, <1>7
<1>13. JobTypes'
  BY <1>1, <1>11, <1>12 DEF JobInv, JobTypes
<1>14. OthersAlone(r)
  BY <1>1, <1>11, <1>12 DEF OthersAlone
<1>15. Stored(rows, m1)
  BY <1>6, <1>7 DEF Stored
<1>16. Raised(rows, m1, x)
  BY <1>5, <1>6 DEF Raised
<1>17. Computed(runs'[r])
  BY <1>5, <1>11 DEF Computed, rows
<1>18. Placed(runs'[r], m1, x, night)
  BY <1>5, <1>7, <1>8, <1>10, <1>11, <1>17 DEF Placed, Fetching
<1>19. RunInv(runs'[r], m1, x, night, stats)
  BY <1>5, <1>11, <1>15, <1>16, <1>18 DEF RunInv
<1> QED BY <1>1, <1>12, <1>13, <1>14, <1>19, OneRunMoves DEF x, stats

LEMMA StoreExceptionStep ==
  ASSUME JobInv, NEW r \in Runs, StoreException(r)
  PROVE  JobInv'
<1> DEFINE m == reconciliation_matches[r]
           x == reconciliation_exceptions[r]
           stats == StatsOf(reconciliation_runs, r)
           rows == runs[r].rows
           open == Open(rows)
           k == Len(x) + 1
           pc == AfterRows(rows, Len(rows), k)
           x1 == Append(x, open[k].delta)
<1>1. /\ UNCHANGED <<night, posted, reconciliation_runs, reconciliation_matches>>
      /\ reconciliation_exceptions' = [reconciliation_exceptions EXCEPT ![r] = x1]
      /\ runs[r].pc = "except" /\ Continue(r, pc)
  BY DEF StoreException, At
<1>2. /\ runs[r] \in RunState /\ runs \in [Runs -> RunState]
      /\ reconciliation_exceptions \in [Runs -> Seq(Int)]
      /\ m \in Seq(StoredMatch) /\ x \in Seq(Int)
  BY DEF JobInv, JobTypes
<1>3. rows \in Seq(StoredMatch)
  BY <1>2 DEF RunState
<1>4. RunInv(runs[r], m, x, night, stats)
  BY DEF JobInv
<1>5. /\ Stored(rows, m) /\ Raised(rows, m, x) /\ Len(m) = Len(rows) /\ Len(x) < Len(open)
      /\ Computed(runs[r]) /\ ~ stats.rated
  BY <1>1, <1>4, NotStopped DEF RunInv, Placed, Stopped
<1>6. open \in Seq(StoredMatch) /\ Len(open) \in Nat /\ Len(rows) \in Nat
  BY <1>3, OpenType
<1> HIDE DEF m, x, stats, rows, open
<1>7. k \in 1 .. Len(open)
  BY <1>2, <1>5, <1>6
<1>8. open[k].delta \in Int
  <2>1. open[k] \in StoredMatch
    BY <1>6, <1>7
  <2>2. \A row \in StoredMatch : row \in Match
    BY DEF StoredMatch, Pairing
  <2>3. \A row \in Match : row.delta \in Int
    BY DEF Match
  <2> QED BY <2>1, <2>2, <2>3
<1>9. x1 \in Seq(Int) /\ Len(x1) = k
  BY <1>2, <1>8
<1>10. \A i \in 1 .. Len(x1) : x1[i] = open[i].delta
  <2>1. \A i \in 1 .. Len(x) : x[i] = open[i].delta
    BY <1>5 DEF Raised, open
  <2> QED BY <1>2, <1>8, <1>9, <2>1
<1> HIDE DEF x1
<1>11. /\ pc \in {"store", "except", "finalize"}
       /\ pc # "store"
       /\ pc = "except" => k < Len(open)
       /\ pc = "finalize" => k = Len(open)
  <2>1. k \in 0 .. Len(Open(rows)) /\ Len(rows) \in 0 .. Len(rows)
    BY <1>6, <1>7 DEF open
  <2> HIDE DEF k
  <2>2. /\ pc \in {"store", "except", "finalize"}
        /\ pc = "store" => Len(rows) < Len(rows)
        /\ pc = "except" => k < Len(Open(rows))
        /\ pc = "finalize" => k = Len(Open(rows))
    BY <1>3, <2>1, AfterRowsPlace
  <2> HIDE DEF pc
  <2> QED BY <1>6, <2>2 DEF open
<1> HIDE DEF pc, k
<1>12. pc \in Places
  BY <1>11 DEF Places
<1>13. PICK at \in {pc, "catch"} : Goto(r, at) /\ at \in Places
  BY <1>1, <1>12, ContinuePlace
<1>14. /\ runs' \in [Runs -> RunState]
       /\ runs'[r].pc = at /\ runs'[r].rows = rows
       /\ runs'[r].ledger = runs[r].ledger /\ runs'[r].psp = runs[r].psp
       /\ \A q \in Runs : q # r => runs'[q] = runs[q]
  BY <1>2, <1>13, GotoPlace DEF rows
<1>15. /\ reconciliation_exceptions' \in [Runs -> Seq(Int)]
       /\ reconciliation_exceptions'[r] = x1
       /\ \A q \in Runs : q # r => reconciliation_exceptions'[q] = reconciliation_exceptions[q]
  BY <1>1, <1>2, <1>9
<1>16. JobTypes'
  BY <1>1, <1>14, <1>15 DEF JobInv, JobTypes
<1>17. OthersAlone(r)
  BY <1>1, <1>14, <1>15 DEF OthersAlone
<1>18. Raised(rows, m, x1)
  BY <1>5, <1>6, <1>7, <1>9, <1>10 DEF Raised, open
<1>19. Computed(runs'[r])
  BY <1>5, <1>14 DEF Computed, rows
<1>20. Placed(runs'[r], m, x1, night)
  BY <1>5, <1>9, <1>11, <1>13, <1>14, <1>19 DEF Placed, Fetching, open
<1>21. RunInv(runs'[r], m, x1, night, stats)
  BY <1>5, <1>14, <1>18, <1>20 DEF RunInv
<1> QED BY <1>1, <1>15, <1>16, <1>17, <1>21, OneRunMoves DEF m, stats

\* The numbers are those of rows that are all stored.
LEMMA FinalizeStep ==
  ASSUME JobInv, NEW r \in Runs, Finalize(r)
  PROVE  JobInv'
<1> DEFINE m == reconciliation_matches[r]
           x == reconciliation_exceptions[r]
           rows == runs[r].rows
           new == [completed |-> TRUE, stats |-> Stats(rows)]
<1>1. /\ UNCHANGED <<night, posted, reconciliation_matches, reconciliation_exceptions>>
      /\ reconciliation_runs' = [reconciliation_runs EXCEPT ![r] = new]
      /\ runs[r].pc = "finalize"
  BY DEF Finalize, At
<1>2. PICK at \in {"ended", "catch"} : Goto(r, at) /\ at \in Places
  BY ContinuePlace DEF Finalize, Places
<1>3. runs \in [Runs -> RunState] /\ DOMAIN reconciliation_runs \subseteq Runs
  BY DEF JobInv, JobTypes
<1>4. /\ runs' \in [Runs -> RunState]
      /\ runs'[r].pc = at /\ runs'[r].rows = rows
      /\ runs'[r].ledger = runs[r].ledger /\ runs'[r].psp = runs[r].psp
      /\ \A q \in Runs : q # r => runs'[q] = runs[q]
  BY <1>2, <1>3, GotoPlace
<1>5. RunInv(runs[r], m, x, night, StatsOf(reconciliation_runs, r))
  BY DEF JobInv
<1>6. /\ Stored(rows, m) /\ Raised(rows, m, x) /\ Computed(runs[r])
      /\ Len(m) = Len(rows) /\ Len(x) = Len(Open(rows))
  BY <1>1, <1>5 DEF RunInv, Placed
<1> HIDE DEF m, x, rows
<1>7. /\ DOMAIN reconciliation_runs' = DOMAIN reconciliation_runs
      /\ r \in DOMAIN reconciliation_runs => reconciliation_runs'[r] = new
      /\ \A q \in Runs : q # r => reconciliation_runs'[q] = reconciliation_runs[q]
  BY <1>1
<1>8. /\ StatsOf(reconciliation_runs', r) \in {NoStats, Stats(rows)}
      /\ \A q \in Runs : q # r =>
           StatsOf(reconciliation_runs', q) = StatsOf(reconciliation_runs, q)
  BY <1>7 DEF StatsOf
<1>9. JobTypes'
  BY <1>1, <1>4, <1>7 DEF JobInv, JobTypes
<1>10. OthersAlone(r)
  BY <1>1, <1>4, <1>8 DEF OthersAlone
<1>11. Computed(runs'[r])
  BY <1>4, <1>6 DEF Computed, rows
<1>12. StatsOf(reconciliation_runs', r).rated =>
         Reported(runs'[r], m, x, StatsOf(reconciliation_runs', r))
  <2>1. ~ NoStats.rated
    BY DEF NoStats
  <2>2. Reported(runs'[r], m, x, Stats(rows))
    BY <1>2, <1>4, <1>6, <1>11 DEF Reported, Stopped
  <2> QED BY <1>8, <2>1, <2>2
<1>13. Placed(runs'[r], m, x, night)
  BY <1>2, <1>4 DEF Placed, Fetching
<1>14. RunInv(runs'[r], m, x, night, StatsOf(reconciliation_runs', r))
  BY <1>4, <1>6, <1>12, <1>13 DEF RunInv
<1> QED BY <1>1, <1>9, <1>10, <1>14, OneRunMoves DEF m, x

LEMMA JobInitInv == JobInit => JobInv
<1> SUFFICES ASSUME JobInit PROVE JobInv
  OBVIOUS
<1> DEFINE idle == [pc |-> "idle", ledger |-> <<>>, psp |-> <<>>, rows |-> <<>>]
           none == <<>>
<1>1. none \in Seq(StoredMatch) /\ none \in Seq(JobRecord) /\ none \in Seq(Int) /\ Len(none) = 0
  OBVIOUS
<1>2. Len(Open(none)) \in Nat
  BY <1>1, OpenType
<1>3. idle \in RunState /\ idle.pc = "idle" /\ idle.rows = none
  BY <1>1 DEF RunState, Places
<1>4. /\ reconciliation_matches = [r \in Runs |-> none]
      /\ reconciliation_exceptions = [r \in Runs |-> none]
      /\ runs = [r \in Runs |-> idle] /\ DOMAIN reconciliation_runs = {}
      /\ night \in Nights /\ posted = 0
  BY DEF JobInit, JobStart
<1> HIDE DEF none, idle
<1>5. JobTypes
  <2>1. Len(Deposits) \in Nat
    BY JobAssumption
  <2> QED BY <1>1, <1>3, <1>4, <2>1 DEF JobTypes
<1>6. Stored(none, none) /\ Raised(none, none, none) /\ Placed(idle, none, none, night)
  BY <1>1, <1>2, <1>3 DEF Stored, Raised, Placed, Fetching
<1>7. ~ NoStats.rated
  BY DEF NoStats
<1>8. RunInv(idle, none, none, night, NoStats)
  BY <1>3, <1>6, <1>7 DEF RunInv
<1> QED BY <1>4, <1>5, <1>8 DEF JobInv, StatsOf

LEMMA JobNextInv == JobInv /\ [JobNext]_job_vars => JobInv'
<1> SUFFICES ASSUME JobInv, [JobNext]_job_vars PROVE JobInv'
  OBVIOUS
<1>1. CASE UNCHANGED job_vars
  BY <1>1 DEF JobInv, JobTypes, job_vars, tables
<1>2. CASE BankPosts
  <2>1. /\ posted' \in 0 .. Len(Deposits)
        /\ UNCHANGED <<night, tables, runs>>
    BY <1>2 DEF BankPosts, JobInv, JobTypes
  <2> QED BY <2>1 DEF JobInv, JobTypes, tables
<1>3. ASSUME NEW r \in Runs, Trigger(r) \/ Proceed(r) \/ Raises(r) \/ Die(r)
      PROVE  JobInv'
  <2>1. CASE Trigger(r)
    BY <2>1, TriggerStep
  <2>2. CASE InsertRun(r)
    BY <2>2, InsertRunStep
  <2>3. CASE FetchLedger(r) \/ FetchPSP(r)
    BY <2>3, FetchLedgerStep
  <2>4. CASE FetchBank(r)
    BY <2>4, FetchBankStep
  <2>5. CASE StoreMatch(r)
    BY <2>5, StoreMatchStep
  <2>6. CASE StoreException(r)
    BY <2>6, StoreExceptionStep
  <2>7. CASE Finalize(r)
    BY <2>7, FinalizeStep
  <2>8. CASE Catch(r)
    BY <2>8, CatchStep
  <2>9. CASE Raises(r) \/ Die(r)
    BY <2>9, RaisesStep
  <2> QED BY <1>3, <2>1, <2>2, <2>3, <2>4, <2>5, <2>6, <2>7, <2>8, <2>9 DEF Proceed
<1> QED BY <1>1, <1>2, <1>3 DEF JobNext

-----------------------------------------------------------------------------
(* What readers of the tables rely on.                                     *)

\* The numbers of a run add up to its rows, and count by status what they
\* count by the type that is not stored.
LEMMA StatsCount ==
  ASSUME NEW rows \in Seq(StoredMatch)
  PROVE  /\ OfType(rows, "exact") = OfStatus(rows, "exact_match")
         /\ OfType(rows, "fuzzy") = OfStatus(rows, "fuzzy_match")
         /\ Stats(rows).exact + Stats(rows).fuzzy + Stats(rows).many_to_one = Len(rows)
<1> DEFINE A == OfType(rows, "exact")
           B == OfType(rows, "fuzzy")
           C == OfType(rows, "many_to_one")
<1>1. \A row \in StoredMatch :
        /\ row.type \in {"exact", "fuzzy", "many_to_one"}
        /\ row.type = "exact" <=> row.status = "exact_match"
        /\ row.type = "fuzzy" <=> row.status = "fuzzy_match"
  BY DEF StoredMatch, Pairing, Match
<1>2. Len(rows) \in Nat /\ DOMAIN rows = 1 .. Len(rows)
      /\ \A i \in DOMAIN rows : rows[i] \in StoredMatch
  OBVIOUS
<1>3. A = OfStatus(rows, "exact_match") /\ B = OfStatus(rows, "fuzzy_match")
  BY <1>1, <1>2 DEF OfType, OfStatus
<1>4. A \cup B \cup C = 1 .. Len(rows)
  BY <1>1, <1>2 DEF OfType
<1>5. A \cap B = {} /\ (A \cup B) \cap C = {}
  BY DEF OfType
<1>6. Stats(rows).exact = Cardinality(A) /\ Stats(rows).fuzzy = Cardinality(B)
      /\ Stats(rows).many_to_one = Cardinality(C)
  BY DEF Stats
<1> HIDE DEF A, B, C
<1>7. IsFiniteSet(1 .. Len(rows)) /\ Cardinality(1 .. Len(rows)) = Len(rows)
  BY <1>2, FS_Interval
<1>8. IsFiniteSet(A) /\ IsFiniteSet(B) /\ IsFiniteSet(C)
  BY <1>4, <1>7, FS_Subset
<1>9. /\ IsFiniteSet(A \cup B)
      /\ Cardinality(A \cup B) = Cardinality(A) + Cardinality(B) - Cardinality({})
  BY <1>5, <1>8, FS_Union
<1>10. Cardinality((A \cup B) \cup C) = Cardinality(A \cup B) + Cardinality(C) - Cardinality({})
  BY <1>5, <1>8, <1>9, FS_Union
<1>11. Cardinality({}) = 0
  BY FS_EmptySet
<1>12. Cardinality(A) \in Nat /\ Cardinality(B) \in Nat /\ Cardinality(C) \in Nat
  BY <1>8, FS_CardinalityType
<1>13. Cardinality(A) + Cardinality(B) + Cardinality(C) = Len(rows)
  <2> DEFINE a == Cardinality(A)
             b == Cardinality(B)
             c == Cardinality(C)
             ab == Cardinality(A \cup B)
             none == Cardinality({})
             n == Len(rows)
  <2>1. Cardinality((A \cup B) \cup C) = n
    BY <1>4, <1>7
  <2>2. ab = a + b - none /\ n = ab + c - none /\ none = 0 /\ a \in Nat /\ b \in Nat /\ c \in Nat
    BY <1>9, <1>10, <1>11, <1>12, <2>1
  <2> HIDE DEF a, b, c, ab, none, n
  <2>3. a + b + c = n
    BY <2>2
  <2> QED BY <2>3 DEF a, b, c, n
<1> QED BY <1>3, <1>6, <1>13 DEF A, B

\* All of the rows are stored once their number is.
LEMMA AllStored ==
  ASSUME NEW rows \in Seq(StoredMatch), NEW m \in Seq(StoredMatch), Stored(rows, m),
         Len(m) = Len(rows)
  PROVE  m = rows
<1>1. \A i \in 1 .. Len(m) : m[i] = rows[i]
  BY DEF Stored
<1> QED BY <1>1, SeqEqual

\* Exceptions start like those of the rows that are stored.
LEMMA ExceptionsFollow ==
  ASSUME NEW rows \in Seq(StoredMatch), NEW m \in Seq(StoredMatch), NEW x \in Seq(Int),
         Stored(rows, m), Raised(rows, m, x)
  PROVE  IsPrefix(x, [i \in DOMAIN Open(m) |-> Open(m)[i].delta])
<1> DEFINE open == Open(m)
           deltas == [i \in DOMAIN open |-> open[i].delta]
<1>1. open \in Seq(StoredMatch) /\ Len(open) \in Nat
  BY OpenType
<1> HIDE DEF open
<1>2. Len(deltas) = Len(open) /\ \A i \in 1 .. Len(open) : deltas[i] = open[i].delta
  BY <1>1
<1>3. Len(x) \in Nat /\ Len(x) <= Len(open)
      /\ \A i \in 1 .. Len(x) : x[i] = open[i].delta
  <2>1. CASE Len(x) = 0
    BY <1>1, <2>1
  <2>2. CASE Len(x) # 0
    <3>1. Len(m) = Len(rows)
      BY <2>2 DEF Raised
    <3>2. m = rows
      BY <3>1, AllStored
    <3> QED BY <3>2 DEF Raised, open
  <2> QED BY <2>1, <2>2
<1> HIDE DEF deltas
<1>4. SubSeq(x, 1, Len(x)) = [i \in 1 .. Len(x) |-> x[i]]
  BY <1>3
<1>5. SubSeq(deltas, 1, Len(x)) = [i \in 1 .. Len(x) |-> deltas[i]]
  <2>1. deltas \in Seq(Int)
    <3>1. \A row \in StoredMatch : row.delta \in Int
      BY DEF StoredMatch, Pairing, Match
    <3> QED BY <1>1, <3>1 DEF deltas
  <2> QED BY <1>2, <1>3, <2>1
<1>6. \A i \in 1 .. Len(x) : x[i] = deltas[i]
  BY <1>1, <1>2, <1>3
<1> QED BY <1>2, <1>3, <1>4, <1>5, <1>6 DEF IsPrefix, deltas, open

LEMMA JobInvReports == JobInv => ReportsAreComplete
<1> SUFFICES ASSUME JobInv, NEW r \in DOMAIN reconciliation_runs
             PROVE  LET stored == reconciliation_matches[r]
                        open == Open(stored)
                        stats == reconciliation_runs[r].stats
                        With(status) == Cardinality(OfStatus(stored, status))
                    IN  /\ IsPrefix(reconciliation_exceptions[r],
                                    [i \in DOMAIN open |-> open[i].delta])
                        /\ stats.rated =>
                             /\ stats.exact = With("exact_match")
                             /\ stats.fuzzy = With("fuzzy_match")
                             /\ stats.auto_resolved = With("auto_resolved")
                             /\ stats.unmatched = With("unmatched")
                             /\ stats.exact + stats.fuzzy + stats.many_to_one = Len(stored)
                             /\ Len(reconciliation_exceptions[r]) = Len(open)
  BY DEF ReportsAreComplete
<1> DEFINE m == reconciliation_matches[r]
           x == reconciliation_exceptions[r]
           rows == runs[r].rows
           stats == reconciliation_runs[r].stats
<1>1. r \in Runs /\ runs[r] \in RunState /\ m \in Seq(StoredMatch) /\ x \in Seq(Int)
  BY DEF JobInv, JobTypes
<1>2. rows \in Seq(StoredMatch)
  BY <1>1 DEF RunState
<1>3. RunInv(runs[r], m, x, night, stats)
  BY <1>1 DEF JobInv, StatsOf
<1>4. Stored(rows, m) /\ Raised(rows, m, x)
  BY <1>3 DEF RunInv
<1>5. IsPrefix(x, [i \in DOMAIN Open(m) |-> Open(m)[i].delta])
  <2> HIDE DEF m, x, rows
  <2> QED BY <1>1, <1>2, <1>4, ExceptionsFollow
<1>6. ASSUME stats.rated
      PROVE  /\ stats.exact = Cardinality(OfStatus(m, "exact_match"))
             /\ stats.fuzzy = Cardinality(OfStatus(m, "fuzzy_match"))
             /\ stats.auto_resolved = Cardinality(OfStatus(m, "auto_resolved"))
             /\ stats.unmatched = Cardinality(OfStatus(m, "unmatched"))
             /\ stats.exact + stats.fuzzy + stats.many_to_one = Len(m)
             /\ Len(x) = Len(Open(m))
  <2>1. stats = Stats(rows) /\ Len(m) = Len(rows) /\ Len(x) = Len(Open(rows))
    BY <1>3, <1>6 DEF RunInv, Reported
  <2> HIDE DEF m, x, rows, stats
  <2>2. m = rows
    BY <1>1, <1>2, <1>4, <2>1, AllStored
  <2>3. /\ OfType(rows, "exact") = OfStatus(rows, "exact_match")
        /\ OfType(rows, "fuzzy") = OfStatus(rows, "fuzzy_match")
        /\ Stats(rows).exact + Stats(rows).fuzzy + Stats(rows).many_to_one = Len(rows)
    BY <1>2, StatsCount
  <2>4. /\ stats.exact = Cardinality(OfType(rows, "exact"))
        /\ stats.fuzzy = Cardinality(OfType(rows, "fuzzy"))
        /\ stats.auto_resolved = Cardinality(OfStatus(rows, "auto_resolved"))
        /\ stats.unmatched = Cardinality(OfStatus(rows, "unmatched"))
    BY <2>1 DEF Stats
  <2> QED BY <2>1, <2>2, <2>3, <2>4
<1> QED BY <1>5, <1>6

LEMMA JobInvAccounted == JobInv => FetchedAccountedFor
<1> SUFFICES ASSUME JobInv, NEW r \in DOMAIN reconciliation_runs,
                    reconciliation_runs[r].stats.rated
             PROVE  Accounted(reconciliation_matches[r], runs[r].ledger, runs[r].psp)
  BY DEF FetchedAccountedFor, Accounted
<1> DEFINE m == reconciliation_matches[r]
           x == reconciliation_exceptions[r]
           rows == runs[r].rows
           stats == reconciliation_runs[r].stats
<1>1. r \in Runs /\ runs[r] \in RunState /\ m \in Seq(StoredMatch)
  BY DEF JobInv, JobTypes
<1>2. rows \in Seq(StoredMatch)
  BY <1>1 DEF RunState
<1>3. RunInv(runs[r], m, x, night, stats)
  BY <1>1 DEF JobInv, StatsOf
<1>4. Stored(rows, m) /\ Len(m) = Len(rows) /\ Computed(runs[r])
  BY <1>3 DEF RunInv, Reported
<1>5. PICK n \in Nights, l \in 0 .. Len(Deposits) :
        rows = MatchedRows[<<n, l>>] /\ runs[r].ledger = n.ledger /\ runs[r].psp = n.psp
  BY <1>4 DEF Computed
<1>6. Accounted(MatchedRows[<<n, l>>], n.ledger, n.psp)
  BY RowsOfNight
<1> HIDE DEF m, rows
<1>7. m = rows
  BY <1>1, <1>2, <1>4, AllStored
<1> QED BY <1>5, <1>6, <1>7 DEF m

\* Whatever the runs do, and wherever the statement of one raises or its worker
\* dies, the exceptions of a run are those of its rows, in their order, and the
\* numbers finalize writes are those of rows and exceptions that are all there.
THEOREM JobReportsAreComplete == JobSpec => []ReportsAreComplete
<1> QED BY JobInitInv, JobNextInv, JobInvReports, PTL DEF JobSpec

\* The rows of a run that has its numbers account for all that it fetched: an
\* entry is in one row, a processor's id is paired at most once and never both
\* paired and missing, and no deposit is matched twice.
THEOREM JobAccountsForFetched == JobSpec => []FetchedAccountedFor
<1> QED BY JobInitInv, JobNextInv, JobInvAccounted, PTL DEF JobSpec
=============================================================================
