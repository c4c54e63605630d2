------------------------ MODULE SettlementEngineProofs ------------------------
(***************************************************************************)
(* Theorems about SettlementEngine for any lists, transactions and bounds: *)
(* splits hand out their gross amount and are netted without loss, users   *)
(* get their own money, files pay what their batches owe, batches only     *)
(* progress, and what create_batch refuses.                                *)
(***************************************************************************)
EXTENDS SettlementEngine, SeqSumsProofs

SplitRecord ==
  [transaction_id : STRING, gross_amount : Nat, platform_fee : Int, psp_fee : Int,
   holdback_amount : Int, user_receives : Int]

ValidSplit == {s \in SplitRecord : Valid(s)}

\* The positions are whatever the netting made them: P has no structure.
BatchRecord(P) ==
  [transactions : Lists, splits : Seq(ValidSplit), net_positions : P,
   status : {"created", "submitted", "confirmed"}]

\* The inductive invariant: every split in a batch has passed validate.
IInv ==
  /\ lists \in [Lists -> Seq(Transactions)]
  /\ \E P : batches \in Seq(BatchRecord(P))

-----------------------------------------------------------------------------
(* Rounding.                                                               *)

\* Rounding an integer yields an integer.
LEMMA RoundedType ==
  ASSUME NEW x \in Int, NEW unit \in Nat \ {0}
  PROVE  Rounded(x, unit) \in Int
  BY SMT DEF Rounded

\* What is left of whole cents plus a rest that is not negative rounds like
\* the sum.
LEMMA RoundedSum ==
  ASSUME NEW g \in Int, NEW f \in Int, g >= 0, g - 10 * f >= 0
  PROVE  ToCents(g) = f + ToCents(g - 10 * f)
  BY SMT DEF ToCents, Rounded

\* A rounded amount is at most half a cent off.
LEMMA HalfACent ==
  ASSUME NEW g \in Nat, NEW total \in Int, ToCents(g) = total
  PROVE  Distance(10 * total, g) <= 5
  BY SMT DEF ToCents, Rounded, Distance

\* A split keeps the id and the gross amount of its transaction.
LEMMA SplitKeeps ==
  ASSUME NEW t
  PROVE  Split(t).transaction_id = t.transaction_id /\ Split(t).gross_amount = t.gross_amount
  BY DEF Split

\* A share of an amount, and the fee of the schedule, are whole cents.
LEMMA SplitType ==
  ASSUME NEW t \in Transactions
  PROVE  Split(t) \in SplitRecord
<1> DEFINE schedule == FeeSchedule(t.psp_name, t.payout_method)
           platform == ShareOf(t.gross_amount, t.platform_fee_rate)
           psp == Rounded(t.gross_amount * schedule.rate + 10000 * schedule.flat, 100000)
           holdback == IF t.is_high_risk THEN ShareOf(t.gross_amount, 500) ELSE 0
<1>1. t \in Transaction
  BY SettlementAssumption
<1>2. t.gross_amount \in Nat /\ t.platform_fee_rate \in Nat /\ t.transaction_id \in STRING
  BY <1>1 DEF Transaction
<1>3. schedule.rate \in Nat /\ schedule.flat \in Nat
  BY DEF FeeSchedule, Dollars
<1> HIDE DEF schedule
<1>4. platform \in Int
  BY <1>2, RoundedType DEF ShareOf
<1>5. psp \in Int
  BY <1>2, <1>3, RoundedType
<1>6. holdback \in Int
  BY <1>2, RoundedType DEF ShareOf
<1> HIDE DEF platform, psp, holdback
<1>7. Remainder(t.gross_amount, platform + psp + holdback) \in Int
  BY <1>2, <1>4, <1>5, <1>6, RoundedType DEF Remainder, ToCents
<1>8. Split(t) =
        [transaction_id |-> t.transaction_id, gross_amount |-> t.gross_amount,
         platform_fee |-> platform, psp_fee |-> psp, holdback_amount |-> holdback,
         user_receives |-> Remainder(t.gross_amount, platform + psp + holdback)]
  BY DEF Split, platform, psp, holdback, schedule
<1> QED
  BY <1>2, <1>4, <1>5, <1>6, <1>7, <1>8 DEF SplitRecord

\* create_batch refuses a transaction only if the fees exceed its amount: when
\* the remainder is not negative, the split passes validate, for any amount,
\* fraction of a cent, fee rate, processor and method.
THEOREM CoveredSplitsAreValid ==
  ASSUME NEW t \in Transactions,
         t.gross_amount >= 10 * (Split(t).platform_fee + Split(t).psp_fee + Split(t).holdback_amount)
  PROVE  Valid(Split(t))
<1> DEFINE s == Split(t)
           fees == s.platform_fee + s.psp_fee + s.holdback_amount
<1>1. /\ s.gross_amount = t.gross_amount
      /\ s.user_receives = ToCents(t.gross_amount - 10 * fees)
  BY DEF Split, Remainder
<1>2. s \in SplitRecord
  BY SplitType
<1> HIDE DEF s
<1>3. ToCents(s.gross_amount) = fees + s.user_receives
  BY <1>1, <1>2, RoundedSum DEF SplitRecord, s
<1> QED
  BY <1>2, <1>3 DEF Valid, TotalAllocated, SplitRecord, s

-----------------------------------------------------------------------------
(* The invariant.                                                          *)

\* A new batch, with its own kind of positions, leaves the old ones what they are.
LEMMA BatchesWiden ==
  ASSUME NEW P, NEW Q
  PROVE  BatchRecord(P) \subseteq BatchRecord(P \cup Q)
  BY DEF BatchRecord

LEMMA InvariantStarts == SettlementInit => IInv
<1> SUFFICES ASSUME SettlementInit PROVE IInv
  OBVIOUS
<1>1. lists \in [Lists -> Seq(Transactions)]
  BY DEF SettlementInit
<1>2. batches \in Seq(BatchRecord({}))
  BY DEF SettlementInit
<1> QED
  BY <1>1, <1>2 DEF IInv

LEMMA CollectKeeps ==
  ASSUME IInv, NEW l \in Lists, NEW t \in Transactions, Collect(l, t)
  PROVE  IInv'
<1>1. lists' = [lists EXCEPT ![l] = Append(lists[l], t)] /\ batches' = batches
  BY DEF Collect
<1>2. lists' \in [Lists -> Seq(Transactions)]
  BY <1>1 DEF IInv
<1>3. PICK P : batches \in Seq(BatchRecord(P))
  BY DEF IInv
<1>4. batches' \in Seq(BatchRecord(P))
  BY <1>1, <1>3
<1> QED
  BY <1>2, <1>4 DEF IInv

\* Only splits that pass validate get into a batch.
LEMMA CreateKeeps ==
  ASSUME IInv, NEW l \in Lists, CreateBatch(l)
  PROVE  IInv'
<1> DEFINE splits == [i \in DOMAIN lists[l] |-> Split(lists[l][i])]
           positions == NetPositions(lists[l], splits)
           new == [transactions |-> l, splits |-> splits, net_positions |-> positions,
                   status |-> "created"]
<1>1. PICK P : batches \in Seq(BatchRecord(P))
  BY DEF IInv
<1>2. lists[l] \in Seq(Transactions)
  BY DEF IInv
<1>3. \A i \in DOMAIN lists[l] : Split(lists[l][i]) \in SplitRecord
  BY <1>2, SplitType
<1>4. \A i \in DOMAIN splits : Valid(splits[i])
  BY DEF CreateBatch
<1>5. splits \in Seq(ValidSplit)
  <2> DEFINE n == Len(lists[l])
  <2>1. n \in Nat /\ DOMAIN lists[l] = 1 .. n
    BY <1>2
  <2>2. \A i \in 1 .. n : splits[i] \in ValidSplit
    BY <1>3, <1>4, <2>1 DEF ValidSplit
  <2>3. splits \in [1 .. n -> ValidSplit]
    BY <2>1, <2>2
  <2> HIDE DEF n, splits
  <2> QED
    BY <2>1, <2>3
<1>6. batches' = Append(batches, new) /\ lists' = lists
  BY DEF CreateBatch
<1> HIDE DEF splits, positions
<1>7. new \in BatchRecord(P \cup {positions})
  BY <1>5 DEF BatchRecord
<1>8. batches \in Seq(BatchRecord(P \cup {positions}))
  BY <1>1, BatchesWiden, SeqMonotonic
<1> HIDE DEF new
<1>9. batches' \in Seq(BatchRecord(P \cup {positions}))
  BY <1>6, <1>7, <1>8
<1> QED
  BY <1>6, <1>9 DEF IInv

LEMMA StatusKeeps ==
  ASSUME IInv, NEW b \in DOMAIN batches, NEW s \in {"submitted", "confirmed"},
         batches' = [batches EXCEPT ![b].status = s], UNCHANGED lists
  PROVE  IInv'
<1>1. PICK P : batches \in Seq(BatchRecord(P))
  BY DEF IInv
<1>2. batches[b] \in BatchRecord(P)
  BY <1>1
<1>3. [batches[b] EXCEPT !.status = s] \in BatchRecord(P)
  BY <1>2 DEF BatchRecord
<1>4. batches' = [batches EXCEPT ![b] = [batches[b] EXCEPT !.status = s]]
  OBVIOUS
<1>5. batches' \in Seq(BatchRecord(P))
  BY <1>1, <1>3, <1>4
<1> QED
  BY <1>5 DEF IInv

LEMMA StepKeeps == IInv /\ [SettlementNext]_settlement_vars => IInv'
<1> SUFFICES ASSUME IInv, [SettlementNext]_settlement_vars PROVE IInv'
  OBVIOUS
<1>1. ASSUME NEW l \in Lists, NEW t \in Transactions, Collect(l, t) PROVE IInv'
  BY <1>1, CollectKeeps
<1>2. ASSUME NEW l \in Lists, CreateBatch(l) PROVE IInv'
  BY <1>2, CreateKeeps
<1>3. ASSUME NEW b \in DOMAIN batches, SubmitBatch(b) \/ ConfirmBatch(b) PROVE IInv'
  BY <1>3, StatusKeeps DEF SubmitBatch, ConfirmBatch
<1>4. CASE UNCHANGED settlement_vars
  BY <1>4 DEF settlement_vars, IInv
<1> QED
  BY <1>1, <1>2, <1>3, <1>4 DEF SettlementNext

\* Every split that passed validate hands out its gross amount but for half a cent.
LEMMA HeldSplitsAreWhole == IInv => SplitsAreWhole
<1> SUFFICES ASSUME IInv, NEW b \in DOMAIN batches, NEW i \in DOMAIN batches[b].splits
             PROVE  Distance(10 * TotalAllocated(batches[b].splits[i]),
                             batches[b].splits[i].gross_amount) <= 5
  BY DEF SplitsAreWhole
<1> DEFINE s == batches[b].splits[i]
<1>1. PICK P : batches \in Seq(BatchRecord(P))
  BY DEF IInv
<1>2. batches[b] \in BatchRecord(P)
  BY <1>1
<1>3. batches[b].splits \in Seq(ValidSplit)
  BY <1>2 DEF BatchRecord
<1>4. s \in SplitRecord /\ Valid(s)
  BY <1>3 DEF ValidSplit
<1> HIDE DEF s
<1>5. TotalAllocated(s) \in Int /\ s.gross_amount \in Nat
  BY <1>4 DEF TotalAllocated, SplitRecord
<1>6. Distance(10 * TotalAllocated(s), s.gross_amount) <= 5
  BY <1>4, <1>5, HalfACent DEF Valid
<1> QED
  BY <1>6 DEF s

\* The same, of every reachable state.
THEOREM EngineSplitsAreWhole == SettlementSpec => []SplitsAreWhole
BY HeldSplitsAreWhole, InvariantStarts, StepKeeps, PTL DEF SettlementSpec

\* Batches only progress, and what they pay is fixed when they are created.
THEOREM EngineBatchesProgress == SettlementSpec => BatchesProgress
<1> DEFINE Progress ==
      \A b \in DOMAIN batches :
        /\ b \in DOMAIN batches'
        /\ Fixed(batches'[b]) = Fixed(batches[b])
        /\ StatusRank[batches'[b].status] - StatusRank[batches[b].status] \in {0, 1}
<1>1. ASSUME IInv, SettlementNext PROVE Progress
  <2>1. PICK P : batches \in Seq(BatchRecord(P))
    BY <1>1 DEF IInv
  <2>2. \A b \in DOMAIN batches : StatusRank[batches[b].status] - StatusRank[batches[b].status] = 0
    <3> SUFFICES ASSUME NEW b \in DOMAIN batches
                 PROVE  StatusRank[batches[b].status] - StatusRank[batches[b].status] = 0
      OBVIOUS
    <3>1. batches[b] \in BatchRecord(P)
      BY <2>1
    <3>2. batches[b].status \in {"created", "submitted", "confirmed"}
      BY <3>1 DEF BatchRecord
    <3> QED
      BY <3>2 DEF StatusRank
  <2>3. ASSUME NEW l \in Lists, NEW t \in Transactions, Collect(l, t) PROVE Progress
    BY <2>2, <2>3 DEF Collect
  <2>4. ASSUME NEW l \in Lists, CreateBatch(l) PROVE Progress
    <3>1. PICK new : batches' = Append(batches, new)
      BY <2>4 DEF CreateBatch
    <3>2. \A b \in DOMAIN batches : b \in DOMAIN batches' /\ batches'[b] = batches[b]
      BY <2>1, <3>1
    <3> QED
      BY <2>2, <3>2
  <2>5. ASSUME NEW b \in DOMAIN batches, NEW s \in {"submitted", "confirmed"},
               StatusRank[s] - StatusRank[batches[b].status] = 1,
               batches' = [batches EXCEPT ![b].status = s]
        PROVE  Progress
    <3>1. \A c \in DOMAIN batches : c # b => c \in DOMAIN batches' /\ batches'[c] = batches[c]
      BY <2>5
    <3>2. batches[b] \in BatchRecord(P) /\ b \in DOMAIN batches'
      BY <2>1, <2>5
    <3>3. Fixed(batches'[b]) = Fixed(batches[b]) /\ batches'[b].status = s
      BY <2>5, <3>2 DEF BatchRecord, Fixed
    <3> QED
      BY <2>2, <2>5, <3>1, <3>2, <3>3
  <2>6. ASSUME NEW b \in DOMAIN batches, SubmitBatch(b) PROVE Progress
    <3>1. StatusRank["submitted"] - StatusRank[batches[b].status] = 1
      BY <2>6 DEF SubmitBatch, StatusRank
    <3> QED
      BY <2>5, <2>6, <3>1 DEF SubmitBatch
  <2>7. ASSUME NEW b \in DOMAIN batches, ConfirmBatch(b) PROVE Progress
    <3>1. StatusRank["confirmed"] - StatusRank[batches[b].status] = 1
      BY <2>7 DEF ConfirmBatch, StatusRank
    <3> QED
      BY <2>5, <2>7, <3>1 DEF ConfirmBatch
  <2> QED
    BY <1>1, <2>3, <2>4, <2>6, <2>7 DEF SettlementNext
<1>2. IInv /\ [SettlementNext]_settlement_vars => [Progress]_settlement_vars
  BY <1>1
<1> QED
  BY <1>2, InvariantStarts, StepKeeps, PTL DEF SettlementSpec, BatchesProgress

-----------------------------------------------------------------------------
(* Netting.                                                                *)

\* user_totals for users of U, one entry a user, and the users in it.
Entries(U)  == [user : U, totals : [Kinds -> Int]]
Distinct(t) == \A n, k \in DOMAIN t : t[n].user = t[k].user => n = k
UsersIn(t)  == {t[n].user : n \in DOMAIN t}

\* The sum of one kind over the users.
SumOfKind(t, kind) == Total([n \in DOMAIN t |-> t[n].totals[kind]])

LEMMA ShareType ==
  ASSUME NEW s \in SplitRecord
  PROVE  /\ Share(s) \in [Kinds -> Int]
         /\ Share(s)["count"] = 1
         /\ Share(s)["fees"] = s.platform_fee + s.psp_fee
         /\ Share(s)["holdback"] = s.holdback_amount
         /\ Share(s)["net"] = s.user_receives
BY DEF Share, Kinds, SplitRecord

LEMMA AddToType ==
  ASSUME NEW s \in SplitRecord, NEW a \in [Kinds -> Int]
  PROVE  /\ AddTo(a, s) \in [Kinds -> Int]
         /\ \A k \in Kinds : AddTo(a, s)[k] = a[k] + Share(s)[k]
BY ShareType DEF AddTo

LEMMA ZeroType ==
  Zero \in [Kinds -> Int] /\ \A k \in Kinds : Zero[k] = 0
BY DEF Zero

LEMMA SumOfKindType ==
  ASSUME NEW U, NEW t \in Seq(Entries(U)), NEW kind \in Kinds
  PROVE  /\ [n \in DOMAIN t |-> t[n].totals[kind]] \in Seq(Int)
         /\ SumOfKind(t, kind) \in Int
<1>1. \A n \in DOMAIN t : t[n].totals[kind] \in Int
  <2> TAKE n \in DOMAIN t
  <2>1. t[n] \in Entries(U)
    OBVIOUS
  <2> QED BY <2>1 DEF Entries
<1>2. [n \in DOMAIN t |-> t[n].totals[kind]] \in Seq(Int)
  BY <1>1
<1> QED BY <1>2, TotalType DEF SumOfKind

\* A split of a user seen before changes that user's entry and no other.
LEMMA SplitOfKnownUser ==
  ASSUME NEW U, NEW t \in Seq(Entries(U)), Distinct(t), NEW s \in SplitRecord,
         NEW p \in DOMAIN t
  PROVE  LET r == AfterSplit(t, t[p].user, s)
         IN  /\ r \in Seq(Entries(U)) /\ Len(r) = Len(t)
             /\ \A n \in DOMAIN t : r[n].user = t[n].user
             /\ \A n \in DOMAIN t : n # p => r[n] = t[n]
             /\ \A kind \in Kinds : r[p].totals[kind] = t[p].totals[kind] + Share(s)[kind]
<1> DEFINE u == t[p].user
           r == AfterSplit(t, u, s)
           e == [t[p] EXCEPT !.totals = AddTo(t[p].totals, s)]
<1>1. r = [n \in DOMAIN t |-> IF t[n].user = u THEN [t[n] EXCEPT !.totals = AddTo(@, s)] ELSE t[n]]
  BY DEF AfterSplit
<1>2. \A n \in DOMAIN t : t[n].user = u <=> n = p
  BY DEF Distinct
<1>3. t[p] \in Entries(U)
  OBVIOUS
<1>4. /\ e \in Entries(U) /\ e.user = t[p].user
      /\ \A kind \in Kinds : e.totals[kind] = t[p].totals[kind] + Share(s)[kind]
  BY <1>3, AddToType DEF Entries
<1>5. r = [n \in DOMAIN t |-> IF n = p THEN e ELSE t[n]]
  BY <1>1, <1>2
<1> HIDE DEF r, e
<1>6. r \in Seq(Entries(U)) /\ Len(r) = Len(t)
  BY <1>4, <1>5
<1> QED BY <1>4, <1>5, <1>6 DEF r

\* A split of a new user adds an entry with that split alone.
LEMMA SplitOfNewUser ==
  ASSUME NEW U, NEW t \in Seq(Entries(U)), NEW s \in SplitRecord, NEW u \in U \ UsersIn(t)
  PROVE  LET r == AfterSplit(t, u, s)
             e == [user |-> u, totals |-> AddTo(Zero, s)]
         IN  /\ r = Append(t, e) /\ r \in Seq(Entries(U)) /\ e \in Entries(U)
             /\ \A kind \in Kinds : e.totals[kind] = Share(s)[kind]
<1> DEFINE e == [user |-> u, totals |-> AddTo(Zero, s)]
<1>1. AfterSplit(t, u, s) = Append(t, e)
  BY DEF AfterSplit, UsersIn
<1>2. e \in Entries(U) /\ \A kind \in Kinds : e.totals[kind] = Zero[kind] + Share(s)[kind]
  BY ZeroType, AddToType DEF Entries
<1>3. \A kind \in Kinds : Zero[kind] + Share(s)[kind] = Share(s)[kind]
  BY ZeroType, ShareType
<1> QED BY <1>1, <1>2, <1>3

\* One round of the loop: every kind grows by the split's share of it, users
\* stay distinct, and only the entry of the split's user changes.
LEMMA AfterSplitAdds ==
  ASSUME NEW U, NEW t \in Seq(Entries(U)), Distinct(t), NEW s \in SplitRecord, NEW u \in U
  PROVE  LET r == AfterSplit(t, u, s)
         IN  /\ r \in Seq(Entries(U)) /\ Distinct(r)
             /\ \A kind \in Kinds : SumOfKind(r, kind) = SumOfKind(t, kind) + Share(s)[kind]
             /\ UsersIn(r) = UsersIn(t) \cup {u}
             /\ \A n \in DOMAIN r :
                  \/ r[n].user # u /\ n \in DOMAIN t /\ r[n] = t[n]
                  \/ /\ r[n].user = u /\ n \in DOMAIN t /\ t[n].user = u
                     /\ r[n].totals["net"] = t[n].totals["net"] + s.user_receives
                  \/ r[n].user = u /\ u \notin UsersIn(t) /\ r[n].totals["net"] = s.user_receives
<1> DEFINE r == AfterSplit(t, u, s)
<1>n. "net" \in Kinds /\ Share(s)["net"] = s.user_receives
  BY ShareType DEF Kinds
<1>1. CASE u \in UsersIn(t)
  <2>1. PICK p \in DOMAIN t : t[p].user = u
    BY <1>1 DEF UsersIn
  <2>2. /\ r \in Seq(Entries(U)) /\ Len(r) = Len(t)
        /\ \A n \in DOMAIN t : r[n].user = t[n].user
        /\ \A n \in DOMAIN t : n # p => r[n] = t[n]
        /\ \A kind \in Kinds : r[p].totals[kind] = t[p].totals[kind] + Share(s)[kind]
    BY <2>1, SplitOfKnownUser
  <2>3. DOMAIN r = DOMAIN t /\ DOMAIN t = 1 .. Len(t)
    BY <2>2
  <2> HIDE DEF r
  <2>4. Distinct(r) /\ UsersIn(r) = UsersIn(t) \cup {u}
    BY <1>1, <2>2, <2>3 DEF Distinct, UsersIn
  <2>5. ASSUME NEW kind \in Kinds
        PROVE  SumOfKind(r, kind) = SumOfKind(t, kind) + Share(s)[kind]
    <3> DEFINE x == [n \in DOMAIN t |-> t[n].totals[kind]]
               y == [n \in DOMAIN r |-> r[n].totals[kind]]
    <3>1. x \in Seq(Int) /\ y \in Seq(Int)
      BY <2>2, SumOfKindType
    <3>2. Len(x) = Len(t) /\ Len(y) = Len(t)
      BY <2>2, <2>3
    <3>3. \A i \in 1 .. Len(t) : i # p => y[i] = x[i]
      BY <2>2, <2>3
    <3>4. y[p] = x[p] + Share(s)[kind]
      BY <2>1, <2>2, <2>3
    <3>5. p \in 1 .. Len(x) /\ x[p] \in Int /\ Share(s)[kind] \in Int
      BY <2>1, <2>3, <3>1, <3>2, ShareType
    <3>6. Total(x) \in Int
      BY <3>1, TotalType
    <3> HIDE DEF x, y
    <3>7. Total(y) = Total(x) + (y[p] - x[p])
      BY <3>1, <3>2, <3>3, <3>5, TotalChange
    <3>8. Total(y) = Total(x) + Share(s)[kind]
      BY <3>4, <3>5, <3>6, <3>7
    <3> QED BY <3>8 DEF SumOfKind, x, y
  <2>6. ASSUME NEW n \in DOMAIN r
        PROVE  \/ r[n].user # u /\ n \in DOMAIN t /\ r[n] = t[n]
               \/ /\ r[n].user = u /\ n \in DOMAIN t /\ t[n].user = u
                  /\ r[n].totals["net"] = t[n].totals["net"] + s.user_receives
    BY <1>n, <2>1, <2>2, <2>3 DEF Distinct
  <2> QED BY <2>2, <2>4, <2>5, <2>6 DEF r
<1>2. CASE u \notin UsersIn(t)
  <2> DEFINE e == [user |-> u, totals |-> AddTo(Zero, s)]
  <2>1. /\ r = Append(t, e) /\ r \in Seq(Entries(U)) /\ e \in Entries(U)
        /\ \A kind \in Kinds : e.totals[kind] = Share(s)[kind]
    BY <1>2, SplitOfNewUser
  <2>2. e.user = u
    OBVIOUS
  <2> HIDE DEF r, e
  <2>3. /\ DOMAIN r = 1 .. Len(t) + 1 /\ DOMAIN t = 1 .. Len(t) /\ Len(t) \in Nat
        /\ r[Len(t) + 1] = e /\ \A n \in DOMAIN t : r[n] = t[n]
    BY <2>1
  <2>4. Distinct(r) /\ UsersIn(r) = UsersIn(t) \cup {u}
    BY <1>2, <2>2, <2>3 DEF Distinct, UsersIn
  <2>5. ASSUME NEW kind \in Kinds
        PROVE  SumOfKind(r, kind) = SumOfKind(t, kind) + Share(s)[kind]
    <3> DEFINE x == [n \in DOMAIN t |-> t[n].totals[kind]]
               y == [n \in DOMAIN r |-> r[n].totals[kind]]
    <3>1. x \in Seq(Int) /\ Share(s)[kind] \in Int
      BY SumOfKindType, ShareType
    <3>2. y = Append(x, Share(s)[kind])
      BY <2>1, <2>3
    <3> QED BY <3>1, <3>2, TotalAppend DEF SumOfKind
  <2>6. ASSUME NEW n \in DOMAIN r
        PROVE  \/ r[n].user # u /\ n \in DOMAIN t /\ r[n] = t[n]
               \/ r[n].user = u /\ u \notin UsersIn(t) /\ r[n].totals["net"] = s.user_receives
    BY <1>2, <1>n, <2>1, <2>2, <2>3 DEF UsersIn
  <2> QED BY <2>1, <2>4, <2>5, <2>6 DEF r
<1> QED BY <1>1, <1>2

\* The users of a batch.
UsersOf(list, splits) == {UserOf(list, splits, i) : i \in DOMAIN splits}

\* What the splits add of one kind, and what those of one user pay out.
SharesOf(splits, kind) == [i \in DOMAIN splits |-> Share(splits[i])[kind]]
OwnPayouts(list, splits, u) ==
  [i \in DOMAIN splits |-> IF UserOf(list, splits, i) = u THEN splits[i].user_receives ELSE 0]

\* The loop over the splits has a run, and UserTotals is it.
LEMMA UserTotalsRounds ==
  ASSUME NEW list, NEW splits \in Seq(ValidSplit)
  PROVE  LET T == UserTotals(list, splits)
         IN  /\ T[0] = <<>>
             /\ \A i \in 1 .. Len(splits) :
                  T[i] = AfterSplit(T[i - 1], UserOf(list, splits, i), splits[i])
<1> DEFINE U == UsersOf(list, splits)
           n == Len(splits)
           X == {t \in Seq(Entries(U)) : Distinct(t)}
           after(t, i) == AfterSplit(t, UserOf(list, splits, i), splits[i])
           step == [p \in X \X (1 .. n) |-> after(p[1], p[2])]
           Is(T) == T = [i \in 0 .. n |-> IF i = 0 THEN <<>> ELSE after(T[i - 1], i)]
<1>1. \A i \in 1 .. n : splits[i] \in SplitRecord /\ UserOf(list, splits, i) \in U
  BY DEF ValidSplit, UsersOf
<1>2. ASSUME NEW t \in X, NEW i \in 1 .. n PROVE after(t, i) \in X
  BY <1>1, AfterSplitAdds
<1> HIDE DEF after
<1>3. step \in [X \X (1 .. n) -> X]
  BY <1>2
<1>4. <<>> \in X /\ n \in Nat
  BY DEF Distinct
<1>5. \A t \in X : \A i \in 1 .. n : step[<<t, i>>] = after(t, i)
  OBVIOUS
<1> HIDE DEF step, X
<1>6. PICK T \in [0 .. n -> X] : Rounds(T, <<>>, step, n)
  BY <1>3, <1>4, RoundsExist
<1>7. Is(T)
  <2>1. ASSUME NEW i \in 0 .. n
        PROVE  T[i] = IF i = 0 THEN <<>> ELSE after(T[i - 1], i)
    <3>1. T[i] = IF i = 0 THEN <<>> ELSE step[<<T[i - 1], i>>]
      BY <1>6 DEF Rounds
    <3>2. i # 0 => T[i - 1] \in X /\ i \in 1 .. n
      OBVIOUS
    <3> QED BY <1>5, <3>1, <3>2
  <2> QED BY <2>1
<1>8. UserTotals(list, splits) = CHOOSE T0 : Is(T0)
  BY DEF UserTotals, after
<1>9. Is(UserTotals(list, splits))
  <2> HIDE DEF Is
  <2> QED BY <1>7, <1>8
<1>10. \A i \in 1 .. n : i \in 0 .. n /\ i # 0
  BY <1>4
<1>11. 0 \in 0 .. n
  BY <1>4
<1> QED BY <1>9, <1>10, <1>11 DEF after

\* After i splits: every kind adds up to the shares of those splits, users have
\* one entry each, and a user's entry pays out what the user's splits do.
Netted(list, splits, i) ==
  LET t == UserTotals(list, splits)[i]
  IN  /\ t \in Seq(Entries(UsersOf(list, splits))) /\ Distinct(t)
      /\ \A kind \in Kinds : SumOfKind(t, kind) = RunningTotals(SharesOf(splits, kind))[i]
      /\ \A n \in DOMAIN t :
           t[n].totals["net"] = RunningTotals(OwnPayouts(list, splits, t[n].user))[i]
      /\ \A u \in UsersOf(list, splits) \ UsersIn(t) :
           RunningTotals(OwnPayouts(list, splits, u))[i] = 0

LEMMA SplitSequences ==
  ASSUME NEW list, NEW splits \in Seq(ValidSplit)
  PROVE  /\ \A kind \in Kinds : SharesOf(splits, kind) \in Seq(Int) /\ Len(SharesOf(splits, kind)) = Len(splits)
         /\ \A u : OwnPayouts(list, splits, u) \in Seq(Int) /\ Len(OwnPayouts(list, splits, u)) = Len(splits)
<1>1. \A i \in 1 .. Len(splits) : splits[i] \in SplitRecord
  BY DEF ValidSplit
<1>2. \A i \in 1 .. Len(splits) : splits[i].user_receives \in Int
  BY <1>1 DEF SplitRecord
<1>3. ASSUME NEW kind \in Kinds
      PROVE  SharesOf(splits, kind) \in Seq(Int) /\ Len(SharesOf(splits, kind)) = Len(splits)
  <2>1. \A i \in 1 .. Len(splits) : Share(splits[i])[kind] \in Int
    BY <1>1, ShareType
  <2> QED BY <2>1 DEF SharesOf
<1>4. ASSUME NEW u
      PROVE  OwnPayouts(list, splits, u) \in Seq(Int) /\ Len(OwnPayouts(list, splits, u)) = Len(splits)
  BY <1>2 DEF OwnPayouts
<1> QED BY <1>3, <1>4

LEMMA NettingInvariant ==
  ASSUME NEW list, NEW splits \in Seq(ValidSplit)
  PROVE  \A i \in 0 .. Len(splits) : Netted(list, splits, i)
<1> DEFINE n == Len(splits)
           U == UsersOf(list, splits)
           T == UserTotals(list, splits)
           F == {i \in 0 .. n : Netted(list, splits, i)}
<1>1. /\ T[0] = <<>>
      /\ \A i \in 1 .. n : T[i] = AfterSplit(T[i - 1], UserOf(list, splits, i), splits[i])
  BY UserTotalsRounds
<1>2. \A kind \in Kinds :
        /\ RunningTotals(SharesOf(splits, kind))[0] = 0
        /\ \A i \in 1 .. n : RunningTotals(SharesOf(splits, kind))[i]
                               = RunningTotals(SharesOf(splits, kind))[i - 1] + Share(splits[i])[kind]
  <2> TAKE kind \in Kinds
  <2> DEFINE s == SharesOf(splits, kind)
  <2>1. s \in Seq(Int) /\ Len(s) = n
    BY SplitSequences
  <2>2. \A i \in 1 .. n : s[i] = Share(splits[i])[kind]
    BY DEF SharesOf
  <2> HIDE DEF s
  <2>3. RunningTotals(s)[0] = 0 /\ \A i \in 1 .. n : RunningTotals(s)[i] = RunningTotals(s)[i - 1] + s[i]
    BY <2>1, RunningTotalsStep
  <2> QED BY <2>2, <2>3 DEF s
<1>3. \A u :
        /\ RunningTotals(OwnPayouts(list, splits, u))[0] = 0
        /\ \A i \in 0 .. n : RunningTotals(OwnPayouts(list, splits, u))[i] \in Int
        /\ \A i \in 1 .. n :
             RunningTotals(OwnPayouts(list, splits, u))[i]
               = RunningTotals(OwnPayouts(list, splits, u))[i - 1]
                   + (IF UserOf(list, splits, i) = u THEN splits[i].user_receives ELSE 0)
  <2> TAKE u
  <2> DEFINE s == OwnPayouts(list, splits, u)
  <2>1. s \in Seq(Int) /\ Len(s) = n
    BY SplitSequences
  <2>2. \A i \in 1 .. n : s[i] = IF UserOf(list, splits, i) = u THEN splits[i].user_receives ELSE 0
    BY DEF OwnPayouts
  <2> HIDE DEF s
  <2>3. /\ RunningTotals(s)[0] = 0
        /\ \A i \in 0 .. n : RunningTotals(s)[i] \in Int
        /\ \A i \in 1 .. n : RunningTotals(s)[i] = RunningTotals(s)[i - 1] + s[i]
    BY <2>1, RunningTotalsStep
  <2> QED BY <2>2, <2>3 DEF s
<1> HIDE DEF T
<1>4. 0 \in F
  <2>1. T[0] \in Seq(Entries(U)) /\ Distinct(T[0]) /\ DOMAIN T[0] = {}
    BY <1>1 DEF Distinct
  <2>2. \A kind \in Kinds : SumOfKind(T[0], kind) = 0
    <3> TAKE kind \in Kinds
    <3>1. [m \in DOMAIN T[0] |-> T[0][m].totals[kind]] = <<>>
      BY <1>1
    <3> QED BY <3>1, TotalEmpty DEF SumOfKind
  <2>3. Netted(list, splits, 0)
    BY <1>2, <1>3, <2>1, <2>2 DEF Netted, T
  <2> QED BY <2>3
<1>5. ASSUME NEW i \in 1 .. n, i - 1 \in F PROVE i \in F
  <2> DEFINE t == T[i - 1]
             u == UserOf(list, splits, i)
             s == splits[i]
             r == T[i]
             own(v, m) == RunningTotals(OwnPayouts(list, splits, v))[m]
  <2>1. /\ t \in Seq(Entries(U)) /\ Distinct(t)
        /\ \A kind \in Kinds : SumOfKind(t, kind) = RunningTotals(SharesOf(splits, kind))[i - 1]
        /\ \A m \in DOMAIN t : t[m].totals["net"] = own(t[m].user, i - 1)
        /\ \A v \in U \ UsersIn(t) : own(v, i - 1) = 0
    BY <1>5 DEF Netted, T
  <2>2. s \in SplitRecord /\ u \in U /\ s.user_receives \in Int
    <3>1. s \in SplitRecord
      BY DEF ValidSplit
    <3> QED BY <3>1 DEF SplitRecord, UsersOf
  <2>3. r = AfterSplit(t, u, s)
    BY <1>1
  <2>4. \A v : own(v, i) = own(v, i - 1) + (IF u = v THEN s.user_receives ELSE 0)
    BY <1>3
  <2>5. \A v : own(v, i - 1) \in Int
    <3>1. i - 1 \in 0 .. n
      OBVIOUS
    <3> QED BY <1>3, <3>1
  <2>6. \A kind \in Kinds : RunningTotals(SharesOf(splits, kind))[i]
          = RunningTotals(SharesOf(splits, kind))[i - 1] + Share(s)[kind]
    BY <1>2
  <2> HIDE DEF t, u, s, r, own, U
  <2>7. /\ r \in Seq(Entries(U)) /\ Distinct(r)
        /\ \A kind \in Kinds : SumOfKind(r, kind) = SumOfKind(t, kind) + Share(s)[kind]
        /\ UsersIn(r) = UsersIn(t) \cup {u}
        /\ \A m \in DOMAIN r :
             \/ r[m].user # u /\ m \in DOMAIN t /\ r[m] = t[m]
             \/ /\ r[m].user = u /\ m \in DOMAIN t /\ t[m].user = u
                /\ r[m].totals["net"] = t[m].totals["net"] + s.user_receives
             \/ r[m].user = u /\ u \notin UsersIn(t) /\ r[m].totals["net"] = s.user_receives
    BY <2>1, <2>2, <2>3, AfterSplitAdds
  <2>8. ASSUME NEW m \in DOMAIN r PROVE r[m].totals["net"] = own(r[m].user, i)
    <3>1. CASE r[m].user # u /\ m \in DOMAIN t /\ r[m] = t[m]
      BY <2>1, <2>4, <2>5, <3>1
    <3>2. CASE /\ r[m].user = u /\ m \in DOMAIN t /\ t[m].user = u
               /\ r[m].totals["net"] = t[m].totals["net"] + s.user_receives
      BY <2>1, <2>4, <3>2
    <3>3. CASE r[m].user = u /\ u \notin UsersIn(t) /\ r[m].totals["net"] = s.user_receives
      <4>1. own(u, i - 1) = 0
        BY <2>1, <2>2, <3>3
      <4>2. own(u, i) = own(u, i - 1) + s.user_receives
        BY <2>4
      <4> QED BY <2>2, <3>3, <4>1, <4>2
    <3> QED BY <2>7, <3>1, <3>2, <3>3
  <2>9. ASSUME NEW v \in U \ UsersIn(r) PROVE own(v, i) = 0
    <3>1. v # u /\ v \in U \ UsersIn(t)
      BY <2>7
    <3>2. own(v, i - 1) = 0
      BY <2>1, <3>1
    <3> QED BY <2>4, <3>1, <3>2
  <2>10. \A kind \in Kinds : SumOfKind(r, kind) = RunningTotals(SharesOf(splits, kind))[i]
    BY <2>1, <2>6, <2>7
  <2>11. Netted(list, splits, i)
    BY <2>7, <2>8, <2>9, <2>10 DEF Netted, T, r, own, U
  <2> QED BY <2>11
<1>6. \A i \in 0 .. n : i \in F
  <2>1. n \in Nat
    OBVIOUS
  <2> HIDE DEF F, n
  <2> QED BY <1>4, <1>5, <2>1, PrefixInduction
<1> QED BY <1>6

-----------------------------------------------------------------------------
(* Batches and the lists they were created from.                           *)

\* The transactions a batch was created from: the caller may have added more.
Taken(batch) == SubSeq(lists[batch.transactions], 1, Len(batch.splits))

\* What a batch holds was computed from them.
FromList(batch) ==
  /\ Len(batch.splits) <= Len(lists[batch.transactions])
  /\ \A i \in DOMAIN batch.splits : batch.splits[i] = Split(lists[batch.transactions][i])
  /\ batch.net_positions = NetPositions(Taken(batch), batch.splits)

\* The inductive invariant of the netting properties.
Computed == IInv /\ \A b \in DOMAIN batches : FromList(batches[b])

\* A list only grows at its end, so the beginning of it that a batch was
\* created from stays what it was.
LEMMA FromListSurvives ==
  ASSUME IInv, NEW batch, batch.transactions \in Lists, batch.splits \in Seq(ValidSplit),
         FromList(batch), NEW l \in Lists, NEW t \in Transactions, Collect(l, t)
  PROVE  FromList(batch)'
<1> DEFINE m == batch.transactions
           n == Len(batch.splits)
<1>1. lists' = [lists EXCEPT ![l] = Append(lists[l], t)]
  BY DEF Collect
<1>2. lists[m] \in Seq(Transactions) /\ lists[l] \in Seq(Transactions)
  BY DEF IInv
<1>3. n \in Nat /\ DOMAIN batch.splits = 1 .. n /\ n <= Len(lists[m])
  BY DEF FromList
<1>4. lists'[m] = lists[m] \/ lists'[m] = Append(lists[m], t)
  BY <1>1 DEF IInv
<1>5. /\ Len(lists'[m]) >= n
      /\ \A i \in 1 .. n : lists'[m][i] = lists[m][i]
      /\ SubSeq(lists'[m], 1, n) = SubSeq(lists[m], 1, n)
  BY <1>2, <1>3, <1>4
<1>6. Taken(batch)' = Taken(batch)
  BY <1>5 DEF Taken
<1> QED BY <1>3, <1>5, <1>6 DEF FromList

LEMMA ComputedStarts == SettlementInit => Computed
<1> SUFFICES ASSUME SettlementInit PROVE Computed
  OBVIOUS
<1>1. IInv /\ DOMAIN batches = {}
  BY InvariantStarts DEF SettlementInit
<1> QED BY <1>1 DEF Computed

LEMMA ComputedKept == Computed /\ [SettlementNext]_settlement_vars => Computed'
<1> SUFFICES ASSUME Computed, [SettlementNext]_settlement_vars PROVE Computed'
  OBVIOUS
<1>1. IInv /\ IInv'
  BY StepKeeps DEF Computed
<1>2. PICK P : batches \in Seq(BatchRecord(P))
  BY <1>1 DEF IInv
<1>3. \A b \in DOMAIN batches : /\ batches[b] \in BatchRecord(P)
                                /\ batches[b].transactions \in Lists
                                /\ batches[b].splits \in Seq(ValidSplit)
  <2> TAKE b \in DOMAIN batches
  <2>1. batches[b] \in BatchRecord(P)
    BY <1>2
  <2> QED BY <2>1 DEF BatchRecord
<1>4. \A b \in DOMAIN batches : FromList(batches[b])
  BY DEF Computed
<1>5. ASSUME NEW l \in Lists, NEW t \in Transactions, Collect(l, t) PROVE Computed'
  <2>1. batches' = batches
    BY <1>5 DEF Collect
  <2>2. ASSUME NEW b \in DOMAIN batches PROVE FromList(batches[b])'
    <3> DEFINE batch == batches[b]
    <3>1. /\ batch.transactions \in Lists /\ batch.splits \in Seq(ValidSplit)
          /\ FromList(batch)
      BY <1>3, <1>4
    <3> QED BY <1>1, <1>5, <2>1, <3>1, FromListSurvives DEF FromList, Taken
  <2> QED BY <1>1, <2>1, <2>2 DEF Computed
<1>6. ASSUME NEW l \in Lists, CreateBatch(l) PROVE Computed'
  <2> DEFINE splits == [i \in DOMAIN lists[l] |-> Split(lists[l][i])]
             new == [transactions |-> l, splits |-> splits,
                     net_positions |-> NetPositions(lists[l], splits), status |-> "created"]
  <2>1. batches' = Append(batches, new) /\ lists' = lists
    BY <1>6 DEF CreateBatch
  <2>2. lists[l] \in Seq(Transactions)
    BY <1>1 DEF IInv
  <2>3. Len(splits) = Len(lists[l]) /\ DOMAIN splits = DOMAIN lists[l]
    BY <2>2
  <2>4. SubSeq(lists[l], 1, Len(lists[l])) = lists[l]
    BY <2>2
  <2>5. FromList(new)
    <3>1. /\ Len(new.splits) = Len(lists[new.transactions]) /\ Len(new.splits) \in Nat
          /\ \A i \in DOMAIN new.splits : new.splits[i] = Split(lists[new.transactions][i])
      BY <2>2, <2>3
    <3>2. Taken(new) = lists[l]
      BY <2>3, <2>4 DEF Taken
    <3>3. new.net_positions = NetPositions(Taken(new), new.splits)
      BY <3>2
    <3> HIDE DEF new
    <3> QED BY <3>1, <3>3 DEF FromList
  <2>6. ASSUME NEW b \in DOMAIN batches' PROVE FromList(batches'[b])
    <3>1. (b \in DOMAIN batches /\ batches'[b] = batches[b]) \/ batches'[b] = new
      <4> HIDE DEF new
      <4> QED BY <1>2, <2>1
    <3> HIDE DEF new
    <3> QED BY <1>4, <2>5, <3>1
  <2> QED BY <1>1, <2>1, <2>6 DEF Computed, FromList, Taken
<1>7. ASSUME NEW c \in DOMAIN batches, NEW s,
             batches' = [batches EXCEPT ![c].status = s], lists' = lists
      PROVE  Computed'
  <2>1. ASSUME NEW b \in DOMAIN batches'
        PROVE  /\ b \in DOMAIN batches
               /\ batches'[b].transactions = batches[b].transactions
               /\ batches'[b].splits = batches[b].splits
               /\ batches'[b].net_positions = batches[b].net_positions
    <3>1. b \in DOMAIN batches /\ batches[b] \in BatchRecord(P)
      BY <1>3, <1>7
    <3>2. CASE b = c
      <4>1. batches'[b] = [batches[b] EXCEPT !.status = s]
        BY <1>7, <3>1, <3>2
      <4> QED BY <3>1, <4>1 DEF BatchRecord
    <3>3. CASE b # c
      BY <1>7, <3>1, <3>3
    <3> QED BY <3>2, <3>3
  <2> QED BY <1>1, <1>4, <1>7, <2>1 DEF Computed, FromList, Taken
<1>8. ASSUME NEW c \in DOMAIN batches, SubmitBatch(c) \/ ConfirmBatch(c) PROVE Computed'
  BY <1>7, <1>8 DEF SubmitBatch, ConfirmBatch
<1>9. CASE UNCHANGED settlement_vars
  BY <1>9, <1>1 DEF settlement_vars, Computed, FromList, Taken
<1> QED BY <1>5, <1>6, <1>8, <1>9 DEF SettlementNext

-----------------------------------------------------------------------------
(* What the positions of a batch carry.                                    *)

\* The facts about one batch that the proofs below use: its splits, the
\* totals of its users, and its positions.
Accounts(batch) == UserTotals(Taken(batch), batch.splits)[Len(batch.splits)]

LEMMA BatchFacts ==
  ASSUME Computed, NEW b \in DOMAIN batches
  PROVE  /\ batches[b].splits \in Seq(ValidSplit)
         /\ batches[b].transactions \in Lists
         /\ lists[batches[b].transactions] \in Seq(Transactions)
         /\ FromList(batches[b])
<1>1. PICK P : batches \in Seq(BatchRecord(P))
  BY DEF Computed, IInv
<1>2. batches[b] \in BatchRecord(P)
  BY <1>1
<1>3. batches[b].splits \in Seq(ValidSplit) /\ batches[b].transactions \in Lists
  BY <1>2 DEF BatchRecord
<1> QED BY <1>3 DEF Computed, IInv

LEMMA AccountsAre ==
  ASSUME NEW batch, batch.splits \in Seq(ValidSplit), FromList(batch)
  PROVE  LET t == Accounts(batch)
             U == UsersOf(Taken(batch), batch.splits)
             own(n) == OwnPayouts(Taken(batch), batch.splits, t[n].user)
         IN  /\ t \in Seq(Entries(U)) /\ Distinct(t)
             /\ \A kind \in Kinds : SumOfKind(t, kind) = OfSplits(batch, kind)
             /\ \A n \in DOMAIN t : t[n].totals["net"] = Total(own(n))
             /\ batch.net_positions = [n \in DOMAIN t |-> NetPosition(t[n])]
<1> DEFINE splits == batch.splits
           list == Taken(batch)
           t == Accounts(batch)
           i == Len(splits)
<1>1. i \in 0 .. Len(splits)
  OBVIOUS
<1>2. Netted(list, splits, i)
  BY <1>1, NettingInvariant
<1>3. \A kind \in Kinds : Len(SharesOf(splits, kind)) = i
  BY SplitSequences
<1>4. \A u : Len(OwnPayouts(list, splits, u)) = i
  BY SplitSequences
<1>5. \A kind \in Kinds : RunningTotals(SharesOf(splits, kind))[i] = Total(SharesOf(splits, kind))
  BY <1>3 DEF Total
<1>6. \A u : RunningTotals(OwnPayouts(list, splits, u))[i] = Total(OwnPayouts(list, splits, u))
  BY <1>4 DEF Total
<1>7. \A kind \in Kinds : Total(SharesOf(splits, kind)) = OfSplits(batch, kind)
  BY DEF SharesOf, OfSplits
<1>8. batch.net_positions = [n \in DOMAIN t |-> NetPosition(t[n])]
  BY DEF FromList, NetPositions, Accounts
<1>9. t = UserTotals(list, splits)[i]
  BY DEF Accounts
<1> HIDE DEF splits, list, t, i
<1>10. /\ t \in Seq(Entries(UsersOf(list, splits))) /\ Distinct(t)
       /\ \A kind \in Kinds : SumOfKind(t, kind) = RunningTotals(SharesOf(splits, kind))[i]
       /\ \A n \in DOMAIN t :
            t[n].totals["net"] = RunningTotals(OwnPayouts(list, splits, t[n].user))[i]
  BY <1>2, <1>9 DEF Netted
<1>11. \A kind \in Kinds : SumOfKind(t, kind) = OfSplits(batch, kind)
  BY <1>5, <1>7, <1>10
<1>12. \A n \in DOMAIN t : t[n].totals["net"] = Total(OwnPayouts(list, splits, t[n].user))
  BY <1>6, <1>10
<1> QED BY <1>8, <1>10, <1>11, <1>12 DEF splits, list, t

\* Positions carry the splits' counts, fees, holdbacks and payouts.
LEMMA PositionsCarry ==
  ASSUME NEW batch, batch.splits \in Seq(ValidSplit), FromList(batch)
  PROVE  /\ OfPositions(batch, "transaction_count") = OfSplits(batch, "count")
         /\ OfPositions(batch, "fees_total") = OfSplits(batch, "fees")
         /\ OfPositions(batch, "holdback_total") = OfSplits(batch, "holdback")
         /\ OfPositions(batch, "net_payout") = OfSplits(batch, "net")
<1> DEFINE t == Accounts(batch)
<1>1. /\ \A kind \in Kinds : SumOfKind(t, kind) = OfSplits(batch, kind)
      /\ batch.net_positions = [n \in DOMAIN t |-> NetPosition(t[n])]
  BY AccountsAre
<1>2. \A n \in DOMAIN batch.net_positions :
        /\ batch.net_positions[n]["transaction_count"] = t[n].totals["count"]
        /\ batch.net_positions[n]["fees_total"] = t[n].totals["fees"]
        /\ batch.net_positions[n]["holdback_total"] = t[n].totals["holdback"]
        /\ batch.net_positions[n]["net_payout"] = t[n].totals["net"]
  BY <1>1 DEF NetPosition
<1> HIDE DEF t
<1>3. DOMAIN batch.net_positions = DOMAIN t
  BY <1>1
<1>4. /\ OfPositions(batch, "transaction_count") = SumOfKind(t, "count")
      /\ OfPositions(batch, "fees_total") = SumOfKind(t, "fees")
      /\ OfPositions(batch, "holdback_total") = SumOfKind(t, "holdback")
      /\ OfPositions(batch, "net_payout") = SumOfKind(t, "net")
  BY <1>2, <1>3 DEF OfPositions, SumOfKind
<1> QED BY <1>1, <1>4 DEF Kinds

\* Numbers that are each at most half a cent off add up to one that is at most
\* half a cent off for each of them.
LEMMA TotalsClose ==
  ASSUME NEW s \in Seq(Int), NEW t \in Seq(Int), Len(t) = Len(s),
         \A i \in 1 .. Len(s) : Distance(10 * s[i], t[i]) <= 5
  PROVE  Distance(10 * Total(s), Total(t)) <= 5 * Len(s)
<1> DEFINE S == RunningTotals(s)
           T == RunningTotals(t)
           F == {m \in 0 .. Len(s) : Distance(10 * S[m], T[m]) <= 5 * m}
<1>1. /\ S[0] = 0 /\ T[0] = 0 /\ Len(s) \in Nat
      /\ \A m \in 0 .. Len(s) : S[m] \in Int /\ T[m] \in Int
      /\ \A m \in 1 .. Len(s) : S[m] = S[m - 1] + s[m] /\ T[m] = T[m - 1] + t[m]
  BY RunningTotalsStep
<1> HIDE DEF S, T
<1>2. 0 \in F
  BY <1>1 DEF Distance
<1>3. ASSUME NEW m \in 1 .. Len(s), m - 1 \in F PROVE m \in F
  <2> DEFINE a == S[m - 1]
             c == T[m - 1]
             x == s[m]
             y == t[m]
  <2>1. m - 1 \in 0 .. Len(s) /\ m \in 0 .. Len(s)
    OBVIOUS
  <2>2. a \in Int /\ c \in Int /\ x \in Int /\ y \in Int
    BY <1>1, <2>1
  <2>3. Distance(10 * a, c) <= 5 * (m - 1) /\ Distance(10 * x, y) <= 5
    BY <1>3
  <2>4. S[m] = a + x /\ T[m] = c + y
    BY <1>1
  <2> HIDE DEF a, c, x, y
  <2>5. Distance(10 * (a + x), c + y) <= 5 * m
    BY <2>2, <2>3 DEF Distance
  <2> QED BY <2>1, <2>4, <2>5
<1>4. \A m \in 0 .. Len(s) : m \in F
  <2> HIDE DEF F
  <2> QED BY <1>1, <1>2, <1>3, PrefixInduction
<1>5. Len(s) \in 0 .. Len(s)
  BY <1>1
<1> QED BY <1>4, <1>5 DEF Total, S, T

\* One kind of every split of a batch.
LEMMA KindsOfSplits ==
  ASSUME NEW batch, batch.splits \in Seq(ValidSplit), NEW kind \in Kinds
  PROVE  /\ SharesOf(batch.splits, kind) \in Seq(Int)
         /\ Len(SharesOf(batch.splits, kind)) = Len(batch.splits)
         /\ OfSplits(batch, kind) = Total(SharesOf(batch.splits, kind))
         /\ OfSplits(batch, kind) \in Int
         /\ \A i \in 1 .. Len(batch.splits) :
              SharesOf(batch.splits, kind)[i] = Share(batch.splits[i])[kind]
<1>1. /\ SharesOf(batch.splits, kind) \in Seq(Int)
      /\ Len(SharesOf(batch.splits, kind)) = Len(batch.splits)
  BY SplitSequences
<1>2. OfSplits(batch, kind) = Total(SharesOf(batch.splits, kind))
  BY DEF OfSplits, SharesOf
<1>3. Total(SharesOf(batch.splits, kind)) \in Int
  BY <1>1, TotalType
<1>4. \A i \in 1 .. Len(batch.splits) :
        SharesOf(batch.splits, kind)[i] = Share(batch.splits[i])[kind]
  BY DEF SharesOf
<1> QED BY <1>1, <1>2, <1>3, <1>4

\* What the splits of a batch hand out is at most half a cent a split away from
\* the gross amounts of the list, as long as nobody has added to it.
LEMMA SplitsHandOut ==
  ASSUME NEW batch, batch.splits \in Seq(ValidSplit), FromList(batch),
         lists[batch.transactions] \in Seq(Transactions),
         Len(lists[batch.transactions]) = Len(batch.splits)
  PROVE  Distance(10 * (OfSplits(batch, "fees") + OfSplits(batch, "holdback") + OfSplits(batch, "net")),
                  GrossNow(batch))
           <= 5 * Len(batch.splits)
<1> DEFINE splits == batch.splits
           list == lists[batch.transactions]
           n == Len(splits)
           fees == SharesOf(splits, "fees")
           held == SharesOf(splits, "holdback")
           net == SharesOf(splits, "net")
           spent == [i \in 1 .. n |-> fees[i] + held[i]]
           all == [i \in 1 .. n |-> spent[i] + net[i]]
           gross == [i \in DOMAIN list |-> list[i].gross_amount]
<1>0. n \in Nat
  OBVIOUS
<1>k. "fees" \in Kinds /\ "holdback" \in Kinds /\ "net" \in Kinds
  BY DEF Kinds
<1>1. fees \in Seq(Int) /\ Len(fees) = n
  BY <1>k, KindsOfSplits
<1>2. held \in Seq(Int) /\ Len(held) = n
  BY <1>k, KindsOfSplits
<1>3. net \in Seq(Int) /\ Len(net) = n
  BY <1>k, KindsOfSplits
<1>4. \A i \in 1 .. n : /\ splits[i] \in SplitRecord /\ Valid(splits[i])
                        /\ fees[i] = splits[i].platform_fee + splits[i].psp_fee
                        /\ held[i] = splits[i].holdback_amount
                        /\ net[i] = splits[i].user_receives
  <2> TAKE i \in 1 .. n
  <2>1. splits[i] \in SplitRecord /\ Valid(splits[i])
    BY DEF ValidSplit
  <2>2. fees[i] = Share(splits[i])["fees"]
    BY DEF SharesOf
  <2>3. held[i] = Share(splits[i])["holdback"]
    BY DEF SharesOf
  <2>4. net[i] = Share(splits[i])["net"]
    BY DEF SharesOf
  <2>5. /\ Share(splits[i])["fees"] = splits[i].platform_fee + splits[i].psp_fee
        /\ Share(splits[i])["holdback"] = splits[i].holdback_amount
        /\ Share(splits[i])["net"] = splits[i].user_receives
    <3> DEFINE s == splits[i]
    <3>1. s \in SplitRecord
      BY <2>1
    <3> HIDE DEF s
    <3>2. /\ Share(s)["fees"] = s.platform_fee + s.psp_fee
          /\ Share(s)["holdback"] = s.holdback_amount /\ Share(s)["net"] = s.user_receives
      BY <3>1, ShareType
    <3> QED BY <3>2 DEF s
  <2> HIDE DEF fees, held, net
  <2> QED BY <2>1, <2>2, <2>3, <2>4, <2>5
<1>5. \A i \in 1 .. n : splits[i].gross_amount = list[i].gross_amount
  BY SplitKeeps DEF FromList
<1>6. gross \in Seq(Int) /\ Len(gross) = n /\ \A i \in 1 .. n : gross[i] = list[i].gross_amount
  <2>1. \A i \in 1 .. n : list[i].gross_amount \in Nat
    BY <1>4, <1>5 DEF SplitRecord
  <2> QED BY <2>1
<1>7. GrossNow(batch) = Total(gross)
  BY DEF GrossNow
<1>8. OfSplits(batch, "fees") = Total(fees)
  BY <1>k, KindsOfSplits
<1>9. OfSplits(batch, "holdback") = Total(held)
  BY <1>k, KindsOfSplits
<1>10. OfSplits(batch, "net") = Total(net)
  BY <1>k, KindsOfSplits
<1> HIDE DEF n, fees, held, net, gross, list, splits
<1>11. spent \in Seq(Int) /\ Len(spent) = n /\ \A i \in 1 .. n : spent[i] = fees[i] + held[i]
  BY <1>0, <1>1, <1>2
<1> HIDE DEF spent
<1>12. all \in Seq(Int) /\ Len(all) = n /\ \A i \in 1 .. n : all[i] = spent[i] + net[i]
  BY <1>0, <1>3, <1>11
<1> HIDE DEF all
<1>13. Total(spent) = Total(fees) + Total(held)
  <2>1. AddUp(1 .. n, fees, held, spent)
    BY <1>11 DEF AddUp
  <2> QED BY <1>1, <1>2, <1>11, <2>1, TotalPlus
<1>14. Total(all) = Total(spent) + Total(net)
  <2>1. AddUp(1 .. n, spent, net, all)
    BY <1>12 DEF AddUp
  <2> QED BY <1>3, <1>11, <1>12, <2>1, TotalPlus
<1>15. \A i \in 1 .. n : Distance(10 * all[i], gross[i]) <= 5
  <2> TAKE i \in 1 .. n
  <2> DEFINE s == splits[i]
  <2>1. s \in SplitRecord /\ Valid(s)
    BY <1>4
  <2>2. all[i] = (s.platform_fee + s.psp_fee) + s.holdback_amount + s.user_receives
    BY <1>4, <1>11, <1>12
  <2>3. gross[i] = s.gross_amount
    BY <1>5, <1>6
  <2> HIDE DEF s
  <2>4. all[i] = TotalAllocated(s) /\ TotalAllocated(s) \in Int /\ s.gross_amount \in Nat
    BY <2>1, <2>2 DEF TotalAllocated, SplitRecord
  <2>5. Distance(10 * TotalAllocated(s), s.gross_amount) <= 5
    BY <2>1, <2>4, HalfACent DEF Valid
  <2> QED BY <2>3, <2>4, <2>5
<1>16. Distance(10 * Total(all), Total(gross)) <= 5 * n
  BY <1>6, <1>12, <1>15, TotalsClose
<1>17. Total(all) = OfSplits(batch, "fees") + OfSplits(batch, "holdback") + OfSplits(batch, "net")
  BY <1>8, <1>9, <1>10, <1>13, <1>14
<1> QED BY <1>7, <1>16, <1>17 DEF n, splits

\* Every kind of one count a split adds up to their number.
LEMMA SplitsCount ==
  ASSUME NEW batch, batch.splits \in Seq(ValidSplit)
  PROVE  OfSplits(batch, "count") = Len(batch.splits)
<1> DEFINE ones == SharesOf(batch.splits, "count")
<1>1. "count" \in Kinds
  BY DEF Kinds
<1>2. /\ ones \in Seq(Int) /\ Len(ones) = Len(batch.splits)
      /\ OfSplits(batch, "count") = Total(ones)
  BY <1>1, KindsOfSplits
<1>3. \A i \in 1 .. Len(batch.splits) : ones[i] = 1
  <2> TAKE i \in 1 .. Len(batch.splits)
  <2>1. batch.splits[i] \in SplitRecord
    BY DEF ValidSplit
  <2> QED BY <1>1, <2>1, KindsOfSplits, ShareType
<1>4. Len(batch.splits) \in Nat
  OBVIOUS
<1> HIDE DEF ones
<1>5. Total(ones) = 1 * Len(ones)
  BY <1>2, <1>3, TotalOfEqual
<1> QED BY <1>2, <1>4, <1>5

\* Netting neither creates nor loses money.
THEOREM EngineConservesMoney == SettlementSpec => []MoneyConserved
<1>1. Computed => MoneyConserved
  <2> SUFFICES ASSUME Computed, NEW b \in DOMAIN batches
               PROVE  LET batch == batches[b]
                          fees == OfPositions(batch, "fees_total")
                          held == OfPositions(batch, "holdback_total")
                          count == Len(batch.splits)
                      IN  /\ OfPositions(batch, "transaction_count") = count
                          /\ fees = OfSplits(batch, "fees")
                          /\ held = OfSplits(batch, "holdback")
                          /\ TotalNetPayout(batch) = OfSplits(batch, "net")
                          /\ Len(lists[batch.transactions]) = count =>
                               Distance(10 * (fees + held + TotalNetPayout(batch)), GrossNow(batch))
                                 <= 5 * count
    BY HeldSplitsAreWhole DEF MoneyConserved, Computed
  <2> DEFINE batch == batches[b]
  <2>1. /\ batch.splits \in Seq(ValidSplit) /\ FromList(batch)
        /\ lists[batch.transactions] \in Seq(Transactions)
    BY BatchFacts
  <2> HIDE DEF batch
  <2>2. /\ OfPositions(batch, "transaction_count") = OfSplits(batch, "count")
        /\ OfPositions(batch, "fees_total") = OfSplits(batch, "fees")
        /\ OfPositions(batch, "holdback_total") = OfSplits(batch, "holdback")
        /\ OfPositions(batch, "net_payout") = OfSplits(batch, "net")
    BY <2>1, PositionsCarry
  <2>3. TotalNetPayout(batch) = OfSplits(batch, "net")
    BY <2>2 DEF TotalNetPayout
  <2>4. OfSplits(batch, "count") = Len(batch.splits)
    BY <2>1, SplitsCount
  <2>5. Len(lists[batch.transactions]) = Len(batch.splits) =>
          Distance(10 * (OfSplits(batch, "fees") + OfSplits(batch, "holdback") + OfSplits(batch, "net")),
                   GrossNow(batch))
            <= 5 * Len(batch.splits)
    BY <2>1, SplitsHandOut
  <2> QED BY <2>2, <2>3, <2>4, <2>5 DEF batch
<1> QED
  BY <1>1, ComputedStarts, ComputedKept, PTL DEF SettlementSpec

\* If no id occurs twice, a split belongs to the user of its transaction.
LEMMA OwnersOfSplits ==
  ASSUME NEW batch, batch.splits \in Seq(ValidSplit), FromList(batch),
         lists[batch.transactions] \in Seq(Transactions),
         \A i, k \in DOMAIN batch.splits :
           batch.splits[i].transaction_id = batch.splits[k].transaction_id => i = k,
         NEW j \in DOMAIN batch.splits
  PROVE  UserOf(Taken(batch), batch.splits, j) = lists[batch.transactions][j].user_id
<1> DEFINE splits == batch.splits
           list == lists[batch.transactions]
           n == Len(splits)
           seen == Taken(batch)
           id == splits[j].transaction_id
<1>1. n \in Nat /\ n <= Len(list) /\ DOMAIN splits = 1 .. n
  BY DEF FromList
<1>2. DOMAIN seen = 1 .. n /\ \A i \in 1 .. n : seen[i] = list[i]
  BY <1>1 DEF Taken
<1>3. \A i \in 1 .. n : splits[i].transaction_id = seen[i].transaction_id
  BY <1>1, <1>2, SplitKeeps DEF FromList
<1>4. \A i \in 1 .. n : seen[i].transaction_id = id <=> i = j
  BY <1>1, <1>3
<1>5. LookUp(seen, id) = seen[j]
  <2> DEFINE Last(i) == /\ seen[i].transaction_id = id
                        /\ \A k \in DOMAIN seen : seen[k].transaction_id = id => k <= i
  <2>1. \A i \in DOMAIN seen : Last(i) <=> i = j
    BY <1>1, <1>2, <1>4
  <2>2. (CHOOSE i \in DOMAIN seen : Last(i)) = j
    <3> HIDE DEF Last
    <3> QED BY <1>1, <1>2, <2>1
  <2> QED BY <2>2 DEF LookUp
<1> QED BY <1>1, <1>2, <1>5 DEF UserOf

\* Users get the money of their own transactions, in one position each.
THEOREM EnginePaysOwnMoney == SettlementSpec => []OwnMoneyOnly
<1>1. Computed => OwnMoneyOnly
  <2> SUFFICES ASSUME Computed, NEW b \in DOMAIN batches
               PROVE  LET splits == batches[b].splits
                          positions == batches[b].net_positions
                          list == lists[batches[b].transactions]
                          unique == \A i, k \in DOMAIN splits :
                                      splits[i].transaction_id = splits[k].transaction_id => i = k
                      IN  /\ \A n, k \in DOMAIN positions :
                               positions[n].user_id = positions[k].user_id => n = k
                          /\ unique => \A n \in DOMAIN positions :
                               positions[n].net_payout =
                                 Total([i \in DOMAIN splits |->
                                   IF list[i].user_id = positions[n].user_id
                                     THEN splits[i].user_receives ELSE 0])
    BY DEF OwnMoneyOnly
  <2> DEFINE batch == batches[b]
             splits == batch.splits
             list == lists[batch.transactions]
             unique == \A i, k \in DOMAIN splits :
                         splits[i].transaction_id = splits[k].transaction_id => i = k
             t == Accounts(batch)
  <2>1. /\ splits \in Seq(ValidSplit) /\ FromList(batch) /\ list \in Seq(Transactions)
    BY BatchFacts
  <2>2. /\ Distinct(t)
        /\ \A n \in DOMAIN t : t[n].totals["net"] = Total(OwnPayouts(Taken(batch), splits, t[n].user))
        /\ batch.net_positions = [n \in DOMAIN t |-> NetPosition(t[n])]
    BY <2>1, AccountsAre
  <2>3. unique => \A j \in DOMAIN splits : UserOf(Taken(batch), splits, j) = list[j].user_id
    BY <2>1, OwnersOfSplits
  <2> HIDE DEF batch, t, list
  <2>4. DOMAIN batch.net_positions = DOMAIN t
    BY <2>2
  <2>5. \A n \in DOMAIN t : /\ batch.net_positions[n].user_id = t[n].user
                            /\ batch.net_positions[n].net_payout = t[n].totals["net"]
    BY <2>2 DEF NetPosition
  <2>6. \A n, k \in DOMAIN t :
          batch.net_positions[n].user_id = batch.net_positions[k].user_id => n = k
    BY <2>2, <2>5 DEF Distinct
  <2>7. ASSUME unique, NEW n \in DOMAIN t
        PROVE  batch.net_positions[n].net_payout =
                 Total([i \in DOMAIN splits |->
                   IF list[i].user_id = batch.net_positions[n].user_id
                     THEN splits[i].user_receives ELSE 0])
    <3>1. OwnPayouts(Taken(batch), splits, t[n].user)
            = [i \in DOMAIN splits |->
                 IF list[i].user_id = t[n].user THEN splits[i].user_receives ELSE 0]
      BY <2>3, <2>7 DEF OwnPayouts
    <3> QED BY <2>2, <2>5, <3>1
  <2> QED BY <2>4, <2>6, <2>7 DEF batch, list
<1> QED
  BY <1>1, ComputedStarts, ComputedKept, PTL DEF SettlementSpec

-----------------------------------------------------------------------------
(* Payouts and ACH files.                                                  *)

\* The entries a batch pays out: credits only.
Payment(U)  == [transaction_code : {Credit}, user : U, amount : Nat]
Amounts(e)  == [i \in DOMAIN e |-> e[i].amount]

\* Positions as far as a file needs them, their users, and what they owe.
IsPositions(p) == (\E P : p \in Seq(P)) /\ \A n \in DOMAIN p : p[n].net_payout \in Int
Payees(p) == {p[n].user_id : n \in DOMAIN p}
OwedTo(p) == [n \in DOMAIN p |-> IF p[n].net_payout > 0 THEN p[n].net_payout ELSE 0]

LEMMA OwedToType ==
  ASSUME NEW p, IsPositions(p)
  PROVE  /\ Len(p) \in Nat /\ DOMAIN p = 1 .. Len(p)
         /\ OwedTo(p) \in Seq(Int) /\ Len(OwedTo(p)) = Len(p)
         /\ \A n \in 1 .. Len(p) :
              OwedTo(p)[n] = IF p[n].net_payout > 0 THEN p[n].net_payout ELSE 0
<1>1. PICK P : p \in Seq(P)
  BY DEF IsPositions
<1>2. Len(p) \in Nat /\ DOMAIN p = 1 .. Len(p)
  BY <1>1
<1>3. \A n \in 1 .. Len(p) : p[n].net_payout \in Int
  BY <1>2 DEF IsPositions
<1>4. \A n \in 1 .. Len(p) : (IF p[n].net_payout > 0 THEN p[n].net_payout ELSE 0) \in Int
  BY <1>3
<1> QED BY <1>2, <1>4 DEF OwedTo

\* Credits in whole dollars, and the cents that are owed, of some entries.
Within(owed, credits, entries) ==
  /\ owed \in Int /\ credits \in Int /\ entries \in Int
  /\ 100 * credits <= owed /\ owed <= 100 * credits + 99 * entries

LEMMA WithinPlus ==
  ASSUME NEW o1, NEW c1, NEW n1, Within(o1, c1, n1),
         NEW o2, NEW c2, NEW n2, Within(o2, c2, n2)
  PROVE  Within(o1 + o2, c1 + c2, n1 + n2)
BY DEF Within

LEMMA WithinTotals ==
  ASSUME NEW n \in Nat, NEW owed \in Seq(Int), NEW credits \in Seq(Int), NEW counts \in Seq(Int),
         Len(owed) = n, Len(credits) = n, Len(counts) = n,
         \A i \in 1 .. n : Within(owed[i], credits[i], counts[i])
  PROVE  Within(Total(owed), Total(credits), Total(counts))
<1> DEFINE O == RunningTotals(owed)
           C == RunningTotals(credits)
           N == RunningTotals(counts)
           F == {m \in 0 .. n : Within(O[m], C[m], N[m])}
<1>1. /\ O[0] = 0 /\ \A m \in 1 .. n : O[m] = O[m - 1] + owed[m]
      /\ C[0] = 0 /\ \A m \in 1 .. n : C[m] = C[m - 1] + credits[m]
      /\ N[0] = 0 /\ \A m \in 1 .. n : N[m] = N[m - 1] + counts[m]
  BY RunningTotalsStep
<1> HIDE DEF O, C, N
<1>2. 0 \in F
  BY <1>1 DEF Within
<1>3. ASSUME NEW m \in 1 .. n, m - 1 \in F PROVE m \in F
  <2>1. Within(O[m - 1], C[m - 1], N[m - 1]) /\ Within(owed[m], credits[m], counts[m])
    BY <1>3
  <2>2. Within(O[m - 1] + owed[m], C[m - 1] + credits[m], N[m - 1] + counts[m])
    BY <2>1, WithinPlus
  <2> QED BY <1>1, <2>2
<1>4. \A m \in 0 .. n : m \in F
  <2> HIDE DEF F
  <2> QED BY <1>2, <1>3, PrefixInduction
<1>5. n \in 0 .. n
  OBVIOUS
<1>6. Within(O[n], C[n], N[n])
  BY <1>4, <1>5
<1> QED BY <1>6 DEF Total, O, C, N

\* int() of a positive amount drops less than one.
LEMMA WholeOfPositive ==
  ASSUME NEW x \in Int, x > 0
  PROVE  WholeOf(x) \in Nat /\ Within(x, WholeOf(x), 1)
<1>1. x \div 100 \in Int /\ 0 <= x \div 100
      /\ 100 * (x \div 100) <= x /\ x <= 100 * (x \div 100) + 99
  OBVIOUS
<1>2. WholeOf(x) = x \div 100
  BY DEF WholeOf
<1> DEFINE q == x \div 100
<1> HIDE DEF q
<1>3. q \in Int /\ 0 <= q /\ 100 * q <= x /\ x <= 100 * q + 99 /\ WholeOf(x) = q
  BY <1>1, <1>2 DEF q
<1> QED BY <1>3 DEF Within

\* One round of the loop over the positions.
LEMMA WithPositivePays ==
  ASSUME NEW U, NEW e \in Seq(Payment(U)), NEW position,
         position.user_id \in U, position.net_payout \in Int
  PROVE  LET r == WithPositive(e, position)
         IN  /\ r \in Seq(Payment(U))
             /\ Total(Amounts(e)) \in Int /\ Total(Amounts(r)) \in Int
             /\ Within(IF position.net_payout > 0 THEN position.net_payout ELSE 0,
                       Total(Amounts(r)) - Total(Amounts(e)), Len(r) - Len(e))
<1> DEFINE r == WithPositive(e, position)
           x == position.net_payout
<1>1. \A i \in 1 .. Len(e) : e[i].amount \in Int
  <2> TAKE i \in 1 .. Len(e)
  <2>1. e[i] \in Payment(U)
    OBVIOUS
  <2> QED BY <2>1 DEF Payment
<1>2. Amounts(e) \in Seq(Int) /\ Total(Amounts(e)) \in Int
  <2>1. Amounts(e) \in Seq(Int)
    BY <1>1 DEF Amounts
  <2> QED BY <2>1, TotalType
<1>3. CASE x > 0
  <2> DEFINE paid == Paid(position)
             w == WholeOf(x)
  <2>1. w \in Nat /\ Within(x, w, 1)
    BY <1>3, WholeOfPositive
  <2>2. paid.amount = w /\ r = Append(e, paid)
    BY <1>3 DEF Paid, NachaEntry, WithPositive
  <2>3. paid \in Payment(U)
    BY <2>1 DEF Payment, Paid, NachaEntry
  <2> HIDE DEF paid, r, x, w
  <2>4. r \in Seq(Payment(U)) /\ Amounts(r) = Append(Amounts(e), w) /\ Len(r) = Len(e) + 1
    BY <2>2, <2>3 DEF Amounts
  <2>5. Total(Append(Amounts(e), w)) = Total(Amounts(e)) + w
    BY <1>2, <2>1, TotalAppend
  <2>6. Total(Amounts(r)) \in Int /\ Total(Amounts(r)) - Total(Amounts(e)) = w /\ Len(r) - Len(e) = 1
    BY <1>2, <2>1, <2>4, <2>5
  <2> QED BY <1>2, <1>3, <2>1, <2>4, <2>6 DEF r, x
<1>4. CASE ~(x > 0)
  <2>1. r = e
    BY <1>4 DEF WithPositive
  <2>2. Total(Amounts(r)) - Total(Amounts(e)) = 0 /\ Len(r) - Len(e) = 0
    BY <1>2, <2>1
  <2>3. Within(0, 0, 0)
    BY DEF Within
  <2> HIDE DEF r
  <2> QED BY <1>2, <1>4, <2>1, <2>2, <2>3 DEF r
<1> QED BY <1>3, <1>4

\* The loop has a run, and PayoutsUpTo is it.
LEMMA PayoutsRounds ==
  ASSUME NEW p, IsPositions(p)
  PROVE  LET T == PayoutsUpTo(p)
         IN  T[0] = <<>> /\ \A n \in 1 .. Len(p) : T[n] = WithPositive(T[n - 1], p[n])
<1> DEFINE U == Payees(p)
           n == Len(p)
           X == Seq(Payment(U))
           after(e, i) == WithPositive(e, p[i])
           step == [q \in X \X (1 .. n) |-> after(q[1], q[2])]
           Is(T) == T = [i \in 0 .. n |-> IF i = 0 THEN <<>> ELSE after(T[i - 1], i)]
<1>1. n \in Nat /\ DOMAIN p = 1 .. n
  BY OwedToType
<1>2. \A i \in 1 .. n : p[i].net_payout \in Int /\ p[i].user_id \in U
  BY <1>1 DEF IsPositions, Payees
<1>3. ASSUME NEW e \in X, NEW i \in 1 .. n PROVE after(e, i) \in X
  BY <1>2, WithPositivePays
<1> HIDE DEF after
<1>4. step \in [X \X (1 .. n) -> X]
  BY <1>3
<1>5. <<>> \in X
  OBVIOUS
<1>6. \A e \in X : \A i \in 1 .. n : step[<<e, i>>] = after(e, i)
  OBVIOUS
<1> HIDE DEF step, X
<1>7. PICK T \in [0 .. n -> X] : Rounds(T, <<>>, step, n)
  BY <1>1, <1>4, <1>5, RoundsExist
<1>8. Is(T)
  <2>1. ASSUME NEW i \in 0 .. n
        PROVE  T[i] = IF i = 0 THEN <<>> ELSE after(T[i - 1], i)
    <3>1. T[i] = IF i = 0 THEN <<>> ELSE step[<<T[i - 1], i>>]
      BY <1>7 DEF Rounds
    <3>2. i # 0 => T[i - 1] \in X /\ i \in 1 .. n
      BY <1>1
    <3> QED BY <1>6, <3>1, <3>2
  <2> QED BY <2>1
<1>9. PayoutsUpTo(p) = CHOOSE T0 : Is(T0)
  BY DEF PayoutsUpTo, after
<1>10. Is(PayoutsUpTo(p))
  <2> HIDE DEF Is
  <2> QED BY <1>8, <1>9
<1>11. 0 \in 0 .. n /\ \A i \in 1 .. n : i \in 0 .. n /\ i # 0
  BY <1>1
<1> QED BY <1>10, <1>11 DEF after

\* The entries of a batch pay the dollars its positive positions are owed.
LEMMA PayoutsPay ==
  ASSUME NEW batch, IsPositions(batch.net_positions)
  PROVE  /\ Payouts(batch) \in Seq(Payment(Payees(batch.net_positions)))
         /\ Within(Owed(batch), Total(Amounts(Payouts(batch))), Len(Payouts(batch)))
<1> DEFINE p == batch.net_positions
           U == Payees(p)
           n == Len(p)
           T == PayoutsUpTo(p)
           O == RunningTotals(OwedTo(p))
           F == {i \in 0 .. n : /\ T[i] \in Seq(Payment(U))
                                /\ Within(O[i], Total(Amounts(T[i])), Len(T[i]))}
<1>1. /\ n \in Nat /\ DOMAIN p = 1 .. n
      /\ OwedTo(p) \in Seq(Int) /\ Len(OwedTo(p)) = n
      /\ \A i \in 1 .. n : OwedTo(p)[i] = IF p[i].net_payout > 0 THEN p[i].net_payout ELSE 0
  BY OwedToType
<1>2. \A i \in 1 .. n : p[i].net_payout \in Int /\ p[i].user_id \in U
  BY <1>1 DEF IsPositions, Payees
<1>3. T[0] = <<>> /\ \A i \in 1 .. n : T[i] = WithPositive(T[i - 1], p[i])
  BY PayoutsRounds
<1>4. O[0] = 0 /\ \A i \in 1 .. n : O[i] = O[i - 1] + OwedTo(p)[i]
  <2> HIDE DEF n, p
  <2> QED BY <1>1, RunningTotalsStep
<1>5. Owed(batch) = Total(OwedTo(p))
  BY DEF Owed, OwedTo
<1>6. Payouts(batch) = T[n]
  BY DEF Payouts
<1> HIDE DEF T, O, U, p, n
<1>7. 0 \in F
  <2>1. Amounts(<<>>) = <<>>
    BY DEF Amounts
  <2>2. Total(Amounts(T[0])) = 0 /\ Len(T[0]) = 0
    BY <1>3, <2>1, TotalEmpty
  <2>3. T[0] \in Seq(Payment(U)) /\ 0 \in 0 .. n
    BY <1>1, <1>3
  <2> QED BY <1>4, <2>2, <2>3 DEF Within
<1>8. ASSUME NEW i \in 1 .. n, i - 1 \in F PROVE i \in F
  <2> DEFINE old == T[i - 1]
             new == T[i]
             x == IF p[i].net_payout > 0 THEN p[i].net_payout ELSE 0
  <2>1. old \in Seq(Payment(U)) /\ Within(O[i - 1], Total(Amounts(old)), Len(old))
    BY <1>8
  <2>2. new = WithPositive(old, p[i]) /\ p[i].net_payout \in Int /\ p[i].user_id \in U
    BY <1>2, <1>3
  <2>3. O[i] = O[i - 1] + x /\ i \in 0 .. n
    BY <1>1, <1>4
  <2> HIDE DEF old, new
  <2>4. /\ new \in Seq(Payment(U))
        /\ Total(Amounts(old)) \in Int /\ Total(Amounts(new)) \in Int
        /\ Within(x, Total(Amounts(new)) - Total(Amounts(old)), Len(new) - Len(old))
    BY <2>1, <2>2, WithPositivePays
  <2> HIDE DEF x
  <2>5. Within(O[i - 1] + x, Total(Amounts(old)) + (Total(Amounts(new)) - Total(Amounts(old))),
               Len(old) + (Len(new) - Len(old)))
    BY <2>1, <2>4, WithinPlus
  <2>6. Len(old) \in Int /\ Len(new) \in Int
    BY <2>1, <2>4
  <2>7. /\ Total(Amounts(old)) + (Total(Amounts(new)) - Total(Amounts(old))) = Total(Amounts(new))
        /\ Len(old) + (Len(new) - Len(old)) = Len(new)
    BY <2>4, <2>6
  <2>8. Within(O[i], Total(Amounts(new)), Len(new))
    BY <2>3, <2>5, <2>7
  <2> QED BY <2>3, <2>4, <2>8 DEF new
<1>9. \A i \in 0 .. n : i \in F
  <2> HIDE DEF F
  <2> QED BY <1>1, <1>7, <1>8, PrefixInduction
<1>10. n \in 0 .. n
  BY <1>1
<1>11. Payouts(batch) \in Seq(Payment(U)) /\ Within(O[n], Total(Amounts(Payouts(batch))), Len(Payouts(batch)))
  BY <1>6, <1>9, <1>10
<1>12. O[n] = Total(OwedTo(p))
  BY <1>1 DEF Total, O
<1> QED BY <1>5, <1>11, <1>12 DEF U, p

\* The control record of a batch of credits.
LEMMA ControlOfCredits ==
  ASSUME NEW U, NEW e \in Seq(Payment(U))
  PROVE  /\ BatchControl(e).entry_count = Len(e)
         /\ BatchControl(e).credit_total = Total(Amounts(e))
         /\ AmountsWith(e, {Debit}) = 0
         /\ AmountsWithout(e, {Debit}) = Total(Amounts(e))
<1>1. \A i \in DOMAIN e : e[i].transaction_code = Credit
  <2> TAKE i \in DOMAIN e
  <2>1. e[i] \in Payment(U)
    OBVIOUS
  <2> QED BY <2>1 DEF Payment
<1>2. Credit # Debit
  BY DEF Credit, Debit
<1>3. \A i \in DOMAIN e :
        /\ e[i].transaction_code \in {Credit}
        /\ e[i].transaction_code \notin {Debit}
  BY <1>1, <1>2
<1> DEFINE zeros == [i \in DOMAIN e |-> 0]
<1>4. AmountsWith(e, {Credit}) = Total(Amounts(e))
  BY <1>3 DEF AmountsWith, Amounts
<1>5. AmountsWithout(e, {Debit}) = Total(Amounts(e))
  BY <1>3 DEF AmountsWithout, Amounts
<1>6. AmountsWith(e, {Debit}) = Total(zeros)
  BY <1>3 DEF AmountsWith
<1>7. zeros \in Seq(Int) /\ Len(zeros) = Len(e) /\ \A i \in 1 .. Len(e) : zeros[i] = 0
  OBVIOUS
<1> HIDE DEF zeros
<1>8. Total(zeros) = 0
  BY <1>7, TotalOfZeros
<1> QED BY <1>4, <1>5, <1>6, <1>8 DEF BatchControl

\* The positions of a batch, as far as a file needs them.
LEMMA PositionsOfBatch ==
  ASSUME NEW batch, batch.splits \in Seq(ValidSplit), FromList(batch)
  PROVE  IsPositions(batch.net_positions)
<1> DEFINE t == Accounts(batch)
           U == UsersOf(Taken(batch), batch.splits)
           P == {NetPosition(t[n]) : n \in DOMAIN t}
<1>1. t \in Seq(Entries(U)) /\ batch.net_positions = [n \in DOMAIN t |-> NetPosition(t[n])]
  BY AccountsAre
<1> HIDE DEF t, U
<1>2. DOMAIN t = 1 .. Len(t) /\ Len(t) \in Nat
  BY <1>1
<1>3. batch.net_positions \in [1 .. Len(t) -> P]
  BY <1>1, <1>2
<1>4. batch.net_positions \in Seq(P)
  BY <1>2, <1>3
<1>5. \A n \in DOMAIN batch.net_positions : batch.net_positions[n].net_payout \in Int
  <2> SUFFICES ASSUME NEW n \in DOMAIN t PROVE batch.net_positions[n].net_payout \in Int
    BY <1>1
  <2>1. t[n] \in Entries(U)
    BY <1>1
  <2>2. t[n].totals["net"] \in Int
    BY <2>1 DEF Entries, Kinds
  <2>3. batch.net_positions[n] = NetPosition(t[n])
    BY <1>1
  <2> QED BY <2>2, <2>3 DEF NetPosition
<1> QED BY <1>4, <1>5 DEF IsPositions

\* A file adds up what its batches pay, records and control totals included.
LEMMA FileAddsUp ==
  ASSUME NEW n \in Nat, NEW S, NEW e \in Seq(S), Len(e) = n,
         NEW paid \in Seq(Int), Len(paid) = n,
         \A i \in 1 .. n : \E U : e[i] \in Seq(Payment(U)) /\ Total(Amounts(e[i])) = paid[i]
  PROVE  LET file == GenerateFile(e)
         IN  /\ file.total_debits = 0
             /\ \A i \in 1 .. n : file.controls[i].entry_count = Len(e[i])
             /\ file.total_credits = Total(paid)
             /\ file.total_credits = Total([i \in 1 .. n |-> file.controls[i].credit_total])
             /\ file.record_count
                  = 2 + 2 * file.batch_count + Total([i \in 1 .. n |-> file.controls[i].entry_count])
<1> DEFINE file == GenerateFile(e)
           debits == [i \in 1 .. n |-> AmountsWith(e[i], {Debit})]
           credits == [i \in 1 .. n |-> AmountsWithout(e[i], {Debit})]
           controls == [i \in 1 .. n |-> file.controls[i].credit_total]
           counts == [i \in 1 .. n |-> file.controls[i].entry_count]
           two == [i \in 1 .. n |-> 2]
           records == [i \in 1 .. n |-> 2 + Len(e[i])]
<1>1. DOMAIN e = 1 .. n /\ Len(e) = n
  OBVIOUS
<1>2. \A i \in 1 .. n : /\ BatchControl(e[i]).entry_count = Len(e[i])
                        /\ BatchControl(e[i]).credit_total = paid[i]
                        /\ AmountsWith(e[i], {Debit}) = 0
                        /\ AmountsWithout(e[i], {Debit}) = paid[i]
                        /\ Len(e[i]) \in Nat
  <2> TAKE i \in 1 .. n
  <2>1. PICK U : e[i] \in Seq(Payment(U)) /\ Total(Amounts(e[i])) = paid[i]
    OBVIOUS
  <2>2. Len(e[i]) \in Nat
    BY <2>1
  <2> QED BY <2>1, <2>2, ControlOfCredits
<1>3. /\ file.total_debits = Total(debits)
      /\ file.total_credits = Total(credits)
      /\ file.record_count = 2 + Total(records)
      /\ file.batch_count = n
      /\ \A i \in 1 .. n : file.controls[i] = BatchControl(e[i])
  BY <1>1 DEF GenerateFile, RecordsOf
<1> HIDE DEF file
<1>4. debits \in Seq(Int) /\ Len(debits) = n /\ \A i \in 1 .. n : debits[i] = 0
  <2> DEFINE D == {Debit}
  <2>1. \A i \in 1 .. n : AmountsWith(e[i], D) = 0
    BY <1>2
  <2> HIDE DEF D
  <2>2. [i \in 1 .. n |-> AmountsWith(e[i], D)] = [i \in 1 .. n |-> 0]
    BY <2>1
  <2>3. debits = [i \in 1 .. n |-> 0]
    BY <2>2 DEF D
  <2> HIDE DEF debits
  <2> QED BY <2>3
<1>5. credits = paid /\ controls = paid
  <2>1. paid = [i \in 1 .. n |-> paid[i]]
    OBVIOUS
  <2>2. /\ credits = [i \in 1 .. n |-> paid[i]]
        /\ controls = [i \in 1 .. n |-> paid[i]]
    BY <1>2, <1>3
  <2> QED BY <2>1, <2>2
<1>7. counts \in Seq(Int) /\ Len(counts) = n /\ \A i \in 1 .. n : counts[i] = Len(e[i])
  <2>1. ASSUME NEW i \in 1 .. n
        PROVE  file.controls[i].entry_count = Len(e[i]) /\ Len(e[i]) \in Int
    <3>1. file.controls[i] = BatchControl(e[i])
      BY <1>3
    <3>2. BatchControl(e[i]).entry_count = Len(e[i]) /\ Len(e[i]) \in Int
      BY <1>2
    <3> QED BY <3>1, <3>2
  <2>2. counts \in [1 .. n -> Int] /\ \A i \in 1 .. n : counts[i] = Len(e[i])
    BY <2>1
  <2> HIDE DEF counts
  <2> QED BY <2>2
<1>8. two \in Seq(Int) /\ Len(two) = n /\ \A i \in 1 .. n : two[i] = 2
  OBVIOUS
<1>9. records \in Seq(Int) /\ Len(records) = n
  BY <1>2
<1>10. AddUp(1 .. Len(two), two, counts, records)
  BY <1>7, <1>8 DEF AddUp
<1> HIDE DEF debits, counts, two, records
<1>11. Total(debits) = 0
  BY <1>4, TotalOfZeros
<1>12. Total(two) = 2 * n
  <2> DEFINE c == 2
  <2>1. c \in Int /\ \A i \in 1 .. Len(two) : two[i] = c
    BY <1>8
  <2> HIDE DEF c
  <2>2. Total(two) = c * Len(two)
    BY <1>8, <2>1, TotalOfEqual
  <2> QED BY <1>8, <2>2 DEF c
<1>13. Total(records) = Total(two) + Total(counts)
  <2>1. two \in Seq(Int) /\ counts \in Seq(Int) /\ records \in Seq(Int)
    BY <1>7, <1>8, <1>9
  <2>2. Len(counts) = Len(two) /\ Len(records) = Len(two)
    BY <1>7, <1>8, <1>9
  <2> QED BY <1>10, <2>1, <2>2, TotalPlus
<1>14. Total(counts) \in Int
  BY <1>7, TotalType
<1>15. file.record_count = 2 + 2 * n + Total(counts)
  BY <1>3, <1>12, <1>13, <1>14
<1>16. \A i \in 1 .. n : file.controls[i].entry_count = Len(e[i])
  BY <1>2, <1>3
<1> QED BY <1>3, <1>5, <1>11, <1>15, <1>16 DEF file, counts

\* A file of any batches pays what they owe but for the cents of its entries.
THEOREM EngineFilesAddUp == SettlementSpec => []FileTotals
<1>1. Computed => FileTotals
  <2> SUFFICES ASSUME Computed, NEW n \in 0 .. MaxBatches, NEW chosen \in [1 .. n -> DOMAIN batches]
               PROVE  LET file == FileOf(chosen)
                          entries == Total([i \in 1 .. n |-> file.controls[i].entry_count])
                          dropped == OwedBy(chosen) - 100 * file.total_credits
                      IN  /\ file.total_debits = 0
                          /\ 0 <= dropped /\ dropped <= 99 * entries
                          /\ file.total_credits
                               = Total([i \in 1 .. n |-> file.controls[i].credit_total])
                          /\ file.record_count = 2 + 2 * file.batch_count + entries
    BY DEF FileTotals
  <2> DEFINE e == [i \in DOMAIN chosen |-> Payouts(batches[chosen[i]])]
             owed == [i \in DOMAIN chosen |-> Owed(batches[chosen[i]])]
             paid == [i \in DOMAIN chosen |-> Total(Amounts(Payouts(batches[chosen[i]])))]
             file == GenerateFile(e)
             counts == [i \in 1 .. n |-> file.controls[i].entry_count]
  <2>1. n \in Nat /\ DOMAIN chosen = 1 .. n
    BY SettlementAssumption
  <2>2. \A i \in 1 .. n :
          /\ \E U : e[i] \in Seq(Payment(U))
          /\ Total(Amounts(e[i])) = paid[i]
          /\ Within(owed[i], paid[i], Len(e[i]))
    <3> TAKE i \in 1 .. n
    <3> DEFINE batch == batches[chosen[i]]
    <3>1. chosen[i] \in DOMAIN batches
      OBVIOUS
    <3>2. batch.splits \in Seq(ValidSplit) /\ FromList(batch)
      BY <3>1, BatchFacts
    <3>3. e[i] = Payouts(batch) /\ owed[i] = Owed(batch) /\ paid[i] = Total(Amounts(Payouts(batch)))
      BY <2>1
    <3> HIDE DEF batch, e, owed, paid
    <3>4. IsPositions(batch.net_positions)
      BY <3>2, PositionsOfBatch
    <3>5. /\ Payouts(batch) \in Seq(Payment(Payees(batch.net_positions)))
          /\ Within(Owed(batch), Total(Amounts(Payouts(batch))), Len(Payouts(batch)))
      BY <3>4, PayoutsPay
    <3> QED BY <3>3, <3>5
  <2> DEFINE s == [i \in 1 .. n |-> Len(e[i])]
  <2>3. \A i \in 1 .. n : owed[i] \in Int /\ paid[i] \in Int /\ s[i] \in Int
    BY <2>2 DEF Within
  <2>4. owed \in Seq(Int) /\ Len(owed) = n
    BY <2>1, <2>3
  <2>5. paid \in Seq(Int) /\ Len(paid) = n
    BY <2>1, <2>3
  <2>6. s \in Seq(Int) /\ Len(s) = n
    <3> HIDE DEF e
    <3> QED BY <2>1, <2>3
  <2>7. e \in Seq({Payouts(batches[b]) : b \in DOMAIN batches}) /\ Len(e) = n
    BY <2>1
  <2> HIDE DEF e, owed, paid
  <2>8. \A i \in 1 .. n : \E U : e[i] \in Seq(Payment(U)) /\ Total(Amounts(e[i])) = paid[i]
    BY <2>2
  <2>9. /\ file.total_debits = 0
        /\ \A i \in 1 .. n : file.controls[i].entry_count = Len(e[i])
        /\ file.total_credits = Total(paid)
        /\ file.total_credits = Total([i \in 1 .. n |-> file.controls[i].credit_total])
        /\ file.record_count = 2 + 2 * file.batch_count + Total(counts)
    BY <2>1, <2>5, <2>7, <2>8, FileAddsUp
  <2>10. counts = s
    BY <2>9
  <2>11. Within(Total(owed), Total(paid), Total(s))
    <3>1. \A i \in 1 .. n : Within(owed[i], paid[i], s[i])
      BY <2>2
    <3> HIDE DEF s
    <3> QED BY <2>1, <2>4, <2>5, <2>6, <3>1, WithinTotals
  <2>12. FileOf(chosen) = file /\ OwedBy(chosen) = Total(owed)
    BY DEF FileOf, OwedBy, e, owed
  <2> HIDE DEF file, s
  <2>13. /\ 0 <= Total(owed) - 100 * file.total_credits
         /\ Total(owed) - 100 * file.total_credits <= 99 * Total(s)
    BY <2>9, <2>11 DEF Within
  <2> QED BY <2>9, <2>10, <2>12, <2>13
<1> QED
  BY <1>1, ComputedStarts, ComputedKept, PTL DEF SettlementSpec
=============================================================================
