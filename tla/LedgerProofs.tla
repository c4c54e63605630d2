----------------------------- MODULE LedgerProofs -----------------------------
(***************************************************************************)
(* Theorems about Ledger for every set of accounts, keys and amounts.      *)
(***************************************************************************)
EXTENDS LedgerRefinement, SeqSumsProofs

\* Lines as a caller may build them, before they are checked.
RawLine == [account : Chart, debit : Int, credit : Int]

\* Lines that pass JournalEntryLine.__post_init__ carry no negative amount.
LEMMA WellFormedLines ==
  ASSUME NEW lines \in Seq(RawLine), WellFormed(lines)
  PROVE  lines \in Seq(Line)
<1>1. ASSUME NEW i \in 1 .. Len(lines) PROVE lines[i] \in Line
  <2>1. lines[i] \in RawLine
    OBVIOUS
  <2>2. lines[i].debit >= 0 /\ lines[i].credit >= 0
    BY DEF WellFormed
  <2> QED BY <2>1, <2>2 DEF RawLine, Line
<1> QED BY <1>1

\* The lines of the transaction patterns have the raw type.
LEMMA TwoLines ==
  ASSUME NEW a \in Chart, NEW b \in Chart, NEW x \in Int
  PROVE  <<Dr(a, x), Cr(b, x)>> \in Seq(RawLine)
BY DEF Dr, Cr, RawLine

LEMMA ThreeLines ==
  ASSUME NEW a \in Chart, NEW b \in Chart, NEW c \in Chart,
         NEW x \in Int, NEW y \in Int, NEW z \in Int
  PROVE  <<Dr(a, x), Cr(b, y), Cr(c, z)>> \in Seq(RawLine)
BY DEF Dr, Cr, RawLine

\* Every account a pattern names is on the chart.
LEMMA ChartAccounts ==
  /\ \A u \in Users : Wallet(u) \in Chart
  /\ \A e \in Employers : Holding(e) \in Chart
  /\ \A p \in PSPs : Receivable(p) \in Chart
  /\ Bank \in Chart /\ FeeRevenue \in Chart /\ FraudLosses \in Chart
BY DEF Chart

\* post_entry keeps the types of the journal and the key index.
LEMMA PostEntryType ==
  ASSUME TypeOK, NEW type \in EntryTypes, NEW key \in Keys, NEW lines \in Seq(RawLine),
         PostEntry(type, key, lines)
  PROVE  /\ journal_entries' \in Seq(Entry)
         /\ idempotency_keys' \in [DOMAIN idempotency_keys' -> Nat]
         /\ DOMAIN idempotency_keys' \subseteq Keys
<1>1. lines \in Seq(Line)
  BY WellFormedLines DEF PostEntry
<1>2. CASE Cached(key)
  BY <1>2 DEF TypeOK, PostEntry, Replay
<1>3. CASE ~ Cached(key)
  <2>1. Commit(type, key, lines)
    BY <1>3 DEF PostEntry
  <2>2. [type |-> type, key |-> key, lines |-> lines] \in Entry
    BY <1>1 DEF Entry
  <2>3. journal_entries' \in Seq(Entry)
    BY <2>1, <2>2 DEF TypeOK, Commit
  <2>4. Len(journal_entries) + 1 \in Nat
    BY DEF TypeOK
  <2> QED BY <2>1, <2>3, <2>4 DEF TypeOK, Commit
<1> QED BY <1>2, <1>3

\* A hold status may change and an age advance without leaving the type.
LEMMA HoldsType ==
  ASSUME TypeOK, NEW amount \in Nat, NEW a \in Chart
  PROVE  Append(holds, NewHold(a, amount)) \in Seq(Hold)
<1>1. NewHold(a, amount) \in Hold
  BY LedgerAssumption DEF NewHold, Hold, Statuses
<1> QED BY <1>1 DEF TypeOK

\* Every posting, and no other step, writes the journal.
PostingStep ==
  \E type \in EntryTypes, key \in Keys, lines \in Seq(RawLine) :
    /\ PostEntry(type, key, lines)
    /\ type # "correction" => Debits(lines) = Credits(lines)

\* One hold placed within the balance as it is after the step.
PlacingStep ==
  \E a \in Chart, x \in Nat \ {0} :
    /\ Covers(a, x, journal_entries', holds)
    /\ holds' = Append(holds, NewHold(a, x))

SettlingStep == (\E i \in DOMAIN holds : CaptureHold(i) \/ VoidHold(i)) \/ ExpireStaleHolds \/ Tick

\* The steps of the ledger sorted by what they may change.  This is all the
\* invariants below need, so that they hold of the ledger inside any program
\* that works on it in these steps, whatever amounts it uses.
LedgerStep ==
  \/ \E a \in Chart : CreateAccount(a)
  \/ PostingStep /\ UNCHANGED <<accounts, holds>>
  \/ PostingStep /\ PlacingStep /\ UNCHANGED accounts
  \/ PlacingStep /\ UNCHANGED <<accounts, journal_entries, idempotency_keys>>
  \/ SettlingStep /\ UNCHANGED <<accounts, journal_entries, idempotency_keys>>
  \/ UNCHANGED vars

\* The patterns are exactly balanced, whatever the amounts.
LEMMA TwoLinesBalance ==
  ASSUME NEW a \in Chart, NEW b \in Chart, NEW x \in Int
  PROVE  Debits(<<Dr(a, x), Cr(b, x)>>) = Credits(<<Dr(a, x), Cr(b, x)>>)
<1> DEFINE lines == <<Dr(a, x), Cr(b, x)>>
<1>1. /\ [i \in DOMAIN lines |-> lines[i].debit] = <<x, 0>>
      /\ [i \in DOMAIN lines |-> lines[i].credit] = <<0, x>>
  BY DEF Dr, Cr
<1> HIDE DEF lines
<1>2. Debits(lines) = Credits(lines)
  BY <1>1, TotalOfTwo DEF Debits, Credits
<1> QED BY <1>2 DEF lines

LEMMA ThreeLinesBalance ==
  ASSUME NEW a \in Chart, NEW b \in Chart, NEW c \in Chart, NEW x \in Int, NEW y \in Int
  PROVE  Debits(<<Dr(a, x), Cr(b, x - y), Cr(c, y)>>)
           = Credits(<<Dr(a, x), Cr(b, x - y), Cr(c, y)>>)
<1> DEFINE lines == <<Dr(a, x), Cr(b, x - y), Cr(c, y)>>
<1>1. /\ [i \in DOMAIN lines |-> lines[i].debit] = <<x, 0, 0>>
      /\ [i \in DOMAIN lines |-> lines[i].credit] = <<0, x - y, y>>
  BY DEF Dr, Cr
<1> HIDE DEF lines
<1>2. Debits(lines) = Credits(lines)
  BY <1>1, TotalOfThree DEF Debits, Credits
<1> QED BY <1>2 DEF lines

\* The classification.
LEMMA NextSteps ==
  ASSUME [Next]_vars
  PROVE  LedgerStep
<1>1. ASSUME NEW k \in Keys, NEW lines \in ManualEntries, PostManual(k, lines)
      PROVE  PostingStep /\ UNCHANGED <<accounts, holds>>
  <2>1. lines \in Seq(RawLine) /\ "correction" \in EntryTypes
    BY LedgerAssumption DEF RawLine, EntryTypes
  <2> QED BY <1>1, <2>1 DEF PostManual, PostingStep
<1>2. ASSUME NEW e \in Employers, NEW x \in Amounts, NEW k \in Keys,
             RecordEmployerFunding(e, x, k)
      PROVE  PostingStep /\ UNCHANGED <<accounts, holds>>
  <2> DEFINE lines == <<Dr(Bank, x), Cr(Holding(e), x)>>
  <2>1. x \in Int
    BY LedgerAssumption
  <2>2. lines \in Seq(RawLine) /\ Debits(lines) = Credits(lines)
    BY <2>1, ChartAccounts, TwoLines, TwoLinesBalance
  <2>3. PostEntry("funding", k, lines) /\ "funding" \in EntryTypes
    BY <1>2 DEF RecordEmployerFunding, EntryTypes
  <2> HIDE DEF lines
  <2> QED BY <1>2, <2>2, <2>3 DEF RecordEmployerFunding, PostingStep
<1>3. ASSUME NEW e \in Employers, NEW u \in Users, NEW x \in Amounts, NEW f \in Fees,
             NEW k \in Keys, AllocateToWallet(e, u, x, f, k)
      PROVE  PostingStep /\ UNCHANGED <<accounts, holds>>
  <2> DEFINE lines == <<Dr(Holding(e), x), Cr(Wallet(u), x - f), Cr(FeeRevenue, f)>>
  <2>1. x \in Int /\ f \in Int /\ x - f \in Int
    BY LedgerAssumption
  <2>2. lines \in Seq(RawLine) /\ Debits(lines) = Credits(lines)
    BY <2>1, ChartAccounts, ThreeLines, ThreeLinesBalance
  <2>3. PostEntry("funding", k, lines) /\ "funding" \in EntryTypes
    BY <1>3 DEF AllocateToWallet, EntryTypes
  <2> HIDE DEF lines
  <2> QED BY <1>3, <2>2, <2>3 DEF AllocateToWallet, PostingStep
<1>4. ASSUME NEW u \in Users, NEW x \in Amounts, NEW p \in PSPs, NEW k \in Keys,
             RecordUserTransfer(u, x, p, k)
      PROVE  \/ PostingStep /\ UNCHANGED <<accounts, holds>>
             \/ PostingStep /\ PlacingStep /\ UNCHANGED accounts
  <2> DEFINE lines == <<Dr(Wallet(u), x), Cr(Receivable(p), x)>>
  <2>1. x \in Int
    BY LedgerAssumption
  <2>2. lines \in Seq(RawLine) /\ Debits(lines) = Credits(lines)
    BY <2>1, ChartAccounts, TwoLines, TwoLinesBalance
  <2>3. PostEntry("transfer", k, lines) /\ "transfer" \in EntryTypes
    BY <1>4 DEF RecordUserTransfer, EntryTypes
  <2> HIDE DEF lines
  <2>4. PostingStep
    BY <2>2, <2>3 DEF PostingStep
  <2>5. UNCHANGED holds \/ PlacingStep
    BY <1>4, ChartAccounts, LedgerAssumption DEF RecordUserTransfer, PlacingStep
  <2> QED BY <1>4, <2>4, <2>5 DEF RecordUserTransfer
<1>5. ASSUME NEW u \in Users, NEW x \in Amounts, NEW p \in PSPs, NEW k \in Keys,
             RecordRefund(u, x, p, k)
      PROVE  PostingStep /\ UNCHANGED <<accounts, holds>>
  <2> DEFINE lines == <<Dr(Receivable(p), x), Cr(Wallet(u), x)>>
  <2>1. x \in Int
    BY LedgerAssumption
  <2>2. lines \in Seq(RawLine) /\ Debits(lines) = Credits(lines)
    BY <2>1, ChartAccounts, TwoLines, TwoLinesBalance
  <2>3. PostEntry("refund", k, lines) /\ "refund" \in EntryTypes
    BY <1>5 DEF RecordRefund, EntryTypes
  <2> HIDE DEF lines
  <2> QED BY <1>5, <2>2, <2>3 DEF RecordRefund, PostingStep
<1>6. ASSUME NEW x \in Amounts, NEW p \in PSPs, NEW k \in Keys, RecordChargeback(x, p, k)
      PROVE  PostingStep /\ UNCHANGED <<accounts, holds>>
  <2> DEFINE lines == <<Dr(FraudLosses, x), Cr(Receivable(p), x)>>
  <2>1. x \in Int
    BY LedgerAssumption
  <2>2. lines \in Seq(RawLine) /\ Debits(lines) = Credits(lines)
    BY <2>1, ChartAccounts, TwoLines, TwoLinesBalance
  <2>3. PostEntry("chargeback", k, lines) /\ "chargeback" \in EntryTypes
    BY <1>6 DEF RecordChargeback, EntryTypes
  <2> HIDE DEF lines
  <2> QED BY <1>6, <2>2, <2>3 DEF RecordChargeback, PostingStep
<1>7. ASSUME NEW a \in Chart, NEW x \in Amounts, CreateHold(a, x)
      PROVE  PlacingStep /\ UNCHANGED <<accounts, journal_entries, idempotency_keys>>
  BY <1>7, LedgerAssumption DEF CreateHold, PlacingStep
<1>8. (\E i \in DOMAIN holds : CaptureHold(i) \/ VoidHold(i)) \/ ExpireStaleHolds \/ Tick
        => SettlingStep /\ UNCHANGED <<accounts, journal_entries, idempotency_keys>>
  BY DEF SettlingStep, CaptureHold, VoidHold, ExpireStaleHolds, Tick
<1> QED BY <1>1, <1>2, <1>3, <1>4, <1>5, <1>6, <1>7, <1>8 DEF Next, LedgerStep

-----------------------------------------------------------------------------
\* A posting step keeps the types of what it writes.
LEMMA PostingType ==
  ASSUME TypeOK, PostingStep
  PROVE  /\ journal_entries' \in Seq(Entry)
         /\ idempotency_keys' \in [DOMAIN idempotency_keys' -> Nat]
         /\ DOMAIN idempotency_keys' \subseteq Keys
BY PostEntryType DEF PostingStep

LEMMA PlacingType ==
  ASSUME TypeOK, PlacingStep
  PROVE  holds' \in Seq(Hold)
BY HoldsType DEF PlacingStep

LEMMA SettlingType ==
  ASSUME TypeOK, SettlingStep
  PROVE  holds' \in Seq(Hold) /\ Len(holds') = Len(holds)
<1>1. ASSUME NEW i \in DOMAIN holds, CaptureHold(i) \/ VoidHold(i)
      PROVE  holds' \in Seq(Hold) /\ Len(holds') = Len(holds)
  <2>1. holds \in Seq(Hold) /\ holds[i] \in Hold
    BY DEF TypeOK
  <2>2. /\ [holds[i] EXCEPT !.status = "captured"] \in Hold
        /\ [holds[i] EXCEPT !.status = "voided"] \in Hold
    BY <2>1 DEF Hold, Statuses
  <2> QED BY <1>1, <2>1, <2>2 DEF CaptureHold, VoidHold
<1>2. CASE ExpireStaleHolds
  <2>1. holds \in Seq(Hold)
    BY DEF TypeOK
  <2>2. ASSUME NEW i \in DOMAIN holds
        PROVE  (IF Stale(holds[i]) THEN [holds[i] EXCEPT !.status = "expired"] ELSE holds[i]) \in Hold
    <3>1. holds[i] \in Hold
      BY <2>1
    <3>2. [holds[i] EXCEPT !.status = "expired"] \in Hold
      BY <3>1 DEF Hold, Statuses
    <3> QED BY <3>1, <3>2
  <2> QED BY <1>2, <2>1, <2>2 DEF ExpireStaleHolds
<1>3. CASE Tick
  <2>1. holds \in Seq(Hold)
    BY DEF TypeOK
  <2>2. ASSUME NEW i \in DOMAIN holds
        PROVE  (IF IsActive(holds[i]) /\ holds[i].age <= HoldTTL
                  THEN [holds[i] EXCEPT !.age = @ + 1] ELSE holds[i]) \in Hold
    <3>1. holds[i] \in Hold
      BY <2>1
    <3>2. holds[i].age <= HoldTTL => holds[i].age + 1 \in 0 .. HoldTTL + 1
      BY <3>1, LedgerAssumption DEF Hold
    <3> QED BY <3>1, <3>2 DEF Hold
  <2> QED BY <1>3, <2>1, <2>2 DEF Tick
<1> QED BY <1>1, <1>2, <1>3 DEF SettlingStep

\* The types are kept by every step.
LEMMA TypeStep ==
  ASSUME TypeOK, LedgerStep
  PROVE  TypeOK'
<1>1. ASSUME NEW a \in Chart, CreateAccount(a) PROVE TypeOK'
  BY <1>1 DEF CreateAccount, TypeOK
<1>2. CASE PostingStep /\ UNCHANGED <<accounts, holds>>
  BY <1>2, PostingType DEF TypeOK
<1>3. CASE PostingStep /\ PlacingStep /\ UNCHANGED accounts
  BY <1>3, PostingType, PlacingType DEF TypeOK
<1>4. CASE PlacingStep /\ UNCHANGED <<accounts, journal_entries, idempotency_keys>>
  BY <1>4, PlacingType DEF TypeOK
<1>5. CASE SettlingStep /\ UNCHANGED <<accounts, journal_entries, idempotency_keys>>
  BY <1>5, SettlingType DEF TypeOK
<1>6. CASE UNCHANGED vars
  BY <1>6 DEF vars, TypeOK
<1> QED BY <1>1, <1>2, <1>3, <1>4, <1>5, <1>6 DEF LedgerStep

\* The ledger starts well typed.
LEMMA TypeInit == Init => TypeOK
BY LedgerAssumption DEF Init, TypeOK

\* Every reachable ledger is well typed: no call, whatever amounts, fees and
\* lines it is given, stores a negative amount or a line off the chart.
THEOREM TypeCorrect == Spec => []TypeOK
<1>1. TypeOK /\ [Next]_vars => TypeOK'
  BY NextSteps, TypeStep
<1> QED BY TypeInit, <1>1, PTL DEF Spec

-----------------------------------------------------------------------------
\* What a posting step does to the journal and its index: nothing, when the
\* key is known, or one entry at the end, found under a key that was free.
LEMMA PostingEffect ==
  ASSUME TypeOK, PostingStep
  PROVE  \/ UNCHANGED <<journal_entries, idempotency_keys>>
         \/ \E type \in EntryTypes, key \in Keys, lines \in Seq(Line) :
              /\ key \notin DOMAIN idempotency_keys
              /\ AllExist(lines)
              /\ Balanced(lines)
              /\ type # "correction" => Debits(lines) = Credits(lines)
              /\ journal_entries' = Append(journal_entries, [type |-> type, key |-> key, lines |-> lines])
              /\ idempotency_keys' = [k \in DOMAIN idempotency_keys \cup {key} |->
                   IF k = key THEN Len(journal_entries) + 1 ELSE idempotency_keys[k]]
<1>1. PICK type \in EntryTypes, key \in Keys, lines \in Seq(RawLine) :
        /\ PostEntry(type, key, lines)
        /\ type # "correction" => Debits(lines) = Credits(lines)
  BY DEF PostingStep
<1>2. CASE Cached(key)
  BY <1>1, <1>2 DEF PostEntry, Replay
<1>3. CASE ~ Cached(key)
  <2>1. lines \in Seq(Line)
    BY <1>1, WellFormedLines DEF PostEntry
  <2>2. Commit(type, key, lines)
    BY <1>1, <1>3 DEF PostEntry
  <2> QED BY <1>1, <1>3, <2>1, <2>2 DEF Commit, Cached
<1> QED BY <1>2, <1>3

\* Each step keeps the index in step with the journal.
LEMMA IndexStep ==
  ASSUME IdempotencyIndex, TypeOK, LedgerStep
  PROVE  IdempotencyIndex'
<1>1. CASE PostingStep
  <2>1. CASE UNCHANGED <<journal_entries, idempotency_keys>>
    BY <2>1 DEF IdempotencyIndex
  <2>2. ASSUME NEW type \in EntryTypes, NEW key \in Keys, NEW lines \in Seq(Line),
               key \notin DOMAIN idempotency_keys,
               journal_entries' = Append(journal_entries, [type |-> type, key |-> key, lines |-> lines]),
               idempotency_keys' = [k \in DOMAIN idempotency_keys \cup {key} |->
                 IF k = key THEN Len(journal_entries) + 1 ELSE idempotency_keys[k]]
        PROVE  IdempotencyIndex'
    <3>1. /\ DOMAIN journal_entries = 1 .. Len(journal_entries)
          /\ DOMAIN journal_entries' = 1 .. Len(journal_entries) + 1
          /\ Len(journal_entries) \in Nat
      BY <2>2 DEF TypeOK
    <3>2. /\ \A i \in DOMAIN journal_entries : journal_entries'[i] = journal_entries[i]
          /\ journal_entries'[Len(journal_entries) + 1].key = key
      BY <2>2 DEF TypeOK
    <3>3. ASSUME NEW k \in DOMAIN idempotency_keys'
          PROVE  /\ idempotency_keys'[k] \in DOMAIN journal_entries'
                 /\ journal_entries'[idempotency_keys'[k]].key = k
      BY <2>2, <3>1, <3>2 DEF IdempotencyIndex
    <3>4. ASSUME NEW i \in DOMAIN journal_entries'
          PROVE  /\ journal_entries'[i].key \in DOMAIN idempotency_keys'
                 /\ idempotency_keys'[journal_entries'[i].key] = i
      <4>1. CASE i \in DOMAIN journal_entries
        BY <2>2, <3>2, <4>1 DEF IdempotencyIndex
      <4>2. CASE i = Len(journal_entries) + 1
        BY <2>2, <3>2, <4>2
      <4> QED BY <3>1, <4>1, <4>2
    <3> QED BY <3>3, <3>4 DEF IdempotencyIndex
  <2> QED BY <1>1, <2>1, <2>2, PostingEffect
<1>2. CASE UNCHANGED <<journal_entries, idempotency_keys>>
  BY <1>2 DEF IdempotencyIndex
<1> QED BY <1>1, <1>2 DEF LedgerStep, CreateAccount, vars

\* Nothing is posted and no key is known.
LEMMA IndexInit == Init => IdempotencyIndex
BY DEF Init, IdempotencyIndex

\* Whatever interleaving of calls and retries: a key finds exactly the entry
\* that was posted under it.
THEOREM KeysFindTheirEntries == Spec => []IdempotencyIndex
<1>1. IdempotencyIndex /\ TypeOK /\ [Next]_vars => IdempotencyIndex'
  BY NextSteps, IndexStep
<1> QED BY IndexInit, <1>1, TypeCorrect, PTL DEF Spec

\* No step takes an entry out of the journal or changes it.
LEMMA JournalStep ==
  ASSUME TypeOK, LedgerStep, NEW i \in DOMAIN journal_entries
  PROVE  i \in DOMAIN journal_entries' /\ journal_entries'[i] = journal_entries[i]
<1>1. CASE UNCHANGED journal_entries
  BY <1>1
<1>2. ASSUME NEW e, journal_entries' = Append(journal_entries, e)
      PROVE  i \in DOMAIN journal_entries' /\ journal_entries'[i] = journal_entries[i]
  <2>1. journal_entries \in Seq(Entry)
    BY DEF TypeOK
  <2> QED BY <1>2, <2>1
<1> QED BY <1>1, <1>2, PostingEffect DEF LedgerStep, CreateAccount, vars

\* Nothing that happens later rewrites or drops a posted entry.
THEOREM EntriesAreImmutable == Spec => JournalAppendOnly
<1>1. TypeOK /\ [Next]_vars =>
        [\A i \in DOMAIN journal_entries :
           i \in DOMAIN journal_entries' /\ journal_entries'[i] = journal_entries[i]]_vars
  BY NextSteps, JournalStep
<1> QED BY <1>1, TypeCorrect, PTL DEF Spec, JournalAppendOnly

-----------------------------------------------------------------------------
\* What one step may do to a hold: change its age or its status, once.
SameOrSettled(i) ==
  /\ i \in DOMAIN holds'
  /\ holds'[i].account = holds[i].account /\ holds'[i].amount = holds[i].amount
  /\ ~ IsActive(holds[i]) => holds'[i] = holds[i]
  /\ IsActive(holds[i]) /\ holds'[i].status = "expired" => holds[i].age > HoldTTL

LEMMA HoldStep ==
  ASSUME TypeOK, UNCHANGED holds \/ PlacingStep \/ SettlingStep, NEW i \in DOMAIN holds
  PROVE  SameOrSettled(i)
<1> USE DEF SameOrSettled
<1>1. holds \in Seq(Hold) /\ holds[i] \in Hold
  BY DEF TypeOK
<1>2. CASE UNCHANGED holds
  BY <1>2 DEF IsActive
<1>3. CASE PlacingStep
  <2>1. \E h : holds' = Append(holds, h)
    BY <1>3 DEF PlacingStep
  <2>2. i \in DOMAIN holds' /\ holds'[i] = holds[i]
    BY <1>1, <2>1
  <2> QED BY <2>2 DEF IsActive
<1>4. ASSUME NEW j \in DOMAIN holds, CaptureHold(j) PROVE SameOrSettled(i)
  BY <1>1, <1>4 DEF CaptureHold, IsActive, Hold
<1>5. ASSUME NEW j \in DOMAIN holds, VoidHold(j) PROVE SameOrSettled(i)
  BY <1>1, <1>5 DEF VoidHold, IsActive, Hold
<1>6. CASE ExpireStaleHolds
  BY <1>1, <1>6 DEF ExpireStaleHolds, Stale, IsActive, Hold
<1>7. CASE Tick
  BY <1>1, <1>7 DEF Tick, IsActive, Hold
<1> QED BY <1>2, <1>3, <1>4, <1>5, <1>6, <1>7 DEF SettlingStep

\* Whatever is done to the ledger, that is all that happens to its holds.
LEMMA HoldsStep ==
  ASSUME TypeOK, LedgerStep
  PROVE  \A i \in DOMAIN holds : SameOrSettled(i)
<1>1. UNCHANGED holds \/ PlacingStep \/ SettlingStep
  BY DEF LedgerStep, CreateAccount, vars
<1> QED BY <1>1, HoldStep

\* A hold that has been captured, voided or expired stays what it is, and the
\* expiry job takes no hold that is still within its time to live.
THEOREM HoldsAreFinal == Spec => HoldFinality
<1>1. TypeOK /\ [Next]_vars => [\A i \in DOMAIN holds : SameOrSettled(i)]_vars
  BY NextSteps, HoldsStep
<1> QED BY <1>1, TypeCorrect, PTL DEF Spec, HoldFinality, SameOrSettled

-----------------------------------------------------------------------------
\* The amounts of a list of lines.
LEMMA LineAmounts ==
  ASSUME NEW lines \in Seq(Line), NEW i \in DOMAIN lines
  PROVE  lines[i].debit \in Nat /\ lines[i].credit \in Nat
<1>1. lines[i] \in Line
  OBVIOUS
<1> QED BY <1>1 DEF Line

\* The totals of lines are integers.
LEMMA LineTotals ==
  ASSUME NEW lines \in Seq(Line)
  PROVE  Debits(lines) \in Int /\ Credits(lines) \in Int
<1> DEFINE debits  == [i \in DOMAIN lines |-> lines[i].debit]
           credits == [i \in DOMAIN lines |-> lines[i].credit]
<1>1. debits \in Seq(Int)
  BY LineAmounts
<1>2. credits \in Seq(Int)
  BY LineAmounts
<1> QED BY <1>1, <1>2, TotalType DEF Debits, Credits

\* Totals that round to the same cent are less than a cent apart.
LEMMA SameCents ==
  ASSUME NEW x \in Int, NEW y \in Int, Cents(x) = Cents(y)
  PROVE  -9 <= x - y /\ x - y <= 9 /\ x - y \in -9 .. 9
<1>1. -9 <= x - y /\ x - y <= 9
  BY DEF Cents
<1> QED BY <1>1

\* The delta of a journal and of a journal with one more entry.
LEMMA DeltaAppend ==
  ASSUME NEW j \in Seq(Entry), NEW e \in Entry
  PROVE  /\ SystemDelta(j) \in Int
         /\ SystemDelta(Append(j, e)) = SystemDelta(j) + (Debits(e.lines) - Credits(e.lines))
<1> DEFINE d(f) == Debits(f.lines) - Credits(f.lines)
           s == [i \in DOMAIN j |-> d(j[i])]
<1>1. \A f \in Entry : d(f) \in Int
  BY LineTotals DEF Entry
<1>2. s \in Seq(Int)
  BY <1>1
<1>3. [i \in DOMAIN Append(j, e) |-> d(Append(j, e)[i])] = Append(s, d(e))
  OBVIOUS
<1> QED BY <1>1, <1>2, <1>3, TotalType, TotalAppend DEF SystemDelta

\* The errors of the manual entries of a journal, and of one with one more.
Errors(j) == [i \in DOMAIN j |-> ManualError(j[i])]

LEMMA ErrorsAppend ==
  ASSUME NEW j \in Seq(Entry), NEW e \in Entry
  PROVE  /\ Errors(j) \in Seq(Int) /\ Total(Errors(j)) \in Int
         /\ Errors(Append(j, e)) = Append(Errors(j), ManualError(e))
         /\ Total(Errors(Append(j, e))) = Total(Errors(j)) + ManualError(e)
<1> DEFINE s == [i \in DOMAIN j |-> ManualError(j[i])]
<1>1. \A f \in Entry : ManualError(f) \in Int
  BY LineTotals DEF ManualError, Entry
<1>2. s \in Seq(Int)
  BY <1>1
<1>3. [i \in DOMAIN Append(j, e) |-> ManualError(Append(j, e)[i])] = Append(s, ManualError(e))
  OBVIOUS
<1> QED BY <1>1, <1>2, <1>3, TotalType, TotalAppend DEF Errors

\* A posting unbalances the books by the error of the entry, if it is a manual
\* one, and that error is below a cent.
LEMMA BalanceStep ==
  ASSUME ImbalanceIsManual, TypeOK, LedgerStep
  PROVE  ImbalanceIsManual'
<1>1. CASE UNCHANGED journal_entries
  BY <1>1 DEF ImbalanceIsManual
<1>2. ASSUME NEW type \in EntryTypes, NEW key \in Keys, NEW lines \in Seq(Line),
             Balanced(lines),
             type # "correction" => Debits(lines) = Credits(lines),
             journal_entries' = Append(journal_entries, [type |-> type, key |-> key, lines |-> lines])
      PROVE  ImbalanceIsManual'
  <2> DEFINE e == [type |-> type, key |-> key, lines |-> lines]
             j == journal_entries
  <2>1. e \in Entry /\ j \in Seq(Entry)
    BY DEF Entry, TypeOK
  <2>2. Debits(lines) \in Int /\ Credits(lines) \in Int
    BY LineTotals
  <2>3. Debits(lines) - Credits(lines) \in -9 .. 9
    <3>1. Cents(Debits(lines)) = Cents(Credits(lines))
      BY <1>2 DEF Balanced
    <3> QED BY <2>2, <3>1, SameCents
  <2>4. ManualError(e) = Debits(lines) - Credits(lines)
    BY <1>2, <2>2 DEF ManualError
  <2>5. /\ SystemDelta(j) \in Int
        /\ SystemDelta(j') = SystemDelta(j) + (Debits(lines) - Credits(lines))
    BY <1>2, <2>1, DeltaAppend
  <2>6. /\ Errors(j) \in Seq(Int) /\ Total(Errors(j)) \in Int
        /\ Errors(j)' = Append(Errors(j), ManualError(e))
        /\ Total(Errors(j)') = Total(Errors(j)) + ManualError(e)
    <3>1. Errors(j)' = Errors(Append(j, e))
      BY <1>2 DEF Errors
    <3> QED BY <2>1, <3>1, ErrorsAppend
  <2>7. SystemDelta(j) = Total(Errors(j)) /\ \A i \in DOMAIN Errors(j) : Errors(j)[i] \in -9 .. 9
    BY DEF ImbalanceIsManual, Errors
  <2> HIDE DEF e, j
  <2>8. SystemDelta(j') = Total(Errors(j)')
    BY <2>2, <2>4, <2>5, <2>6, <2>7
  <2>9. \A i \in DOMAIN Errors(j)' : Errors(j)'[i] \in -9 .. 9
    <3> DEFINE s == Errors(j)
               small == -9 .. 9
    <3>1. s \in Seq(Int) /\ (\A i \in DOMAIN s : s[i] \in small) /\ ManualError(e) \in small
      BY <2>3, <2>4, <2>6, <2>7
    <3> HIDE DEF s, small
    <3>2. \A i \in DOMAIN Append(s, ManualError(e)) : Append(s, ManualError(e))[i] \in small
      BY <3>1
    <3> QED BY <2>6, <3>2 DEF s, small
  <2> QED BY <2>8, <2>9 DEF ImbalanceIsManual, Errors, j
<1> QED BY <1>1, <1>2, PostingEffect DEF LedgerStep, CreateAccount, vars

\* An empty journal is balanced.
LEMMA BalanceInit == Init => ImbalanceIsManual
<1> SUFFICES ASSUME Init PROVE ImbalanceIsManual
  OBVIOUS
<1>1. /\ [i \in DOMAIN journal_entries |-> ManualError(journal_entries[i])] = <<>>
      /\ [i \in DOMAIN journal_entries |->
            Debits(journal_entries[i].lines) - Credits(journal_entries[i].lines)] = <<>>
  BY DEF Init
<1> QED BY <1>1, TotalEmpty DEF ImbalanceIsManual, SystemDelta

\* For a journal of any length, any amounts and any fees: what the books are
\* out of balance by is the sum of the errors of manual entries, each of them
\* below a cent, and the transaction patterns add nothing to it.
THEOREM BooksBalance == Spec => []ImbalanceIsManual
<1>1. ImbalanceIsManual /\ TypeOK /\ [Next]_vars => ImbalanceIsManual'
  BY NextSteps, BalanceStep
<1> QED BY BalanceInit, <1>1, TypeCorrect, PTL DEF Spec

-----------------------------------------------------------------------------
\* On one account, a list of lines nets no more than its inflow, and an
\* inflow is never negative.
LEMMA NetBelowInflow ==
  ASSUME NEW a \in Chart, NEW lines \in Seq(Line)
  PROVE  /\ NetOn(a, lines) \in Int /\ Inflow(a, lines) \in Int
         /\ 0 <= Inflow(a, lines)
         /\ (IF DebitNormal(a) THEN NetOn(a, lines) ELSE -NetOn(a, lines)) <= Inflow(a, lines)
<1> DEFINE n(i) == IF lines[i].account = a THEN lines[i].debit - lines[i].credit ELSE 0
           f(i) == IF lines[i].account # a THEN 0
                   ELSE IF DebitNormal(a) THEN lines[i].debit ELSE lines[i].credit
           net    == [i \in DOMAIN lines |-> n(i)]
           minus  == [i \in DOMAIN net |-> 0 - net[i]]
           inflow == [i \in DOMAIN lines |-> f(i)]
           zero   == [i \in DOMAIN lines |-> 0]
<1>1. \A i \in DOMAIN lines : lines[i].debit \in Nat /\ lines[i].credit \in Nat
  BY LineAmounts
<1>2. \A i \in DOMAIN lines :
        /\ n(i) \in Int /\ f(i) \in Int /\ 0 <= f(i)
        /\ (IF DebitNormal(a) THEN n(i) ELSE 0 - n(i)) <= f(i)
  BY <1>1
<1> HIDE DEF n, f
<1>3. /\ net \in Seq(Int) /\ Len(net) = Len(lines)
      /\ inflow \in Seq(Int) /\ Len(inflow) = Len(lines)
      /\ zero \in Seq(Int) /\ Len(zero) = Len(lines)
  <2>1. net \in Seq(Int) /\ Len(net) = Len(lines)
    BY <1>2
  <2>2. inflow \in Seq(Int) /\ Len(inflow) = Len(lines)
    BY <1>2
  <2>3. zero \in Seq(Int) /\ Len(zero) = Len(lines)
    OBVIOUS
  <2> QED BY <2>1, <2>2, <2>3
<1>4. minus \in Seq(Int) /\ Len(minus) = Len(lines)
  <2> HIDE DEF net
  <2>1. \A i \in DOMAIN net : net[i] \in Int
    BY <1>3
  <2> QED BY <1>3, <2>1
<1>5. /\ \A i \in 1 .. Len(lines) : zero[i] <= inflow[i]
      /\ DebitNormal(a) => \A i \in 1 .. Len(lines) : net[i] <= inflow[i]
      /\ ~ DebitNormal(a) => \A i \in 1 .. Len(lines) : minus[i] <= inflow[i]
  BY <1>2
<1>6. Total(zero) = 0 /\ Total(minus) = 0 - Total(net)
  <2>1. Total(zero) = 0
    <3>1. \A i \in 1 .. Len(zero) : zero[i] = 0
      OBVIOUS
    <3> HIDE DEF zero
    <3> QED BY <1>3, <3>1, TotalOfZeros
  <2> HIDE DEF net
  <2>2. Total(minus) = 0 - Total(net)
    BY <1>3, TotalNegated
  <2> QED BY <2>1, <2>2
<1>7. /\ Total(zero) <= Total(inflow)
      /\ DebitNormal(a) => Total(net) <= Total(inflow)
      /\ ~ DebitNormal(a) => Total(minus) <= Total(inflow)
  <2> HIDE DEF net, minus, inflow, zero
  <2> QED BY <1>3, <1>4, <1>5, TotalMonotone
<1>8. Total(net) \in Int /\ Total(inflow) \in Int
  BY <1>3, TotalType
<1>9. NetOn(a, lines) = Total(net) /\ Inflow(a, lines) = Total(inflow)
  BY DEF NetOn, Inflow, n, f
<1> QED BY <1>6, <1>7, <1>8, <1>9

\* The same for a whole journal: a posted balance is at most the inflow.
LEMMA BalanceBelowInflow ==
  ASSUME NEW a \in Chart, NEW j \in Seq(Entry)
  PROVE  /\ PostedBalance(a, j) \in Int /\ TotalInflow(a, j) \in Int
         /\ PostedBalance(a, j) <= TotalInflow(a, j)
         /\ 0 <= TotalInflow(a, j)
<1> DEFINE net    == [i \in DOMAIN j |-> NetOn(a, j[i].lines)]
           minus  == [i \in DOMAIN net |-> 0 - net[i]]
           inflow == [i \in DOMAIN j |-> Inflow(a, j[i].lines)]
           zero   == [i \in DOMAIN j |-> 0]
<1>1. ASSUME NEW i \in DOMAIN j PROVE j[i].lines \in Seq(Line)
  <2>1. j[i] \in Entry
    OBVIOUS
  <2> QED BY <2>1 DEF Entry
<1>2. \A i \in DOMAIN j :
        /\ NetOn(a, j[i].lines) \in Int /\ Inflow(a, j[i].lines) \in Int
        /\ 0 <= Inflow(a, j[i].lines)
        /\ (IF DebitNormal(a) THEN NetOn(a, j[i].lines) ELSE -NetOn(a, j[i].lines))
             <= Inflow(a, j[i].lines)
  BY <1>1, NetBelowInflow
<1>3. net \in Seq(Int) /\ Len(net) = Len(j)
  BY <1>2
<1>4. inflow \in Seq(Int) /\ Len(inflow) = Len(j)
  BY <1>2
<1>5. zero \in Seq(Int) /\ Len(zero) = Len(j) /\ \A i \in 1 .. Len(zero) : zero[i] = 0
  OBVIOUS
<1>6. /\ \A i \in 1 .. Len(j) : zero[i] <= inflow[i]
      /\ DebitNormal(a) => \A i \in 1 .. Len(j) : net[i] <= inflow[i]
      /\ ~ DebitNormal(a) => \A i \in 1 .. Len(j) : 0 - net[i] <= inflow[i]
  BY <1>2
<1>7. NetPosted(a, j) = Total(net) /\ TotalInflow(a, j) = Total(inflow)
  BY DEF NetPosted, TotalInflow
<1> HIDE DEF net, inflow, zero
<1>8. minus \in Seq(Int) /\ Len(minus) = Len(j) /\ \A i \in 1 .. Len(j) : minus[i] = 0 - net[i]
  <2>1. \A i \in DOMAIN net : net[i] \in Int
    BY <1>3
  <2> QED BY <1>3, <2>1
<1>9. Total(minus) = 0 - Total(net)
  BY <1>3, TotalNegated
<1> HIDE DEF minus
<1>10. Total(zero) = 0
  BY <1>5, TotalOfZeros
<1>11. /\ Total(zero) <= Total(inflow)
       /\ DebitNormal(a) => Total(net) <= Total(inflow)
       /\ ~ DebitNormal(a) => Total(minus) <= Total(inflow)
  BY <1>3, <1>4, <1>5, <1>6, <1>8, TotalMonotone
<1>12. Total(net) \in Int /\ Total(inflow) \in Int
  BY <1>3, <1>4, TotalType
<1> QED BY <1>7, <1>9, <1>10, <1>11, <1>12 DEF PostedBalance

\* Posting never lowers an inflow.
LEMMA InflowAppend ==
  ASSUME NEW a \in Chart, NEW j \in Seq(Entry), NEW e \in Entry
  PROVE  TotalInflow(a, j) <= TotalInflow(a, Append(j, e))
<1> DEFINE s == [i \in DOMAIN j |-> Inflow(a, j[i].lines)]
<1>1. \A f \in Entry : Inflow(a, f.lines) \in Int /\ 0 <= Inflow(a, f.lines)
  BY NetBelowInflow DEF Entry
<1>2. s \in Seq(Int)
  BY <1>1
<1>3. [i \in DOMAIN Append(j, e) |-> Inflow(a, Append(j, e)[i].lines)] = Append(s, Inflow(a, e.lines))
  OBVIOUS
<1>4. Total(Append(s, Inflow(a, e.lines))) = Total(s) + Inflow(a, e.lines)
  BY <1>1, <1>2, TotalAppend
<1>5. Total(s) \in Int
  BY <1>2, TotalType
<1>6. /\ TotalInflow(a, j) = Total(s)
      /\ TotalInflow(a, Append(j, e)) = Total(Append(s, Inflow(a, e.lines)))
  BY <1>3 DEF TotalInflow
<1> HIDE DEF s
<1>7. Inflow(a, e.lines) \in Int /\ 0 <= Inflow(a, e.lines)
  BY <1>1
<1> QED BY <1>4, <1>5, <1>6, <1>7

\* Holds: what one more adds, and what settling some does.
Reserved(a, h) == IF h.account = a /\ IsActive(h) THEN h.amount ELSE 0

LEMMA ActiveHoldsType ==
  ASSUME NEW a \in Chart, NEW hs \in Seq(Hold)
  PROVE  /\ [i \in DOMAIN hs |-> Reserved(a, hs[i])] \in Seq(Int)
         /\ ActiveHolds(a, hs) = Total([i \in DOMAIN hs |-> Reserved(a, hs[i])])
         /\ ActiveHolds(a, hs) \in Int
<1>1. \A h \in Hold : Reserved(a, h) \in Int
  BY DEF Reserved, Hold
<1>2. [i \in DOMAIN hs |-> Reserved(a, hs[i])] \in Seq(Int)
  BY <1>1
<1>3. ActiveHolds(a, hs) = Total([i \in DOMAIN hs |-> Reserved(a, hs[i])])
  BY DEF ActiveHolds, Reserved
<1> QED BY <1>2, <1>3, TotalType

LEMMA ActiveHoldsAppend ==
  ASSUME NEW a \in Chart, NEW hs \in Seq(Hold), NEW h \in Hold
  PROVE  ActiveHolds(a, Append(hs, h)) = ActiveHolds(a, hs) + Reserved(a, h)
<1> DEFINE s == [i \in DOMAIN hs |-> Reserved(a, hs[i])]
<1>1. s \in Seq(Int) /\ Reserved(a, h) \in Int
  <2>1. s \in Seq(Int)
    BY ActiveHoldsType
  <2>2. Reserved(a, h) \in Int
    BY DEF Reserved, Hold
  <2> QED BY <2>1, <2>2
<1>2. [i \in DOMAIN Append(hs, h) |-> Reserved(a, Append(hs, h)[i])] = Append(s, Reserved(a, h))
  OBVIOUS
<1>3. Append(hs, h) \in Seq(Hold)
  OBVIOUS
<1> QED BY <1>1, <1>2, <1>3, ActiveHoldsType, TotalAppend

LEMMA SettlingReleases ==
  ASSUME TypeOK, SettlingStep, NEW a \in Chart
  PROVE  ActiveHolds(a, holds') <= ActiveHolds(a, holds)
<1> DEFINE s == [i \in DOMAIN holds' |-> Reserved(a, holds'[i])]
           t == [i \in DOMAIN holds |-> Reserved(a, holds[i])]
<1>1. holds \in Seq(Hold) /\ holds' \in Seq(Hold) /\ Len(holds') = Len(holds)
  BY SettlingType DEF TypeOK
<1>2. ASSUME NEW i \in DOMAIN holds
      PROVE  Reserved(a, holds'[i]) <= Reserved(a, holds[i])
  <2>1. SameOrSettled(i)
    BY HoldStep
  <2>2. holds[i] \in Hold
    BY <1>1
  <2> QED BY <2>1, <2>2 DEF SameOrSettled, Reserved, Hold
<1>3. s \in Seq(Int) /\ t \in Seq(Int)
  BY <1>1, ActiveHoldsType
<1>4. Len(s) = Len(t) /\ \A i \in 1 .. Len(s) : s[i] <= t[i]
  BY <1>1, <1>2
<1>5. ActiveHolds(a, holds') = Total(s) /\ ActiveHolds(a, holds) = Total(t)
  BY <1>1, ActiveHoldsType
<1> HIDE DEF s, t
<1> QED BY <1>3, <1>4, <1>5, TotalMonotone

\* A hold is placed within the balance, which is within the inflow.
LEMMA BackedStep ==
  ASSUME HoldsBacked, TypeOK, TypeOK', LedgerStep
  PROVE  HoldsBacked'
<1> SUFFICES ASSUME NEW a \in Chart
             PROVE  ActiveHolds(a, holds') <= TotalInflow(a, journal_entries')
  BY DEF HoldsBacked
<1>1. /\ ActiveHolds(a, holds) \in Int /\ ActiveHolds(a, holds') \in Int
      /\ TotalInflow(a, journal_entries) \in Int /\ TotalInflow(a, journal_entries') \in Int
      /\ ActiveHolds(a, holds) <= TotalInflow(a, journal_entries)
  BY ActiveHoldsType, BalanceBelowInflow DEF TypeOK, HoldsBacked
<1>2. TotalInflow(a, journal_entries) <= TotalInflow(a, journal_entries')
  <2>1. CASE UNCHANGED journal_entries
    BY <2>1, <1>1
  <2>2. ASSUME NEW type \in EntryTypes, NEW key \in Keys, NEW lines \in Seq(Line),
               journal_entries' = Append(journal_entries, [type |-> type, key |-> key, lines |-> lines])
        PROVE  TotalInflow(a, journal_entries) <= TotalInflow(a, journal_entries')
    <3>1. [type |-> type, key |-> key, lines |-> lines] \in Entry
      BY DEF Entry
    <3> QED BY <2>2, <3>1, InflowAppend DEF TypeOK
  <2> QED BY <2>1, <2>2, PostingEffect DEF LedgerStep, CreateAccount, vars
<1>3. CASE UNCHANGED holds
  BY <1>1, <1>2, <1>3
<1>4. CASE PlacingStep
  <2>1. PICK b \in Chart, x \in Nat \ {0} :
          /\ Covers(b, x, journal_entries', holds)
          /\ holds' = Append(holds, NewHold(b, x))
    BY <1>4 DEF PlacingStep
  <2>2. NewHold(b, x) \in Hold /\ x \in Int
    BY LedgerAssumption DEF NewHold, Hold, Statuses
  <2>3. ActiveHolds(a, holds') = ActiveHolds(a, holds) + Reserved(a, NewHold(b, x))
    BY <2>1, <2>2, ActiveHoldsAppend DEF TypeOK
  <2>4. CASE b # a
    BY <1>1, <1>2, <2>3, <2>4 DEF Reserved, NewHold
  <2>5. CASE b = a
    <3>1. Reserved(a, NewHold(b, x)) = x
      BY <2>5 DEF Reserved, NewHold, IsActive
    <3>2. x <= PostedBalance(a, journal_entries') - ActiveHolds(a, holds)
      BY <2>1, <2>5 DEF Covers, AvailableBalance
    <3>3. /\ PostedBalance(a, journal_entries') <= TotalInflow(a, journal_entries')
          /\ PostedBalance(a, journal_entries') \in Int
      BY BalanceBelowInflow DEF TypeOK
    <3> QED BY <1>1, <2>2, <2>3, <3>1, <3>2, <3>3
  <2> QED BY <2>4, <2>5
<1>5. CASE SettlingStep
  BY <1>1, <1>2, <1>5, SettlingReleases
<1> QED BY <1>3, <1>4, <1>5 DEF LedgerStep, CreateAccount, vars

\* Nothing is held at the start.
LEMMA BackedInit == Init => HoldsBacked
<1> SUFFICES ASSUME Init, NEW a \in Chart
             PROVE  ActiveHolds(a, holds) <= TotalInflow(a, journal_entries)
  BY DEF HoldsBacked
<1>1. [i \in DOMAIN holds |-> IF holds[i].account = a /\ IsActive(holds[i]) THEN holds[i].amount ELSE 0] = <<>>
  BY DEF Init
<1>2. [i \in DOMAIN journal_entries |-> Inflow(a, journal_entries[i].lines)] = <<>>
  BY DEF Init
<1> QED BY <1>1, <1>2, TotalEmpty DEF ActiveHolds, TotalInflow

\* Active holds are covered by what was posted to the account at some time,
\* in every ledger, although refunds can take a balance below its holds.
THEOREM HoldsAreBacked == Spec => []HoldsBacked
<1>1. HoldsBacked /\ TypeOK /\ TypeOK' /\ [Next]_vars => HoldsBacked'
  BY NextSteps, BackedStep
<1> QED BY BackedInit, <1>1, TypeCorrect, PTL DEF Spec

-----------------------------------------------------------------------------
(* The accounting equation.                                                *)

OnAccounts(S, lines) == \A i \in DOMAIN lines : lines[i].account \in S

\* What the lines, and a whole journal, net on each account of S.
Nets(S, lines) == [a \in S |-> NetOn(a, lines)]
PostedNets(S, j) == [a \in S |-> NetPosted(a, j)]

LEMMA NetsType ==
  ASSUME NEW S \in SUBSET Chart
  PROVE  /\ \A lines \in Seq(Line) : Nets(S, lines) \in [S -> Int]
         /\ \A j \in Seq(Entry) : PostedNets(S, j) \in [S -> Int]
<1>1. ASSUME NEW lines \in Seq(Line) PROVE Nets(S, lines) \in [S -> Int]
  BY NetBelowInflow DEF Nets
<1>2. ASSUME NEW j \in Seq(Entry) PROVE PostedNets(S, j) \in [S -> Int]
  <2>1. ASSUME NEW a \in S PROVE NetPosted(a, j) \in Int
    <3>1. ASSUME NEW i \in DOMAIN j PROVE NetOn(a, j[i].lines) \in Int
      <4>1. j[i] \in Entry
        OBVIOUS
      <4> QED BY <4>1, NetBelowInflow DEF Entry
    <3>2. [i \in DOMAIN j |-> NetOn(a, j[i].lines)] \in Seq(Int)
      BY <3>1
    <3> QED BY <3>2, TotalType DEF NetPosted
  <2> QED BY <2>1 DEF PostedNets
<1> QED BY <1>1, <1>2

\* Over the accounts they are on, lines net what debits and credits differ by.
LEMMA NetOfLines ==
  ASSUME NEW S \in SUBSET Chart, IsFiniteSet(S), NEW lines \in Seq(Line), OnAccounts(S, lines)
  PROVE  SumFunction(Nets(S, lines)) = Debits(lines) - Credits(lines)
<1> DEFINE n   == Len(lines)
           d   == [i \in DOMAIN lines |-> lines[i].debit]
           c   == [i \in DOMAIN lines |-> lines[i].credit]
           m   == [i \in DOMAIN lines |-> lines[i].debit - lines[i].credit]
           cell(a, i) == IF lines[i].account = a THEN lines[i].debit - lines[i].credit ELSE 0
           row == [a \in S |-> [i \in DOMAIN lines |-> cell(a, i)]]
           col == [i \in 1 .. n |-> [a \in S |-> cell(a, i)]]
<1>1. \A i \in 1 .. n : lines[i].debit \in Int /\ lines[i].credit \in Int /\ lines[i].account \in S
  BY LineAmounts DEF OnAccounts
<1>2. /\ m \in Seq(Int) /\ Len(m) = n
      /\ d \in Seq(Int) /\ Len(d) = n
      /\ c \in Seq(Int) /\ Len(c) = n
  <2>1. m \in Seq(Int) /\ Len(m) = n
    BY <1>1
  <2>2. d \in Seq(Int) /\ Len(d) = n
    BY <1>1
  <2>3. c \in Seq(Int) /\ Len(c) = n
    BY <1>1
  <2> QED BY <2>1, <2>2, <2>3
<1>3. \A i \in 1 .. n : d[i] = m[i] + c[i]
  BY <1>1
<1>4. Total(d) = Total(m) + Total(c)
  <2> HIDE DEF d, m, c
  <2>1. Len(d) = Len(m) /\ Len(c) = Len(m)
    BY <1>2
  <2>2. AddUp(1 .. Len(m), m, c, d)
    BY <1>2, <1>3 DEF AddUp
  <2> QED BY <1>2, <2>1, <2>2, TotalPlus
<1>5. Total(m) \in Int /\ Total(c) \in Int
  BY <1>2, TotalType
<1>6. Total(m) = Debits(lines) - Credits(lines)
  <2> HIDE DEF m
  <2> QED BY <1>4, <1>5 DEF Debits, Credits
<1>7. \A a \in S : \A i \in 1 .. n : cell(a, i) \in Int
  BY <1>1
<1>8. Table(S, n, row, Nets(S, lines), col, m)
  <2>1. row \in [S -> Seq(Int)] /\ \A a \in S : Len(row[a]) = n
    BY <1>7
  <2>2. Nets(S, lines) \in [S -> Int]
    BY NetsType
  <2>3. \A a \in S : Nets(S, lines)[a] = Total(row[a])
    BY DEF Nets, NetOn
  <2>4. ASSUME NEW i \in 1 .. n
        PROVE  col[i] \in [S -> Int] /\ \A a \in S : col[i][a] = row[a][i]
    BY <1>7
  <2>5. ASSUME NEW i \in 1 .. n PROVE m[i] = SumFunction(col[i])
    <3> DEFINE k == [a \in S |-> cell(a, i)]
               y == lines[i].account
    <3>1. k \in [S -> Int] /\ y \in S /\ k[y] = m[i] /\ \A a \in S \ {y} : k[a] = 0
      BY <1>1
    <3> HIDE DEF k, y
    <3>2. SumFunction(k) = k[y]
      BY <3>1, SumOfOne
    <3> QED BY <3>1, <3>2 DEF k
  <2> HIDE DEF row, col, m
  <2> QED BY <1>2, <2>1, <2>2, <2>3, <2>4, <2>5 DEF Table
<1>9. n \in Nat
  OBVIOUS
<1> HIDE DEF row, col, m, n
<1> QED BY <1>6, <1>8, <1>9, SumOfTotals

\* The same for a journal all of whose lines are on accounts of S.
LEMMA NetOfJournal ==
  ASSUME NEW S \in SUBSET Chart, IsFiniteSet(S), NEW j \in Seq(Entry),
         \A i \in DOMAIN j : OnAccounts(S, j[i].lines)
  PROVE  SumFunction(PostedNets(S, j)) = SystemDelta(j)
<1> DEFINE n   == Len(j)
           c   == [i \in DOMAIN j |-> Debits(j[i].lines) - Credits(j[i].lines)]
           row == [a \in S |-> [i \in DOMAIN j |-> NetOn(a, j[i].lines)]]
           col == [i \in 1 .. n |-> Nets(S, j[i].lines)]
<1>1. ASSUME NEW i \in 1 .. n PROVE j[i].lines \in Seq(Line)
  <2>1. j[i] \in Entry
    OBVIOUS
  <2> QED BY <2>1 DEF Entry
<1>2. c \in Seq(Int) /\ Len(c) = n
  BY <1>1, LineTotals
<1>3. \A a \in S : \A i \in 1 .. n : NetOn(a, j[i].lines) \in Int
  BY <1>1, NetBelowInflow
<1>4. Table(S, n, row, PostedNets(S, j), col, c)
  <2>1. row \in [S -> Seq(Int)] /\ \A a \in S : Len(row[a]) = n
    BY <1>3
  <2>2. PostedNets(S, j) \in [S -> Int]
    BY NetsType
  <2>3. \A a \in S : PostedNets(S, j)[a] = Total(row[a])
    BY DEF PostedNets, NetPosted
  <2>4. ASSUME NEW i \in 1 .. n
        PROVE  col[i] \in [S -> Int] /\ \A a \in S : col[i][a] = row[a][i]
    BY <1>3 DEF Nets
  <2>5. ASSUME NEW i \in 1 .. n PROVE c[i] = SumFunction(col[i])
    BY <1>1, NetOfLines
  <2> HIDE DEF row, col, c
  <2> QED BY <1>2, <2>1, <2>2, <2>3, <2>4, <2>5 DEF Table
<1>5. n \in Nat
  OBVIOUS
<1>6. SystemDelta(j) = Total(c)
  BY DEF SystemDelta
<1> HIDE DEF row, col, c, n
<1> QED BY <1>4, <1>5, <1>6, SumOfTotals

\* What makes the equation hold: the ledger knows finitely many accounts, and
\* post_entry looked every account of a posted line up among them.
LinesOnAccounts ==
  /\ IsFiniteSet(accounts)
  /\ \A i \in DOMAIN journal_entries : OnAccounts(accounts, journal_entries[i].lines)

\* post_entry looks up every account of the lines it posts.
LEMMA OnAccountsStep ==
  ASSUME LinesOnAccounts, TypeOK, LedgerStep
  PROVE  LinesOnAccounts'
<1>1. CASE UNCHANGED <<accounts, journal_entries>>
  BY <1>1 DEF LinesOnAccounts, OnAccounts
<1>2. ASSUME NEW a \in Chart, CreateAccount(a) PROVE LinesOnAccounts'
  <2>1. IsFiniteSet(accounts \cup {a})
    BY FS_AddElement DEF LinesOnAccounts
  <2> QED BY <1>2, <2>1 DEF CreateAccount, LinesOnAccounts, OnAccounts
<1>3. CASE PostingStep /\ UNCHANGED accounts
  <2>1. CASE UNCHANGED journal_entries
    BY <1>3, <2>1 DEF LinesOnAccounts, OnAccounts
  <2>2. ASSUME NEW e \in Entry, AllExist(e.lines), journal_entries' = Append(journal_entries, e)
        PROVE  LinesOnAccounts'
    <3>1. journal_entries \in Seq(Entry)
      BY DEF TypeOK
    <3>2. ASSUME NEW i \in DOMAIN journal_entries'
          PROVE  OnAccounts(accounts, journal_entries'[i].lines)
      <4>1. CASE i \in DOMAIN journal_entries
        BY <2>2, <3>1, <4>1 DEF LinesOnAccounts
      <4>2. CASE i = Len(journal_entries) + 1
        BY <2>2, <3>1, <4>2 DEF AllExist, OnAccounts
      <4> QED BY <2>2, <3>1, <4>1, <4>2
    <3> QED BY <1>3, <3>2 DEF LinesOnAccounts, OnAccounts
  <2>3. \A type \in EntryTypes, key \in Keys, lines \in Seq(Line) :
          [type |-> type, key |-> key, lines |-> lines] \in Entry
    BY DEF Entry
  <2> QED BY <1>3, <2>1, <2>2, <2>3, PostingEffect
<1> QED BY <1>1, <1>2, <1>3 DEF LedgerStep, vars

\* The ledger starts with finitely many accounts and no lines.
LEMMA OnAccountsInit == Init => LinesOnAccounts
BY LedgerAssumption DEF Init, LinesOnAccounts

\* No posted line is on an account the ledger does not know.
THEOREM PostedLinesOnAccounts == Spec => []LinesOnAccounts
<1>1. LinesOnAccounts /\ TypeOK /\ [Next]_vars => LinesOnAccounts'
  BY NextSteps, OnAccountsStep
<1> QED BY OnAccountsInit, <1>1, TypeCorrect, PTL DEF Spec

\* The equation holds of any ledger whose lines are on known accounts.
LEMMA Equation ==
  ASSUME TypeOK, LinesOnAccounts
  PROVE  AccountingEquation
<1> DEFINE j  == journal_entries
           S  == accounts
           D  == {a \in S : DebitNormal(a)}
           b(a) == PostedBalance(a, j)
           all == PostedNets(S, j)
           debit  == [a \in S |-> IF a \in D THEN b(a) ELSE 0]
           credit == [a \in S |-> IF a \in D THEN 0 ELSE b(a)]
<1>1. j \in Seq(Entry) /\ S \in SUBSET Chart /\ IsFiniteSet(S)
  BY DEF TypeOK, LinesOnAccounts
<1>2. \A a \in S : b(a) \in Int
  BY <1>1, BalanceBelowInflow
<1>3. debit \in [S -> Int] /\ credit \in [S -> Int] /\ all \in [S -> Int]
  <2>1. debit \in [S -> Int] /\ credit \in [S -> Int]
    BY <1>2
  <2>2. all \in [S -> Int]
    BY <1>1, NetsType
  <2> QED BY <2>1, <2>2
<1>4. AddUp(S, all, credit, debit)
  <2> SUFFICES ASSUME NEW a \in S PROVE debit[a] = all[a] + credit[a]
    BY DEF AddUp
  <2>1. all[a] = NetPosted(a, j) /\ all[a] \in Int
    BY <1>3 DEF PostedNets
  <2> QED BY <2>1 DEF PostedBalance
<1>5. SumFunction(debit) = SumFunction(all) + SumFunction(credit)
  <2> HIDE DEF S, D, b, debit, all, credit
  <2> QED BY <1>1, <1>3, <1>4, SumPlus
<1>6. Restrict(debit, D) = [a \in D |-> b(a)] /\ Restrict(credit, S \ D) = [a \in S \ D |-> b(a)]
  BY DEF Restrict
<1>7. SumFunction(Restrict(debit, D)) = SumFunction(debit)
  <2>1. \A a \in S \ D : debit[a] = 0
    OBVIOUS
  <2> HIDE DEF debit
  <2> QED BY <1>1, <1>3, <2>1, SumSupport
<1>8. SumFunction(Restrict(credit, S \ D)) = SumFunction(credit)
  <2>1. \A a \in S \ (S \ D) : credit[a] = 0
    OBVIOUS
  <2> HIDE DEF credit
  <2> QED BY <1>1, <1>3, <2>1, SumSupport
<1>9. SumFunction(all) = SystemDelta(j)
  BY <1>1, NetOfJournal DEF LinesOnAccounts
<1>10. SumFunction(all) \in Int /\ SumFunction(credit) \in Int
  BY <1>1, <1>3, SumType
<1> HIDE DEF debit, credit, all
<1>11. SumFunction(debit) - SumFunction(credit) = SystemDelta(j)
  BY <1>5, <1>9, <1>10
<1> QED BY <1>6, <1>7, <1>8, <1>11 DEF AccountingEquation

\* In every reachable ledger: assets and expenses less liabilities and revenue
\* is what verify_system_balance reports, whatever was posted.
THEOREM EquationHolds == Spec => []AccountingEquation
<1>1. TypeOK /\ LinesOnAccounts => AccountingEquation
  BY Equation
<1> QED BY <1>1, TypeCorrect, PostedLinesOnAccounts, PTL

-----------------------------------------------------------------------------
(* The refinement of LedgerBook.                                           *)

\* What one more entry does to an account's net balance.
LEMMA NetAppend ==
  ASSUME NEW a \in Chart, NEW j \in Seq(Entry), NEW e \in Entry
  PROVE  /\ NetPosted(a, j) \in Int /\ NetOn(a, e.lines) \in Int
         /\ NetPosted(a, Append(j, e)) = NetPosted(a, j) + NetOn(a, e.lines)
<1> DEFINE s == [i \in DOMAIN j |-> NetOn(a, j[i].lines)]
<1>1. \A f \in Entry : NetOn(a, f.lines) \in Int
  BY NetBelowInflow DEF Entry
<1>2. s \in Seq(Int)
  BY <1>1
<1>3. [i \in DOMAIN Append(j, e) |-> NetOn(a, Append(j, e)[i].lines)] = Append(s, NetOn(a, e.lines))
  OBVIOUS
<1> QED BY <1>1, <1>2, <1>3, TotalType, TotalAppend DEF NetPosted

\* An account no line is on moves by nothing.
LEMMA NetElsewhere ==
  ASSUME NEW S \in SUBSET Chart, NEW lines \in Seq(Line), OnAccounts(S, lines), NEW a \in Chart \ S
  PROVE  NetOn(a, lines) = 0
<1> DEFINE s == [i \in DOMAIN lines |->
                   IF lines[i].account = a THEN lines[i].debit - lines[i].credit ELSE 0]
<1>1. \A i \in DOMAIN lines : s[i] = 0
  BY DEF OnAccounts
<1>2. s \in Seq(Int) /\ Len(s) = Len(lines)
  BY <1>1
<1>3. Total(s) = 0
  <2>1. \A i \in 1 .. Len(s) : s[i] = 0
    BY <1>1, <1>2
  <2> HIDE DEF s
  <2> QED BY <1>2, <2>1, TotalOfZeros
<1> QED BY <1>3 DEF NetOn

\* The balances an entry moves, which are those of known accounts, move by
\* amounts that add up to what the entry's debits and credits differ by.
LEMMA MovedBalances ==
  ASSUME NEW S \in SUBSET Chart, IsFiniteSet(S), NEW lines \in Seq(Line), OnAccounts(S, lines),
         NEW moved, moved = {a \in Chart : NetOn(a, lines) # 0}
  PROVE  /\ moved \subseteq S
         /\ SumFunction([a \in moved |-> NetOn(a, lines)]) = Debits(lines) - Credits(lines)
<1>1. moved \subseteq S
  BY NetElsewhere
<1>2. \A a \in S \ moved : Nets(S, lines)[a] = 0
  BY DEF Nets
<1>3. SumFunction(Restrict(Nets(S, lines), moved)) = SumFunction(Nets(S, lines))
  <2>1. Nets(S, lines) \in [S -> Int]
    BY NetsType
  <2> QED BY <1>1, <1>2, <2>1, SumSupport
<1>4. Restrict(Nets(S, lines), moved) = [a \in moved |-> NetOn(a, lines)]
  BY <1>1 DEF Restrict, Nets
<1> QED BY <1>1, <1>3, <1>4, NetOfLines

\* LedgerBook adds up with the same operator.
LEMMA SameSum == \A f : Book!SumFunction(f) = SumFunction(f)
BY DEF SumFunction, SumFunctionOnSet, FoldFunctionOnSet, MapThenFoldSet,
       Book!SumFunction, Book!SumFunctionOnSet, Book!FoldFunctionOnSet, Book!MapThenFoldSet

\* A posting is a Post of the book.
LEMMA PostingPosts ==
  ASSUME TypeOK, LinesOnAccounts, PostingStep, UNCHANGED accounts
  PROVE  Book!Post
<1> DEFINE net == [a \in Chart |-> NetPosted(a, journal_entries)]
           moved == {a \in Chart : net'[a] # net[a]}
           sum == SumFunction([a \in moved |-> net'[a] - net[a]])
<1>1. SUFFICES moved \subseteq accounts /\ sum \in -9 .. 9
  BY SameSum DEF Book!Post
<1>2. CASE UNCHANGED journal_entries
  <2>1. moved = {}
    BY <1>2
  <2>2. sum = 0
    <3> DEFINE f == [a \in moved |-> net'[a] - net[a]]
    <3>1. DOMAIN f = {} /\ f = [a \in DOMAIN f |-> f[a]]
      BY <2>1
    <3> HIDE DEF f
    <3>2. SumFunction(f) = 0
      BY <3>1, SumEmpty
    <3> QED BY <3>2 DEF f
  <2>3. 0 \in -9 .. 9
    OBVIOUS
  <2> HIDE DEF sum, moved
  <2> QED BY <2>1, <2>2, <2>3
<1>3. ASSUME NEW e \in Entry, AllExist(e.lines), Balanced(e.lines),
             journal_entries' = Append(journal_entries, e)
      PROVE  moved \subseteq accounts /\ sum \in -9 .. 9
  <2> DEFINE lines == e.lines
  <2>1. lines \in Seq(Line) /\ OnAccounts(accounts, lines)
    BY <1>3 DEF Entry, AllExist, OnAccounts
  <2>2. \A a \in Chart : net'[a] - net[a] = NetOn(a, lines) /\ (net'[a] # net[a] <=> NetOn(a, lines) # 0)
    <3> TAKE a \in Chart
    <3>1. /\ NetPosted(a, journal_entries) \in Int /\ NetOn(a, lines) \in Int
          /\ NetPosted(a, journal_entries') = NetPosted(a, journal_entries) + NetOn(a, lines)
      BY <1>3, NetAppend DEF TypeOK
    <3> QED BY <3>1
  <2>3. moved = {a \in Chart : NetOn(a, lines) # 0}
    BY <2>2
  <2>4. [a \in moved |-> net'[a] - net[a]] = [a \in moved |-> NetOn(a, lines)]
    BY <2>2
  <2>5. accounts \in SUBSET Chart /\ IsFiniteSet(accounts)
    BY DEF TypeOK, LinesOnAccounts
  <2> HIDE DEF moved, lines
  <2>6. /\ moved \subseteq accounts
        /\ SumFunction([a \in moved |-> NetOn(a, lines)]) = Debits(lines) - Credits(lines)
    BY <2>1, <2>3, <2>5, MovedBalances
  <2>7. Debits(lines) \in Int /\ Credits(lines) \in Int
    BY <2>1, LineTotals
  <2>8. Debits(lines) - Credits(lines) \in -9 .. 9
    <3>1. Cents(Debits(lines)) = Cents(Credits(lines))
      BY <1>3 DEF Balanced, lines
    <3>2. -9 <= Debits(lines) - Credits(lines) /\ Debits(lines) - Credits(lines) <= 9
      BY <2>7, <3>1, SameCents
    <3> QED BY <2>7, <3>2
  <2> QED BY <2>4, <2>6, <2>8
<1>4. \A type \in EntryTypes, key \in Keys, lines \in Seq(Line) :
        [type |-> type, key |-> key, lines |-> lines] \in Entry
  BY DEF Entry
<1> HIDE DEF net, moved, sum
<1> QED BY <1>2, <1>3, <1>4, PostingEffect

\* A step that leaves the journal alone posts nothing.
LEMMA NothingPosts ==
  ASSUME UNCHANGED journal_entries
  PROVE  Book!Post
<1> DEFINE net == [a \in Chart |-> NetPosted(a, journal_entries)]
           moved == {a \in Chart : net'[a] # net[a]}
           f == [a \in moved |-> net'[a] - net[a]]
<1>1. moved = {}
  OBVIOUS
<1>2. DOMAIN f = {} /\ f = [a \in DOMAIN f |-> f[a]]
  BY <1>1
<1> HIDE DEF f
<1>3. SumFunction(f) = 0
  BY <1>2, SumEmpty
<1>4. 0 \in -9 .. 9
  OBVIOUS
<1> QED BY <1>1, <1>3, <1>4, SameSum DEF Book!Post, f

\* Active holds never total less than nothing.
LEMMA ActiveHoldsNonnegative ==
  ASSUME NEW a \in Chart, NEW hs \in Seq(Hold)
  PROVE  0 <= ActiveHolds(a, hs)
<1> DEFINE s == [i \in DOMAIN hs |-> Reserved(a, hs[i])]
           zero == [i \in DOMAIN hs |-> 0]
<1>1. \A h \in Hold : Reserved(a, h) \in Int /\ 0 <= Reserved(a, h)
  BY DEF Reserved, Hold
<1>2. s \in Seq(Int) /\ ActiveHolds(a, hs) = Total(s)
  BY ActiveHoldsType
<1>3. zero \in Seq(Int) /\ Len(zero) = Len(s) /\ \A i \in 1 .. Len(zero) : zero[i] = 0
  OBVIOUS
<1>4. \A i \in 1 .. Len(zero) : zero[i] <= s[i]
  BY <1>1
<1> HIDE DEF s, zero
<1> QED BY <1>2, <1>3, <1>4, TotalOfZeros, TotalMonotone

\* A hold placed is a Reserve of the book: the balance covers it.
LEMMA PlacingReserves ==
  ASSUME TypeOK, TypeOK', PlacingStep
  PROVE  \E a \in Chart : Book!Reserve(a)
<1>1. PICK a \in Chart, x \in Nat \ {0} :
        Covers(a, x, journal_entries', holds) /\ holds' = Append(holds, NewHold(a, x))
  BY DEF PlacingStep
<1>2. NewHold(a, x) \in Hold /\ x \in Nat /\ x > 0 /\ holds \in Seq(Hold)
  BY LedgerAssumption DEF NewHold, Hold, Statuses, TypeOK
<1>3. \A b \in Chart : ActiveHolds(b, holds') = ActiveHolds(b, holds) + Reserved(b, NewHold(a, x))
  BY <1>1, <1>2, ActiveHoldsAppend
<1>4. Reserved(a, NewHold(a, x)) = x /\ \A b \in Chart \ {a} : Reserved(b, NewHold(a, x)) = 0
  BY DEF Reserved, NewHold, IsActive
<1>5. \A b \in Chart : ActiveHolds(b, holds) \in Int
  BY <1>2, ActiveHoldsType
<1>6. /\ ActiveHolds(a, holds') > ActiveHolds(a, holds)
      /\ \A b \in Chart \ {a} : ActiveHolds(b, holds') = ActiveHolds(b, holds)
  BY <1>2, <1>3, <1>4, <1>5
<1>7. ActiveHolds(a, holds') <= PostedBalance(a, journal_entries')
  <2>1. x <= PostedBalance(a, journal_entries') - ActiveHolds(a, holds)
    BY <1>1 DEF Covers, AvailableBalance
  <2>2. PostedBalance(a, journal_entries') \in Int
    BY BalanceBelowInflow DEF TypeOK
  <2> QED BY <1>2, <1>3, <1>4, <1>5, <2>1, <2>2
<1>8. PostedBalance(a, journal_entries') =
        IF a \in {b \in Chart : DebitNormal(b)} THEN NetPosted(a, journal_entries')
                                                ELSE -NetPosted(a, journal_entries')
  BY DEF PostedBalance
<1> QED BY <1>6, <1>7, <1>8 DEF Book!Reserve, Book!Balance

\* A hold captured or voided, or holds expired, are a Release of the book.
LEMMA SettlingReleasesBook ==
  ASSUME TypeOK, TypeOK', SettlingStep, UNCHANGED journal_entries
  PROVE  Book!Release
<1>1. ASSUME NEW a \in Chart
      PROVE  ActiveHolds(a, holds') \in 0 .. ActiveHolds(a, holds)
  <2>1. ActiveHolds(a, holds') <= ActiveHolds(a, holds)
    BY SettlingReleases
  <2>2. ActiveHolds(a, holds) \in Int /\ ActiveHolds(a, holds') \in Int /\ 0 <= ActiveHolds(a, holds')
    BY ActiveHoldsType, ActiveHoldsNonnegative DEF TypeOK
  <2> QED BY <2>1, <2>2
<1> QED BY <1>1 DEF Book!Release

\* A step of the ledger is a step of the book, or none.
LEMMA BookStep ==
  ASSUME TypeOK, TypeOK', LinesOnAccounts, LedgerStep
  PROVE  [Book!Next]_(Book!book)
<1>1. CASE UNCHANGED vars
  BY <1>1 DEF vars, Book!book
<1>2. ASSUME NEW a \in Chart, CreateAccount(a) PROVE Book!Next
  BY <1>2 DEF CreateAccount, Book!Next, Book!Open
<1>3. CASE PostingStep /\ UNCHANGED <<accounts, holds>>
  BY <1>3, PostingPosts DEF Book!Next
<1>4. CASE PostingStep /\ PlacingStep /\ UNCHANGED accounts
  BY <1>4, PostingPosts, PlacingReserves DEF Book!Next
<1>5. CASE PlacingStep /\ UNCHANGED <<accounts, journal_entries, idempotency_keys>>
  BY <1>5, NothingPosts, PlacingReserves DEF Book!Next
<1>6. CASE SettlingStep /\ UNCHANGED <<accounts, journal_entries, idempotency_keys>>
  BY <1>6, SettlingReleasesBook DEF Book!Next
<1> QED BY <1>1, <1>2, <1>3, <1>4, <1>5, <1>6 DEF LedgerStep

\* An empty ledger is an empty book.
LEMMA BookInit == Init => Book!Init
<1> SUFFICES ASSUME Init PROVE Book!Init
  OBVIOUS
<1>1. ASSUME NEW a \in Chart
      PROVE  NetPosted(a, journal_entries) = 0 /\ ActiveHolds(a, holds) = 0
  <2>1. /\ [i \in DOMAIN journal_entries |-> NetOn(a, journal_entries[i].lines)] = <<>>
        /\ [i \in DOMAIN holds |->
              IF holds[i].account = a /\ IsActive(holds[i]) THEN holds[i].amount ELSE 0] = <<>>
    BY DEF Init
  <2> QED BY <2>1, TotalEmpty DEF NetPosted, ActiveHolds
<1> QED BY <1>1 DEF Init, Book!Init

\* The ledger, entry by entry and hold by hold, does what the book promises:
\* every step is a posting to open accounts that cancels out to the cent, a
\* reservation the balance covers, a release, an opening, or no step at all.
THEOREM LedgerImplementsBook == Spec => ImplementsBook
<1>1. TypeOK /\ TypeOK' /\ LinesOnAccounts /\ [Next]_vars => [Book!Next]_(Book!book)
  BY NextSteps, BookStep
<1> QED BY BookInit, <1>1, TypeCorrect, PostedLinesOnAccounts, PTL DEF Spec, ImplementsBook, Book!Spec
=============================================================================
