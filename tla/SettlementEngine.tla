--------------------------- MODULE SettlementEngine ---------------------------
(***************************************************************************)
(* settlement_engine.py: how settled transactions are split, netted per    *)
(* user and batched.  Gross amounts are in mills, as a caller may pass     *)
(* fractions of a cent; everything the engine computes is in cents.        *)
(*                                                                         *)
(* A batch keeps the list it was created from, not a copy: the caller may  *)
(* go on collecting transactions in it, and the batch's transactions grow. *)
(***************************************************************************)
EXTENDS Money, Sequences, Functions, NachaGenerator

CONSTANTS
  Lists,            \* the lists callers collect settled transactions in
  Transactions,     \* the transactions that settle
  MaxTransactions,  \* bound on the transactions in all lists
  MaxBatches        \* bound on the batches

VARIABLES
  lists,   \* list |-> sequence of transactions, of the callers
  batches  \* of the engine, oldest first

settlement_vars == <<lists, batches>>

\* Rates are in hundredths of a percent.
Transaction ==
  [transaction_id : STRING, user_id : STRING, gross_amount : Nat, platform_fee_rate : Nat,
   psp_name : STRING, payout_method : STRING, is_high_risk : BOOLEAN]

ASSUME SettlementAssumption ==
  /\ Transactions \subseteq Transaction
  /\ MaxTransactions \in Nat /\ MaxBatches \in Nat

-----------------------------------------------------------------------------
(* Splits.                                                                 *)

\* ROUND_HALF_UP to whole cents, which rounds a negative half away from zero.
Rounded(x, unit) ==
  IF x >= 0 THEN (2 * x + unit) \div (2 * unit) ELSE - ((unit - 2 * x) \div (2 * unit))

ToCents(mills) == Rounded(mills, 10)
ShareOf(mills, rate) == Rounded(mills * rate, 100000)

\* PSP_FEE_SCHEDULE: rate and flat fee, in mills.
FeeSchedule(psp, method) ==
  CASE <<psp, method>> = <<"stripe", "ach">> -> [rate |-> 80, flat |-> 0]
    [] <<psp, method>> = <<"stripe", "instant">> -> [rate |-> 250, flat |-> 250]
    [] <<psp, method>> = <<"adyen", "ach">> -> [rate |-> 60, flat |-> 0]
    [] <<psp, method>> = <<"adyen", "card">> -> [rate |-> 250, flat |-> 250]
    [] <<psp, method>> = <<"adyen", "wire">> -> [rate |-> 0, flat |-> Dollars(5)]
    [] <<psp, method>> = <<"tabapay", "instant">> -> [rate |-> 150, flat |-> 0]
    [] OTHER -> [rate |-> 290, flat |-> 300]  \* stripe's cards, and the default

\* The user receives what the rounded fees leave of the gross amount.
Remainder(gross, fees) == ToCents(gross - 10 * fees)

Split(t) ==
  LET schedule == FeeSchedule(t.psp_name, t.payout_method)
      platform == ShareOf(t.gross_amount, t.platform_fee_rate)
      psp == Rounded(t.gross_amount * schedule.rate + 10000 * schedule.flat, 100000)
      holdback == IF t.is_high_risk THEN ShareOf(t.gross_amount, 500) ELSE 0
  IN  [transaction_id |-> t.transaction_id, gross_amount |-> t.gross_amount,
       platform_fee |-> platform, psp_fee |-> psp, holdback_amount |-> holdback,
       user_receives |-> Remainder(t.gross_amount, platform + psp + holdback)]

TotalAllocated(split) ==
  split.platform_fee + split.psp_fee + split.user_receives + split.holdback_amount

\* validate, which may raise: a negative remainder of half a cent is rounded
\* the other way than the gross amount.
Valid(split) == ToCents(split.gross_amount) = TotalAllocated(split)

-----------------------------------------------------------------------------
(* Netting.                                                                *)

\* txn_map keeps the last transaction of an id.
LookUp(list, id) ==
  list[CHOOSE i \in DOMAIN list :
         /\ list[i].transaction_id = id
         /\ \A k \in DOMAIN list : list[k].transaction_id = id => k <= i]

UserOf(list, splits, i) == LookUp(list, splits[i].transaction_id).user_id

\* What one split adds to the totals of its user.
Share(split) ==
  [count |-> 1, gross |-> split.gross_amount, fees |-> split.platform_fee + split.psp_fee,
   holdback |-> split.holdback_amount, net |-> split.user_receives]

Kinds == {"count", "gross", "fees", "holdback", "net"}
Zero  == [k \in Kinds |-> 0]

SetTo(totals, split) ==
  [k \in Kinds |-> IF k = "net" THEN split.user_receives ELSE totals[k] + Share(split)[k]]

AddTo(totals, split) == [k \in Kinds |-> totals[k] + Share(split)[k]]

\* user_totals is a dictionary: its users in the order they were first seen.
AfterLast(user_totals, user, split) ==
  LET n == Len(user_totals)
  IN  IF n > 0 /\ user_totals[n].user = user
        THEN [user_totals EXCEPT ![n].totals = AddTo(@, split)]
        ELSE Append(user_totals, [user |-> user, totals |-> AddTo(Zero, split)])

AfterSplit(user_totals, user, split) ==
  IF \E n \in DOMAIN user_totals : user_totals[n].user = user
    THEN [n \in DOMAIN user_totals |->
            IF user_totals[n].user = user
              THEN [user_totals[n] EXCEPT !.totals = AddTo(@, split)] ELSE user_totals[n]]
    ELSE Append(user_totals, [user |-> user, totals |-> AddTo(Zero, split)])

\* user_totals before the loop over the splits, and after each of them.
UserTotals(list, splits) ==
  LET after[i \in 0 .. Len(splits)] ==
        IF i = 0 THEN <<>> ELSE AfterSplit(after[i - 1], UserOf(list, splits, i), splits[i])
  IN  after

NetPosition(entry) ==
  [user_id |-> entry.user, transaction_count |-> entry.totals["count"],
   gross_total |-> ToCents(entry.totals["gross"]), fees_total |-> entry.totals["fees"],
   holdback_total |-> entry.totals["holdback"], net_payout |-> entry.totals["net"]]

NetPositions(list, splits) ==
  LET user_totals == UserTotals(list, splits)[Len(splits)]
  IN  [n \in DOMAIN user_totals |-> NetPosition(user_totals[n])]

-----------------------------------------------------------------------------
(* The engine's methods, and what its callers do with their lists.         *)

Collect(l, t) ==
  /\ SumFunction([m \in Lists |-> Len(lists[m])]) < MaxTransactions
  /\ lists' = [lists EXCEPT ![l] = Append(@, t)]
  /\ UNCHANGED batches

CreateBatch(l) ==
  LET splits == [i \in DOMAIN lists[l] |-> Split(lists[l][i])]
  IN  /\ Len(batches) < MaxBatches
      /\ lists[l] # <<>>
      /\ \A i \in DOMAIN splits : Valid(splits[i])
      /\ batches' = Append(batches,
           [transactions |-> l, splits |-> splits,
            net_positions |-> NetPositions(lists[l], splits), status |-> "created"])
      /\ UNCHANGED lists

SubmitBatch(b) ==
  /\ batches[b].status = "created"
  /\ batches' = [batches EXCEPT ![b].status = "submitted"]
  /\ UNCHANGED lists

ConfirmAny(b) ==
  /\ batches[b].status # "confirmed"
  /\ batches' = [batches EXCEPT ![b].status = "confirmed"]
  /\ UNCHANGED lists

ConfirmBatch(b) ==
  /\ batches[b].status = "submitted"
  /\ batches' = [batches EXCEPT ![b].status = "confirmed"]
  /\ UNCHANGED lists

SettlementInit == lists = [l \in Lists |-> <<>>] /\ batches = <<>>

SettlementNext ==
  \/ \E l \in Lists, t \in Transactions : Collect(l, t)
  \/ \E l \in Lists : CreateBatch(l)
  \/ \E b \in DOMAIN batches : SubmitBatch(b)
  \/ \E b \in DOMAIN batches : ConfirmBatch(b)

SettlementSpec == SettlementInit /\ [][SettlementNext]_settlement_vars

-----------------------------------------------------------------------------
(* What is read off a batch.                                               *)

OfPositions(batch, field) ==
  Total([n \in DOMAIN batch.net_positions |-> batch.net_positions[n][field]])

OfSplits(batch, kind) == Total([i \in DOMAIN batch.splits |-> Share(batch.splits[i])[kind]])

TotalNetPayout(batch) == OfPositions(batch, "net_payout")

\* The totals of get_batch_summary: the gross amount is that of the list now.
GrossNow(batch) ==
  Total([i \in DOMAIN lists[batch.transactions] |-> lists[batch.transactions][i].gross_amount])

\* An entry of generate_nacha_summary gives its amount as a Decimal of dollars,
\* so the cents of a position are the hundredths of that amount.
Paid(position) == NachaEntry(position.user_id, position.net_payout)

WithEach(entries, position) == Append(entries, Paid(position))

WithPositive(entries, position) ==
  IF position.net_payout > 0 THEN Append(entries, Paid(position)) ELSE entries

\* generate_nacha_summary, whose entries become the entries of an ACH file:
\* the entries after each of the positions.
PayoutsUpTo(positions) ==
  LET upTo[n \in 0 .. Len(positions)] ==
        IF n = 0 THEN <<>> ELSE WithPositive(upTo[n - 1], positions[n])
  IN  upTo

Payouts(batch) == PayoutsUpTo(batch.net_positions)[Len(batch.net_positions)]

-----------------------------------------------------------------------------
(* Properties.                                                             *)

\* Every split hands out its gross amount but for half a cent.
SplitsAreWhole ==
  \A b \in DOMAIN batches : \A i \in DOMAIN batches[b].splits :
    Distance(10 * TotalAllocated(batches[b].splits[i]), batches[b].splits[i].gross_amount) <= 5

\* Netting neither creates nor loses money, with negative shares, repeated ids
\* and users in any order: the positions carry the splits' counts, fees,
\* holdbacks and payouts, the splits are whole, and as long as nobody has added
\* to the list since, the summary's numbers add up but for half a cent each.
MoneyConserved ==
  \A b \in DOMAIN batches :
    LET batch == batches[b]
        fees == OfPositions(batch, "fees_total")
        held == OfPositions(batch, "holdback_total")
        count == Len(batch.splits)
    IN  /\ SplitsAreWhole
        /\ OfPositions(batch, "transaction_count") = count
        /\ fees = OfSplits(batch, "fees")
        /\ held = OfSplits(batch, "holdback")
        /\ TotalNetPayout(batch) = OfSplits(batch, "net")
        /\ Len(lists[batch.transactions]) = count =>
             Distance(10 * (fees + held + TotalNetPayout(batch)), GrossNow(batch)) <= 5 * count

\* Users get the money of their own transactions, in one position each, if no
\* id occurs twice in the batch.
OwnMoneyOnly ==
  \A b \in DOMAIN batches :
    LET splits == batches[b].splits
        positions == batches[b].net_positions
        list == lists[batches[b].transactions]
        unique == \A i, k \in DOMAIN splits :
                    splits[i].transaction_id = splits[k].transaction_id => i = k
    IN  /\ \A n, k \in DOMAIN positions : positions[n].user_id = positions[k].user_id => n = k
        /\ unique => \A n \in DOMAIN positions :
             positions[n].net_payout =
               Total([i \in DOMAIN splits |->
                 IF list[i].user_id = positions[n].user_id THEN splits[i].user_receives ELSE 0])

\* What a batch owes: its positive positions.
Owed(batch) ==
  Total([n \in DOMAIN batch.net_positions |->
    IF batch.net_positions[n].net_payout > 0 THEN batch.net_positions[n].net_payout ELSE 0])

\* The file of the batches a caller chose, and what those owe.
FileOf(chosen) == GenerateFile([i \in DOMAIN chosen |-> Payouts(batches[chosen[i]])])
OwedBy(chosen) == Total([i \in DOMAIN chosen |-> Owed(batches[chosen[i]])])

\* A file made from the summaries of any batches, in any order, credits the
\* dollars they owe, though its records mean cents: it debits nobody, nobody
\* with a negative position takes from the others, and what it drops is less
\* than a dollar of each entry.  Its totals are those of the control records of
\* its batches, and it announces as many records as it has.
FileTotals ==
  \A n \in 0 .. MaxBatches : \A chosen \in [1 .. n -> DOMAIN batches] :
    LET file == FileOf(chosen)
        entries == Total([i \in 1 .. n |-> file.controls[i].entry_count])
        dropped == OwedBy(chosen) - 100 * file.total_credits
    IN  /\ file.total_debits = 0
        /\ 0 <= dropped /\ dropped <= 99 * entries
        /\ file.total_credits = Total([i \in 1 .. n |-> file.controls[i].credit_total])
        /\ file.record_count = 2 + 2 * file.batch_count + entries

Fixed(batch) == <<batch.transactions, batch.splits, batch.net_positions>>
StatusRank == [created |-> 1, submitted |-> 2, confirmed |-> 3]

\* A batch goes from created over submitted to confirmed, one step at a time,
\* and what it pays is fixed when it is created, whatever the callers do with
\* their lists.
BatchesProgress ==
  [][\A b \in DOMAIN batches :
       /\ b \in DOMAIN batches'
       /\ Fixed(batches'[b]) = Fixed(batches[b])
       /\ StatusRank[batches'[b].status] - StatusRank[batches[b].status] \in {0, 1}]_settlement_vars
=============================================================================
