-------------------------------- MODULE Ledger --------------------------------
(***************************************************************************)
(* The in-memory double-entry ledger of ledger_engine.py: LedgerEngine.    *)
(* One action per public mutating method, plus the passing of time that    *)
(* makes a hold stale.  A call that raises before it changed anything is a *)
(* disabled action; a call that raises after it changed something is part  *)
(* of the action (RecordUserTransfer).                                     *)
(*                                                                         *)
(* Money is counted in mills, a tenth of a cent, so that the ledger's      *)
(* rounding of totals to the cent (Cents) is visible.                      *)
(***************************************************************************)
EXTENDS Integers, Sequences, FiniteSetsExt, Functions, SeqSums

CONSTANTS
  Users, Employers, PSPs,  \* entities an account can belong to
  Bootstrap,       \* accounts that exist when the service starts
  Keys,            \* idempotency keys; they also bound the journal
  Amounts, Fees,   \* what callers pass, in mills
  ManualEntries,   \* lines handed directly to post_entry
  MaxHolds,        \* bound on the list of holds
  HoldTTL          \* ticks between a hold's created_at and expires_at

\* An account is its full_code: the account code and the entity, if any.
NoEntity   == "none"
Wallet(u)     == <<"user_wallet", u>>
Holding(e)    == <<"employer_funding_holding", e>>
Receivable(p) == <<"psp_receivable", p>>
Bank          == <<"bank_operating", NoEntity>>
FeeRevenue    == <<"platform_fee", NoEntity>>
FraudLosses   == <<"fraud_losses", NoEntity>>

Chart ==
  {Wallet(u) : u \in Users} \cup {Holding(e) : e \in Employers}
  \cup {Receivable(p) : p \in PSPs} \cup {Bank, FeeRevenue, FraudLosses}

\* ACCOUNT_TYPE_MAP, as far as it decides the sign of a balance: ASSET and
\* EXPENSE accounts are debit-normal, LIABILITY and REVENUE credit-normal.
DebitNormal(a) ==
  a[1] \in {"user_wallet", "employer_funding_holding", "psp_receivable",
            "bank_operating", "fraud_losses"}

Line    == [account : Chart, debit : Nat, credit : Nat]
Dr(a, x) == [account |-> a, debit |-> x, credit |-> 0]
Cr(a, x) == [account |-> a, debit |-> 0, credit |-> x]

EntryTypes == {"funding", "transfer", "refund", "chargeback", "correction"}
Entry      == [type : EntryTypes, key : Keys, lines : Seq(Line)]
Statuses   == {"active", "captured", "voided", "expired"}
Hold       == [account : Chart, amount : Nat, status : Statuses, age : 0 .. HoldTTL + 1]

ASSUME LedgerAssumption ==
  /\ Bootstrap \subseteq Chart /\ IsFiniteSet(Bootstrap)
  /\ Amounts \subseteq Nat \ {0}
  /\ Fees \subseteq Nat
  /\ \A lines \in ManualEntries : lines \in Seq([account : Chart, debit : Int, credit : Int])
  /\ MaxHolds \in Nat
  /\ HoldTTL \in Nat

VARIABLES
  accounts,         \* the set of full_codes in LedgerEngine.accounts
  journal_entries,  \* the list of posted entries; an entry_id is its position
  holds,            \* the list of holds; a hold_id is its position
  idempotency_keys  \* key |-> the entry posted under it

vars == <<accounts, journal_entries, holds, idempotency_keys>>

-----------------------------------------------------------------------------
(* Amounts and balances.                                                   *)

\* quantize(Decimal("0.01"), ROUND_HALF_UP) of a nonnegative amount of mills.
Cents(x) == (x + 5) \div 10

Debits(lines)  == Total([i \in DOMAIN lines |-> lines[i].debit])
Credits(lines) == Total([i \in DOMAIN lines |-> lines[i].credit])

\* What a list of lines, and a whole journal, debits account a with, net.
NetOn(a, lines) ==
  Total([i \in DOMAIN lines |->
    IF lines[i].account = a THEN lines[i].debit - lines[i].credit ELSE 0])

NetPosted(a, journal) == Total([i \in DOMAIN journal |-> NetOn(a, journal[i].lines)])

\* get_posted_balance
PostedBalance(a, journal) ==
  IF DebitNormal(a) THEN NetPosted(a, journal) ELSE -NetPosted(a, journal)

IsActive(h) == h.status = "active"

ActiveHolds(a, hs) ==
  Total([i \in DOMAIN hs |-> IF hs[i].account = a /\ IsActive(hs[i]) THEN hs[i].amount ELSE 0])

\* get_available_balance
AvailableBalance(a, journal, hs) == PostedBalance(a, journal) - ActiveHolds(a, hs)

\* verify_system_balance: the totals of all entries, what they differ by, and
\* whether they are the same to the cent, which is what it answers.
TotalDebits(journal)  == Total([i \in DOMAIN journal |-> Debits(journal[i].lines)])
TotalCredits(journal) == Total([i \in DOMAIN journal |-> Credits(journal[i].lines)])

SystemDelta(journal) ==
  Total([i \in DOMAIN journal |-> Debits(journal[i].lines) - Credits(journal[i].lines)])

SystemBalanced(journal) == Cents(TotalDebits(journal)) = Cents(TotalCredits(journal))

-----------------------------------------------------------------------------
(* Posting.                                                                *)

\* JournalEntryLine.__post_init__: no negative amount, and exactly one side.
WellFormedSigned(lines) == \A i \in DOMAIN lines : (lines[i].debit = 0) # (lines[i].credit = 0)

WellFormed(lines) ==
  \A i \in DOMAIN lines :
    /\ lines[i].debit >= 0 /\ lines[i].credit >= 0
    /\ (lines[i].debit = 0) # (lines[i].credit = 0)

\* JournalEntry._validate_balanced.  An empty list of lines raises as well.
Balanced(lines) == lines # <<>> /\ Cents(Debits(lines)) = Cents(Credits(lines))

NotChecked(lines) == TRUE

AllExist(lines) == \A i \in DOMAIN lines : lines[i].account \in accounts

NeverCached(key) == FALSE

Cached(key) == key \in DOMAIN idempotency_keys

\* post_entry for a key seen before: the caller gets the first entry back.
Upsert(type, key, lines) ==
  /\ journal_entries' = [journal_entries EXCEPT
       ![idempotency_keys[key]] = [type |-> type, key |-> key, lines |-> lines]]
  /\ UNCHANGED idempotency_keys

Replay(type, key, lines) == UNCHANGED <<journal_entries, idempotency_keys>>

\* post_entry for a fresh key.
Commit(type, key, lines) ==
  /\ AllExist(lines)
  /\ Balanced(lines)
  /\ journal_entries' = Append(journal_entries, [type |-> type, key |-> key, lines |-> lines])
  /\ idempotency_keys' = [k \in DOMAIN idempotency_keys \cup {key} |->
       IF k = key THEN Len(journal_entries) + 1 ELSE idempotency_keys[k]]

\* Building the lines, which the callers do before they call, and post_entry.
PostEntry(type, key, lines) ==
  /\ WellFormed(lines)
  /\ IF Cached(key) THEN Replay(type, key, lines) ELSE Commit(type, key, lines)

-----------------------------------------------------------------------------
(* Holds.                                                                  *)

NewHold(a, amount) == [account |-> a, amount |-> amount, status |-> "active", age |-> 0]

\* The test create_hold makes before it appends, on the balances of that moment.
CoversPosted(a, amount, journal, hs) == amount <= PostedBalance(a, journal)

Covers(a, amount, journal, hs) == amount <= AvailableBalance(a, journal, hs)

\* Callers pass an account they got from the ledger.
CreateHold(a, amount) ==
  /\ a \in accounts
  /\ Len(holds) < MaxHolds
  /\ Covers(a, amount, journal_entries, holds)
  /\ holds' = Append(holds, NewHold(a, amount))
  /\ UNCHANGED <<accounts, journal_entries, idempotency_keys>>

CaptureAny(i) ==
  /\ i \in DOMAIN holds
  /\ holds' = [holds EXCEPT ![i].status = "captured"]
  /\ UNCHANGED <<accounts, journal_entries, idempotency_keys>>

CaptureHold(i) ==
  /\ i \in DOMAIN holds /\ IsActive(holds[i])
  /\ holds' = [holds EXCEPT ![i].status = "captured"]
  /\ UNCHANGED <<accounts, journal_entries, idempotency_keys>>

VoidHold(i) ==
  /\ i \in DOMAIN holds /\ IsActive(holds[i])
  /\ holds' = [holds EXCEPT ![i].status = "voided"]
  /\ UNCHANGED <<accounts, journal_entries, idempotency_keys>>

\* Hold.is_expired; an age saturates at HoldTTL + 1.
NeverStale(h) == h.age > HoldTTL + 1 /\ IsActive(h)

Stale(h) == h.age > HoldTTL /\ IsActive(h)

ExpireStaleHolds ==
  /\ holds' = [i \in DOMAIN holds |->
       IF Stale(holds[i]) THEN [holds[i] EXCEPT !.status = "expired"] ELSE holds[i]]
  /\ UNCHANGED <<accounts, journal_entries, idempotency_keys>>

\* The clock the holds are compared with.  Only active holds have a use for it.
Tick ==
  /\ \E i \in DOMAIN holds : IsActive(holds[i]) /\ holds[i].age <= HoldTTL
  /\ holds' = [i \in DOMAIN holds |->
       IF IsActive(holds[i]) /\ holds[i].age <= HoldTTL
         THEN [holds[i] EXCEPT !.age = @ + 1] ELSE holds[i]]
  /\ UNCHANGED <<accounts, journal_entries, idempotency_keys>>

-----------------------------------------------------------------------------
(* Accounts and the transaction patterns.                                  *)

CreateAccount(a) ==
  /\ a \notin accounts
  /\ accounts' = accounts \cup {a}
  /\ UNCHANGED <<journal_entries, holds, idempotency_keys>>

PostManual(key, lines) ==
  /\ PostEntry("correction", key, lines)
  /\ UNCHANGED <<accounts, holds>>

RecordEmployerFunding(e, amount, key) ==
  /\ {Bank, Holding(e)} \subseteq accounts
  /\ PostEntry("funding", key, <<Dr(Bank, amount), Cr(Holding(e), amount)>>)
  /\ UNCHANGED <<accounts, holds>>

AllocateRounded(e, u, gross, fee, key) ==
  /\ {Holding(e), Wallet(u), FeeRevenue} \subseteq accounts
  /\ PostEntry("funding", key,
       <<Dr(Holding(e), gross), Cr(Wallet(u), 10 * Cents(gross - fee)), Cr(FeeRevenue, fee)>>)
  /\ UNCHANGED <<accounts, holds>>

AllocateToWallet(e, u, gross, fee, key) ==
  /\ {Holding(e), Wallet(u), FeeRevenue} \subseteq accounts
  /\ PostEntry("funding", key,
       <<Dr(Holding(e), gross), Cr(Wallet(u), gross - fee), Cr(FeeRevenue, fee)>>)
  /\ UNCHANGED <<accounts, holds>>

\* The entry stays posted if create_hold then refuses the hold.
RecordUserTransfer(u, amount, p, key) ==
  /\ {Wallet(u), Receivable(p)} \subseteq accounts
  /\ Len(holds) < MaxHolds
  /\ amount <= AvailableBalance(Wallet(u), journal_entries, holds)
  /\ PostEntry("transfer", key, <<Dr(Wallet(u), amount), Cr(Receivable(p), amount)>>)
  /\ holds' = IF Covers(Wallet(u), amount, journal_entries', holds)
                THEN Append(holds, NewHold(Wallet(u), amount)) ELSE holds
  /\ UNCHANGED accounts

RecordRefund(u, amount, p, key) ==
  /\ {Receivable(p), Wallet(u)} \subseteq accounts
  /\ PostEntry("refund", key, <<Dr(Receivable(p), amount), Cr(Wallet(u), amount)>>)
  /\ UNCHANGED <<accounts, holds>>

RecordChargeback(amount, p, key) ==
  /\ {FraudLosses, Receivable(p)} \subseteq accounts
  /\ PostEntry("chargeback", key, <<Dr(FraudLosses, amount), Cr(Receivable(p), amount)>>)
  /\ UNCHANGED <<accounts, holds>>

-----------------------------------------------------------------------------
Init ==
  /\ accounts = Bootstrap
  /\ journal_entries = <<>>
  /\ holds = <<>>
  /\ idempotency_keys = <<>>

Next ==
  \/ \E a \in Chart : CreateAccount(a)
  \/ \E k \in Keys, lines \in ManualEntries : PostManual(k, lines)
  \/ \E a \in Chart, x \in Amounts : CreateHold(a, x)
  \/ \E i \in DOMAIN holds : CaptureHold(i)
  \/ \E i \in DOMAIN holds : VoidHold(i)
  \/ ExpireStaleHolds
  \/ Tick
  \/ \E e \in Employers, x \in Amounts, k \in Keys : RecordEmployerFunding(e, x, k)
  \/ \E e \in Employers, u \in Users, x \in Amounts, f \in Fees, k \in Keys :
       AllocateToWallet(e, u, x, f, k)
  \/ \E u \in Users, x \in Amounts, p \in PSPs, k \in Keys : RecordUserTransfer(u, x, p, k)
  \/ \E u \in Users, x \in Amounts, p \in PSPs, k \in Keys : RecordRefund(u, x, p, k)
  \/ \E x \in Amounts, p \in PSPs, k \in Keys : RecordChargeback(x, p, k)

\* Time passes, and expire_stale_holds is run hourly.  Nobody has to call
\* anything else.
Fairness == WF_vars(Tick) /\ WF_vars(ExpireStaleHolds)

Spec == Init /\ [][Next]_vars /\ Fairness

-----------------------------------------------------------------------------
(* Properties.                                                             *)

\* Every variable has its type: lines are on accounts of the chart and carry
\* nonnegative amounts, holds have one of the four statuses.
TypeOK ==
  /\ accounts \subseteq Chart
  /\ journal_entries \in Seq(Entry)
  /\ holds \in Seq(Hold)
  /\ idempotency_keys \in [DOMAIN idempotency_keys -> Nat]
  /\ DOMAIN idempotency_keys \subseteq Keys

\* "Verify that total system debits equal total system credits.  This should
\* always be true" (ledger_engine.py:529): whatever has been posted,
\* verify_system_balance answers that the books are balanced.
SystemBalance == SystemBalanced(journal_entries)

\* What a manual entry is off by.
ManualError(e) == IF e.type = "correction" THEN Debits(e.lines) - Credits(e.lines) ELSE 0

\* What unbalances the books: each manual entry adds its own error, which
\* post_entry cannot see because it is below a cent, and the transaction
\* patterns nothing, with fees of a fraction of a cent or above the amount and
\* under keys that were used before.
ImbalanceIsManual ==
  LET error == [i \in DOMAIN journal_entries |-> ManualError(journal_entries[i])]
  IN  /\ SystemDelta(journal_entries) = Total(error)
      /\ \A i \in DOMAIN error : error[i] \in -9 .. 9

\* The accounting equation over the accounts the ledger knows: debit-normal
\* balances less credit-normal balances are the system's delta, so no posted
\* line is on an account get_posted_balance is never asked about.
AccountingEquation ==
  LET Sum(S) == SumFunction([a \in S |-> PostedBalance(a, journal_entries)])
      debitNormal == {a \in accounts : DebitNormal(a)}
  IN  Sum(debitNormal) - Sum(accounts \ debitNormal) = SystemDelta(journal_entries)

\* idempotency_keys and journal_entries stay in step: a key finds the one
\* entry posted under it, and every entry can be found by its key.
IdempotencyIndex ==
  /\ \A k \in DOMAIN idempotency_keys :
       /\ idempotency_keys[k] \in DOMAIN journal_entries
       /\ journal_entries[idempotency_keys[k]].key = k
  /\ \A i \in DOMAIN journal_entries :
       /\ journal_entries[i].key \in DOMAIN idempotency_keys
       /\ idempotency_keys[journal_entries[i].key] = i

\* Everything ever posted to the side of account a that raises its balance.
Inflow(a, lines) ==
  Total([i \in DOMAIN lines |->
    IF lines[i].account # a THEN 0 ELSE IF DebitNormal(a) THEN lines[i].debit ELSE lines[i].credit])

TotalInflow(a, journal) == Total([i \in DOMAIN journal |-> Inflow(a, journal[i].lines)])

\* Funds on hold were once in the account: whatever refunds and allocations
\* later take a balance below what is held, the active holds together never
\* reserve more than was ever posted to the account.
HoldsBacked ==
  \A a \in Chart : ActiveHolds(a, holds) <= TotalInflow(a, journal_entries)

\* A posted entry is never changed or removed, whatever is called later and
\* under whatever key ("entry is immutable once posted").
JournalAppendOnly ==
  [][\A i \in DOMAIN journal_entries :
       i \in DOMAIN journal_entries' /\ journal_entries'[i] = journal_entries[i]]_vars

\* A hold leaves "active" once and for all, keeps its account and amount, and
\* becomes "expired" only after its time to live: capture, void and the
\* expiry job cannot both settle the same hold.
HoldFinality ==
  [][\A i \in DOMAIN holds :
       /\ i \in DOMAIN holds'
       /\ holds'[i].account = holds[i].account /\ holds'[i].amount = holds[i].amount
       /\ ~ IsActive(holds[i]) => holds'[i] = holds[i]
       /\ IsActive(holds[i]) /\ holds'[i].status = "expired" => holds[i].age > HoldTTL]_vars

\* No hold reserves funds for ever: each one is captured, voided or expired.
HoldsResolve ==
  \A i \in 1 .. MaxHolds :
    i \in DOMAIN holds ~> (i \in DOMAIN holds /\ ~ IsActive(holds[i]))
=============================================================================
