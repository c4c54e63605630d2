# Formal models of the fintech operations platform

TLA+ modules that model the platform's Python services and jobs, TLC
configurations that check them on small instances, and TLAPS proofs of what
holds for every instance.  Paths are relative to the repository (`src/…` here
is the repository's root, so the Python packages are under `src/src/`).

## 1. The system

| Component | State it keeps | Operations |
|---|---|---|
| Ledger engine, `src/src/ledger/ledger_engine.py` | accounts, journal entries, holds, idempotency index | create accounts, post entries, four transaction patterns, place / capture / void / expire holds, balances |
| Transaction API, `src/api/app.py` | global instances of the services, idempotency store, audit log | `POST /transactions` and read endpoints |
| Fraud detector, `src/src/fraud/fraud_detector.py` | block- and allowlist, decision log | evaluate a transaction context |
| Compliance checker, `src/src/compliance/compliance_checker.py` | KYC records, frozen accounts, event log, alerts, SARs | limit checks, KYC approval, OFAC screening, monitoring |
| Payment orchestrator, `src/src/payments/payment_orchestrator.py` | circuit breaker and health score per processor | route, retry and fail over a payment |
| Settlement engine, `src/src/settlement/settlement_engine.py` and `nacha_generator.py` | batches | split, net, submit, confirm |
| Settlement job, `src/trigger-jobs/settlement_batch.ts` | rows of `settlement_batches`, `nacha_batches`, `journal_entries` | the daily batch, in stages with awaits between them |
| Reconciliation engine and job, `src/src/reconciliation/reconciliation_engine.py`, `src/trigger-jobs/reconciliation_run.ts` | runs, matches, exceptions | three-phase matching of ledger, processor and bank records |
| Stripe Connect, `src/stripe/connect_integration.py` | none of its own | wrappers around a vendor's API, webhooks that log |
| Schema, dbt, data quality, n8n, e-mails, dashboards, demo | tables, reports | no behaviour of their own |

**How they interact.**  The API calls fraud detector, compliance checker and
ledger synchronously, on objects shared by the whole process; the client's
idempotency key is the key of the API's store and of the ledger's index as
well.  The API does not call the payment orchestrator; the documents describe
it as asynchronous, run by workers.  The settlement and reconciliation jobs
meet the rest through database tables only, and are started by cron triggers
in n8n, which may start them again.

**What is hard.**  *Partial failure*: `create_transaction` posts an entry
before it knows that the hold is possible.  *Retries*: two idempotency stores,
a ledger operation with a second effect (the hold) that the index does not
cover, retries across processors that do not share keys.  *Interleaving*:
workers on shared circuit breakers, expiry against capture, two settlement
runs on one day or one night.  *Time*: holds, verifications and circuit
breakers change their meaning without anybody calling anything.  *Stale
lists*: a settlement batch keeps its caller's list itself, the matcher goes on
searching a list of records it has taken from since.  *Order*: matching is
greedy, and its counters follow matches whose status changes twice.
*Numbers*: totals compared after rounding, shares that are remainders of
rounded fees, amounts in dollars handed on as cents.  `PROJECT.json` lists the hazards with their lines; one that no
property covers says why.

**What makes each component correct.**

* Ledger: nothing but a manual entry can unbalance the books; keys and entries stay in step; posted entries never
  change; holds are covered when placed, backed by what was posted, and
  settled once.
* API: one hold per accepted answer, and one audit record and one fraud
  decision for every answer; answers stand; no new money for users who are
  blocklisted, frozen or not verified.
* Compliance, fraud: every freeze, every decision is on record; alerts and
  their events differ only by what a monitoring call that raised has logged.
* Payments: a success was executed, where the routing allows it; circuits open
  and close as documented; calls return; no payment is executed twice.
* Settlement: each transfer is paid out once; a batch ends in a state that
  says what happened; splits add up; a file leaves out nobody who is owed money.
* Reconciliation: no record is paired twice; the counts add up; a report that
  looks finished is complete.

## 2. Modules

| Module | What it is |
|---|---|
| `SeqSums` | sums of integer sequences, as a recursive *function* so that it can be proved about |
| `SeqSumsProofs` | what sums over sequences and over finite sets are, how often a list holds an element of a set, and how to reason by induction over prefixes, subsets and the rounds of a loop |
| `Ledger` | `LedgerEngine`, one action per mutating method, and what its balances and `verify_system_balance` answer |
| `LedgerBook` | the abstract promise: balances and held amounts, no entries, keys or hold list |
| `LedgerRefinement` | the refinement mapping under which `Ledger` implements `LedgerBook` |
| `LedgerProofs` | theorems of `Ledger`, the refinement among them |
| `MCLedger`, `MCTransfers` | instances of `Ledger` for TLC |
| `Money` | the unit of money, and how far two amounts are apart |
| `FraudDetector`, `ComplianceChecker` | the two services, one operator per operation; instantiated by the API |
| `TransactionApi` | `POST /transactions` composed with `Ledger`, `FraudDetector`, `ComplianceChecker` |
| `TransactionApiProofs` | theorems of `TransactionApi`, on top of `LedgerProofs` |
| `MCTransactionApi` | its instance for TLC |
| `CircuitBreaker` | the breaker of one processor, as operators on its record |
| `PaymentOrchestrator` | workers in `process_payment`, on shared breakers and scores |
| `PaymentOrchestratorProofs` | theorems of `PaymentOrchestrator` and lemmas about the breaker |
| `MCPayments` | its instances for TLC |
| `SettlementJob` | overlapping runs of the daily job, the tables they share, and the bank |
| `SettlementJobProofs` | theorems of `SettlementJob` |
| `NachaGenerator` | the control totals and counts of an ACH file, as operators |
| `SettlementEngine` | the callers' lists and the engine's batches, composed with `NachaGenerator` |
| `SettlementEngineProofs` | theorems of `SettlementEngine` |
| `MCSettlement` | both implementations of settlement for TLC, one or the other |
| `ReconciliationEngine` | `run_reconciliation` of the Python engine, loop by loop |
| `ReconciliationEngineProofs` | theorems of `ReconciliationEngine` |
| `ReconciliationJob` | overlapping runs of the nightly TypeScript job, with a matching of its own |
| `ReconciliationJobProofs` | theorems of `ReconciliationJob` |
| `MCReconciliation` | both for TLC, one or the other |

A few operators are used by no action: variants of the operators next to them
that drop a guard, swap an order or forget half of an update.  They are the mutations
under `mutants` in `PROJECT.json`, each of which breaks the property named
there.

### Ledger

State corresponds one to one: `accounts`, `journal_entries`, `holds`,
`idempotency_keys` are the attributes of the same names.  An entry or hold id
is its position in its list.  Money is counted in mills (a tenth of a cent) so
that the rounding in `_validate_balanced` and `verify_system_balance` shows:
`Cents` is `quantize("0.01", ROUND_HALF_UP)`.  `SystemBalanced` is the answer
of `verify_system_balance`, which compares the totals of *all* entries after
rounding them once, while `post_entry` rounds those of *each* entry: errors
below a cent that no entry shows add up.  A method that raises before
changing anything is a disabled action.  A method that raises after it changed
something is part of the action: `RecordUserTransfer` keeps the posted entry
if `create_hold` refuses.  (The model also shows that it never does there: the
posting raises the available balance it tests.)  `PostEntry` is what
`post_entry` does, including that the lines are validated by their
constructor *before* the key is looked up, so an ill-formed retry raises.

`hold.age` replaces `created_at`/`expires_at`: `Tick` is the clock, and an age
beyond `HoldTTL` is as good as any.  Descriptions, metadata, entity types and
account classes other than the sign of their balance are left out.

### TransactionApi

The handler has no `await`, so one request is one action,
`CreateTransaction`.  Its disjuncts are the handler's exits: answered from the
cache, refused by compliance (HTTP 400), declined by the fraud rules (answered
as `failed`), accepted (`pending` or `pending_review`), and refused by
`create_hold` after the entry was posted (HTTP 400, the entry stays).  The
profile and the totals it passes on are constants of the code and of the
model.  Between requests the back office opens and funds wallets, approves
verifications, screens users, edits the lists and settles holds through the
services' own methods; it uses keys of its own (`OpsKeys`).  The expiry of
holds is left to the `ledger` run.  `hold_transactions` is the
`transaction_id` field of the holds, kept beside `holds` so that `Ledger`
needs no change.

Monitoring (`Monitor`) is part of the composition too.  The thirty days it
looks at are an input, as they are in the code: a *history* with the totals in
and out, the average month, the week's amounts and whether a location differs.
`Created` has the alerts in the order the code tries its five rules; each is
logged at once, and they join the list together at the end.  Structuring, the
second rule, raises when the week has an amount that is no number (a
*malformed* history): what the first rule logged stays in the log, the other
rules are not tried, and nothing joins the list.  An event that belongs to an
alert carries it.  A verification may be of tier `none`, which `approve_kyc`
accepts and the limit check refuses.

### PaymentOrchestrator

`process_payment` is cut where it leaves the process: before each call of a
processor and during the sleeps between retries.  `NextPsp` is the head of the
loop over processors (`can_execute`, with its change to HALF_OPEN, then the
test of the method), `Attempt` one round of `_execute_with_retry`,
`RecordSuccess`/`RecordFailure` the updates of breaker and score after it,
`GiveUp` the answer when both processors are exhausted.  Several workers share
one orchestrator, as the API replicas and asynchronous payment execution of
the documents suggest (`docs/ARCHITECTURE.md:1117`, `README.md:128`); the
lines between two calls of a processor run without a switch to another worker.
The processors are external: they execute a payment at most once per
idempotency key, an answer may be lost after they did, and they may answer
`pending`.  The health score is an average over an hour of results; from one
result to the next it may fall on either side of 0.8, so `RecordResult` is a
choice.  Times are ages in ticks.

### SettlementJob

One action per `await` of the job's `run`, in the order of its checkpoints,
and one for its catch block.  A run's record holds the locals that outlive an
await: the batch id, the fetched transactions, the polls made.  The tables are
functions from the batch id, which is a day and the primary key: an INSERT of
a row that exists raises.  Whatever a run awaits may raise without effect
(`Raises`), or take effect without its answer arriving (`Continue`), and lead
to the catch block; or the worker dies (`Die`).  The catch block updates the
row of the day whoever inserted it, so a run that lost the race for the INSERT
marks the winner's batch as failed, and the winner goes on.

The bank is external, modelled from `submitToBank` and
`waitForBankAcknowledgment`: it keeps the first file under an idempotency key,
and acknowledges or rejects it at any later time or never.  Positions, fees
and the NACHA text are left out: the file is the set of its transfers.  No
code sets a time zone, so days are UTC days, both for `batch_id` and for
`posted_at::date`.

`AcceptsDoubleSet` says whether the database takes the UPDATE of stage 7,
which assigns `metadata` twice.  PostgreSQL does not, and the run
`settlement_never_settles` shows what follows.  The other run sets it, so that
what lies behind that statement is examined too; a database that refuses the
statement shows a subset of that run's behaviours, because there it may also
raise.

### SettlementEngine and NachaGenerator

Gross amounts are in mills, what the engine computes is in cents, and
`Rounded` is `quantize` with ROUND_HALF_UP, away from zero for negative
numbers.  `Split` is `calculate_split`; a batch with a split that does not
validate is not created, since the constructor raises.  A batch holds the
*name* of its caller's list, because the code stores the list itself: after
`CreateBatch` the caller may `Collect` more, and the batch's gross total, which
is computed when it is read, grows while its splits and positions stay.
`NetPositions` goes through the splits as the loop does: `UserTotals` is the
dictionary after each of them, kept in the order of its users, and `UserOf`
the user that `txn_map` finds for a split's transaction id, the last one of
that id.

An ACH file is a value made from entries.  Every position that
`generate_nacha_summary` lists becomes a credit by way of
`create_sample_nacha_batch`.  The summary gives the amount as a Decimal of
dollars, the entry takes `int()` of it and means cents: `WholeOf` drops the
fraction, and the unit is lost.  The demo multiplies by 100 before it makes its
one entry.  `FileTotals` puts the positions of any
choice of batches into one file and reads the credits as the dollars they are,
so that what is right about a file can still be said: nobody is debited,
nobody is left out, and a fraction of a dollar is all that is dropped.  The fixed-width layout, the
entry hash and the account digits are left out.

### ReconciliationEngine

The inputs are three lists; ledger and bank records are known by their
positions, processor records by id, which may repeat.  A step is one iteration
of one of the loops, in the order of `run_reconciliation`: `exact`, `fuzzy`,
`netting`, `resolve`, `except`, `done`.  `todo` is what is left of the loop,
`pool` the list computed before it, which the code does not refresh: in the
fuzzy loop the test against `matched_psp` makes up for that, in the netting
loop nothing does.  `First` takes the first record that fits, as the loops do.

### ReconciliationJob

The job does not use the engine.  One action per `await` of its `run` and one
for the catch block; every INSERT of a match or an exception is an await of
its own, so a run may end between two of them.  `MatchedRows` is what the
synchronous part computes from the fetched records.  The nested loops are
passes (`Partners`) over the positions of the outer list, each of which takes
the first free record of the inner one (`TakeFirst`); two passes over one
function of partners are the exact and the fuzzy loop, and `Pushed` makes the
rows of a loop.  A run has an id of its
own for each trigger, so runs never share rows, but a retried trigger reports
the same night again.  Statements may raise with or without effect, the worker
may die, and the catch block only sets `completed_at`: nothing but the missing
rate tells a failed run from a finished one.  Queries and the clock are
external: the records of the night are fixed, the bank's statement grows.

## 3. Runs

| Run | Question | Bounds |
|---|---|---|
| `ledger` | do books, index and holds stay consistent, and does `Ledger` implement `LedgerBook`? | 1 user, employer and processor; 2 keys (so 2 entries, each retried in any form); 2 holds; a fee below the amount, with a fraction of a cent, and one above it; manual entries with and without a rounding error and one unbalanced |
| `ledger_balance` | *violated*: `verify_system_balance` always succeeds | same, without holds |
| `ledger_retry` | *violated*: a retried transfer has one hold | same, with transfers only |
| `ledger_double_spend` | *violated*: holds stop a second transfer of the same funds | same |
| `api` | do idempotency store, audit log, decision log, compliance log, alerts, holds and journal tell the same story? | 1 user; 2 request keys and 1 back-office key; 3 requests past the cache; 2 compliance events before the last; an amount that is approved and one that is reviewed; 4 histories: no rule, four rules, one rule with others at their boundary, and one that raises after the first rule |
| `api_partial` | *violated*: every posted transfer has its hold | 2 requests past the cache |
| `payments` | successes, routing, circuits, termination with workers interleaved | 2 workers, 2 processors, a card payment and a wire, 2 attempts, threshold 2, 3 calls |
| `payments_double_charge` | *violated*: one processor executes a payment | real defaults: 3 attempts, threshold 5 |
| `payments_half_open` | *violated*: a failed test reopens the circuit | real defaults; a tick is 30 seconds: window 2, cooldown 1 |
| `settlement` | job: payment once, ownership of batches, what is called settled, batches decided, runs ended; engine: is money conserved by splitting and netting, does a file credit the dollars owed, does a batch stay what it was? | job: 2 runs, 2 transfers, 2 days, 2 polls, with faults; engine: 2 lists, 3 transactions of 6 kinds, 2 batches |
| `settlement_never_settles` | *violated*: a run with the bank's acknowledgement settles its transfers | the job as above, without faults, on a database that refuses the UPDATE |
| `reconciliation` | engine: is nothing paired twice, do the counters fit the matches, is greedy good enough? job: are reports that look finished complete? | engine: every choice of at most 2 ledger records of 5 kinds, 3 processor records of 3 kinds, 2 bank records of 3 kinds; job: 2 runs, 3 nights, 2 deposits, with faults |

**Why the bounds are enough.**  *Ledger*: its properties relate a key and its
entry, or a hold and the postings on its account; two keys give a fresh and a
repeated posting in every combination, two holds give the second hold that
must be judged with the first one placed.  *API*: the interesting histories
are refuse, change something, retry, and a second request in between: three
processed requests and two keys.  Its properties relate logs of one user each;
a second user makes the run too long and adds nothing to them, and the
theorems hold for any number.  *Payments*: with two attempts a worker's call
spans the other's failures; threshold 2 makes both the opening failure and the
one before it happen; three calls let a circuit open, rest, be tested and
close.  `Window`, `Cooldown` and `HoldTTL` of one tick separate "before" from
"after" at the boundary.  *Settlement*: two runs overlap on one day, or follow
each other on two; two transfers can be in one file, in two, or one posted
too late for its day; two polls give one that is retried and one that is the
last.  *Settlement engine*: three transactions are enough for two users with
one of them in two places, for an id used twice by different users, and for
a list that grows after its batch was made; the six kinds have fractions of
a cent, fees above the amount, holdbacks and a split that is refused; two
batches may share a list.  *Reconciliation*: two ledger records compete for one
processor record, three processor records hold one pair for netting and one
repeated id, two bank records compete for the same group.  The kinds match
exactly, up to a fraction of a cent, up to a fee, up to a day, and not at all.
`MCSettlement` and `MCReconciliation` choose one of two implementations in the
initial state, since they share nothing; of the job's nights one has rows of every
kind, one has rows that resolve themselves and a bank match, and one is empty.

**Deadlock.**  All the systems may stop: nobody has to call them and the
counters are bounded, so the runs do not check deadlock.

**Fairness.**  `Ledger`: weak fairness of `Tick` and `ExpireStaleHolds`, time
and the hourly job (`ledger_engine.py`, `expire_stale_holds`); `HoldsResolve`
needs both.  `PaymentOrchestrator`: weak fairness of a worker's own steps,
since a thread in a call continues (a processor's call returns or raises);
neither time nor new calls are fair, and `CallsReturn` holds without them.
The API has no liveness property.  `SettlementJob`: weak fairness of a run's
own steps (`Proceed`), since what it awaits returns or raises; neither a
trigger nor the bank's answer is fair, so `RunsEnd` rests on the timeout.
`BatchesAreDecided` exempts runs that died: nothing in the code picks up
their batch.  `ReconciliationJob`: weak fairness of a run's own steps, for the
same reason; triggers and the bank's postings are not fair.  `SettlementEngine`
and `ReconciliationEngine` are sequential programs whose loops end by their
shape, and have no liveness property.

### What the runs found

Each violated property states a sentence of the documents; the counterexample
is what the code does.

1. A repeated `record_user_transfer` gets its entry from the index and then
   places a second hold (`docs/LEDGER_DESIGN.md` §5.2).
2. A transfer *debits* the wallet, an asset account, so its posted balance
   rises by what the hold takes; available stays the same and a second
   transfer of the same funds is accepted (§4.1).  For the same reason an
   allocation, which *credits* the wallet, lowers it.
3. A request whose hold is refused has its journal entry posted
   (`src/api/app.py`, steps 3 and 4).
4. Failover after a lost or pending answer executes a payment at both
   processors (`docs/PRD.md` PAY-05).
5. A failed test does not reopen a half-open circuit when the earlier failures
   left the window (`docs/ROADMAP.md`, circuit breaker).
6. Two manual entries, each off by less than half a cent, make
   `verify_system_balance` answer that the books are not balanced, "always, no
   exceptions" (`README.md:198`, `ledger_engine.py:529`).  `ImbalanceIsManual`
   says what does hold: nothing else can unbalance them.
7. No run of the settlement job ever marks a transfer as settled: after the
   bank's acknowledgement, the statement of stage 7 is refused
   (`settlement_batch.ts:365`, `:370`), and the batch is marked as failed.

Noticed while modelling and not made into runs, because a property would only
restate the code: HALF_OPEN admits every call, not a single one
(`payment_orchestrator.py:226`); the limits are tested against constant totals
(`app.py:220`), so a user of the basic tier, with $2,000 a month, never
passes; `create_transaction` never calls `screen_ofac`; a monitoring call that
raises leaves an alert event whose alert no list has
(`compliance_checker.py:369`); the settlement job sums credit minus debit over
all lines of an entry (`settlement_batch.ts:64`), which is zero for a balanced
one; a transfer posted after the job ran belongs
to no batch, since the next run selects its own day only (`:70`).

One more disagreement is stated by a property that holds.  `FileTotals` says that
the credits of an ACH file made from batch summaries are the *dollars* the
batches owe, while `nacha_generator.py:32` means cents: `:237` takes `int()` of
the Decimal of dollars that `settlement_engine.py:308` gives, so of $98.03 the
bank pays 98 cents.

About settlement (`settlement_engine.py`): nothing stops a transaction from
being in two batches; the statuses `RECONCILED` and `FAILED` are never set;
`generate_nacha_summary` drops negative positions, so the entries of a file may
add up to more than its batches' total; of a repeated transaction id the last
one's user gets both shares; a negative share that ends in half a cent makes `validate` raise.
`nacha_generator.py`: `int(receiving_dda[:8])` raises for the user ids of the
demo; codes other than 22 and 32 count as credits of the file and of no batch.

About the reconciliation engine: a fuzzy break without a bank record is of type
timing, whose tolerance is 0, so none ever resolves itself
(`docs/LEDGER_DESIGN.md:370` says otherwise); a delta below $5 never has
priority high or critical; `_exact_match` compares neither id nor date, which
its docstring promises; bank deposits without a match are counted nowhere; two
deposits of one amount are both netted to the same processor records
(`reconciliation_engine.py:261`), where `docs/LEDGER_DESIGN.md:358` speaks of
transactions netted into a single transfer, and the second is not reported as
unmatched.  About the job: the lines of a balanced entry sum to zero, so its
ledger rows never match and all resolve themselves; a trigger that is repeated writes the night's rows once more
(`docs/DECISION_LOG.md:232` speaks of deduplication); rows that resolve
themselves are counted twice in `totalMatched`; the processor's id of a bank
row is a user's; `schema/schema.sql` lacks columns and tables the job uses.

## 4. Proofs

`LedgerProofs` proves, for every value of the constants that satisfies
`LedgerAssumption`:

| Theorem | Property | Argument |
|---|---|---|
| `TypeCorrect` | `TypeOK` | inductive as it stands; `WellFormed` makes the lines of a posted entry natural numbers |
| `KeysFindTheirEntries` | `IdempotencyIndex` | inductive with `TypeOK`: a commit appends an entry and maps its key, which was not in the index, to the new position |
| `EntriesAreImmutable` | `JournalAppendOnly` | from `TypeOK`: every action appends to the journal or leaves it |
| `HoldsAreFinal` | `HoldFinality` | from `TypeOK`, one step per action that changes holds |
| `BooksBalance` | `ImbalanceIsManual` | the sum over an appended journal is the old sum plus the entry's; the patterns balance exactly, a manual entry's totals are the same to the cent, so it is off by less than one |
| `HoldsAreBacked` | `HoldsBacked` | a hold is tested against the available balance when placed, the posted balance never exceeds the total inflow, inflow only grows, and the held sum falls when a hold ends |
| `PostedLinesOnAccounts` | | `post_entry` looks every account of a line up, and accounts are never removed (`LinesOnAccounts`, with the account set finite) |
| `EquationHolds` | `AccountingEquation` | summing what each entry nets on each account by entries or by accounts is the same table, by rows or by columns (`SumOfTotals`); no line is outside it because of `PostedLinesOnAccounts` |
| `LedgerImplementsBook` | `ImplementsBook` | the ledger's initial state is the book's, and each action is `Open`, `Post` with or without `Reserve`, `Release` or a stutter: an appended entry moves exactly the nets of its accounts (`PostingEffect`), by a sum that is the entry's imbalance |

They rest on `SeqSumsProofs`: sums over sequences are recursive functions on
positions, and sums over finite sets recursive functions on subsets.  What they
are for an appended, updated or pointwise dominated sequence, for a set with an
element more, or for a table, follows from their defining equation by looking
at the least position, or a smallest set, where the claim would fail
(`LeastElement`, from the well-foundedness of `<`; `PrefixInduction` and
`SubsetInduction` wrap the argument for claims given as a *set* of positions
or subsets).

`SettlementJobProofs` proves, for any number of runs, transfers, days and
polls, with or without faults:

| Theorem | Property | Argument |
|---|---|---|
| `JobTypeCorrect` | `TypeOK` | inductive as it stands |
| `JobOneOwner` | `OneOwner` | a batch is owned from its INSERT on, and an owned batch has its row, so no other INSERT of it succeeds |
| `JobPaidOnce` | `PaidOnce` | what is fetched, stored and submitted under a day was posted on that day |
| `JobFilesAccountedFor` | `FilesAccountedFor` | an owner past "store" has its transactions in the stored file, and only owners submit |
| `JobSettledWasAcknowledged` | `SettledWasAcknowledged` | an owner at "settle" has an acknowledged file at the bank, and answers do not change |

The last four are parts or consequences of one inductive invariant, `JobInv`.
The properties alone are not inductive: `OneOwner` needs the row of an owned
batch (`RowsOfOwners`), `SettledWasAcknowledged` needs what a run knows of the
bank (`FilesOfOwners`), and `PaidOnce` needs that stored files are of their
day (`OfTheDay`).

`TransactionApiProofs` proves, for any number of users, keys, requests and
events, and any amounts and histories:

| Theorem | Property | Argument |
|---|---|---|
| `ApiTypeCorrect` | `ApiTypeOK` | with the two invariants below |
| `ApiFreezesAreLogged` | `FreezesAreLogged` | a match freezes and logs in one step, and the log only grows |
| `ApiAlertsAreLogged` | `AlertsAreLogged` | how often a list holds an alert, and the log its event, are sums that appending alerts increases by the same number, and events of other kinds by none; a call that raises adds to the log only, and only for the first rule |
| `ApiReservesOnce` | `AnswersReserveOnce` | an accepted answer has a key that was not in the store, and a transaction id above all earlier ones |
| `ApiRecordsAnswers` | `OneRecordPerAnswer` | store and audit log grow together |
| `ApiDecisionsOnRecord` | `DecisionsOnRecord` | an answer's transaction id is the number of the decision it was made from |
| `ApiAnswersStand` | `AnswersStand` | from the types: a key of the store is never written again |
| `ApiClearedUsersOnly` | `ClearedUsersOnly` | only a processed request adds a hold of a transfer, and both checks come first; the blocklist overrules the allowlist |
| `ApiKeepsLedger` | `IdempotencyIndex`, `AccountingEquation`, `HoldsBacked` | every step of the service is a `LedgerStep` (below) |
| `ApiBooksBalance` | `SystemBalance`, which the ledger alone violates, and the delta is 0 | no entry of the service is a correction, so `ImbalanceIsManual` makes the delta a sum of zeros, and totals without a delta are the same to the cent |
| `ApiKeepsJournal`, `ApiSettlesHoldsOnce` | `JournalAppendOnly`, `HoldFinality` | as for the ledger alone |
| `ApiImplementsBook` | `ImplementsBook` | as for the ledger alone |
| `MoreRulesNoMilder` | | weights are not negative, so a score grows with the set of rules |
| `ApiAnswersAreWarranted` | `AnswersAreWarranted`, stated there | see below |

Two invariants that do not depend on each other carry them.  `ComplianceInv`
is the types, freezes and alerts together.  `AnswerInv` adds to the ledger's `TypeOK` that the
store is finite, that transaction ids are bounded by the number of decisions
(`IdsAreOld`), and that a stored answer's key has its transfer in the journal
(`RequestsPostTransfers`).  The lemmas about the ledger's actions are those of
`LedgerProofs`.  They assume `LedgerAssumption` and `ApiAssumption`, by which
Stripe is one of the processors, since the handler always uses it.

The ledger's own theorems carry over although the service drives the ledger by
other actions: a request posts without looking at the balance, and may then not
get its hold; and it asks for amounts that are not in `Amounts`.  Each step lemma
of `LedgerProofs` is therefore about `LedgerStep`, a step sorted by what it may
do to the ledger (open, post, place a hold within the balance, settle holds),
and not about `Next`.  `NextSteps` shows that the ledger's actions are such
steps, `ApiLedgerStep` that the service's are.

`AnswersAreWarranted` is what is left of the fraud rules at the endpoint, which
gives them a made-up profile: at most four of the nine rules can hold, 55 of 142
points, so the score declines nothing, and "failed" is the answer to users on the
blocklist and to no others.  Above $2350 three rules hold, 50 points, and that is
a review; only the limits of the enhanced tier let such an amount through.  No
run lists it; the theorem covers amounts no run could enumerate.

`PaymentOrchestratorProofs` proves, for any number of workers, processors,
payments, attempts and calls, and any threshold, window and cooldown:

| Theorem | Property | Argument |
|---|---|---|
| `OrchestratorTypeCorrect` | `TypeOK` | part of `IInv` |
| `OrchestratorSuccessWasExecuted` | `SuccessWasExecuted` | a call that is about to record a success was charged (`CallsSound`) |
| `OrchestratorFollowsRouting` | `ChargesFollowRouting` | the processors left in a call are routed, and the one it calls supports the method |
| `OrchestratorClosedIsBelow` | `ClosedIsBelowThreshold` | each operation of the breaker keeps it (`BreakersSound`) |
| `OrchestratorOpenRests` | `OpenCircuitRests` | no operation but `can_execute` after the cooldown moves an open breaker |

`ReconciliationEngineProofs` proves, for lists of any length and records of
any kind:

| Theorem | Property | Argument |
|---|---|---|
| `EnginePairsOnce` | `PairedOnce` | the three sets of matched records hold exactly what the matches name (`Named`), and what a loop has yet to visit is named by none (`Ahead`) |
| `EngineCountsAddUp` | `CountsAddUp` | appending a match or changing its status moves one element between the sets that are counted; the positions a loop has yet to visit have no exception (`Counted`, `Rest`) |
| `EngineExactIsBest` | `ExactIsBest` | a record the first loop passes unmatched has found every id that fits it taken (`Exhausted`), and exact matches pair what fits (`ExactPairs`): so either all ledger records of a processor and amount are matched, or all ids are, and the pairing counts the same on both sides |

`Ahead` says what the stale `remaining_psp` costs and what it does not: it
never holds a record that is *paired*, so netting may repeat a record but never
takes one from an exact or a fuzzy match.

`SettlementEngineProofs` proves, for any lists and transactions:

| Theorem | Property | Argument |
|---|---|---|
| `CoveredSplitsAreValid` | | a split whose fees do not exceed the gross amount always validates: rounding a remainder commutes with subtracting whole cents |
| `EngineSplitsAreWhole` | `SplitsAreWhole`, the first conjunct of `MoneyConserved` | a batch is created from valid splits only, and keeps them |
| `EngineConservesMoney` | `MoneyConserved` | after each split, the totals of the users sum to those of the splits so far, and the positions are the totals after the last |
| `EnginePaysOwnMoney` | `OwnMoneyOnly` | the dictionary has each user once, and its total for a user is the sum over the splits that `txn_map` gives to that user; when ids do not repeat that is the transaction's own user |
| `EngineFilesAddUp` | `FileTotals` | each positive position becomes one entry, which drops less than a dollar of it; so by induction over the positions the entries' amounts are what the batch owes less at most 99 cents an entry, and a file sums its batches |
| `EngineBatchesProgress` | `BatchesProgress` | one step per method, from the batches' types |

The netting theorems need more than the types: `Computed` says that a batch's
splits and positions were computed from the beginning of its list (`FromList`),
which is still there however much the caller has added since.

`ReconciliationJobProofs` proves, for any nights, statements, number of runs,
with or without faults:

| Theorem | Property | Argument |
|---|---|---|
| `JobReportsAreComplete` | `ReportsAreComplete` | what is stored and raised is the beginning of a run's rows and of its open rows, and the run's place tells how much of it (`Stored`, `Raised`, `Placed`); the types of the rows split them in three (`StatsCount`) |
| `JobAccountsForFetched` | `FetchedAccountedFor` | no id has two partners in either pass (`Fair`), and who has one keeps it (`Kept`): so the rows of the five loops hold each entry once and an id either in one pair or as missing (`MatchedAccounted`) |

Both follow from one inductive invariant, `JobInv`.  The properties alone say
nothing of a run between two INSERTs; the invariant adds where the run is, that
its rows were computed from the records it fetched (`Computed`), and that a run
with its numbers has stopped (`Reported`): what it has stored stays as it is
wherever it stops.  Counting goes through `NumberOf` of `SeqSumsProofs`, how
often a list holds an element of a set of rows: a list that is a concatenation,
or is pushed by a loop, holds as many as its parts (`ConcatNumber`,
`PushedNumber`).  Ids of the
night's entries do not repeat, since they are a primary key
(`JobAssumption`); ids of processor events and of deposits may.

Model-checked only: the five liveness properties, `HoldsResolve`,
`CallsReturn`, `BatchesAreDecided`, `RunsEnd` and `JobRunsEnd`.  Liveness under
fairness is out of the prover's reach.  Every invariant, every action property
and the refinement that a passing run checks are proved as well.  The violated
properties are of course not theorems, but `SystemBalance` is one of the
service, which makes no manual entries.

## 5. Not modelled, and the plan

Done: the ledger; the API with fraud detector and compliance checker,
monitoring included; payments; the settlement job, the settlement engine and
the NACHA totals; both implementations of reconciliation.  Every component with
state has theorems, and every safety property a passing run checks is one of
them.

What is left: the settlement and payment side has no composition like that of
the API and the ledger, since nothing in the code joins them but the database
and the processors; statements about the compliance rules alone, such as which
histories raise an alert of the highest priority, could be added.

Left out for good: the vendor wrappers of Stripe Connect, whose webhooks
change no state; the schema beyond the keys and columns the jobs rely on; SQL
views, dbt models, data-quality expectations, dashboards and e-mails, which
compute nothing over time; the demo script, which calls in one order what the
models call in every order.  Of modelled components: the Jaro-Winkler score of
a screening is a choice between hit and miss, suspicious activity reports have
a type and no operation, and the layout of NACHA records is text.
