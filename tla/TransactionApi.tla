---------------------------- MODULE TransactionApi ----------------------------
(***************************************************************************)
(* POST /transactions of api/app.py on the service's global state: the     *)
(* ledger, the fraud detector, the compliance checker, the idempotency     *)
(* store and the audit log.  The handler never awaits, so one request is   *)
(* one step; a request that ends in HTTP 400 keeps whatever it had changed *)
(* by then.  Around it: what the back office does to the same objects.     *)
(***************************************************************************)
EXTENDS Ledger, Money

CONSTANTS
  OpsKeys,         \* the keys of Keys that back-office postings use
  RequestAmounts,  \* what clients ask for
  Histories,       \* the activity of users that monitoring is given
  MaxDecisions,    \* bound on the requests that get past the cache
  MaxEvents        \* bound on the compliance log

VARIABLES
  blocklist, allowlist, decisions,     \* of FraudDetector
  user_kyc, frozen_accounts, alerts, events,  \* of ComplianceChecker
  hold_transactions,  \* the transaction_id of each hold in holds
  idempotency_store,  \* key |-> the response a request with that key gets
  transaction_log     \* the audit log

fraud_vars == <<blocklist, allowlist, decisions>>
compliance_vars == <<user_kyc, frozen_accounts, alerts, events>>
ledger_vars == <<accounts, journal_entries, holds, idempotency_keys, hold_transactions>>
answer_vars == <<idempotency_store, transaction_log>>
api_vars == <<ledger_vars, fraud_vars, compliance_vars, answer_vars>>

Fraud == INSTANCE FraudDetector
Compliance == INSTANCE ComplianceChecker

Stripe == "stripe"
RequestKeys == Keys \ OpsKeys

ASSUME ApiAssumption ==
  /\ OpsKeys \subseteq Keys
  /\ Stripe \in PSPs
  /\ RequestAmounts \subseteq Nat \ {0}
  /\ MaxDecisions \in Nat
  /\ MaxEvents \in Nat

-----------------------------------------------------------------------------
\* The profile and the totals the handler passes are constants of the code.
FraudContext(amount) ==
  [amount |-> amount, kyc_tier |-> "standard", account_age_days |-> 30,
   lifetime_transaction_count |-> 5, avg_transaction_amount |-> Dollars(100),
   transactions_last_24h |-> 2, amount_last_24h |-> Dollars(150),
   failed_transactions_last_24h |-> 0, unique_devices_last_7d |-> 1]

Allowed(u, amount) == Compliance!Allowed(u, amount, Dollars(150), Dollars(5500))

\* transaction_id is made for the attempt; the decision log keeps it too.
NextTransaction == Len(decisions) + 1

StatusRaw(decision) == decision

StatusOf(decision) ==
  [approve |-> "pending", review |-> "pending_review", decline |-> "failed"][decision]

Response(u, amount) ==
  LET decision == Fraud!Decision(u, FraudContext(amount))
  IN  [transaction_id |-> NextTransaction, user_id |-> u, amount |-> amount,
       status |-> StatusOf(decision), fraud_decision |-> decision]

\* The end of the handler: cache the response and log it.
AnswerAccepted(u, amount, key) ==
  /\ idempotency_store' = [k \in DOMAIN idempotency_store \cup {key} |->
       IF k = key THEN Response(u, amount) ELSE idempotency_store[k]]
  /\ transaction_log' = IF Response(u, amount).status = "failed" THEN transaction_log
                          ELSE Append(transaction_log, Response(u, amount))

Answer(u, amount, key) ==
  /\ idempotency_store' = [k \in DOMAIN idempotency_store \cup {key} |->
       IF k = key THEN Response(u, amount) ELSE idempotency_store[k]]
  /\ transaction_log' = Append(transaction_log, Response(u, amount))

\* The ledger part for APPROVE and REVIEW.  The entry is posted before
\* create_hold looks at the balance, and stays if create_hold refuses.
Transfer(u, amount, key) ==
  /\ PostEntry("transfer", key, <<Dr(Wallet(u), amount), Cr(Receivable(Stripe), amount)>>)
  /\ IF Covers(Wallet(u), amount, journal_entries', holds)
       THEN /\ holds' = Append(holds, NewHold(Wallet(u), amount))
            /\ hold_transactions' = Append(hold_transactions, NextTransaction)
            /\ Answer(u, amount, key)
       ELSE UNCHANGED <<holds, hold_transactions, answer_vars>>
  /\ UNCHANGED accounts

NeverAnswered(key) == FALSE

Answered(key) == key \in DOMAIN idempotency_store

\* A request that is not answered from the cache.  The fraud decision is made
\* and logged, and an expired verification marked, whatever comes next.
Process(u, amount, key) ==
  /\ Wallet(u) \in accounts
  /\ Len(decisions) < MaxDecisions
  /\ Fraud!Evaluate(u, FraudContext(amount))
  /\ Compliance!CheckTransactionLimits(u)
  /\ LET declined == Fraud!Decision(u, FraudContext(amount)) = "decline"
     IN  \/ ~ Allowed(u, amount) /\ UNCHANGED <<ledger_vars, answer_vars>>
         \/ /\ Allowed(u, amount) /\ declined
            /\ Answer(u, amount, key)
            /\ UNCHANGED ledger_vars
         \/ Allowed(u, amount) /\ ~ declined /\ Transfer(u, amount, key)

CreateTransaction(u, amount, key) ==
  IF Answered(key) THEN UNCHANGED api_vars ELSE Process(u, amount, key)

-----------------------------------------------------------------------------
(* The back office, on the same objects.                                   *)

OpenWallet(u) ==
  /\ CreateAccount(Wallet(u))
  /\ UNCHANGED <<hold_transactions, fraud_vars, compliance_vars, answer_vars>>

Allocate(e, u, gross, fee, key) ==
  /\ AllocateToWallet(e, u, gross, fee, key)
  /\ UNCHANGED <<hold_transactions, fraud_vars, compliance_vars, answer_vars>>

ReleaseHold(i) ==
  /\ CaptureHold(i) \/ VoidHold(i)
  /\ UNCHANGED <<hold_transactions, fraud_vars, compliance_vars, answer_vars>>

Verify(u, tier) ==
  /\ Len(events) < MaxEvents
  /\ Compliance!ApproveKyc(u, tier)
  /\ UNCHANGED <<ledger_vars, fraud_vars, answer_vars>>

VerificationLapses(u) ==
  /\ Compliance!KycLapses(u)
  /\ UNCHANGED <<ledger_vars, fraud_vars, answer_vars>>

Screen(u, hit) ==
  /\ Len(events) < MaxEvents
  /\ Compliance!ScreenOfac(u, hit)
  /\ UNCHANGED <<ledger_vars, fraud_vars, answer_vars>>

Monitor(u, history) ==
  /\ Len(events) < MaxEvents
  /\ Compliance!MonitorTransaction(u, history)
  /\ UNCHANGED <<ledger_vars, fraud_vars, answer_vars>>

ListUser(u, blocked, allowed) ==
  /\ Fraud!ListUser(u, blocked, allowed)
  /\ UNCHANGED <<ledger_vars, compliance_vars, answer_vars>>

ApiInit ==
  /\ Init /\ Fraud!Init /\ Compliance!Init
  /\ hold_transactions = <<>>
  /\ idempotency_store = <<>>
  /\ transaction_log = <<>>

ApiNext ==
  \/ \E u \in Users, x \in RequestAmounts, k \in RequestKeys : CreateTransaction(u, x, k)
  \/ \E u \in Users : OpenWallet(u)
  \/ \E e \in Employers, u \in Users, x \in Amounts, f \in Fees, k \in OpsKeys :
       Allocate(e, u, x, f, k)
  \/ \E i \in DOMAIN holds : ReleaseHold(i)
  \/ \E u \in Users, t \in Compliance!Tiers : Verify(u, t)
  \/ \E u \in Users : VerificationLapses(u)
  \/ \E u \in Users, hit \in BOOLEAN : Screen(u, hit)
  \/ \E u \in Users, h \in Histories : Monitor(u, h)
  \/ \E u \in Users, b, a \in BOOLEAN : ListUser(u, b, a)

ApiSpec == ApiInit /\ [][ApiNext]_api_vars
-----------------------------------------------------------------------------
(* Properties.                                                             *)

Answers ==
  [transaction_id : 1 .. MaxDecisions, user_id : Users, amount : RequestAmounts,
   status : {"pending", "pending_review", "failed"}, fraud_decision : Fraud!Decisions]

Raised == [rule : Compliance!Rules, priority : Compliance!Priorities, user : Users]

\* Every variable has its type, the ledger's included.
ApiTypeOK ==
  /\ TypeOK
  /\ blocklist \subseteq Users /\ allowlist \subseteq Users
  /\ decisions \in Seq([user : Users, decision : Fraud!Decisions])
  /\ user_kyc \in [DOMAIN user_kyc -> Compliance!Kyc] /\ DOMAIN user_kyc \subseteq Users
  /\ frozen_accounts \subseteq Users
  /\ alerts \in Seq(Raised)
  /\ events \in Seq([type : Compliance!EventTypes, user : Users]
                    \cup {Compliance!AlertEvent(a) : a \in Raised})
  /\ hold_transactions \in Seq(1 .. MaxDecisions)
  /\ idempotency_store \in [DOMAIN idempotency_store -> Answers]
  /\ DOMAIN idempotency_store \subseteq RequestKeys
  /\ transaction_log \in Seq(Answers)

Accepted == {k \in DOMAIN idempotency_store : idempotency_store[k].status # "failed"}

\* However requests are retried, refused half-way or mixed up, each accepted
\* answer owns one hold, on the wallet and for the amount it names, every hold
\* belongs to one accepted answer, and behind each such answer there is a
\* transfer in the journal under its key.
AnswersReserveOnce ==
  LET owner(i) == {k \in Accepted : idempotency_store[k].transaction_id = hold_transactions[i]}
  IN  /\ Len(holds) = Len(hold_transactions)
      /\ Len(holds) = Cardinality(Accepted)
      /\ \A i \in DOMAIN holds : \E k \in owner(i) :
           /\ owner(i) = {k}
           /\ holds[i].account = Wallet(idempotency_store[k].user_id)
           /\ holds[i].amount = idempotency_store[k].amount
           /\ k \in DOMAIN idempotency_keys
           /\ journal_entries[idempotency_keys[k]].type = "transfer"

\* The audit log and the idempotency store tell the same story: each answered
\* key has one record in the log, and there is no other record.
OneRecordPerAnswer ==
  /\ Len(transaction_log) = Cardinality(DOMAIN idempotency_store)
  /\ \A k \in DOMAIN idempotency_store :
       \E i \in DOMAIN transaction_log : transaction_log[i] = idempotency_store[k]

\* What a client was told of a key stays what it is told, and the audit log
\* only grows, through retries, list changes and freezes in between.
AnswersStand ==
  [][/\ \A k \in DOMAIN idempotency_store :
          k \in DOMAIN idempotency_store' /\ idempotency_store'[k] = idempotency_store[k]
     /\ \A i \in DOMAIN transaction_log :
          i \in DOMAIN transaction_log' /\ transaction_log'[i] = transaction_log[i]]_api_vars

\* Each record of the audit log can be traced to a fraud decision of its own:
\* the one logged for the same transaction, the same user and the same outcome.
DecisionsOnRecord ==
  \A i \in DOMAIN transaction_log :
    LET record == transaction_log[i]
    IN  /\ record.transaction_id \in DOMAIN decisions
        /\ decisions[record.transaction_id] =
             [user |-> record.user_id, decision |-> record.fraud_decision]
        /\ \A j \in DOMAIN transaction_log \ {i} :
             transaction_log[j].transaction_id # record.transaction_id

HeldBy(u, hs) == {i \in DOMAIN hs : hs[i].account = Wallet(u)}

\* No new hold and no new transfer of a user who at that moment is blocklisted,
\* frozen, has no verification of any tier, or one that lapsed, also when an
\* earlier attempt of the same request had got through.
ClearedUsersOnly ==
  [][\A u \in Users :
       \/ /\ u \notin blocklist \cup frozen_accounts
          /\ u \in DOMAIN user_kyc /\ user_kyc[u].tier # "none"
          /\ user_kyc[u].status = "approved" /\ ~ user_kyc[u].lapsed
       \/ /\ HeldBy(u, holds') = HeldBy(u, holds)
          /\ \A i \in DOMAIN journal_entries' \ DOMAIN journal_entries :
               \/ journal_entries'[i].type # "transfer"
               \/ \A j \in DOMAIN journal_entries'[i].lines :
                    journal_entries'[i].lines[j].account # Wallet(u)]_api_vars

\* The compliance log explains the frozen accounts: a user is frozen exactly
\* when the log has a freeze of the user, and a match comes right before it.
FreezesAreLogged ==
  /\ \A u \in frozen_accounts :
       \E i \in DOMAIN events : events[i] = Compliance!Logged("account_frozen", u)
  /\ \A i \in DOMAIN events : events[i].type = "account_frozen" =>
       /\ events[i].user \in frozen_accounts
       /\ i > 1 /\ events[i - 1] = Compliance!Logged("ofac_match", events[i].user)

Occurrences(x, list) == Cardinality({i \in DOMAIN list : list[i] = x})

\* The alert list and the log are written at different points, and a call may
\* raise between them.  Even so the list never has an alert the log does not
\* account for, and what the log has and the list has not are alerts of the
\* one rule that is tried before anything can raise: alerts of every other
\* rule, repeated ones included, are logged as often as they are listed.
AlertsAreLogged ==
  \A a \in Raised :
    LET listed == Occurrences(a, alerts)
        logged == Occurrences(Compliance!AlertEvent(a), events)
    IN  /\ listed <= logged
        /\ a.rule # "aggregation_threshold" => listed = logged

\* "Create hold (if approved)": a transfer that is in the journal has its hold
\* (api/app.py, steps 3 and 4 of create_transaction).
EntryHasHold ==
  \A i \in DOMAIN journal_entries :
    journal_entries[i].type = "transfer" => journal_entries[i].key \in Accepted
=============================================================================
