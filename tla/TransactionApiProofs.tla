------------------------ MODULE TransactionApiProofs ------------------------
(***************************************************************************)
(* Theorems about TransactionApi for any number of users, keys, requests   *)
(* and compliance events.                                                  *)
(***************************************************************************)
EXTENDS TransactionApi, LedgerProofs, FiniteSetTheorems

PlainEvent == [type : Compliance!EventTypes, user : Users]
AlertEvents == {Compliance!AlertEvent(a) : a \in Raised}
DecisionRecord == [user : Users, decision : Fraud!Decisions]

ComplianceTypes ==
  /\ user_kyc \in [DOMAIN user_kyc -> Compliance!Kyc] /\ DOMAIN user_kyc \subseteq Users
  /\ frozen_accounts \subseteq Users
  /\ alerts \in Seq(Raised)
  /\ events \in Seq(PlainEvent \cup AlertEvents)

FraudTypes ==
  /\ blocklist \subseteq Users /\ allowlist \subseteq Users
  /\ decisions \in Seq(DecisionRecord)

AnswerTypes ==
  /\ hold_transactions \in Seq(1 .. MaxDecisions)
  /\ idempotency_store \in [DOMAIN idempotency_store -> Answers]
  /\ DOMAIN idempotency_store \subseteq RequestKeys
  /\ transaction_log \in Seq(Answers)

-----------------------------------------------------------------------------
(* The steps of ApiNext, sorted by what they do to each service.           *)

LEMMA ComplianceSteps ==
  ASSUME ApiNext
  PROVE  \/ UNCHANGED compliance_vars
         \/ \E u \in Users : Compliance!CheckTransactionLimits(u)
         \/ \E u \in Users, t \in Compliance!Tiers : Compliance!ApproveKyc(u, t)
         \/ \E u \in Users : Compliance!KycLapses(u)
         \/ \E u \in Users, hit \in BOOLEAN : Compliance!ScreenOfac(u, hit)
         \/ \E u \in Users, h \in Histories : Compliance!MonitorTransaction(u, h)
<1>1. ASSUME NEW u \in Users, NEW x \in RequestAmounts, NEW k \in RequestKeys,
             CreateTransaction(u, x, k)
      PROVE  UNCHANGED compliance_vars \/ Compliance!CheckTransactionLimits(u)
  BY <1>1 DEF CreateTransaction, Process, api_vars
<1>2. ASSUME NEW u \in Users, OpenWallet(u) PROVE UNCHANGED compliance_vars
  BY <1>2 DEF OpenWallet
<1>3. ASSUME NEW e \in Employers, NEW u \in Users, NEW x \in Amounts, NEW f \in Fees,
             NEW k \in OpsKeys, Allocate(e, u, x, f, k)
      PROVE  UNCHANGED compliance_vars
  BY <1>3 DEF Allocate
<1>4. ASSUME NEW i \in DOMAIN holds, ReleaseHold(i) PROVE UNCHANGED compliance_vars
  BY <1>4 DEF ReleaseHold
<1>5. ASSUME NEW u \in Users, NEW b \in BOOLEAN, NEW a \in BOOLEAN, ListUser(u, b, a)
      PROVE  UNCHANGED compliance_vars
  BY <1>5 DEF ListUser
<1> QED BY <1>1, <1>2, <1>3, <1>4, <1>5
        DEF ApiNext, Verify, VerificationLapses, Screen, Monitor

\* A request that is processed: its decision is logged, and it is refused,
\* declined, or posted and then held or not.
Declined(u, x, k) == Answer(u, x, k) /\ UNCHANGED ledger_vars

Held(u, x, k) ==
  /\ PostEntry("transfer", k, <<Dr(Wallet(u), x), Cr(Receivable(Stripe), x)>>)
  /\ Covers(Wallet(u), x, journal_entries', holds)
  /\ holds' = Append(holds, NewHold(Wallet(u), x))
  /\ hold_transactions' = Append(hold_transactions, NextTransaction)
  /\ Answer(u, x, k)
  /\ UNCHANGED accounts

NotHeld(u, x, k) ==
  /\ PostEntry("transfer", k, <<Dr(Wallet(u), x), Cr(Receivable(Stripe), x)>>)
  /\ UNCHANGED <<accounts, holds, hold_transactions, answer_vars>>

Processed(u, x, k) ==
  /\ k \notin DOMAIN idempotency_store
  /\ Wallet(u) \in accounts
  /\ Len(decisions) < MaxDecisions
  /\ Fraud!Evaluate(u, FraudContext(x))
  /\ \/ UNCHANGED <<ledger_vars, answer_vars>>
     \/ Fraud!Decision(u, FraudContext(x)) = "decline" /\ Declined(u, x, k)
     \/ Fraud!Decision(u, FraudContext(x)) # "decline" /\ Held(u, x, k)
     \/ NotHeld(u, x, k)

\* A back-office allocation.
Posted(k) ==
  \E type \in EntryTypes, lines \in Seq(RawLine) :
    /\ type \notin {"correction", "transfer"}
    /\ PostEntry(type, k, lines)
    /\ Debits(lines) = Credits(lines)

Released(i) == CaptureHold(i) \/ VoidHold(i)

LEMMA AnswerSteps ==
  ASSUME ApiNext
  PROVE  \/ \E u \in Users, x \in RequestAmounts, k \in RequestKeys : Processed(u, x, k)
         \/ /\ UNCHANGED <<decisions, hold_transactions, answer_vars>>
            /\ \/ \E u \in Users : CreateAccount(Wallet(u))
               \/ \E k \in OpsKeys : Posted(k) /\ UNCHANGED <<accounts, holds>>
               \/ \E i \in DOMAIN holds : Released(i)
               \/ UNCHANGED ledger_vars
<1>1. ASSUME NEW u \in Users, NEW x \in RequestAmounts, NEW k \in RequestKeys,
             CreateTransaction(u, x, k)
      PROVE  Processed(u, x, k) \/ UNCHANGED <<decisions, ledger_vars, answer_vars>>
  <2>1. CASE Answered(k)
    BY <1>1, <2>1 DEF CreateTransaction, api_vars, fraud_vars
  <2>2. CASE ~ Answered(k)
    <3>1. Process(u, x, k)
      BY <1>1, <2>2 DEF CreateTransaction
    <3>2. /\ Wallet(u) \in accounts
          /\ Len(decisions) < MaxDecisions
          /\ Fraud!Evaluate(u, FraudContext(x))
          /\ \/ UNCHANGED <<ledger_vars, answer_vars>>
             \/ /\ Fraud!Decision(u, FraudContext(x)) = "decline"
                /\ Answer(u, x, k) /\ UNCHANGED ledger_vars
             \/ Fraud!Decision(u, FraudContext(x)) # "decline" /\ Transfer(u, x, k)
      BY <3>1 DEF Process
    <3>3. Transfer(u, x, k) => Held(u, x, k) \/ NotHeld(u, x, k)
      BY DEF Transfer, Held, NotHeld
    <3> QED BY <2>2, <3>2, <3>3 DEF Processed, Answered, Declined
  <2> QED BY <2>1, <2>2
<1>2. ASSUME NEW u \in Users, OpenWallet(u)
      PROVE  /\ UNCHANGED <<decisions, hold_transactions, answer_vars>>
             /\ CreateAccount(Wallet(u))
  BY <1>2 DEF OpenWallet, fraud_vars
<1>3. ASSUME NEW e \in Employers, NEW u \in Users, NEW x \in Amounts, NEW f \in Fees,
             NEW k \in OpsKeys, Allocate(e, u, x, f, k)
      PROVE  /\ UNCHANGED <<decisions, hold_transactions, answer_vars>>
             /\ Posted(k) /\ UNCHANGED <<accounts, holds>>
  <2> DEFINE lines == <<Dr(Holding(e), x), Cr(Wallet(u), x - f), Cr(FeeRevenue, f)>>
  <2>1. x \in Int /\ f \in Int /\ x - f \in Int
    BY LedgerAssumption
  <2>2. lines \in Seq(RawLine) /\ Debits(lines) = Credits(lines)
    BY <2>1, ChartAccounts, ThreeLines, ThreeLinesBalance
  <2>3. PostEntry("funding", k, lines) /\ "funding" \in EntryTypes \ {"correction", "transfer"}
    BY <1>3 DEF Allocate, AllocateToWallet, EntryTypes
  <2> HIDE DEF lines
  <2> QED BY <1>3, <2>2, <2>3 DEF Allocate, AllocateToWallet, Posted, fraud_vars
<1>4. ASSUME NEW i \in DOMAIN holds, ReleaseHold(i)
      PROVE  UNCHANGED <<decisions, hold_transactions, answer_vars>> /\ Released(i)
  BY <1>4 DEF ReleaseHold, Released, fraud_vars
<1>5. ASSUME NEW u \in Users, NEW b \in BOOLEAN, NEW a \in BOOLEAN, ListUser(u, b, a)
      PROVE  UNCHANGED <<decisions, ledger_vars, answer_vars>>
  BY <1>5 DEF ListUser, Fraud!ListUser
<1>6. ASSUME \/ \E u \in Users, t \in Compliance!Tiers : Verify(u, t)
             \/ \E u \in Users : VerificationLapses(u)
             \/ \E u \in Users, hit \in BOOLEAN : Screen(u, hit)
             \/ \E u \in Users, h \in Histories : Monitor(u, h)
      PROVE  UNCHANGED <<decisions, ledger_vars, answer_vars>>
  BY <1>6 DEF Verify, VerificationLapses, Screen, Monitor, fraud_vars
<1> QED BY <1>1, <1>2, <1>3, <1>4, <1>5, <1>6 DEF ApiNext, ledger_vars

-----------------------------------------------------------------------------
(* The compliance log.                                                     *)

\* An alert event is none of the others.
LEMMA EventKinds ==
  /\ \A e \in PlainEvent : e.type # "monitoring_alert" /\ e.type \in Compliance!EventTypes
  /\ \A e \in AlertEvents : e.type = "monitoring_alert" /\ e \notin PlainEvent
BY DEF PlainEvent, AlertEvents, Compliance!AlertEvent, Compliance!EventTypes

LEMMA LoggedType ==
  ASSUME NEW type \in Compliance!EventTypes, NEW u \in Users
  PROVE  /\ Compliance!Logged(type, u) \in PlainEvent
         /\ Compliance!Logged(type, u).type = type
         /\ Compliance!Logged(type, u).user = u
BY DEF Compliance!Logged, PlainEvent

\* What monitoring creates is a sequence of alerts, whatever the history, and
\* before it raises only alerts of the first rule.
LEMMA CreatedType ==
  ASSUME NEW u \in Users, NEW h
  PROVE  /\ Compliance!Created(u, h) \in Seq(Raised)
         /\ h.malformed =>
              \A i \in DOMAIN Compliance!Created(u, h) :
                Compliance!Created(u, h)[i].rule = "aggregation_threshold"
<1> DEFINE first == Compliance!FirstAlert(u, h)
           others == Compliance!OtherAlerts(u, h)
<1>1. ASSUME NEW test, NEW rule \in Compliance!Rules, NEW priority \in Compliance!Priorities
      PROVE  Compliance!When(test, rule, priority, u) \in Seq(Raised)
  <2>1. Compliance!Alert(rule, priority, u) \in Raised
    BY DEF Compliance!Alert, Raised
  <2>2. <<>> \in Seq(Raised) /\ <<Compliance!Alert(rule, priority, u)>> \in Seq(Raised)
    BY <2>1
  <2>3. CASE test
    BY <2>2, <2>3 DEF Compliance!When
  <2>4. CASE ~ test
    BY <2>2, <2>4 DEF Compliance!When
  <2> QED BY <2>3, <2>4
<1>2. /\ {"aggregation_threshold", "structuring_suspected", "rapid_movement",
           "behavioral_anomaly", "geographic_mismatch"} \subseteq Compliance!Rules
      /\ {"critical", "high", "medium"} \subseteq Compliance!Priorities
  BY DEF Compliance!Rules, Compliance!Priorities
<1>3. first \in Seq(Raised)
  BY <1>1, <1>2 DEF Compliance!FirstAlert
<1>4. \A i \in DOMAIN first : first[i].rule = "aggregation_threshold"
  BY DEF Compliance!FirstAlert, Compliance!When, Compliance!Alert
<1>5. others \in Seq(Raised)
  <2>1. \A p, q, r, s \in Seq(Raised) : p \o q \o r \o s \in Seq(Raised)
    OBVIOUS
  <2> QED BY <1>1, <1>2, <2>1 DEF Compliance!OtherAlerts
<1> HIDE DEF first, others
<1>6. Compliance!Created(u, h) = first \o (IF h.malformed THEN <<>> ELSE others)
  BY DEF Compliance!Created, first, others
<1>7. first \o <<>> = first /\ first \o others \in Seq(Raised)
  BY <1>3, <1>5
<1>8. CASE h.malformed
  BY <1>3, <1>4, <1>6, <1>7, <1>8
<1>9. CASE ~ h.malformed
  BY <1>6, <1>7, <1>9
<1> QED BY <1>8, <1>9

\* The effects of the compliance operations on what they write, without the
\* records they write it with.
LogStep ==
  \/ UNCHANGED <<frozen_accounts, alerts, events>>
  \/ \E u \in Users, type \in {"kyc_approved", "ofac_screened"} :
       /\ events' = Append(events, Compliance!Logged(type, u))
       /\ UNCHANGED <<frozen_accounts, alerts>>
  \/ \E u \in Users :
       /\ events' = Append(Append(events, Compliance!Logged("ofac_match", u)),
                           Compliance!Logged("account_frozen", u))
       /\ frozen_accounts' = frozen_accounts \cup {u}
       /\ UNCHANGED alerts
  \/ \E raised \in Seq(Raised) :
       /\ \/ alerts' = alerts \o raised
          \/ /\ alerts' = alerts
             /\ \A i \in DOMAIN raised : raised[i].rule = "aggregation_threshold"
       /\ events' = events \o [i \in DOMAIN raised |-> Compliance!AlertEvent(raised[i])]
       /\ UNCHANGED frozen_accounts

LEMMA LogSteps ==
  ASSUME ComplianceTypes, ApiNext
  PROVE  /\ LogStep
         /\ user_kyc' \in [DOMAIN user_kyc' -> Compliance!Kyc]
         /\ DOMAIN user_kyc' \subseteq Users
<1>1. CASE UNCHANGED compliance_vars
  BY <1>1 DEF compliance_vars, LogStep, ComplianceTypes
<1>2. ASSUME NEW u \in Users, Compliance!CheckTransactionLimits(u)
      PROVE  /\ LogStep
             /\ user_kyc' \in [DOMAIN user_kyc' -> Compliance!Kyc]
             /\ DOMAIN user_kyc' \subseteq Users
  <2>1. LogStep
    BY <1>2 DEF Compliance!CheckTransactionLimits, LogStep
  <2>2. CASE Compliance!Cleared(u) /\ user_kyc[u].lapsed
    <3>1. u \in DOMAIN user_kyc /\ user_kyc[u] \in Compliance!Kyc
      BY <2>2 DEF Compliance!Cleared, ComplianceTypes
    <3>2. [user_kyc[u] EXCEPT !.status = "expired"] \in Compliance!Kyc
      BY <3>1 DEF Compliance!Kyc
    <3>3. user_kyc' = [user_kyc EXCEPT ![u] = [user_kyc[u] EXCEPT !.status = "expired"]]
      BY <1>2, <2>2 DEF Compliance!CheckTransactionLimits
    <3> QED BY <2>1, <3>1, <3>2, <3>3 DEF ComplianceTypes
  <2>3. CASE ~ (Compliance!Cleared(u) /\ user_kyc[u].lapsed)
    BY <1>2, <2>1, <2>3 DEF Compliance!CheckTransactionLimits, ComplianceTypes
  <2> QED BY <2>2, <2>3
<1>3. ASSUME NEW u \in Users, NEW t \in Compliance!Tiers, Compliance!ApproveKyc(u, t)
      PROVE  /\ LogStep
             /\ user_kyc' \in [DOMAIN user_kyc' -> Compliance!Kyc]
             /\ DOMAIN user_kyc' \subseteq Users
  <2>1. LogStep
    BY <1>3 DEF Compliance!ApproveKyc, LogStep
  <2>2. [tier |-> t, status |-> "approved", lapsed |-> FALSE] \in Compliance!Kyc
    BY DEF Compliance!Kyc
  <2> QED BY <1>3, <2>1, <2>2 DEF Compliance!ApproveKyc, ComplianceTypes
<1>4. ASSUME NEW u \in Users, Compliance!KycLapses(u)
      PROVE  /\ LogStep
             /\ user_kyc' \in [DOMAIN user_kyc' -> Compliance!Kyc]
             /\ DOMAIN user_kyc' \subseteq Users
  <2>1. LogStep
    BY <1>4 DEF Compliance!KycLapses, LogStep
  <2>2. u \in DOMAIN user_kyc /\ user_kyc[u] \in Compliance!Kyc
    BY <1>4 DEF Compliance!KycLapses, ComplianceTypes
  <2>3. [user_kyc[u] EXCEPT !.lapsed = TRUE] \in Compliance!Kyc
    BY <2>2 DEF Compliance!Kyc
  <2>4. user_kyc' = [user_kyc EXCEPT ![u] = [user_kyc[u] EXCEPT !.lapsed = TRUE]]
    BY <1>4 DEF Compliance!KycLapses
  <2> QED BY <2>1, <2>2, <2>3, <2>4 DEF ComplianceTypes
<1>5. ASSUME NEW u \in Users, NEW hit \in BOOLEAN, Compliance!ScreenOfac(u, hit)
      PROVE  LogStep /\ UNCHANGED user_kyc
  <2>0. events \in Seq(PlainEvent \cup AlertEvents)
    BY DEF ComplianceTypes
  <2>1. CASE hit
    <3> DEFINE a == Compliance!Logged("ofac_match", u)
               b == Compliance!Logged("account_frozen", u)
    <3>1. events' = events \o <<a, b>> /\ frozen_accounts' = frozen_accounts \cup {u}
          /\ UNCHANGED <<user_kyc, alerts>>
      BY <1>5, <2>1 DEF Compliance!ScreenOfac, Compliance!ScreeningEvents
    <3>2. a \in PlainEvent \cup AlertEvents /\ b \in PlainEvent \cup AlertEvents
      BY LoggedType DEF Compliance!EventTypes
    <3> HIDE DEF a, b
    <3>3. events \o <<a, b>> = Append(Append(events, a), b)
      BY <2>0, <3>2
    <3> QED BY <3>1, <3>3 DEF LogStep, a, b
  <2>2. CASE ~ hit
    <3> DEFINE a == Compliance!Logged("ofac_screened", u)
    <3>1. events' = events \o <<a>> /\ UNCHANGED <<user_kyc, frozen_accounts, alerts>>
      BY <1>5, <2>2 DEF Compliance!ScreenOfac, Compliance!ScreeningEvents
    <3>2. a \in PlainEvent \cup AlertEvents
      BY LoggedType DEF Compliance!EventTypes
    <3> HIDE DEF a
    <3>3. events \o <<a>> = Append(events, a)
      BY <2>0, <3>2
    <3> QED BY <3>1, <3>3 DEF LogStep, a
  <2> QED BY <2>1, <2>2
<1>6. ASSUME NEW u \in Users, NEW h \in Histories, Compliance!MonitorTransaction(u, h)
      PROVE  LogStep /\ UNCHANGED user_kyc
  <2> DEFINE created == Compliance!Created(u, h)
  <2>1. /\ created \in Seq(Raised)
        /\ h.malformed => \A i \in DOMAIN created : created[i].rule = "aggregation_threshold"
    BY CreatedType
  <2>2. /\ alerts' = IF h.malformed THEN alerts ELSE alerts \o created
        /\ events' = events \o [i \in DOMAIN created |-> Compliance!AlertEvent(created[i])]
        /\ UNCHANGED <<user_kyc, frozen_accounts>>
    BY <1>6 DEF Compliance!MonitorTransaction
  <2> HIDE DEF created
  <2> QED BY <2>1, <2>2 DEF LogStep
<1> QED BY <1>1, <1>2, <1>3, <1>4, <1>5, <1>6, ComplianceSteps DEF ComplianceTypes

ComplianceInv == ComplianceTypes /\ FreezesAreLogged /\ AlertsAreLogged

\* AlertsAreLogged of a list and a log, in the numbers of SeqSumsProofs.
Accounted(list, log) ==
  \A a \in Raised :
    /\ NumberOf(list, {a}) <= NumberOf(log, {Compliance!AlertEvent(a)})
    /\ a.rule # "aggregation_threshold" =>
         NumberOf(list, {a}) = NumberOf(log, {Compliance!AlertEvent(a)})

LEMMA AccountedForm ==
  /\ AlertsAreLogged <=> Accounted(alerts, events)
  /\ AlertsAreLogged' <=> Accounted(alerts', events')
<1>1. ASSUME NEW s, NEW x PROVE NumberOf(s, {x}) = Occurrences(x, s)
  <2>1. Hits(s, {x}) = {i \in DOMAIN s : s[i] = x}
    BY DEF Hits
  <2> QED BY <2>1 DEF NumberOf, Occurrences
<1> QED BY <1>1 DEF AlertsAreLogged, Accounted

\* Plain events added to the log leave the alerts in it what they were.
LEMMA PlainEventsKeepAlerts ==
  ASSUME ComplianceTypes, AlertsAreLogged, alerts' = alerts,
         events' \in Seq(PlainEvent \cup AlertEvents),
         \A i \in DOMAIN events : i \in DOMAIN events' /\ events'[i] = events[i],
         \A i \in DOMAIN events' \ DOMAIN events : events'[i] \in PlainEvent
  PROVE  AlertsAreLogged'
<1>1. ASSUME NEW a \in Raised
      PROVE  NumberOf(events', {Compliance!AlertEvent(a)}) = NumberOf(events, {Compliance!AlertEvent(a)})
  <2>1. Compliance!AlertEvent(a) \notin PlainEvent
    BY EventKinds DEF AlertEvents
  <2>2. Hits(events', {Compliance!AlertEvent(a)}) = Hits(events, {Compliance!AlertEvent(a)})
    BY <2>1 DEF Hits
  <2> QED BY <2>2 DEF NumberOf
<1> QED BY <1>1, AccountedForm DEF Accounted

\* The events of some alerts have each alert as often as the alerts do.
LEMMA ToldNumber ==
  ASSUME NEW raised \in Seq(Raised), NEW a \in Raised
  PROVE  LET told == [i \in DOMAIN raised |-> Compliance!AlertEvent(raised[i])]
         IN  /\ told \in Seq(PlainEvent \cup AlertEvents)
             /\ NumberOf(told, {Compliance!AlertEvent(a)}) = NumberOf(raised, {a})
<1> DEFINE told == [i \in DOMAIN raised |-> Compliance!AlertEvent(raised[i])]
<1>1. \A i \in DOMAIN raised : raised[i] \in Raised /\ Compliance!AlertEvent(raised[i]) \in AlertEvents
  BY DEF AlertEvents
<1>2. told \in Seq(PlainEvent \cup AlertEvents)
  BY <1>1
<1>3. \A b \in Raised : Compliance!AlertEvent(b) = Compliance!AlertEvent(a) <=> b = a
  BY DEF Compliance!AlertEvent
<1>4. Hits(told, {Compliance!AlertEvent(a)}) = Hits(raised, {a})
  BY <1>1, <1>3 DEF Hits
<1> QED BY <1>2, <1>4 DEF NumberOf

\* Alerts that are logged are accounted for, whether they reach the list or,
\* if they are alerts of the first rule, do not.
LEMMA RaisedAlertsAreLogged ==
  ASSUME ComplianceTypes, AlertsAreLogged, NEW raised \in Seq(Raised),
         \/ alerts' = alerts \o raised
         \/ /\ alerts' = alerts
            /\ \A i \in DOMAIN raised : raised[i].rule = "aggregation_threshold",
         events' = events \o [i \in DOMAIN raised |-> Compliance!AlertEvent(raised[i])]
  PROVE  /\ alerts' \in Seq(Raised)
         /\ events' \in Seq(PlainEvent \cup AlertEvents)
         /\ \A i \in DOMAIN events : i \in DOMAIN events' /\ events'[i] = events[i]
         /\ \A i \in DOMAIN events' \ DOMAIN events : events'[i] \in AlertEvents
         /\ AlertsAreLogged'
<1> DEFINE told == [i \in DOMAIN raised |-> Compliance!AlertEvent(raised[i])]
           E == PlainEvent \cup AlertEvents
<1>1. events \in Seq(E) /\ alerts \in Seq(Raised)
  BY DEF ComplianceTypes
<1>2. DOMAIN told = 1 .. Len(told) /\ Len(told) \in Nat /\ (\A i \in DOMAIN told : told[i] \in AlertEvents)
  <2>1. \A i \in DOMAIN raised : Compliance!AlertEvent(raised[i]) \in AlertEvents
    BY DEF AlertEvents
  <2>2. DOMAIN raised = 1 .. Len(raised) /\ Len(raised) \in Nat
    OBVIOUS
  <2>3. told \in Seq(AlertEvents)
    BY <2>1
  <2> QED BY <2>1, <2>3
<1>3. told \in Seq(E)
  <2>1. \A i \in DOMAIN raised : Compliance!AlertEvent(raised[i]) \in E
    BY DEF AlertEvents
  <2> HIDE DEF E
  <2> QED BY <2>1
<1>4. ASSUME NEW a \in Raised
      PROVE  NumberOf(told, {Compliance!AlertEvent(a)}) = NumberOf(raised, {a})
  BY ToldNumber
<1> HIDE DEF told
<1>5. events' = events \o told
  BY DEF told
<1>6. /\ events' \in Seq(PlainEvent \cup AlertEvents)
      /\ \A i \in DOMAIN events : i \in DOMAIN events' /\ events'[i] = events[i]
      /\ \A i \in DOMAIN events' \ DOMAIN events : events'[i] \in AlertEvents
  <2> HIDE DEF E
  <2>1. /\ events' \in Seq(E) /\ Len(events') = Len(events) + Len(told)
        /\ \A i \in 1 .. Len(events) + Len(told) :
             events'[i] = IF i <= Len(events) THEN events[i] ELSE told[i - Len(events)]
    BY <1>1, <1>3, <1>5, ConcatProperties
  <2>2. /\ DOMAIN events = 1 .. Len(events) /\ Len(events) \in Nat
        /\ DOMAIN events' = 1 .. Len(events')
    BY <1>1, <2>1
  <2>3. ASSUME NEW i \in DOMAIN events PROVE i \in DOMAIN events' /\ events'[i] = events[i]
    BY <1>2, <2>1, <2>2
  <2>4. ASSUME NEW i \in DOMAIN events' \ DOMAIN events PROVE events'[i] \in AlertEvents
    <3>1. i - Len(events) \in DOMAIN told /\ events'[i] = told[i - Len(events)]
      BY <1>2, <2>1, <2>2
    <3> QED BY <1>2, <3>1
  <2> QED BY <2>1, <2>3, <2>4 DEF E
<1>7. alerts' \in Seq(Raised)
  <2>1. alerts \o raised \in Seq(Raised)
    BY <1>1, ConcatProperties
  <2> QED BY <1>1, <2>1
<1> HIDE DEF E
<1>8. ASSUME NEW a \in Raised
      PROVE  /\ NumberOf(alerts', {a}) <= NumberOf(events', {Compliance!AlertEvent(a)})
             /\ a.rule # "aggregation_threshold" =>
                  NumberOf(alerts', {a}) = NumberOf(events', {Compliance!AlertEvent(a)})
  <2> DEFINE e == Compliance!AlertEvent(a)
  <2>1. /\ NumberOf(alerts, {a}) <= NumberOf(events, {e})
        /\ a.rule # "aggregation_threshold" => NumberOf(alerts, {a}) = NumberOf(events, {e})
    BY AccountedForm DEF Accounted
  <2>2. /\ NumberOf(alerts, {a}) \in Nat /\ NumberOf(raised, {a}) \in Nat
        /\ NumberOf(events, {e}) \in Nat
    BY <1>1, HitsFinite
  <2>3. NumberOf(told, {e}) = NumberOf(raised, {a})
    BY <1>4
  <2> HIDE DEF e
  <2>4. NumberOf(events', {e}) = NumberOf(events, {e}) + NumberOf(raised, {a})
    <3>1. \A W : NumberOf(events \o told, W) = NumberOf(events, W) + NumberOf(told, W)
      BY <1>1, <1>3, ConcatNumber
    <3> QED BY <1>5, <2>3, <3>1
  <2>5. CASE alerts' = alerts \o raised
    <3>1. NumberOf(alerts', {a}) = NumberOf(alerts, {a}) + NumberOf(raised, {a})
      BY <1>1, <2>5, ConcatNumber
    <3> QED BY <2>1, <2>2, <2>4, <3>1 DEF e
  <2>6. CASE /\ alerts' = alerts
             /\ \A i \in DOMAIN raised : raised[i].rule = "aggregation_threshold"
    <3>1. ASSUME a.rule # "aggregation_threshold" PROVE NumberOf(raised, {a}) = 0
      <4>1. Hits(raised, {a}) = {}
        BY <2>6, <3>1 DEF Hits
      <4> QED BY <4>1, FS_EmptySet DEF NumberOf
    <3> QED BY <2>1, <2>2, <2>4, <2>6, <3>1 DEF e
  <2> QED BY <2>5, <2>6
<1>9. AlertsAreLogged'
  BY <1>8, AccountedForm DEF Accounted
<1> QED BY <1>6, <1>7, <1>9

\* Events that freeze nobody leave FreezesAreLogged alone.
LEMMA OtherEventsKeepFreezes ==
  ASSUME ComplianceTypes, FreezesAreLogged, UNCHANGED frozen_accounts,
         events' \in Seq(PlainEvent \cup AlertEvents),
         \A i \in DOMAIN events : i \in DOMAIN events' /\ events'[i] = events[i],
         \A i \in DOMAIN events' \ DOMAIN events : events'[i].type # "account_frozen"
  PROVE  FreezesAreLogged'
<1>1. /\ DOMAIN events = 1 .. Len(events) /\ Len(events) \in Nat
      /\ DOMAIN events' = 1 .. Len(events') /\ Len(events') \in Nat
  BY DEF ComplianceTypes
<1>2. ASSUME NEW u \in frozen_accounts
      PROVE  \E i \in DOMAIN events' : events'[i] = Compliance!Logged("account_frozen", u)
  BY DEF FreezesAreLogged
<1>3. ASSUME NEW i \in DOMAIN events', events'[i].type = "account_frozen"
      PROVE  /\ events'[i].user \in frozen_accounts
             /\ i > 1 /\ events'[i - 1] = Compliance!Logged("ofac_match", events'[i].user)
  <2>1. i \in DOMAIN events /\ events[i].type = "account_frozen" /\ events'[i] = events[i]
    BY <1>3
  <2>2. /\ events[i].user \in frozen_accounts
        /\ i > 1 /\ events[i - 1] = Compliance!Logged("ofac_match", events[i].user)
    BY <2>1 DEF FreezesAreLogged
  <2>3. i - 1 \in DOMAIN events
    BY <1>1, <2>1, <2>2
  <2> QED BY <2>1, <2>2, <2>3
<1> QED BY <1>2, <1>3 DEF FreezesAreLogged

\* screen_ofac on a hit: the match, then the freeze.
LEMMA FreezeIsLogged ==
  ASSUME ComplianceTypes, FreezesAreLogged, NEW u \in Users,
         events' = Append(Append(events, Compliance!Logged("ofac_match", u)),
                          Compliance!Logged("account_frozen", u)),
         frozen_accounts' = frozen_accounts \cup {u}
  PROVE  FreezesAreLogged'
<1> DEFINE a == Compliance!Logged("ofac_match", u)
           b == Compliance!Logged("account_frozen", u)
           n == Len(events)
<1>1. /\ events \in Seq(PlainEvent \cup AlertEvents)
      /\ n \in Nat /\ DOMAIN events = 1 .. n
  BY DEF ComplianceTypes
<1>2. /\ a.type = "ofac_match" /\ b.type = "account_frozen" /\ b.user = u
  BY DEF Compliance!Logged
<1> HIDE DEF a, b
<1>3. events' = Append(Append(events, a), b)
  BY DEF a, b
<1>4. /\ DOMAIN events' = 1 .. n + 2
      /\ \A i \in 1 .. n : events'[i] = events[i]
      /\ events'[n + 1] = a /\ events'[n + 2] = b
  BY <1>1, <1>3
<1>5. ASSUME NEW v \in frozen_accounts'
      PROVE  \E i \in DOMAIN events' : events'[i] = Compliance!Logged("account_frozen", v)
  <2>1. CASE v \in frozen_accounts
    BY <1>1, <1>4, <2>1 DEF FreezesAreLogged
  <2>2. CASE v = u
    BY <1>1, <1>4, <2>2 DEF b
  <2> QED BY <2>1, <2>2
<1>6. ASSUME NEW i \in DOMAIN events', events'[i].type = "account_frozen"
      PROVE  /\ events'[i].user \in frozen_accounts'
             /\ i > 1 /\ events'[i - 1] = Compliance!Logged("ofac_match", events'[i].user)
  <2>1. CASE i \in 1 .. n
    <3>1. events'[i] = events[i] /\ i \in DOMAIN events
      BY <1>1, <1>4, <2>1
    <3>2. /\ events[i].user \in frozen_accounts
          /\ i > 1 /\ events[i - 1] = Compliance!Logged("ofac_match", events[i].user)
      BY <1>6, <3>1 DEF FreezesAreLogged
    <3>3. i - 1 \in 1 .. n
      BY <1>1, <2>1, <3>2
    <3> QED BY <1>4, <3>1, <3>2, <3>3
  <2>2. CASE i = n + 1
    BY <1>2, <1>4, <1>6, <2>2
  <2>3. CASE i = n + 2
    <3>1. i > 1 /\ i - 1 = n + 1
      BY <1>1, <2>3
    <3> QED BY <1>2, <1>4, <2>3, <3>1 DEF a
  <2> QED BY <1>1, <1>4, <2>1, <2>2, <2>3
<1> QED BY <1>5, <1>6 DEF FreezesAreLogged

LEMMA ComplianceStep ==
  ASSUME ComplianceInv, [ApiNext]_api_vars
  PROVE  ComplianceInv'
<1>1. CASE UNCHANGED <<frozen_accounts, alerts, events>>
  <2>1. user_kyc' \in [DOMAIN user_kyc' -> Compliance!Kyc] /\ DOMAIN user_kyc' \subseteq Users
    BY LogSteps DEF ComplianceInv, ComplianceTypes, api_vars, compliance_vars
  <2> QED BY <1>1, <2>1 DEF ComplianceInv, ComplianceTypes, FreezesAreLogged, AlertsAreLogged
<1> SUFFICES ASSUME ApiNext PROVE ComplianceInv'
  BY <1>1 DEF api_vars, compliance_vars
<1>2. /\ ComplianceTypes /\ FreezesAreLogged /\ AlertsAreLogged
      /\ LogStep
      /\ user_kyc' \in [DOMAIN user_kyc' -> Compliance!Kyc]
      /\ DOMAIN user_kyc' \subseteq Users
  BY LogSteps DEF ComplianceInv
<1>3. events \in Seq(PlainEvent \cup AlertEvents) /\ alerts \in Seq(Raised)
      /\ frozen_accounts \subseteq Users
  BY <1>2 DEF ComplianceTypes
<1>4. ASSUME NEW u \in Users, NEW type \in {"kyc_approved", "ofac_screened"},
             events' = Append(events, Compliance!Logged(type, u)),
             UNCHANGED <<frozen_accounts, alerts>>
      PROVE  ComplianceInv'
  <2> DEFINE e == Compliance!Logged(type, u)
  <2>1. e \in PlainEvent /\ e.type # "account_frozen"
    BY <1>4, LoggedType DEF Compliance!EventTypes
  <2> HIDE DEF e
  <2>2. events' = Append(events, e)
    BY <1>4 DEF e
  <2>3. /\ events' \in Seq(PlainEvent \cup AlertEvents)
        /\ \A i \in DOMAIN events : i \in DOMAIN events' /\ events'[i] = events[i]
        /\ \A i \in DOMAIN events' \ DOMAIN events : events'[i] = e
    BY <1>3, <2>1, <2>2
  <2>4. AlertsAreLogged'
    BY <1>2, <1>4, <2>1, <2>3, PlainEventsKeepAlerts
  <2>5. FreezesAreLogged'
    BY <1>2, <1>4, <2>1, <2>3, OtherEventsKeepFreezes
  <2> QED BY <1>2, <1>3, <1>4, <2>3, <2>4, <2>5 DEF ComplianceInv, ComplianceTypes
<1>5. ASSUME NEW u \in Users,
             events' = Append(Append(events, Compliance!Logged("ofac_match", u)),
                              Compliance!Logged("account_frozen", u)),
             frozen_accounts' = frozen_accounts \cup {u}, UNCHANGED alerts
      PROVE  ComplianceInv'
  <2> DEFINE a == Compliance!Logged("ofac_match", u)
             b == Compliance!Logged("account_frozen", u)
  <2>1. a \in PlainEvent /\ b \in PlainEvent
    BY LoggedType DEF Compliance!EventTypes
  <2>2. FreezesAreLogged'
    BY <1>2, <1>5, FreezeIsLogged
  <2> HIDE DEF a, b
  <2>3. events' = Append(Append(events, a), b)
    BY <1>5 DEF a, b
  <2>4. /\ events' \in Seq(PlainEvent \cup AlertEvents)
        /\ \A i \in DOMAIN events : i \in DOMAIN events' /\ events'[i] = events[i]
        /\ \A i \in DOMAIN events' \ DOMAIN events : events'[i] \in {a, b}
    BY <1>3, <2>1, <2>3
  <2>5. AlertsAreLogged'
    BY <1>2, <1>5, <2>1, <2>4, PlainEventsKeepAlerts
  <2> QED BY <1>2, <1>3, <1>5, <2>2, <2>4, <2>5 DEF ComplianceInv, ComplianceTypes
<1>6. ASSUME NEW raised \in Seq(Raised),
             \/ alerts' = alerts \o raised
             \/ /\ alerts' = alerts
                /\ \A i \in DOMAIN raised : raised[i].rule = "aggregation_threshold",
             events' = events \o [i \in DOMAIN raised |-> Compliance!AlertEvent(raised[i])],
             UNCHANGED frozen_accounts
      PROVE  ComplianceInv'
  <2>1. /\ alerts' \in Seq(Raised)
        /\ events' \in Seq(PlainEvent \cup AlertEvents)
        /\ \A i \in DOMAIN events : i \in DOMAIN events' /\ events'[i] = events[i]
        /\ \A i \in DOMAIN events' \ DOMAIN events : events'[i] \in AlertEvents
        /\ AlertsAreLogged'
    BY <1>2, <1>6, RaisedAlertsAreLogged
  <2>2. \A i \in DOMAIN events' \ DOMAIN events : events'[i].type # "account_frozen"
    BY <2>1, EventKinds
  <2>3. FreezesAreLogged'
    BY <1>2, <1>6, <2>1, <2>2, OtherEventsKeepFreezes
  <2> QED BY <1>2, <1>3, <1>6, <2>1, <2>3 DEF ComplianceInv, ComplianceTypes
<1> QED BY <1>1, <1>2, <1>4, <1>5, <1>6 DEF LogStep

-----------------------------------------------------------------------------
(* Decisions and answers.                                                  *)

LEMMA DecisionType ==
  ASSUME NEW u, NEW ctx
  PROVE  Fraud!Decision(u, ctx) \in Fraud!Decisions
BY DEF Fraud!Decision, Fraud!Scored, Fraud!Decisions

LEMMA FraudStep ==
  ASSUME FraudTypes, [ApiNext]_api_vars
  PROVE  FraudTypes'
<1>1. CASE UNCHANGED fraud_vars
  BY <1>1 DEF fraud_vars, FraudTypes
<1>2. ASSUME NEW u \in Users, NEW x, Fraud!Evaluate(u, FraudContext(x))
      PROVE  FraudTypes'
  <2>1. [user |-> u, decision |-> Fraud!Decision(u, FraudContext(x))] \in DecisionRecord
    BY DecisionType DEF DecisionRecord
  <2> QED BY <1>2, <2>1, AppendProperties DEF Fraud!Evaluate, FraudTypes
<1>3. ASSUME NEW u \in Users, NEW b \in BOOLEAN, NEW a \in BOOLEAN, Fraud!ListUser(u, b, a)
      PROVE  FraudTypes'
  BY <1>3 DEF Fraud!ListUser, FraudTypes
<1>4. ApiNext => \/ UNCHANGED fraud_vars
                 \/ \E u \in Users, x \in RequestAmounts : Fraud!Evaluate(u, FraudContext(x))
                 \/ \E u \in Users, b, a \in BOOLEAN : Fraud!ListUser(u, b, a)
  BY DEF ApiNext, CreateTransaction, Process, api_vars, OpenWallet, Allocate, ReleaseHold,
         Verify, VerificationLapses, Screen, Monitor, ListUser
<1> QED BY <1>1, <1>2, <1>3, <1>4 DEF api_vars

AcceptedIn(store) == {k \in DOMAIN store : store[k].status # "failed"}

OwnersIn(store, id) == {k \in AcceptedIn(store) : store[k].transaction_id = id}

\* Ids were all given out before, each to one answer.
IdsAreOld ==
  /\ \A k \in DOMAIN idempotency_store : idempotency_store[k].transaction_id <= Len(decisions)
  /\ \A i \in DOMAIN hold_transactions : hold_transactions[i] <= Len(decisions)

\* What the ledger has under the key of a request is a transfer.
RequestsPostTransfers ==
  \A k \in DOMAIN idempotency_keys \cap RequestKeys :
    /\ idempotency_keys[k] \in DOMAIN journal_entries
    /\ journal_entries[idempotency_keys[k]].type = "transfer"

AnswerInv ==
  /\ TypeOK /\ FraudTypes /\ AnswerTypes
  /\ IsFiniteSet(DOMAIN idempotency_store)
  /\ IdsAreOld
  /\ RequestsPostTransfers
  /\ AnswersReserveOnce
  /\ OneRecordPerAnswer
  /\ DecisionsOnRecord

\* The fields of an answer.
LEMMA AnswerFields ==
  ASSUME NEW a \in Answers
  PROVE  /\ a.transaction_id \in 1 .. MaxDecisions /\ a.transaction_id \in Nat
         /\ a.user_id \in Users /\ a.amount \in RequestAmounts
         /\ a.status \in {"pending", "pending_review", "failed"}
         /\ a.fraud_decision \in Fraud!Decisions
BY ApiAssumption DEF Answers

\* The answer to a request that gets past the cache.
LEMMA ResponseFields ==
  ASSUME AnswerInv, NEW u \in Users, NEW x \in RequestAmounts, Len(decisions) < MaxDecisions
  PROVE  LET r == Response(u, x)
             d == Fraud!Decision(u, FraudContext(x))
         IN  /\ r \in Answers
             /\ r.transaction_id = Len(decisions) + 1
             /\ r.user_id = u /\ r.amount = x /\ r.fraud_decision = d
             /\ r.status = "failed" <=> d = "decline"
<1> DEFINE r == Response(u, x)
           d == Fraud!Decision(u, FraudContext(x))
<1>1. d \in {"approve", "review", "decline"}
  BY DecisionType DEF Fraud!Decisions
<1>2. r = [transaction_id |-> Len(decisions) + 1, user_id |-> u, amount |-> x,
           status |-> StatusOf(d), fraud_decision |-> d]
  BY DEF Response, NextTransaction
<1> HIDE DEF d, r
<1>3. /\ StatusOf(d) \in {"pending", "pending_review", "failed"}
      /\ StatusOf(d) = "failed" <=> d = "decline"
  BY <1>1 DEF StatusOf
<1>4. Len(decisions) + 1 \in 1 .. MaxDecisions
  <2>1. Len(decisions) \in Nat
    BY DEF AnswerInv, FraudTypes
  <2> QED BY <2>1, ApiAssumption
<1>5. r \in Answers
  BY <1>1, <1>2, <1>3, <1>4 DEF Answers, Fraud!Decisions
<1> QED BY <1>2, <1>3, <1>5 DEF r, d

\* Posting under a key: what was posted stays, and the key is found.
LEMMA PostKeeps ==
  ASSUME TypeOK, RequestsPostTransfers, NEW type \in EntryTypes, NEW key \in Keys,
         NEW lines \in Seq(RawLine), PostEntry(type, key, lines),
         key \in RequestKeys => type = "transfer"
  PROVE  /\ journal_entries' \in Seq(Entry)
         /\ idempotency_keys' \in [DOMAIN idempotency_keys' -> Nat]
         /\ DOMAIN idempotency_keys' \subseteq Keys
         /\ key \in DOMAIN idempotency_keys'
         /\ \A k \in DOMAIN idempotency_keys :
              k \in DOMAIN idempotency_keys' /\ idempotency_keys'[k] = idempotency_keys[k]
         /\ \A i \in DOMAIN journal_entries :
              i \in DOMAIN journal_entries' /\ journal_entries'[i] = journal_entries[i]
         /\ RequestsPostTransfers'
<1>1. /\ journal_entries' \in Seq(Entry)
      /\ idempotency_keys' \in [DOMAIN idempotency_keys' -> Nat]
      /\ DOMAIN idempotency_keys' \subseteq Keys
  BY PostEntryType
<1>2. CASE Cached(key)
  <2>1. UNCHANGED <<journal_entries, idempotency_keys>> /\ key \in DOMAIN idempotency_keys
    BY <1>2 DEF PostEntry, Replay, Cached
  <2> QED BY <1>1, <2>1 DEF RequestsPostTransfers
<1>3. CASE ~ Cached(key)
  <2> DEFINE e == [type |-> type, key |-> key, lines |-> lines]
             n == Len(journal_entries)
  <2>1. /\ key \notin DOMAIN idempotency_keys
        /\ journal_entries' = Append(journal_entries, e)
        /\ idempotency_keys' = [k \in DOMAIN idempotency_keys \cup {key} |->
             IF k = key THEN n + 1 ELSE idempotency_keys[k]]
    BY <1>3 DEF PostEntry, Commit, Cached
  <2>2. e.type = type
    OBVIOUS
  <2>3. journal_entries \in Seq(Entry)
    BY DEF TypeOK
  <2> HIDE DEF e
  <2>4. /\ \A i \in DOMAIN journal_entries :
             i \in DOMAIN journal_entries' /\ journal_entries'[i] = journal_entries[i]
        /\ n + 1 \in DOMAIN journal_entries' /\ journal_entries'[n + 1] = e
    BY <1>1, <2>1, <2>3
  <2>5. /\ DOMAIN idempotency_keys' = DOMAIN idempotency_keys \cup {key}
        /\ idempotency_keys'[key] = n + 1
        /\ \A k \in DOMAIN idempotency_keys : idempotency_keys'[k] = idempotency_keys[k]
    BY <2>1
  <2> HIDE DEF n
  <2>6. ASSUME NEW k \in DOMAIN idempotency_keys' \cap RequestKeys
        PROVE  /\ idempotency_keys'[k] \in DOMAIN journal_entries'
               /\ journal_entries'[idempotency_keys'[k]].type = "transfer"
    <3>1. CASE k = key
      BY <2>2, <2>4, <2>5, <3>1
    <3>2. CASE k # key
      <4>1. k \in DOMAIN idempotency_keys \cap RequestKeys /\ idempotency_keys'[k] = idempotency_keys[k]
        BY <2>5, <3>2
      <4>2. /\ idempotency_keys[k] \in DOMAIN journal_entries
            /\ journal_entries[idempotency_keys[k]].type = "transfer"
        BY <4>1 DEF RequestsPostTransfers
      <4> QED BY <2>4, <4>1, <4>2
    <3> QED BY <3>1, <3>2
  <2>7. RequestsPostTransfers'
    BY <2>6 DEF RequestsPostTransfers
  <2> QED BY <1>1, <2>4, <2>5, <2>7
<1> QED BY <1>2, <1>3

\* AnswersReserveOnce says this of the i-th hold.
HasReserved(i, hs, ids, store, keys, journal) ==
  \E k \in OwnersIn(store, ids[i]) :
    /\ OwnersIn(store, ids[i]) = {k}
    /\ hs[i].account = Wallet(store[k].user_id)
    /\ hs[i].amount = store[k].amount
    /\ k \in DOMAIN keys
    /\ journal[keys[k]].type = "transfer"

LEMMA ReserveForm ==
  /\ AnswersReserveOnce <=>
       /\ Len(holds) = Len(hold_transactions)
       /\ Len(holds) = Cardinality(AcceptedIn(idempotency_store))
       /\ \A i \in DOMAIN holds :
            HasReserved(i, holds, hold_transactions, idempotency_store, idempotency_keys, journal_entries)
  /\ AnswersReserveOnce' <=>
       /\ Len(holds') = Len(hold_transactions')
       /\ Len(holds') = Cardinality(AcceptedIn(idempotency_store'))
       /\ \A i \in DOMAIN holds' :
            HasReserved(i, holds', hold_transactions', idempotency_store', idempotency_keys', journal_entries')
BY DEF AnswersReserveOnce, Accepted, AcceptedIn, OwnersIn, HasReserved

\* The ledger only grows: no key is lost or moved, no entry changed.
LedgerGrows ==
  /\ \A k \in DOMAIN idempotency_keys :
       k \in DOMAIN idempotency_keys' /\ idempotency_keys'[k] = idempotency_keys[k]
  /\ \A i \in DOMAIN journal_entries :
       i \in DOMAIN journal_entries' /\ journal_entries'[i] = journal_entries[i]

\* A hold keeps its owner while other requests are answered.
LEMMA ReservedStays ==
  ASSUME AnswerInv, LedgerGrows, NEW i \in DOMAIN holds,
         holds'[i].account = holds[i].account, holds'[i].amount = holds[i].amount,
         hold_transactions'[i] = hold_transactions[i],
         OwnersIn(idempotency_store', hold_transactions[i])
           = OwnersIn(idempotency_store, hold_transactions[i]),
         \A k \in DOMAIN idempotency_store : idempotency_store'[k] = idempotency_store[k]
  PROVE  HasReserved(i, holds', hold_transactions', idempotency_store', idempotency_keys', journal_entries')
<1> DEFINE owners == OwnersIn(idempotency_store, hold_transactions[i])
<1>1. PICK k \in owners :
        /\ owners = {k}
        /\ holds[i].account = Wallet(idempotency_store[k].user_id)
        /\ holds[i].amount = idempotency_store[k].amount
        /\ k \in DOMAIN idempotency_keys
        /\ journal_entries[idempotency_keys[k]].type = "transfer"
  BY ReserveForm DEF AnswerInv, HasReserved
<1>2. k \in DOMAIN idempotency_store /\ k \in RequestKeys
  BY <1>1 DEF OwnersIn, AcceptedIn, AnswerInv, AnswerTypes
<1>3. idempotency_keys[k] \in DOMAIN journal_entries
  BY <1>1, <1>2 DEF AnswerInv, RequestsPostTransfers
<1>4. /\ k \in DOMAIN idempotency_keys'
      /\ journal_entries'[idempotency_keys'[k]].type = "transfer"
  BY <1>1, <1>3 DEF LedgerGrows
<1>5. idempotency_store'[k] = idempotency_store[k]
  BY <1>2
<1> QED BY <1>1, <1>4, <1>5 DEF HasReserved

\* Nothing new is held, and nothing new accepted.
LEMMA ReserveKept ==
  ASSUME AnswerInv, LedgerGrows, UNCHANGED hold_transactions,
         Len(holds') = Len(holds), holds' \in Seq(Hold),
         \A i \in DOMAIN holds :
           holds'[i].account = holds[i].account /\ holds'[i].amount = holds[i].amount,
         AcceptedIn(idempotency_store') = AcceptedIn(idempotency_store),
         \A k \in DOMAIN idempotency_store : idempotency_store'[k] = idempotency_store[k]
  PROVE  AnswersReserveOnce'
<1>1. DOMAIN holds' = DOMAIN holds
  BY DEF AnswerInv, TypeOK
<1>2. \A id : OwnersIn(idempotency_store', id) = OwnersIn(idempotency_store, id)
  BY DEF OwnersIn, AcceptedIn
<1>3. ASSUME NEW i \in DOMAIN holds
      PROVE  HasReserved(i, holds', hold_transactions', idempotency_store', idempotency_keys', journal_entries')
  BY <1>2, ReservedStays
<1> QED BY <1>1, <1>3, ReserveForm DEF AnswerInv

\* What an answer does to the store and the log.
LEMMA AnswerEffect ==
  ASSUME AnswerInv, NEW u \in Users, NEW x \in RequestAmounts, NEW k \in RequestKeys,
         k \notin DOMAIN idempotency_store, Len(decisions) < MaxDecisions,
         Fraud!Evaluate(u, FraudContext(x)), Answer(u, x, k)
  PROVE  /\ DOMAIN idempotency_store' = DOMAIN idempotency_store \cup {k}
         /\ idempotency_store'[k] = Response(u, x)
         /\ \A l \in DOMAIN idempotency_store : idempotency_store'[l] = idempotency_store[l]
         /\ transaction_log' = Append(transaction_log, Response(u, x))
         /\ idempotency_store' \in [DOMAIN idempotency_store' -> Answers]
         /\ DOMAIN idempotency_store' \subseteq RequestKeys
         /\ transaction_log' \in Seq(Answers)
         /\ IsFiniteSet(DOMAIN idempotency_store')
         /\ OneRecordPerAnswer'
         /\ DecisionsOnRecord'
<1> DEFINE r == Response(u, x)
           n == Len(transaction_log)
           d == [user |-> u, decision |-> Fraud!Decision(u, FraudContext(x))]
<1>1. /\ r \in Answers
      /\ r.transaction_id = Len(decisions) + 1
      /\ r.user_id = u
      /\ d = [user |-> r.user_id, decision |-> r.fraud_decision]
  BY ResponseFields
<1>2. /\ idempotency_store' = [l \in DOMAIN idempotency_store \cup {k} |->
           IF l = k THEN r ELSE idempotency_store[l]]
      /\ transaction_log' = Append(transaction_log, r)
      /\ decisions' = Append(decisions, d)
  BY DEF Answer, Fraud!Evaluate
<1> HIDE DEF r, d
<1>3. /\ transaction_log \in Seq(Answers)
      /\ idempotency_store \in [DOMAIN idempotency_store -> Answers]
      /\ DOMAIN idempotency_store \subseteq RequestKeys
      /\ IsFiniteSet(DOMAIN idempotency_store)
      /\ n \in Nat /\ DOMAIN transaction_log = 1 .. n
      /\ decisions \in Seq(DecisionRecord) /\ Len(decisions) \in Nat
      /\ DOMAIN decisions = 1 .. Len(decisions)
  BY DEF AnswerInv, AnswerTypes, FraudTypes
<1>4. /\ DOMAIN idempotency_store' = DOMAIN idempotency_store \cup {k}
      /\ idempotency_store'[k] = r
      /\ \A l \in DOMAIN idempotency_store : idempotency_store'[l] = idempotency_store[l]
      /\ idempotency_store' \in [DOMAIN idempotency_store' -> Answers]
      /\ DOMAIN idempotency_store' \subseteq RequestKeys
  BY <1>1, <1>2, <1>3
<1>5. /\ transaction_log' \in Seq(Answers)
      /\ Len(transaction_log') = n + 1
      /\ DOMAIN transaction_log' = 1 .. n + 1
      /\ transaction_log'[n + 1] = r
      /\ \A i \in 1 .. n : transaction_log'[i] = transaction_log[i]
  BY <1>1, <1>2, <1>3
<1>6. d \in DecisionRecord
  BY <1>1, AnswerFields DEF DecisionRecord
<1>7. /\ DOMAIN decisions' = 1 .. Len(decisions) + 1
      /\ decisions'[Len(decisions) + 1] = d
      /\ \A i \in 1 .. Len(decisions) : decisions'[i] = decisions[i]
  BY <1>2, <1>3, <1>6
<1>8. /\ IsFiniteSet(DOMAIN idempotency_store')
      /\ Cardinality(DOMAIN idempotency_store') = Cardinality(DOMAIN idempotency_store) + 1
  BY <1>3, <1>4, FS_AddElement
<1> HIDE DEF n
<1>9. OneRecordPerAnswer'
  <2>1. Len(transaction_log') = Cardinality(DOMAIN idempotency_store')
    BY <1>5, <1>8 DEF AnswerInv, OneRecordPerAnswer, n
  <2>2. ASSUME NEW l \in DOMAIN idempotency_store'
        PROVE  \E i \in DOMAIN transaction_log' : transaction_log'[i] = idempotency_store'[l]
    <3>1. CASE l = k
      <4>1. n + 1 \in 1 .. n + 1
        BY <1>3
      <4> QED BY <1>4, <1>5, <3>1, <4>1
    <3>2. CASE l # k
      <4>1. l \in DOMAIN idempotency_store /\ idempotency_store'[l] = idempotency_store[l]
        BY <1>4, <3>2
      <4>2. PICK i \in 1 .. n : transaction_log[i] = idempotency_store[l]
        BY <1>3, <4>1 DEF AnswerInv, OneRecordPerAnswer
      <4>3. i \in 1 .. n + 1
        BY <1>3
      <4> QED BY <1>5, <4>1, <4>2, <4>3
    <3> QED BY <3>1, <3>2
  <2> QED BY <2>1, <2>2 DEF OneRecordPerAnswer
<1>10. \A i \in 1 .. n : transaction_log[i].transaction_id \in 1 .. Len(decisions)
  BY <1>3 DEF AnswerInv, DecisionsOnRecord
<1>11. DecisionsOnRecord'
  <2> SUFFICES ASSUME NEW i \in 1 .. n + 1
               PROVE  LET record == transaction_log'[i]
                      IN  /\ record.transaction_id \in DOMAIN decisions'
                          /\ decisions'[record.transaction_id] =
                               [user |-> record.user_id, decision |-> record.fraud_decision]
                          /\ \A j \in 1 .. n + 1 :
                               j # i => transaction_log'[j].transaction_id # record.transaction_id
    BY <1>5 DEF DecisionsOnRecord
  <2>1. CASE i = n + 1
    <3>1. \A j \in 1 .. n + 1 : j # i => transaction_log'[j].transaction_id \in 1 .. Len(decisions)
      BY <1>3, <1>5, <1>10, <2>1
    <3>2. Len(decisions) + 1 \in DOMAIN decisions' /\ Len(decisions) + 1 \notin 1 .. Len(decisions)
      BY <1>3, <1>7
    <3> QED BY <1>1, <1>5, <1>7, <2>1, <3>1, <3>2
  <2>2. CASE i \in 1 .. n
    <3> DEFINE record == transaction_log[i]
    <3>1. transaction_log'[i] = record
      BY <1>5, <2>2
    <3>2. /\ record.transaction_id \in 1 .. Len(decisions)
          /\ decisions[record.transaction_id] =
               [user |-> record.user_id, decision |-> record.fraud_decision]
          /\ \A j \in 1 .. n : j # i => transaction_log[j].transaction_id # record.transaction_id
      BY <1>3, <2>2 DEF AnswerInv, DecisionsOnRecord
    <3> HIDE DEF record
    <3>3. /\ record.transaction_id \in DOMAIN decisions'
          /\ decisions'[record.transaction_id] = decisions[record.transaction_id]
          /\ record.transaction_id # Len(decisions) + 1
      BY <1>3, <1>7, <3>2
    <3>4. ASSUME NEW j \in 1 .. n + 1, j # i
          PROVE  transaction_log'[j].transaction_id # record.transaction_id
      <4>1. CASE j = n + 1
        BY <1>1, <1>5, <3>3, <4>1
      <4>2. CASE j \in 1 .. n
        BY <1>5, <3>2, <3>4, <4>2
      <4> QED BY <1>3, <4>1, <4>2
    <3> QED BY <3>1, <3>2, <3>3, <3>4
  <2> QED BY <1>3, <2>1, <2>2
<1> QED BY <1>2, <1>4, <1>5, <1>8, <1>9, <1>11 DEF r

\* More decisions do not make old ids new, nor untrue what is on record.
LEMMA DecisionKeeps ==
  ASSUME AnswerInv, NEW u \in Users, NEW x, Fraud!Evaluate(u, FraudContext(x)),
         UNCHANGED <<answer_vars, hold_transactions>>
  PROVE  IdsAreOld' /\ OneRecordPerAnswer' /\ DecisionsOnRecord'
<1> DEFINE d == [user |-> u, decision |-> Fraud!Decision(u, FraudContext(x))]
<1>1. /\ decisions \in Seq(DecisionRecord) /\ Len(decisions) \in Nat
      /\ DOMAIN decisions = 1 .. Len(decisions)
      /\ decisions' = Append(decisions, d)
  BY DEF AnswerInv, FraudTypes, Fraud!Evaluate
<1>2. d \in DecisionRecord
  BY DecisionType DEF DecisionRecord
<1> HIDE DEF d
<1>3. /\ Len(decisions') = Len(decisions) + 1
      /\ \A i \in DOMAIN decisions : i \in DOMAIN decisions' /\ decisions'[i] = decisions[i]
  BY <1>1, <1>2
<1>4. IdsAreOld'
  <2>1. /\ \A k \in DOMAIN idempotency_store : idempotency_store[k].transaction_id \in Nat
        /\ \A i \in DOMAIN hold_transactions : hold_transactions[i] \in Nat
    BY AnswerFields, ApiAssumption DEF AnswerInv, AnswerTypes
  <2> QED BY <1>1, <1>3, <2>1 DEF AnswerInv, IdsAreOld, answer_vars
<1>5. OneRecordPerAnswer'
  BY DEF AnswerInv, OneRecordPerAnswer, answer_vars
<1>6. DecisionsOnRecord'
  BY <1>3 DEF AnswerInv, DecisionsOnRecord, answer_vars
<1> QED BY <1>4, <1>5, <1>6

\* An answer's id is new; so ids stay old and belong to one answer each.
LEMMA AnswerKeepsIds ==
  ASSUME AnswerInv, NEW u \in Users, NEW x \in RequestAmounts, NEW k \in RequestKeys,
         k \notin DOMAIN idempotency_store, Len(decisions) < MaxDecisions,
         Fraud!Evaluate(u, FraudContext(x)), Answer(u, x, k),
         hold_transactions' \in Seq(1 .. MaxDecisions),
         \A i \in DOMAIN hold_transactions' : hold_transactions'[i] <= Len(decisions) + 1
  PROVE  /\ IdsAreOld'
         /\ \A id \in 1 .. Len(decisions) :
              OwnersIn(idempotency_store', id) = OwnersIn(idempotency_store, id)
         /\ OwnersIn(idempotency_store', Len(decisions) + 1)
              = IF Fraud!Decision(u, FraudContext(x)) = "decline" THEN {} ELSE {k}
         /\ AcceptedIn(idempotency_store')
              = AcceptedIn(idempotency_store)
                \cup IF Fraud!Decision(u, FraudContext(x)) = "decline" THEN {} ELSE {k}
<1> DEFINE r == Response(u, x)
           n == Len(decisions)
<1>1. /\ DOMAIN idempotency_store' = DOMAIN idempotency_store \cup {k}
      /\ idempotency_store'[k] = r
      /\ \A l \in DOMAIN idempotency_store : idempotency_store'[l] = idempotency_store[l]
  BY AnswerEffect
<1>2. /\ r.transaction_id = n + 1
      /\ r.status = "failed" <=> Fraud!Decision(u, FraudContext(x)) = "decline"
  BY ResponseFields
<1>3. decisions \in Seq(DecisionRecord) /\ n \in Nat
  BY DEF AnswerInv, FraudTypes
<1>4. Len(decisions') = n + 1
  BY <1>3, DecisionType DEF Fraud!Evaluate, DecisionRecord
<1>5. \A l \in DOMAIN idempotency_store :
        /\ idempotency_store[l].transaction_id \in Nat
        /\ idempotency_store[l].transaction_id <= n
  BY AnswerFields DEF AnswerInv, AnswerTypes, IdsAreOld
<1> HIDE DEF r, n
<1>6. IdsAreOld'
  <2>1. \A l \in DOMAIN idempotency_store' : idempotency_store'[l].transaction_id <= n + 1
    BY <1>1, <1>2, <1>3, <1>5
  <2> QED BY <1>4, <2>1 DEF IdsAreOld, n
<1>7. AcceptedIn(idempotency_store')
        = AcceptedIn(idempotency_store)
          \cup IF Fraud!Decision(u, FraudContext(x)) = "decline" THEN {} ELSE {k}
  BY <1>1, <1>2 DEF AcceptedIn
<1>8. ASSUME NEW id \in 1 .. n
      PROVE  OwnersIn(idempotency_store', id) = OwnersIn(idempotency_store, id)
  <2>1. id # n + 1
    BY <1>3
  <2> QED BY <1>1, <1>2, <2>1 DEF OwnersIn, AcceptedIn
<1>9. OwnersIn(idempotency_store', n + 1)
        = IF Fraud!Decision(u, FraudContext(x)) = "decline" THEN {} ELSE {k}
  <2>1. \A l \in DOMAIN idempotency_store : idempotency_store[l].transaction_id # n + 1
    BY <1>3, <1>5
  <2> QED BY <1>1, <1>2, <2>1 DEF OwnersIn, AcceptedIn
<1> QED BY <1>6, <1>7, <1>8, <1>9 DEF n

\* A new hold, placed and answered in one step, is owned by its answer.
LEMMA HeldKeeps ==
  ASSUME AnswerInv, NEW u \in Users, NEW x \in RequestAmounts, NEW k \in RequestKeys,
         k \notin DOMAIN idempotency_store, Len(decisions) < MaxDecisions,
         Fraud!Evaluate(u, FraudContext(x)),
         Fraud!Decision(u, FraudContext(x)) # "decline", Held(u, x, k)
  PROVE  AnswerInv'
<1> DEFINE lines == <<Dr(Wallet(u), x), Cr(Receivable(Stripe), x)>>
           h == NewHold(Wallet(u), x)
           n == Len(holds)
           id == Len(decisions) + 1
           store == idempotency_store'
<1>1. lines \in Seq(RawLine)
  <2>1. x \in Int
    BY ApiAssumption
  <2> QED BY <2>1, ChartAccounts, TwoLines, ApiAssumption
<1>2. /\ PostEntry("transfer", k, lines) /\ "transfer" \in EntryTypes /\ k \in Keys
      /\ holds' = Append(holds, h)
      /\ hold_transactions' = Append(hold_transactions, id)
      /\ Answer(u, x, k) /\ UNCHANGED accounts
  BY DEF Held, EntryTypes, RequestKeys, NextTransaction
<1>3. h \in Hold /\ h.account = Wallet(u) /\ h.amount = x
  BY ApiAssumption, LedgerAssumption, ChartAccounts DEF NewHold, Hold, Statuses
<1> HIDE DEF lines, h
<1>4. /\ TypeOK /\ FraudTypes /\ AnswerTypes /\ RequestsPostTransfers /\ AnswersReserveOnce
      /\ holds \in Seq(Hold) /\ n \in Nat /\ DOMAIN holds = 1 .. n
      /\ hold_transactions \in Seq(1 .. MaxDecisions) /\ Len(hold_transactions) = n
      /\ DOMAIN hold_transactions = 1 .. n
      /\ n = Cardinality(AcceptedIn(idempotency_store))
  BY ReserveForm DEF AnswerInv, TypeOK, AnswerTypes
<1>5. /\ journal_entries' \in Seq(Entry)
      /\ idempotency_keys' \in [DOMAIN idempotency_keys' -> Nat]
      /\ DOMAIN idempotency_keys' \subseteq Keys
      /\ k \in DOMAIN idempotency_keys'
      /\ LedgerGrows
      /\ RequestsPostTransfers'
  BY <1>1, <1>2, <1>4, PostKeeps DEF LedgerGrows
<1>6. /\ holds' \in Seq(Hold) /\ Len(holds') = n + 1 /\ DOMAIN holds' = 1 .. n + 1
      /\ holds'[n + 1] = h
      /\ \A i \in 1 .. n : holds'[i] = holds[i]
  BY <1>2, <1>3, <1>4
<1>7. id \in 1 .. MaxDecisions /\ Len(decisions) \in Nat
  BY <1>4, ApiAssumption DEF FraudTypes
<1>8. /\ hold_transactions' \in Seq(1 .. MaxDecisions) /\ Len(hold_transactions') = n + 1
      /\ DOMAIN hold_transactions' = 1 .. n + 1
      /\ hold_transactions'[n + 1] = id
      /\ \A i \in 1 .. n : hold_transactions'[i] = hold_transactions[i]
  BY <1>2, <1>4, <1>7
<1>9. \A i \in 1 .. n : hold_transactions[i] \in 1 .. Len(decisions)
  <2> HIDE DEF n
  <2>1. \A i \in 1 .. n : hold_transactions[i] \in 1 .. MaxDecisions
    <3>1. hold_transactions \in Seq(1 .. MaxDecisions) /\ Len(hold_transactions) = n
      BY <1>4
    <3> QED BY <3>1, ElementOfSeq
  <2>2. \A i \in 1 .. n : hold_transactions[i] \in Nat /\ hold_transactions[i] >= 1
    BY <2>1, ApiAssumption
  <2>3. \A i \in 1 .. n : hold_transactions[i] <= Len(decisions)
    BY <1>4 DEF AnswerInv, IdsAreOld
  <2> QED BY <1>7, <2>2, <2>3
<1> HIDE DEF n
<1>10. \A i \in DOMAIN hold_transactions' : hold_transactions'[i] <= Len(decisions) + 1
  <2> SUFFICES ASSUME NEW i \in 1 .. n + 1 PROVE hold_transactions'[i] <= Len(decisions) + 1
    BY <1>8
  <2>1. CASE i = n + 1
    BY <1>7, <1>8, <2>1
  <2>2. CASE i \in 1 .. n
    BY <1>7, <1>8, <1>9, <2>2
  <2> QED BY <1>4, <2>1, <2>2
<1>11. /\ IdsAreOld'
       /\ \A i \in 1 .. Len(decisions) : OwnersIn(store, i) = OwnersIn(idempotency_store, i)
       /\ OwnersIn(store, id) = {k}
       /\ AcceptedIn(store) = AcceptedIn(idempotency_store) \cup {k}
  BY <1>2, <1>8, <1>10, AnswerKeepsIds
<1>12. /\ DOMAIN store = DOMAIN idempotency_store \cup {k}
       /\ store[k] = Response(u, x)
       /\ \A l \in DOMAIN idempotency_store : store[l] = idempotency_store[l]
       /\ idempotency_store' \in [DOMAIN idempotency_store' -> Answers]
       /\ DOMAIN idempotency_store' \subseteq RequestKeys
       /\ transaction_log' \in Seq(Answers)
       /\ IsFiniteSet(DOMAIN idempotency_store')
       /\ OneRecordPerAnswer'
       /\ DecisionsOnRecord'
  BY <1>2, AnswerEffect
<1>13. Cardinality(AcceptedIn(store)) = n + 1
  <2>1. AcceptedIn(idempotency_store) \subseteq DOMAIN idempotency_store
    BY DEF AcceptedIn
  <2>2. IsFiniteSet(AcceptedIn(idempotency_store)) /\ k \notin AcceptedIn(idempotency_store)
    BY <2>1, FS_Subset DEF AnswerInv
  <2> QED BY <1>4, <1>11, <2>2, FS_AddElement
<1>14. ASSUME NEW i \in 1 .. n + 1
       PROVE  HasReserved(i, holds', hold_transactions', store, idempotency_keys', journal_entries')
  <2>1. CASE i \in 1 .. n
    <3>1. /\ i \in DOMAIN holds
          /\ holds'[i].account = holds[i].account /\ holds'[i].amount = holds[i].amount
          /\ hold_transactions'[i] = hold_transactions[i]
          /\ OwnersIn(store, hold_transactions[i]) = OwnersIn(idempotency_store, hold_transactions[i])
      BY <1>4, <1>6, <1>8, <1>9, <1>11, <2>1
    <3> QED BY <1>5, <1>12, <3>1, ReservedStays
  <2>2. CASE i = n + 1
    <3>1. store[k].user_id = u /\ store[k].amount = x
      BY <1>12, ResponseFields
    <3>2. idempotency_keys'[k] \in DOMAIN journal_entries'
          /\ journal_entries'[idempotency_keys'[k]].type = "transfer"
      BY <1>5 DEF RequestsPostTransfers
    <3>3. OwnersIn(store, hold_transactions'[i]) = {k}
      BY <1>8, <1>11, <2>2
    <3>4. holds'[i].account = Wallet(u) /\ holds'[i].amount = x
      BY <1>3, <1>6, <2>2
    <3> QED BY <1>5, <3>1, <3>2, <3>3, <3>4 DEF HasReserved
  <2> QED BY <1>4, <2>1, <2>2
<1>15. AnswersReserveOnce'
  BY <1>6, <1>8, <1>13, <1>14, ReserveForm
<1>16. FraudTypes'
  BY <1>4, DecisionType, AppendProperties DEF Fraud!Evaluate, FraudTypes, DecisionRecord
<1>17. TypeOK' /\ AnswerTypes'
  BY <1>2, <1>4, <1>5, <1>6, <1>8, <1>12 DEF TypeOK, AnswerTypes
<1> QED BY <1>5, <1>11, <1>12, <1>15, <1>16, <1>17 DEF AnswerInv

\* A request refused by create_hold has posted, and changed nothing else that
\* the answers depend on.
LEMMA NotHeldKeeps ==
  ASSUME AnswerInv, NEW u \in Users, NEW x \in RequestAmounts, NEW k \in RequestKeys,
         Fraud!Evaluate(u, FraudContext(x)), NotHeld(u, x, k)
  PROVE  AnswerInv'
<1> DEFINE lines == <<Dr(Wallet(u), x), Cr(Receivable(Stripe), x)>>
<1>1. lines \in Seq(RawLine)
  <2>1. x \in Int
    BY ApiAssumption
  <2> QED BY <2>1, ChartAccounts, TwoLines, ApiAssumption
<1>2. /\ PostEntry("transfer", k, lines) /\ "transfer" \in EntryTypes /\ k \in Keys
      /\ UNCHANGED <<accounts, holds, hold_transactions, answer_vars>>
  BY DEF NotHeld, EntryTypes, RequestKeys
<1> HIDE DEF lines
<1>3. TypeOK /\ FraudTypes /\ AnswerTypes /\ RequestsPostTransfers
  BY DEF AnswerInv
<1>4. /\ journal_entries' \in Seq(Entry)
      /\ idempotency_keys' \in [DOMAIN idempotency_keys' -> Nat]
      /\ DOMAIN idempotency_keys' \subseteq Keys
      /\ LedgerGrows
      /\ RequestsPostTransfers'
  BY <1>1, <1>2, <1>3, PostKeeps DEF LedgerGrows
<1>5. TypeOK' /\ AnswerTypes'
  BY <1>2, <1>3, <1>4 DEF TypeOK, AnswerTypes, answer_vars
<1>6. AnswersReserveOnce'
  <2>1. holds \in Seq(Hold)
    BY <1>3 DEF TypeOK
  <2> QED BY <1>2, <1>4, <2>1, ReserveKept DEF answer_vars
<1>7. FraudTypes'
  BY <1>3, DecisionType, AppendProperties DEF Fraud!Evaluate, FraudTypes, DecisionRecord
<1>8. IdsAreOld' /\ OneRecordPerAnswer' /\ DecisionsOnRecord'
  BY <1>2, DecisionKeeps
<1> QED BY <1>2, <1>4, <1>5, <1>6, <1>7, <1>8 DEF AnswerInv, answer_vars

LEMMA RefusedKeeps ==
  ASSUME AnswerInv, NEW u \in Users, NEW x \in RequestAmounts,
         Fraud!Evaluate(u, FraudContext(x)), UNCHANGED <<ledger_vars, answer_vars>>
  PROVE  AnswerInv'
<1>1. FraudTypes'
  BY DecisionType, AppendProperties DEF AnswerInv, Fraud!Evaluate, FraudTypes, DecisionRecord
<1>2. IdsAreOld' /\ OneRecordPerAnswer' /\ DecisionsOnRecord'
  BY DecisionKeeps DEF ledger_vars
<1>3. UNCHANGED <<accounts, journal_entries, holds, idempotency_keys, hold_transactions,
                  idempotency_store, transaction_log>>
  BY DEF ledger_vars, answer_vars
<1>4. TypeOK' /\ AnswerTypes' /\ RequestsPostTransfers'
  BY <1>3 DEF AnswerInv, TypeOK, AnswerTypes, RequestsPostTransfers
<1>5. AnswersReserveOnce'
  BY <1>3, ReserveForm DEF AnswerInv
<1> QED BY <1>1, <1>2, <1>3, <1>4, <1>5 DEF AnswerInv

\* A declined request is answered as failed: an answer that owns no hold.
LEMMA DeclinedKeeps ==
  ASSUME AnswerInv, NEW u \in Users, NEW x \in RequestAmounts, NEW k \in RequestKeys,
         k \notin DOMAIN idempotency_store, Len(decisions) < MaxDecisions,
         Fraud!Evaluate(u, FraudContext(x)),
         Fraud!Decision(u, FraudContext(x)) = "decline", Declined(u, x, k)
  PROVE  AnswerInv'
<1>1. Answer(u, x, k) /\ UNCHANGED <<accounts, journal_entries, holds, idempotency_keys, hold_transactions>>
  BY DEF Declined, ledger_vars
<1>2. /\ \A l \in DOMAIN idempotency_store : idempotency_store'[l] = idempotency_store[l]
      /\ idempotency_store' \in [DOMAIN idempotency_store' -> Answers]
      /\ DOMAIN idempotency_store' \subseteq RequestKeys
      /\ transaction_log' \in Seq(Answers)
      /\ IsFiniteSet(DOMAIN idempotency_store')
      /\ OneRecordPerAnswer'
      /\ DecisionsOnRecord'
  BY <1>1, AnswerEffect
<1>3. hold_transactions \in Seq(1 .. MaxDecisions) /\ Len(decisions) \in Nat
  BY DEF AnswerInv, AnswerTypes, FraudTypes
<1>4. \A i \in DOMAIN hold_transactions : hold_transactions[i] <= Len(decisions) + 1
  <2>1. \A i \in DOMAIN hold_transactions : hold_transactions[i] \in Nat
    BY <1>3, ApiAssumption
  <2> QED BY <1>3, <2>1 DEF AnswerInv, IdsAreOld
<1>5. IdsAreOld' /\ AcceptedIn(idempotency_store') = AcceptedIn(idempotency_store)
  BY <1>1, <1>3, <1>4, AnswerKeepsIds
<1>6. AnswersReserveOnce'
  <2>1. LedgerGrows /\ holds \in Seq(Hold)
    BY <1>1 DEF LedgerGrows, AnswerInv, TypeOK
  <2> QED BY <1>1, <1>2, <1>5, <2>1, ReserveKept
<1>7. FraudTypes'
  BY DecisionType, AppendProperties DEF AnswerInv, Fraud!Evaluate, FraudTypes, DecisionRecord
<1>8. TypeOK' /\ AnswerTypes' /\ RequestsPostTransfers'
  BY <1>1, <1>2 DEF AnswerInv, TypeOK, AnswerTypes, RequestsPostTransfers
<1> QED BY <1>2, <1>5, <1>6, <1>7, <1>8 DEF AnswerInv

LEMMA ProcessedKeeps ==
  ASSUME AnswerInv, NEW u \in Users, NEW x \in RequestAmounts, NEW k \in RequestKeys,
         Processed(u, x, k)
  PROVE  AnswerInv'
BY HeldKeeps, NotHeldKeeps, RefusedKeeps, DeclinedKeeps DEF Processed

\* What the back office does to the ledger.
LEMMA BackOfficeKeeps ==
  ASSUME AnswerInv, UNCHANGED <<hold_transactions, answer_vars>>, UNCHANGED decisions, FraudTypes',
         \/ \E u \in Users : CreateAccount(Wallet(u))
         \/ \E k \in OpsKeys : Posted(k) /\ UNCHANGED <<accounts, holds>>
         \/ \E i \in DOMAIN holds : Released(i)
         \/ UNCHANGED ledger_vars
  PROVE  AnswerInv'
<1>1. /\ TypeOK /\ FraudTypes /\ AnswerTypes /\ RequestsPostTransfers
      /\ holds \in Seq(Hold) /\ UNCHANGED <<idempotency_store, transaction_log>>
  BY DEF AnswerInv, TypeOK, answer_vars
<1>2. /\ AnswerTypes' /\ IdsAreOld' /\ OneRecordPerAnswer' /\ DecisionsOnRecord'
      /\ IsFiniteSet(DOMAIN idempotency_store')
  BY <1>1 DEF AnswerInv, AnswerTypes, IdsAreOld, OneRecordPerAnswer, DecisionsOnRecord
<1>3. ASSUME TypeOK', RequestsPostTransfers', LedgerGrows, Len(holds') = Len(holds),
             \A i \in DOMAIN holds :
               holds'[i].account = holds[i].account /\ holds'[i].amount = holds[i].amount
      PROVE  AnswerInv'
  <2>1. AnswersReserveOnce'
    <3>1. holds' \in Seq(Hold)
      BY <1>3 DEF TypeOK
    <3> QED BY <1>1, <1>3, <3>1, ReserveKept
  <2> QED BY <1>2, <1>3, <2>1 DEF AnswerInv
<1>4. ASSUME NEW u \in Users, CreateAccount(Wallet(u))
      PROVE  AnswerInv'
  BY <1>1, <1>3, <1>4, ChartAccounts DEF CreateAccount, TypeOK, RequestsPostTransfers, LedgerGrows
<1>5. ASSUME NEW k \in OpsKeys, Posted(k), UNCHANGED <<accounts, holds>>
      PROVE  AnswerInv'
  <2>1. k \in Keys /\ k \notin RequestKeys
    BY ApiAssumption DEF RequestKeys
  <2>2. /\ journal_entries' \in Seq(Entry)
        /\ idempotency_keys' \in [DOMAIN idempotency_keys' -> Nat]
        /\ DOMAIN idempotency_keys' \subseteq Keys
        /\ LedgerGrows
        /\ RequestsPostTransfers'
    BY <1>1, <1>5, <2>1, PostKeeps DEF Posted, LedgerGrows
  <2>3. TypeOK'
    BY <1>1, <1>5, <2>2 DEF TypeOK
  <2> QED BY <1>3, <1>5, <2>2, <2>3
<1>6. ASSUME NEW i \in DOMAIN holds, Released(i)
      PROVE  AnswerInv'
  <2>1. SettlingStep /\ UNCHANGED <<accounts, journal_entries, idempotency_keys>>
    BY <1>6 DEF Released, SettlingStep, CaptureHold, VoidHold
  <2>2. holds' \in Seq(Hold) /\ Len(holds') = Len(holds)
    BY <1>1, <2>1, SettlingType
  <2>3. \A j \in DOMAIN holds :
          holds'[j].account = holds[j].account /\ holds'[j].amount = holds[j].amount
    <3> SUFFICES ASSUME NEW j \in DOMAIN holds
                 PROVE  holds'[j].account = holds[j].account /\ holds'[j].amount = holds[j].amount
      OBVIOUS
    <3>1. holds[j] \in Hold
      BY <1>1
    <3>2. CASE CaptureHold(i)
      BY <1>1, <3>1, <3>2 DEF CaptureHold, Hold
    <3>3. CASE VoidHold(i)
      BY <1>1, <3>1, <3>3 DEF VoidHold, Hold
    <3> QED BY <1>6, <3>2, <3>3 DEF Released
  <2>4. TypeOK' /\ RequestsPostTransfers' /\ LedgerGrows
    BY <1>1, <2>1, <2>2 DEF TypeOK, RequestsPostTransfers, LedgerGrows
  <2> QED BY <1>3, <2>2, <2>3, <2>4
<1>7. ASSUME UNCHANGED ledger_vars
      PROVE  AnswerInv'
  BY <1>1, <1>3, <1>7 DEF ledger_vars, TypeOK, RequestsPostTransfers, LedgerGrows
<1> QED BY <1>4, <1>5, <1>6, <1>7

LEMMA AnswerStep ==
  ASSUME AnswerInv, [ApiNext]_api_vars
  PROVE  AnswerInv'
<1>1. FraudTypes'
  BY FraudStep DEF AnswerInv
<1>2. CASE UNCHANGED api_vars
  BY <1>1, <1>2, BackOfficeKeeps DEF api_vars, ledger_vars, fraud_vars
<1>3. CASE ApiNext
  BY <1>1, <1>3, AnswerSteps, ProcessedKeeps, BackOfficeKeeps
<1> QED BY <1>2, <1>3

-----------------------------------------------------------------------------
(* The theorems.                                                           *)

LEMMA ApiInitCorrect == ApiInit => ComplianceInv /\ AnswerInv
<1> SUFFICES ASSUME ApiInit PROVE ComplianceInv /\ AnswerInv
  OBVIOUS
<1> USE DEF ApiInit, Init, Fraud!Init, Compliance!Init
<1>1. /\ <<>> \in Seq(Raised) /\ <<>> \in Seq(PlainEvent \cup AlertEvents)
      /\ DOMAIN <<>> = {} /\ Len(<<>>) = 0 /\ Cardinality({}) = 0 /\ IsFiniteSet({})
  BY FS_EmptySet
<1>2. ComplianceTypes /\ FreezesAreLogged
  BY <1>1 DEF ComplianceTypes, FreezesAreLogged
<1>3. AlertsAreLogged
  <2>1. \A W : Hits(<<>>, W) = {}
    BY <1>1 DEF Hits
  <2>2. \A W : NumberOf(<<>>, W) = 0
    BY <1>1, <2>1 DEF NumberOf
  <2>3. Accounted(<<>>, <<>>)
    BY <2>2 DEF Accounted
  <2> QED BY <2>3, AccountedForm
<1>4. TypeOK
  BY LedgerAssumption DEF TypeOK
<1>5. FraudTypes /\ AnswerTypes
  BY DEF FraudTypes, AnswerTypes
<1>6. IdsAreOld /\ RequestsPostTransfers /\ OneRecordPerAnswer /\ DecisionsOnRecord
  BY <1>1 DEF IdsAreOld, RequestsPostTransfers, OneRecordPerAnswer, DecisionsOnRecord
<1>7. AnswersReserveOnce
  <2>1. AcceptedIn(idempotency_store) = {}
    BY <1>1 DEF AcceptedIn
  <2> QED BY <1>1, <2>1, ReserveForm
<1> QED BY <1>1, <1>2, <1>3, <1>4, <1>5, <1>6, <1>7 DEF ComplianceInv, AnswerInv

THEOREM ApiCorrect == ApiSpec => [](ComplianceInv /\ AnswerInv)
<1>1. ComplianceInv /\ AnswerInv /\ [ApiNext]_api_vars => (ComplianceInv /\ AnswerInv)'
  BY ComplianceStep, AnswerStep
<1> QED BY <1>1, ApiInitCorrect, PTL DEF ApiSpec

\* However requests are retried, refused half-way or mixed up, create_hold is
\* called once for each accepted answer, and each hold has its answer.
THEOREM ApiReservesOnce == ApiSpec => []AnswersReserveOnce
<1>1. ComplianceInv /\ AnswerInv => AnswersReserveOnce
  BY DEF AnswerInv
<1> QED BY <1>1, ApiCorrect, PTL

\* create_transaction writes the store and the audit log together.
THEOREM ApiRecordsAnswers == ApiSpec => []OneRecordPerAnswer
<1>1. ComplianceInv /\ AnswerInv => OneRecordPerAnswer
  BY DEF AnswerInv
<1> QED BY <1>1, ApiCorrect, PTL

\* Every record of the audit log has a logged fraud decision of its own.
THEOREM ApiDecisionsOnRecord == ApiSpec => []DecisionsOnRecord
<1>1. ComplianceInv /\ AnswerInv => DecisionsOnRecord
  BY DEF AnswerInv
<1> QED BY <1>1, ApiCorrect, PTL

\* screen_ofac freezes nobody without a match and a freeze in the log.
THEOREM ApiFreezesAreLogged == ApiSpec => []FreezesAreLogged
<1>1. ComplianceInv /\ AnswerInv => FreezesAreLogged
  BY DEF ComplianceInv
<1> QED BY <1>1, ApiCorrect, PTL

\* monitor_transaction: whether calls return or raise, no alert is listed that
\* is not logged, and only alerts of the rule tried before the one that can
\* raise are logged and not listed.
THEOREM ApiAlertsAreLogged == ApiSpec => []AlertsAreLogged
<1>1. ComplianceInv /\ AnswerInv => AlertsAreLogged
  BY DEF ComplianceInv
<1> QED BY <1>1, ApiCorrect, PTL

\* Requests and the back office keep the types of the ledger, the lists, the
\* logs and the stores.
THEOREM ApiTypeCorrect == ApiSpec => []ApiTypeOK
<1>1. ASSUME ComplianceInv, AnswerInv PROVE ApiTypeOK
  <2>1. ComplianceTypes /\ TypeOK /\ FraudTypes /\ AnswerTypes
    BY <1>1 DEF ComplianceInv, AnswerInv
  <2> QED BY <2>1 DEF ApiTypeOK, ComplianceTypes, FraudTypes, AnswerTypes,
                      AlertEvents, PlainEvent, DecisionRecord
<1> QED BY <1>1, ApiCorrect, PTL

\* An answer that was cached stays what it is, and so does the audit log.
THEOREM ApiAnswersStand == ApiSpec => AnswersStand
<1>1. ASSUME AnswerInv, [ApiNext]_api_vars
      PROVE  /\ \A k \in DOMAIN idempotency_store :
                   k \in DOMAIN idempotency_store' /\ idempotency_store'[k] = idempotency_store[k]
             /\ \A i \in DOMAIN transaction_log :
                   i \in DOMAIN transaction_log' /\ transaction_log'[i] = transaction_log[i]
  <2>1. CASE UNCHANGED answer_vars
    BY <2>1 DEF answer_vars
  <2>2. ASSUME NEW u \in Users, NEW x \in RequestAmounts, NEW k \in RequestKeys,
               Processed(u, x, k), Answer(u, x, k)
        PROVE  /\ \A l \in DOMAIN idempotency_store :
                     l \in DOMAIN idempotency_store' /\ idempotency_store'[l] = idempotency_store[l]
               /\ \A i \in DOMAIN transaction_log :
                     i \in DOMAIN transaction_log' /\ transaction_log'[i] = transaction_log[i]
    <3>1. /\ DOMAIN idempotency_store' = DOMAIN idempotency_store \cup {k}
          /\ \A l \in DOMAIN idempotency_store : idempotency_store'[l] = idempotency_store[l]
          /\ transaction_log' = Append(transaction_log, Response(u, x))
      BY <1>1, <2>2, AnswerEffect DEF Processed
    <3>2. transaction_log \in Seq(Answers) /\ Response(u, x) \in Answers
      BY <1>1, <2>2, ResponseFields DEF Processed, AnswerInv, AnswerTypes
    <3> HIDE DEF Response
    <3>3. \A i \in DOMAIN transaction_log :
            i \in DOMAIN transaction_log' /\ transaction_log'[i] = transaction_log[i]
      BY <3>1, <3>2
    <3> QED BY <3>1, <3>3
  <2>3. \/ UNCHANGED answer_vars
        \/ \E u \in Users, x \in RequestAmounts, k \in RequestKeys :
             Processed(u, x, k) /\ Answer(u, x, k)
    BY <1>1, AnswerSteps DEF Processed, Declined, Held, NotHeld, api_vars, ledger_vars
  <2> QED BY <2>1, <2>2, <2>3
<1>2. AnswerInv /\ [ApiNext]_api_vars =>
        [/\ \A k \in DOMAIN idempotency_store :
              k \in DOMAIN idempotency_store' /\ idempotency_store'[k] = idempotency_store[k]
         /\ \A i \in DOMAIN transaction_log :
              i \in DOMAIN transaction_log' /\ transaction_log'[i] = transaction_log[i]]_api_vars
  BY <1>1
<1> QED BY <1>2, ApiCorrect, PTL DEF ApiSpec, AnswersStand

\* What ClearedUsersOnly says of one user.
NothingNewFor(u) ==
  /\ HeldBy(u, holds') = HeldBy(u, holds)
  /\ \A i \in DOMAIN journal_entries' \ DOMAIN journal_entries :
       \/ journal_entries'[i].type # "transfer"
       \/ \A j \in DOMAIN journal_entries'[i].lines :
            journal_entries'[i].lines[j].account # Wallet(u)

IsCleared(u) ==
  /\ u \notin blocklist \cup frozen_accounts
  /\ u \in DOMAIN user_kyc /\ user_kyc[u].tier # "none"
  /\ user_kyc[u].status = "approved" /\ ~ user_kyc[u].lapsed

\* A transfer of one user is none of another's.
LEMMA TransferOfAnother ==
  ASSUME TypeOK, NEW u \in Users, NEW v \in Users, u # v, NEW x \in RequestAmounts,
         NEW k \in RequestKeys, Transfer(v, x, k)
  PROVE  NothingNewFor(u)
<1> DEFINE lines == <<Dr(Wallet(v), x), Cr(Receivable(Stripe), x)>>
           h == NewHold(Wallet(v), x)
<1>1. Wallet(v) # Wallet(u) /\ Receivable(Stripe) # Wallet(u)
  BY DEF Wallet, Receivable
<1>2. DOMAIN lines = 1 .. 2 /\ lines[1].account = Wallet(v) /\ lines[2].account = Receivable(Stripe)
  BY DEF Dr, Cr
<1>3. h.account = Wallet(v)
  BY DEF NewHold
<1>4. PostEntry("transfer", k, lines) /\ (holds' = Append(holds, h) \/ holds' = holds)
  BY DEF Transfer
<1> HIDE DEF lines, h
<1>5. HeldBy(u, holds') = HeldBy(u, holds)
  <2>1. holds \in Seq(Hold)
    BY DEF TypeOK
  <2>2. CASE holds' = Append(holds, h)
    <3>1. /\ DOMAIN holds' = DOMAIN holds \cup {Len(holds) + 1}
          /\ \A i \in DOMAIN holds : holds'[i] = holds[i]
          /\ holds'[Len(holds) + 1] = h
      BY <2>1, <2>2
    <3> QED BY <1>1, <1>3, <3>1 DEF HeldBy
  <2> QED BY <1>4, <2>2
<1>6. ASSUME NEW i \in DOMAIN journal_entries' \ DOMAIN journal_entries
      PROVE  \A j \in DOMAIN journal_entries'[i].lines :
               journal_entries'[i].lines[j].account # Wallet(u)
  <2> DEFINE e == [type |-> "transfer", key |-> k, lines |-> lines]
  <2>1. journal_entries' = Append(journal_entries, e)
    BY <1>4, <1>6 DEF PostEntry, Replay, Commit
  <2>2. journal_entries \in Seq(Entry) /\ e.lines = lines
    BY DEF TypeOK
  <2> HIDE DEF e
  <2>3. journal_entries'[i] = e
    BY <1>6, <2>1, <2>2
  <2> QED BY <1>1, <1>2, <2>2, <2>3
<1> QED BY <1>5, <1>6 DEF NothingNewFor

LEMMA ClearedStep ==
  ASSUME AnswerInv, [ApiNext]_api_vars, NEW u \in Users
  PROVE  IsCleared(u) \/ NothingNewFor(u)
<1>1. TypeOK
  BY DEF AnswerInv
<1>2. ASSUME UNCHANGED <<journal_entries, holds>>
      PROVE  NothingNewFor(u)
  BY <1>2 DEF NothingNewFor
<1>3. ASSUME NEW v \in Users, NEW x \in RequestAmounts, NEW k \in RequestKeys,
             CreateTransaction(v, x, k)
      PROVE  IsCleared(u) \/ NothingNewFor(u)
  <2>1. \/ UNCHANGED ledger_vars
        \/ /\ Allowed(v, x) /\ Fraud!Decision(v, FraudContext(x)) # "decline"
           /\ Transfer(v, x, k)
    BY <1>3 DEF CreateTransaction, Process, api_vars
  <2>2. v \in blocklist => Fraud!Decision(v, FraudContext(x)) = "decline"
    BY DEF Fraud!Decision
  <2>3. Allowed(v, x) /\ v \notin blocklist => IsCleared(v)
    BY DEF Allowed, Compliance!Allowed, Compliance!Cleared, IsCleared
  <2> QED BY <1>1, <1>2, <2>1, <2>2, <2>3, TransferOfAnother DEF ledger_vars
<1>4. ASSUME NEW e \in Employers, NEW v \in Users, NEW x \in Amounts, NEW f \in Fees,
             NEW k \in OpsKeys, Allocate(e, v, x, f, k)
      PROVE  NothingNewFor(u)
  <2> DEFINE lines == <<Dr(Holding(e), x), Cr(Wallet(v), x - f), Cr(FeeRevenue, f)>>
  <2>1. PostEntry("funding", k, lines) /\ holds' = holds
    BY <1>4 DEF Allocate, AllocateToWallet
  <2> HIDE DEF lines
  <2>2. ASSUME NEW i \in DOMAIN journal_entries' \ DOMAIN journal_entries
        PROVE  journal_entries'[i].type # "transfer"
    <3> DEFINE r == [type |-> "funding", key |-> k, lines |-> lines]
    <3>1. journal_entries' = Append(journal_entries, r)
      BY <2>1, <2>2 DEF PostEntry, Replay, Commit
    <3>2. journal_entries \in Seq(Entry) /\ r.type = "funding"
      BY <1>1 DEF TypeOK
    <3> HIDE DEF r
    <3>3. journal_entries'[i] = r
      BY <2>2, <3>1, <3>2
    <3> QED BY <3>2, <3>3
  <2> QED BY <2>1, <2>2 DEF NothingNewFor
<1>5. ASSUME NEW i \in DOMAIN holds, ReleaseHold(i)
      PROVE  NothingNewFor(u)
  <2>1. /\ UNCHANGED journal_entries /\ DOMAIN holds' = DOMAIN holds
        /\ \A j \in DOMAIN holds : holds'[j].account = holds[j].account
    <3>1. holds \in Seq(Hold) /\ holds[i] \in Hold
      BY <1>1 DEF TypeOK
    <3>2. CASE CaptureHold(i)
      BY <3>1, <3>2 DEF CaptureHold, Hold
    <3>3. CASE VoidHold(i)
      BY <3>1, <3>3 DEF VoidHold, Hold
    <3> QED BY <1>5, <3>2, <3>3 DEF ReleaseHold
  <2> QED BY <2>1 DEF NothingNewFor, HeldBy
<1>6. ASSUME \/ UNCHANGED api_vars
             \/ \E v \in Users : OpenWallet(v)
             \/ \E v \in Users, t \in Compliance!Tiers : Verify(v, t)
             \/ \E v \in Users : VerificationLapses(v)
             \/ \E v \in Users, hit \in BOOLEAN : Screen(v, hit)
             \/ \E v \in Users, h \in Histories : Monitor(v, h)
             \/ \E v \in Users, b, a \in BOOLEAN : ListUser(v, b, a)
      PROVE  NothingNewFor(u)
  <2>1. UNCHANGED <<journal_entries, holds>>
    BY <1>6 DEF api_vars, OpenWallet, CreateAccount, Verify, VerificationLapses, Screen, Monitor,
                ListUser, ledger_vars
  <2> QED BY <1>2, <2>1
<1> QED BY <1>3, <1>4, <1>5, <1>6 DEF ApiNext

\* create_transaction posts and holds for nobody who is on the blocklist or
\* whom check_transaction_limits does not clear at that moment.
THEOREM ApiClearedUsersOnly == ApiSpec => ClearedUsersOnly
<1>1. AnswerInv /\ [ApiNext]_api_vars =>
        [\A u \in Users :
           \/ /\ u \notin blocklist \cup frozen_accounts
              /\ u \in DOMAIN user_kyc /\ user_kyc[u].tier # "none"
              /\ user_kyc[u].status = "approved" /\ ~ user_kyc[u].lapsed
           \/ /\ HeldBy(u, holds') = HeldBy(u, holds)
              /\ \A i \in DOMAIN journal_entries' \ DOMAIN journal_entries :
                   \/ journal_entries'[i].type # "transfer"
                   \/ \A j \in DOMAIN journal_entries'[i].lines :
                        journal_entries'[i].lines[j].account # Wallet(u)]_api_vars
  BY ClearedStep DEF IsCleared, NothingNewFor
<1> QED BY <1>1, ApiCorrect, PTL DEF ApiSpec, ClearedUsersOnly

-----------------------------------------------------------------------------
(* The ledger inside the service: requests, which post before they look at  *)
(* the balance and may then not get their hold, and the back office drive   *)
(* it only in steps of the ledger, so that it keeps what it promises.       *)

\* The service posts the transaction patterns and nothing by hand.
NoCorrections ==
  \A i \in DOMAIN journal_entries : journal_entries[i].type # "correction"

LEMMA TransferPosts ==
  ASSUME NEW u \in Users, NEW x \in RequestAmounts, NEW k \in RequestKeys,
         PostEntry("transfer", k, <<Dr(Wallet(u), x), Cr(Receivable(Stripe), x)>>)
  PROVE  PostingStep
<1> DEFINE lines == <<Dr(Wallet(u), x), Cr(Receivable(Stripe), x)>>
<1>1. x \in Int /\ Stripe \in PSPs /\ k \in Keys
  BY ApiAssumption DEF RequestKeys
<1>2. lines \in Seq(RawLine) /\ Debits(lines) = Credits(lines)
  BY <1>1, ChartAccounts, TwoLines, TwoLinesBalance
<1>3. "transfer" \in EntryTypes
  BY DEF EntryTypes
<1> HIDE DEF lines
<1>4. PostEntry("transfer", k, lines)
  BY DEF lines
<1> QED BY <1>1, <1>2, <1>3, <1>4 DEF PostingStep

\* Every step of the service is a step of its ledger, or leaves it alone.
LEMMA ApiLedgerStep ==
  ASSUME [ApiNext]_api_vars
  PROVE  LedgerStep
<1>1. CASE UNCHANGED ledger_vars
  BY <1>1 DEF ledger_vars, LedgerStep, vars
<1>2. ASSUME NEW u \in Users, NEW x \in RequestAmounts, NEW k \in RequestKeys,
             Held(u, x, k)
      PROVE  LedgerStep
  <2>1. PostingStep
    BY <1>2, TransferPosts DEF Held
  <2>2. PlacingStep
    <3>1. Wallet(u) \in Chart /\ x \in Nat \ {0}
      BY ChartAccounts, ApiAssumption
    <3> QED BY <1>2, <3>1 DEF Held, PlacingStep
  <2> QED BY <1>2, <2>1, <2>2 DEF Held, LedgerStep
<1>3. ASSUME NEW u \in Users, NEW x \in RequestAmounts, NEW k \in RequestKeys,
             NotHeld(u, x, k)
      PROVE  LedgerStep
  <2>1. PostingStep
    BY <1>3, TransferPosts DEF NotHeld
  <2> QED BY <1>3, <2>1 DEF NotHeld, LedgerStep
<1>4. ASSUME NEW u \in Users, CreateAccount(Wallet(u)) PROVE LedgerStep
  BY <1>4, ChartAccounts DEF LedgerStep
<1>5. ASSUME NEW k \in OpsKeys, Posted(k), UNCHANGED <<accounts, holds>> PROVE LedgerStep
  <2>1. PostingStep
    BY <1>5, ApiAssumption DEF Posted, PostingStep
  <2> QED BY <1>5, <2>1 DEF LedgerStep
<1>6. ASSUME NEW i \in DOMAIN holds, Released(i) PROVE LedgerStep
  BY <1>6 DEF Released, SettlingStep, CaptureHold, VoidHold, LedgerStep
<1> QED BY <1>1, <1>2, <1>3, <1>4, <1>5, <1>6, AnswerSteps DEF Processed, Declined, api_vars

\* What the ledger keeps by itself it keeps under requests and retries: the
\* key index, backed holds, books in balance on accounts it knows.
LedgerInv == IdempotencyIndex /\ ImbalanceIsManual /\ LinesOnAccounts /\ HoldsBacked

THEOREM ApiKeepsLedger ==
  ApiSpec => [](IdempotencyIndex /\ AccountingEquation /\ HoldsBacked)
<1>1. ApiInit => LedgerInv
  BY IndexInit, BalanceInit, OnAccountsInit, BackedInit DEF ApiInit, LedgerInv
<1>2. LedgerInv /\ TypeOK /\ TypeOK' /\ [ApiNext]_api_vars => LedgerInv'
  BY ApiLedgerStep, IndexStep, BalanceStep, OnAccountsStep, BackedStep DEF LedgerInv
<1>3. LedgerInv /\ TypeOK => IdempotencyIndex /\ AccountingEquation /\ HoldsBacked
  BY Equation DEF LedgerInv
<1>4. ComplianceInv /\ AnswerInv => TypeOK
  BY DEF AnswerInv
<1> QED BY <1>1, <1>2, <1>3, <1>4, ApiCorrect, PTL DEF ApiSpec

\* No request, retry or release rewrites or drops a posted entry.
THEOREM ApiKeepsJournal == ApiSpec => JournalAppendOnly
<1>1. TypeOK /\ [ApiNext]_api_vars =>
        [\A i \in DOMAIN journal_entries :
           i \in DOMAIN journal_entries' /\ journal_entries'[i] = journal_entries[i]]_vars
  BY ApiLedgerStep, JournalStep
<1>2. ComplianceInv /\ AnswerInv => TypeOK
  BY DEF AnswerInv
<1> QED BY <1>1, <1>2, ApiCorrect, PTL DEF ApiSpec, JournalAppendOnly

\* The hold of a request is captured or voided once, for good.
THEOREM ApiSettlesHoldsOnce == ApiSpec => HoldFinality
<1>1. TypeOK /\ [ApiNext]_api_vars => [\A i \in DOMAIN holds : SameOrSettled(i)]_vars
  BY ApiLedgerStep, HoldsStep
<1>2. ComplianceInv /\ AnswerInv => TypeOK
  BY DEF AnswerInv
<1> QED BY <1>1, <1>2, ApiCorrect, PTL DEF ApiSpec, HoldFinality, SameOrSettled

\* The service, with its lists, logs and answers left out of sight, is an
\* implementation of the abstract book: create_transaction and the back office
\* move money only in balanced entries on open accounts, and a request gets
\* its hold only if the balance covers it with all that is held already.
THEOREM ApiImplementsBook == ApiSpec => ImplementsBook
<1>1. ApiInit => LedgerInv /\ Book!Init
  BY IndexInit, BalanceInit, OnAccountsInit, BackedInit, BookInit DEF ApiInit, LedgerInv
<1>2. LedgerInv /\ TypeOK /\ TypeOK' /\ [ApiNext]_api_vars => LedgerInv'
  BY ApiLedgerStep, IndexStep, BalanceStep, OnAccountsStep, BackedStep DEF LedgerInv
<1>3. LedgerInv /\ TypeOK /\ TypeOK' /\ [ApiNext]_api_vars => [Book!Next]_(Book!book)
  BY ApiLedgerStep, BookStep DEF LedgerInv
<1>4. ComplianceInv /\ AnswerInv => TypeOK
  BY DEF AnswerInv
<1> QED BY <1>1, <1>2, <1>3, <1>4, ApiCorrect, PTL DEF ApiSpec, ImplementsBook, Book!Spec

\* Requests and allocations post no correction.
LEMMA CorrectionsStep ==
  ASSUME NoCorrections, TypeOK, [ApiNext]_api_vars
  PROVE  NoCorrections'
<1>1. CASE UNCHANGED journal_entries
  BY <1>1 DEF NoCorrections
<1>2. ASSUME NEW type, type # "correction", NEW key, NEW lines, PostEntry(type, key, lines)
      PROVE  NoCorrections'
  <2> DEFINE e == [type |-> type, key |-> key, lines |-> lines]
  <2>1. UNCHANGED journal_entries \/ journal_entries' = Append(journal_entries, e)
    BY <1>2 DEF PostEntry, Replay, Commit
  <2>2. e.type # "correction" /\ journal_entries \in Seq(Entry)
    BY <1>2 DEF TypeOK
  <2> HIDE DEF e
  <2> QED BY <1>1, <2>1, <2>2 DEF NoCorrections
<1>3. ASSUME NEW u \in Users, NEW x \in RequestAmounts, NEW k \in RequestKeys,
             Held(u, x, k) \/ NotHeld(u, x, k)
      PROVE  NoCorrections'
  BY <1>2, <1>3 DEF Held, NotHeld
<1>4. ASSUME NEW k \in OpsKeys, Posted(k) PROVE NoCorrections'
  BY <1>2, <1>4 DEF Posted
<1>5. \/ UNCHANGED journal_entries
      \/ \E u \in Users, x \in RequestAmounts, k \in RequestKeys : Held(u, x, k) \/ NotHeld(u, x, k)
      \/ \E k \in OpsKeys : Posted(k)
  BY AnswerSteps DEF Processed, Declined, CreateAccount, Released, CaptureHold, VoidHold,
                     ledger_vars, api_vars
<1> QED BY <1>1, <1>3, <1>4, <1>5

\* A journal's debits are its credits and its delta.
LEMMA TotalsDiffer ==
  ASSUME NEW j \in Seq(Entry)
  PROVE  /\ TotalCredits(j) \in Int /\ SystemDelta(j) \in Int
         /\ TotalDebits(j) = TotalCredits(j) + SystemDelta(j)
<1> DEFINE debits  == [i \in DOMAIN j |-> Debits(j[i].lines)]
           credits == [i \in DOMAIN j |-> Credits(j[i].lines)]
           deltas  == [i \in DOMAIN j |-> Debits(j[i].lines) - Credits(j[i].lines)]
<1>1. \A e \in Entry : Debits(e.lines) \in Int /\ Credits(e.lines) \in Int
  BY LineTotals DEF Entry
<1>2. \A i \in DOMAIN j : Debits(j[i].lines) \in Int /\ Credits(j[i].lines) \in Int
  BY <1>1
<1>3. debits \in Seq(Int) /\ Len(debits) = Len(j)
  BY <1>2
<1>4. credits \in Seq(Int) /\ Len(credits) = Len(j)
  BY <1>2
<1>5. deltas \in Seq(Int) /\ Len(deltas) = Len(j)
  BY <1>2
<1>6. \A i \in 1 .. Len(j) : debits[i] = credits[i] + deltas[i]
  BY <1>2
<1>7. TotalDebits(j) = Total(debits) /\ TotalCredits(j) = Total(credits)
      /\ SystemDelta(j) = Total(deltas)
  BY DEF TotalDebits, TotalCredits, SystemDelta
<1> HIDE DEF debits, credits, deltas
<1> QED BY <1>3, <1>4, <1>5, <1>6, <1>7, TotalPlus, TotalType DEF AddUp

\* Requests and allocations alone keep the promise that manual entries break:
\* the books of the service are balanced to the mill, so verify_system_balance
\* answers that they are.
THEOREM ApiBooksBalance == ApiSpec => [](SystemBalance /\ SystemDelta(journal_entries) = 0)
<1>1. ApiInit => ImbalanceIsManual /\ NoCorrections
  BY BalanceInit DEF ApiInit, Init, NoCorrections
<1>2. ImbalanceIsManual /\ NoCorrections /\ TypeOK /\ [ApiNext]_api_vars
        => (ImbalanceIsManual /\ NoCorrections)'
  BY ApiLedgerStep, BalanceStep, CorrectionsStep
<1>3. ASSUME ImbalanceIsManual, NoCorrections, TypeOK
      PROVE  SystemBalance /\ SystemDelta(journal_entries) = 0
  <2> DEFINE error == [i \in DOMAIN journal_entries |-> ManualError(journal_entries[i])]
  <2>1. journal_entries \in Seq(Entry)
    BY <1>3 DEF TypeOK
  <2>2. \A i \in DOMAIN journal_entries : error[i] = 0
    BY <1>3 DEF NoCorrections, ManualError
  <2>3. error \in Seq(Int) /\ DOMAIN error = 1 .. Len(error)
    BY <2>1, <2>2
  <2>4. \A i \in 1 .. Len(error) : error[i] = 0
    BY <2>2, <2>3
  <2> HIDE DEF error
  <2>5. Total(error) = 0
    BY <2>3, <2>4, TotalOfZeros
  <2>6. SystemDelta(journal_entries) = 0
    BY <1>3, <2>5 DEF ImbalanceIsManual, error
  <2>7. TotalDebits(journal_entries) = TotalCredits(journal_entries)
    BY <2>1, <2>6, TotalsDiffer
  <2> QED BY <2>6, <2>7 DEF SystemBalance, SystemBalanced
<1>4. ComplianceInv /\ AnswerInv => TypeOK
  BY DEF AnswerInv
<1>5. ImbalanceIsManual /\ NoCorrections /\ TypeOK
        => SystemBalance /\ SystemDelta(journal_entries) = 0
  BY <1>3
<1> QED BY <1>1, <1>2, <1>4, <1>5, ApiCorrect, PTL DEF ApiSpec

-----------------------------------------------------------------------------
(* The fraud rules: what a score is, and what the endpoint's fixed profile  *)
(* makes of it.                                                             *)

RuleNames ==
  {"high_amount", "velocity", "amount_velocity", "new_account", "new_device",
   "failed_attempts", "near_tier_limit", "round_amount", "first_transaction"}

PartialScore(R) == SumFunction(Restrict(Fraud!Weight, R))

LEMMA WeightType ==
  /\ DOMAIN Fraud!Weight = RuleNames
  /\ Fraud!Weight \in [RuleNames -> Int]
  /\ \A r \in RuleNames : 0 <= Fraud!Weight[r]
BY DEF Fraud!Weight, RuleNames

LEMMA RulesAreFinite == IsFiniteSet(RuleNames)
<1> DEFINE a == {"high_amount"} \cup {"velocity"} \cup {"amount_velocity"} \cup {"new_account"}
           b == {"new_device"} \cup {"failed_attempts"} \cup {"near_tier_limit"}
                  \cup {"round_amount"} \cup {"first_transaction"}
<1>1. IsFiniteSet(a)
  BY FS_Singleton, FS_Union
<1>2. IsFiniteSet(b)
  BY FS_Singleton, FS_Union
<1>3. RuleNames = a \cup b
  BY DEF RuleNames
<1> HIDE DEF a, b
<1> QED BY <1>1, <1>2, <1>3, FS_Union

\* A score adds up the weights, one rule at a time.
LEMMA ScoreIsSum ==
  /\ \A R \in SUBSET RuleNames : Fraud!Score(R) = PartialScore(R) /\ PartialScore(R) \in Int
  /\ PartialScore({}) = 0
  /\ \A R \in SUBSET RuleNames : \A r \in RuleNames \ R :
       PartialScore(R \cup {r}) = Fraud!Weight[r] + PartialScore(R)
<1>1. Fraud!Weight \in [RuleNames -> Int] /\ IsFiniteSet(RuleNames)
  BY WeightType, RulesAreFinite
<1> DEFINE w == Fraud!Weight
<1>2. \A R : Fraud!Score(R) = SumFunctionOnSet(w, R)
  BY DEF Fraud!Score, Fraud!SumFunctionOnSet, Fraud!FoldFunctionOnSet, Fraud!MapThenFoldSet,
         SumFunctionOnSet, FoldFunctionOnSet, MapThenFoldSet
<1> HIDE DEF w
<1>3. w \in [RuleNames -> Int]
  BY <1>1 DEF w
<1>4. \A R \in SUBSET RuleNames : SumFunctionOnSet(w, R) = SumFunction(Restrict(w, R))
  BY <1>1, <1>3, SumOnSet
<1>5. /\ SumFunction(Restrict(w, {})) = 0
      /\ \A R \in SUBSET RuleNames :
           /\ SumFunction(Restrict(w, R)) \in Int
           /\ \A r \in RuleNames \ R :
                SumFunction(Restrict(w, R \cup {r})) = w[r] + SumFunction(Restrict(w, R))
  BY <1>1, <1>3, SumBounds, SumExtend
<1> QED BY <1>2, <1>4, <1>5 DEF PartialScore, w

\* More rules never score less.
LEMMA ScoreGrows ==
  ASSUME NEW Q \in SUBSET RuleNames, NEW R \in SUBSET Q
  PROVE  Fraud!Score(R) <= Fraud!Score(Q)
<1> DEFINE F == {P \in SUBSET (Q \ R) : PartialScore(R) <= PartialScore(R \cup P)}
<1>1. {} \in F
  <2>1. R \cup {} = R /\ PartialScore(R) \in Int
    BY ScoreIsSum
  <2> QED BY <2>1
<1>2. ASSUME NEW P \in SUBSET (Q \ R), NEW r \in (Q \ R) \ P, P \in F
      PROVE  P \cup {r} \in F
  <2>1. R \cup P \in SUBSET RuleNames /\ r \in RuleNames \ (R \cup P)
    OBVIOUS
  <2>2. PartialScore((R \cup P) \cup {r}) = Fraud!Weight[r] + PartialScore(R \cup P)
    BY <2>1, ScoreIsSum
  <2>3. PartialScore(R) \in Int /\ PartialScore(R \cup P) \in Int
    BY ScoreIsSum
  <2>4. Fraud!Weight[r] \in Int /\ 0 <= Fraud!Weight[r]
    BY WeightType
  <2>5. PartialScore(R) <= PartialScore(R \cup P)
    BY <1>2
  <2>6. PartialScore(R) <= PartialScore((R \cup P) \cup {r})
    BY <2>2, <2>3, <2>4, <2>5
  <2>7. (R \cup P) \cup {r} = R \cup (P \cup {r})
    OBVIOUS
  <2> QED BY <2>6, <2>7
<1>3. IsFiniteSet(Q \ R)
  BY RulesAreFinite, FS_Subset
<1>4. Q \ R \in F
  <2> HIDE DEF F
  <2> QED BY <1>1, <1>2, <1>3, SubsetInduction
<1>5. R \cup (Q \ R) = Q
  OBVIOUS
<1> QED BY <1>4, <1>5, ScoreIsSum

\* One more rule adds its weight.
LEMMA OneMoreRule ==
  ASSUME NEW R \in SUBSET RuleNames, NEW r \in RuleNames \ R, NEW n \in Int, Fraud!Score(R) = n
  PROVE  Fraud!Score(R \cup {r}) = n + Fraud!Weight[r]
<1>1. R \cup {r} \in SUBSET RuleNames
  OBVIOUS
<1>2. PartialScore(R \cup {r}) = Fraud!Weight[r] + PartialScore(R) /\ PartialScore(R) = n
  BY ScoreIsSum
<1>3. Fraud!Weight[r] \in Int
  BY WeightType
<1> QED BY <1>1, <1>2, <1>3, ScoreIsSum

\* The scale the thresholds are on.
LEMMA ScoreOfAll == Fraud!Score(DOMAIN Fraud!Weight) = 142
<1> DEFINE r0 == {}
           r1 == r0 \cup {"high_amount"}
           r2 == r1 \cup {"velocity"}
           r3 == r2 \cup {"amount_velocity"}
           r4 == r3 \cup {"new_account"}
           r5 == r4 \cup {"new_device"}
           r6 == r5 \cup {"failed_attempts"}
           r7 == r6 \cup {"near_tier_limit"}
           r8 == r7 \cup {"round_amount"}
           r9 == r8 \cup {"first_transaction"}
<1>1. /\ r0 \in SUBSET RuleNames /\ "high_amount" \in RuleNames \ r0
      /\ r1 \in SUBSET RuleNames /\ "velocity" \in RuleNames \ r1
      /\ r2 \in SUBSET RuleNames /\ "amount_velocity" \in RuleNames \ r2
      /\ r3 \in SUBSET RuleNames /\ "new_account" \in RuleNames \ r3
      /\ r4 \in SUBSET RuleNames /\ "new_device" \in RuleNames \ r4
      /\ r5 \in SUBSET RuleNames /\ "failed_attempts" \in RuleNames \ r5
      /\ r6 \in SUBSET RuleNames /\ "near_tier_limit" \in RuleNames \ r6
      /\ r7 \in SUBSET RuleNames /\ "round_amount" \in RuleNames \ r7
      /\ r8 \in SUBSET RuleNames /\ "first_transaction" \in RuleNames \ r8
  BY DEF RuleNames
<1>2. /\ Fraud!Weight["high_amount"] = 20
      /\ Fraud!Weight["velocity"] = 15
      /\ Fraud!Weight["amount_velocity"] = 18
      /\ Fraud!Weight["new_account"] = 22
      /\ Fraud!Weight["new_device"] = 10
      /\ Fraud!Weight["failed_attempts"] = 25
      /\ Fraud!Weight["near_tier_limit"] = 12
      /\ Fraud!Weight["round_amount"] = 5
      /\ Fraud!Weight["first_transaction"] = 15
  BY DEF Fraud!Weight
<1>3. Fraud!Score(r0) = 0
  BY ScoreIsSum
<1>4. r9 = RuleNames
  BY DEF RuleNames
<1> HIDE DEF r0
<1>5. Fraud!Score(r1) = 20
  BY <1>1, <1>2, <1>3, OneMoreRule
<1> HIDE DEF r1
<1>6. Fraud!Score(r2) = 35
  BY <1>1, <1>2, <1>5, OneMoreRule
<1> HIDE DEF r2
<1>7. Fraud!Score(r3) = 53
  BY <1>1, <1>2, <1>6, OneMoreRule
<1> HIDE DEF r3
<1>8. Fraud!Score(r4) = 75
  BY <1>1, <1>2, <1>7, OneMoreRule
<1> HIDE DEF r4
<1>9. Fraud!Score(r5) = 85
  BY <1>1, <1>2, <1>8, OneMoreRule
<1> HIDE DEF r5
<1>10. Fraud!Score(r6) = 110
  BY <1>1, <1>2, <1>9, OneMoreRule
<1> HIDE DEF r6
<1>11. Fraud!Score(r7) = 122
  BY <1>1, <1>2, <1>10, OneMoreRule
<1> HIDE DEF r7
<1>12. Fraud!Score(r8) = 127
  BY <1>1, <1>2, <1>11, OneMoreRule
<1> HIDE DEF r8
<1>13. Fraud!Score(r9) = 142
  BY <1>1, <1>2, <1>12, OneMoreRule
<1> HIDE DEF r9
<1> QED BY <1>4, <1>13, WeightType

\* The rules are consistent: a transaction that triggers all that another one
\* triggers, and perhaps more, is not treated more leniently.
THEOREM MoreRulesNoMilder ==
  ASSUME NEW c, NEW d, Fraud!Triggered(c) \subseteq Fraud!Triggered(d)
  PROVE  /\ Fraud!Scored(c) = "decline" => Fraud!Scored(d) = "decline"
         /\ Fraud!Scored(c) = "review" => Fraud!Scored(d) \in {"review", "decline"}
<1> DEFINE Q == Fraud!Triggered(d)
           R == Fraud!Triggered(c)
<1>1. Q \in SUBSET RuleNames /\ R \in SUBSET Q
  BY WeightType DEF Fraud!Triggered
<1> HIDE DEF Q, R
<1>2. Fraud!Score(R) <= Fraud!Score(Q)
  BY <1>1, ScoreGrows
<1>3. Fraud!Score(R) \in Int /\ Fraud!Score(Q) \in Int
  BY <1>1, ScoreIsSum
<1>4. \A t \in {30, 70} : Fraud!Reaches(R, t) => Fraud!Reaches(Q, t)
  BY <1>2, <1>3, ScoreOfAll DEF Fraud!Reaches
<1> QED BY <1>4 DEF Fraud!Scored, Q, R

\* What the profile the endpoint makes up leaves of the rules.
LEMMA EndpointRules ==
  ASSUME NEW x \in RequestAmounts
  PROVE  LET rules == Fraud!Triggered(FraudContext(x))
         IN  /\ rules \subseteq {"high_amount", "near_tier_limit", "amount_velocity", "round_amount"}
             /\ x <= Dollars(2350) => "amount_velocity" \notin rules
             /\ x > Dollars(2350) => {"high_amount", "near_tier_limit", "amount_velocity"} \subseteq rules
<1> DEFINE ctx == FraudContext(x)
<1>1. x \in Nat
  BY ApiAssumption
<1>2. /\ ctx.amount = x /\ ctx.kyc_tier = "standard" /\ ctx.account_age_days = 30
      /\ ctx.lifetime_transaction_count = 5 /\ ctx.avg_transaction_amount = 100000
      /\ ctx.transactions_last_24h = 2 /\ ctx.amount_last_24h = 150000
      /\ ctx.failed_transactions_last_24h = 0 /\ ctx.unique_devices_last_7d = 1
  BY DEF FraudContext, Dollars
<1> HIDE DEF ctx
<1>3. /\ Fraud!TierLimit["standard"] = 1000000 /\ Fraud!Dollars(500) = 500000
      /\ Fraud!Dollars(2500) = 2500000 /\ Fraud!Dollars(250) = 250000 /\ Dollars(2350) = 2350000
  BY DEF Fraud!TierLimit, Fraud!Dollars, Dollars
<1>4. DOMAIN Fraud!Weight = RuleNames
  BY WeightType
<1>5. \A r \in Fraud!Triggered(ctx) :
        r \in {"high_amount", "near_tier_limit", "amount_velocity", "round_amount"}
  BY <1>2, <1>4 DEF Fraud!Triggered, RuleNames
<1>6. "amount_velocity" \in Fraud!Triggered(ctx) <=> 150000 + x > 2500000
  BY <1>2, <1>3, <1>4 DEF Fraud!Triggered, RuleNames
<1>7. "high_amount" \in Fraud!Triggered(ctx) <=> x > 300000
  BY <1>2, <1>4 DEF Fraud!Triggered, RuleNames
<1>8. "near_tier_limit" \in Fraud!Triggered(ctx) <=> 10 * x > 9000000
  BY <1>2, <1>3, <1>4 DEF Fraud!Triggered, RuleNames
<1> QED BY <1>1, <1>3, <1>5, <1>6, <1>7, <1>8 DEF ctx

\* The endpoint's scores: at most 55 of 142, so never a decline, and at
\* least 50 above $2350, so a review.
LEMMA EndpointScores ==
  ASSUME NEW x \in RequestAmounts
  PROVE  Fraud!Scored(FraudContext(x)) = IF x > Dollars(2350) THEN "review" ELSE "approve"
<1> DEFINE R == Fraud!Triggered(FraudContext(x))
           none == {}
           high == none \cup {"high_amount"}
           near == high \cup {"near_tier_limit"}
           fast == near \cup {"amount_velocity"}
           most == near \cup {"round_amount"}
           all  == fast \cup {"round_amount"}
<1>1. /\ high \in SUBSET RuleNames /\ near \in SUBSET RuleNames /\ fast \in SUBSET RuleNames
      /\ most \in SUBSET RuleNames /\ all \in SUBSET RuleNames
      /\ none \in SUBSET RuleNames /\ "high_amount" \in RuleNames \ none
      /\ "near_tier_limit" \in RuleNames \ high
      /\ "amount_velocity" \in RuleNames \ near /\ "round_amount" \in RuleNames \ near
      /\ "round_amount" \in RuleNames \ fast
  BY DEF RuleNames
<1>2. /\ Fraud!Weight["high_amount"] = 20 /\ Fraud!Weight["near_tier_limit"] = 12
      /\ Fraud!Weight["amount_velocity"] = 18 /\ Fraud!Weight["round_amount"] = 5
  BY DEF Fraud!Weight
<1>3. /\ R \in SUBSET all
      /\ x <= Dollars(2350) => R \in SUBSET most
      /\ x > Dollars(2350) => fast \in SUBSET R
  BY EndpointRules
<1>4. Fraud!Score(none) = 0
  BY ScoreIsSum
<1> HIDE DEF none, R
<1>5. Fraud!Score(high) = 20
  BY <1>1, <1>2, <1>4, OneMoreRule
<1> HIDE DEF high
<1>6. Fraud!Score(near) = 32
  BY <1>1, <1>2, <1>5, OneMoreRule
<1> HIDE DEF near
<1>7. Fraud!Score(fast) = 50 /\ Fraud!Score(most) = 37
  BY <1>1, <1>2, <1>6, OneMoreRule
<1> HIDE DEF fast, most
<1>8. Fraud!Score(all) = 55
  BY <1>1, <1>2, <1>7, OneMoreRule
<1> HIDE DEF all
<1>9. R \in SUBSET RuleNames /\ Fraud!Score(R) \in Int
  BY <1>1, <1>3, ScoreIsSum
<1>10. ~ Fraud!Reaches(R, 70)
  BY <1>1, <1>3, <1>8, <1>9, ScoreGrows, ScoreOfAll DEF Fraud!Reaches
<1>11. ASSUME x > Dollars(2350) PROVE Fraud!Reaches(R, 30)
  <2>1. 50 <= Fraud!Score(R)
    BY <1>3, <1>7, <1>9, <1>11, ScoreGrows
  <2> QED BY <1>9, <2>1, ScoreOfAll DEF Fraud!Reaches
<1>12. ASSUME x <= Dollars(2350) PROVE ~ Fraud!Reaches(R, 30)
  <2>1. Fraud!Score(R) <= 37
    BY <1>1, <1>3, <1>7, <1>12, ScoreGrows
  <2> QED BY <1>9, <2>1, ScoreOfAll DEF Fraud!Reaches
<1>13. x \in Nat /\ Dollars(2350) \in Nat
  BY ApiAssumption DEF Dollars
<1> QED BY <1>10, <1>11, <1>12, <1>13 DEF Fraud!Scored, R

\* What an answer says of the request it is given to, at that moment.
Warranted(r) ==
  /\ r.status = "failed" <=> r.user_id \in blocklist
  /\ r.status = "pending_review" =>
       /\ r.user_id \notin blocklist \cup allowlist
       /\ user_kyc[r.user_id].tier = "enhanced"
       /\ Dollars(2350) < r.amount /\ r.amount <= Dollars(5000)
  /\ r.status = "pending" => r.user_id \in allowlist \/ r.amount <= Dollars(2350)

\* Whom the endpoint turns down, and whom it has reviewed: fraud rules, lists
\* and verification limits together answer "failed" to users on the blocklist
\* only, and leave a review to verifications of the highest tier.
AnswersAreWarranted ==
  [][\A k \in DOMAIN idempotency_store' \ DOMAIN idempotency_store :
       Warranted(idempotency_store'[k])]_api_vars

LEMMA AnswersComeFromRequests ==
  ASSUME [ApiNext]_api_vars
  PROVE  \/ UNCHANGED idempotency_store
         \/ \E u \in Users, x \in RequestAmounts, k \in RequestKeys :
              Allowed(u, x) /\ Answer(u, x, k)
<1>1. ASSUME NEW u \in Users, NEW x \in RequestAmounts, NEW k \in RequestKeys,
             CreateTransaction(u, x, k)
      PROVE  UNCHANGED idempotency_store \/ (Allowed(u, x) /\ Answer(u, x, k))
  <2>1. CASE Answered(k)
    BY <1>1, <2>1 DEF CreateTransaction, api_vars, answer_vars
  <2>2. CASE ~ Answered(k)
    <3>1. \/ UNCHANGED answer_vars
          \/ Allowed(u, x) /\ (Answer(u, x, k) \/ Transfer(u, x, k))
      BY <1>1, <2>2 DEF CreateTransaction, Process
    <3>2. Transfer(u, x, k) => UNCHANGED answer_vars \/ Answer(u, x, k)
      BY DEF Transfer
    <3>3. UNCHANGED answer_vars => UNCHANGED idempotency_store
      BY DEF answer_vars
    <3> QED BY <3>1, <3>2, <3>3
  <2> QED BY <2>1, <2>2
<1>2. ASSUME \/ UNCHANGED api_vars
             \/ \E u \in Users : OpenWallet(u)
             \/ \E e \in Employers, u \in Users, x \in Amounts, f \in Fees, k \in OpsKeys :
                  Allocate(e, u, x, f, k)
             \/ \E i \in DOMAIN holds : ReleaseHold(i)
             \/ \E u \in Users, t \in Compliance!Tiers : Verify(u, t)
             \/ \E u \in Users : VerificationLapses(u)
             \/ \E u \in Users, hit \in BOOLEAN : Screen(u, hit)
             \/ \E u \in Users, h \in Histories : Monitor(u, h)
             \/ \E u \in Users, b, a \in BOOLEAN : ListUser(u, b, a)
      PROVE  UNCHANGED idempotency_store
  BY <1>2 DEF api_vars, answer_vars, OpenWallet, Allocate, ReleaseHold, Verify,
              VerificationLapses, Screen, Monitor, ListUser
<1> QED BY <1>1, <1>2 DEF ApiNext

LEMMA WarrantedStep ==
  ASSUME ComplianceInv, [ApiNext]_api_vars,
         NEW k \in DOMAIN idempotency_store' \ DOMAIN idempotency_store
  PROVE  Warranted(idempotency_store'[k])
<1>1. PICK u \in Users, x \in RequestAmounts, l \in RequestKeys : Allowed(u, x) /\ Answer(u, x, l)
  BY AnswersComeFromRequests
<1>2. idempotency_store'[k] = Response(u, x)
  BY <1>1 DEF Answer
<1> DEFINE r == Response(u, x)
           d == Fraud!Decision(u, FraudContext(x))
<1>3. r.user_id = u /\ r.amount = x /\ r.status = StatusOf(d)
  BY DEF Response
<1> HIDE DEF r
<1>4. d = IF u \in blocklist THEN "decline"
          ELSE IF u \in allowlist \/ ~ (x > Dollars(2350)) THEN "approve" ELSE "review"
  BY EndpointScores DEF Fraud!Decision
<1> HIDE DEF d
<1>5. /\ StatusOf("approve") = "pending" /\ StatusOf("review") = "pending_review"
      /\ StatusOf("decline") = "failed"
  BY DEF StatusOf
<1>6. x \in Nat /\ Dollars(2350) = 2350000 /\ Dollars(5000) = 5000000
  BY ApiAssumption DEF Dollars
<1>7. ASSUME x > Dollars(2350)
      PROVE  user_kyc[u].tier = "enhanced" /\ x <= Dollars(5000)
  <2>1. /\ u \in DOMAIN user_kyc /\ user_kyc[u].tier # "none"
        /\ x <= Compliance!MaxPerTransaction[user_kyc[u].tier]
    BY <1>1 DEF Allowed, Compliance!Allowed, Compliance!Cleared, Compliance!WithinLimits
  <2>2. user_kyc[u].tier \in {"basic", "standard", "enhanced"}
    BY <2>1 DEF ComplianceInv, ComplianceTypes, Compliance!Kyc, Compliance!Tiers
  <2>3. /\ Compliance!MaxPerTransaction["basic"] = 250000
        /\ Compliance!MaxPerTransaction["standard"] = 1000000
        /\ Compliance!MaxPerTransaction["enhanced"] = 5000000
    BY DEF Compliance!MaxPerTransaction, Compliance!Dollars
  <2> QED BY <1>6, <1>7, <2>1, <2>2, <2>3
<1>8. Warranted(r)
  BY <1>3, <1>4, <1>5, <1>6, <1>7 DEF Warranted
<1> QED BY <1>2, <1>8 DEF r

\* create_transaction gives no answer that is not warranted.
THEOREM ApiAnswersAreWarranted == ApiSpec => AnswersAreWarranted
<1>1. ComplianceInv /\ [ApiNext]_api_vars =>
        [\A k \in DOMAIN idempotency_store' \ DOMAIN idempotency_store :
           Warranted(idempotency_store'[k])]_api_vars
  BY WarrantedStep
<1> QED BY <1>1, ApiCorrect, PTL DEF ApiSpec, AnswersAreWarranted
=============================================================================
