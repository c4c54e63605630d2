-------------------------- MODULE ComplianceChecker --------------------------
(***************************************************************************)
(* compliance_checker.py: identity verification with the limits of its     *)
(* tiers, sanctions screening that freezes accounts, transaction           *)
(* monitoring with its alerts, and the event log.                          *)
(***************************************************************************)
EXTENDS Money, Sequences, FiniteSets

VARIABLES
  user_kyc,         \* user |-> verification, of the users that ever had one
  frozen_accounts,  \* set of users
  alerts,           \* what monitoring raised, oldest first
  events            \* the append-only compliance log

compliance_vars == <<user_kyc, frozen_accounts, alerts, events>>

Tiers == {"none", "basic", "standard", "enhanced"}

\* KYC_TIER_CONFIGS, of the tiers a transaction can get as far as
MaxPerTransaction ==
  [basic |-> Dollars(250), standard |-> Dollars(1000), enhanced |-> Dollars(5000)]
MaxPerDay ==
  [basic |-> Dollars(500), standard |-> Dollars(2500), enhanced |-> Dollars(10000)]
MaxPerMonth ==
  [basic |-> Dollars(2000), standard |-> Dollars(10000), enhanced |-> Dollars(25000)]

\* lapsed: the clock is past expires_at.  The status does not say so until a
\* check finds out.
Kyc == [tier : Tiers, status : {"approved", "expired"}, lapsed : BOOLEAN]

EventTypes == {"kyc_approved", "ofac_screened", "ofac_match", "account_frozen"}

Logged(type, user) == [type |-> type, user |-> user]

Priorities == {"low", "medium", "high", "critical"}
Rules == {"aggregation_threshold", "structuring_suspected", "rapid_movement",
          "behavioral_anomaly", "geographic_mismatch"}

Alert(rule, priority, user) == [rule |-> rule, priority |-> priority, user |-> user]

\* The event of an alert carries the alert in its details.
AlertEvent(alert) == [type |-> "monitoring_alert", user |-> alert.user, alert |-> alert]

-----------------------------------------------------------------------------
\* The first three tests of check_transaction_limits.
VerifiedOnly(user) ==
  /\ user \in DOMAIN user_kyc /\ user_kyc[user].tier # "none"
  /\ user_kyc[user].status = "approved"

Cleared(user) ==
  /\ user \notin frozen_accounts
  /\ user \in DOMAIN user_kyc /\ user_kyc[user].tier # "none"
  /\ user_kyc[user].status = "approved"

WithinLimits(tier, amount, daily_total, monthly_total) ==
  /\ amount <= MaxPerTransaction[tier]
  /\ daily_total + amount <= MaxPerDay[tier]
  /\ monthly_total + amount <= MaxPerMonth[tier]

\* What check_transaction_limits answers, and what it changes: it is the
\* check that marks a lapsed verification as expired.
Allowed(user, amount, daily_total, monthly_total) ==
  /\ Cleared(user)
  /\ ~ user_kyc[user].lapsed
  /\ WithinLimits(user_kyc[user].tier, amount, daily_total, monthly_total)

CheckTransactionLimits(user) ==
  /\ user_kyc' = IF Cleared(user) /\ user_kyc[user].lapsed
                   THEN [user_kyc EXCEPT ![user].status = "expired"] ELSE user_kyc
  /\ UNCHANGED <<frozen_accounts, alerts, events>>

ApproveKyc(user, tier) ==
  /\ user_kyc' = [u \in DOMAIN user_kyc \cup {user} |->
       IF u = user THEN [tier |-> tier, status |-> "approved", lapsed |-> FALSE]
                   ELSE user_kyc[u]]
  /\ events' = Append(events, Logged("kyc_approved", user))
  /\ UNCHANGED <<frozen_accounts, alerts>>

\* Time: the year a verification is good for is over.
KycLapses(user) ==
  /\ user \in DOMAIN user_kyc /\ ~ user_kyc[user].lapsed
  /\ user_kyc' = [user_kyc EXCEPT ![user].lapsed = TRUE]
  /\ UNCHANGED <<frozen_accounts, alerts, events>>

\* screen_ofac; hit: the best match on the list scores 0.85 or more.
ScreeningEvents(user, hit) ==
  IF hit THEN <<Logged("ofac_match", user), Logged("account_frozen", user)>>
         ELSE <<Logged("ofac_screened", user)>>

FreezeUnlogged(user, hit) ==
  /\ frozen_accounts' = IF hit THEN frozen_accounts \cup {user} ELSE frozen_accounts
  /\ events' = Append(events, Logged(IF hit THEN "ofac_match" ELSE "ofac_screened", user))
  /\ UNCHANGED <<user_kyc, alerts>>

ScreenOfac(user, hit) ==
  /\ frozen_accounts' = IF hit THEN frozen_accounts \cup {user} ELSE frozen_accounts
  /\ events' = events \o ScreeningEvents(user, hit)
  /\ UNCHANGED <<user_kyc, alerts>>

\* _detect_structuring: three or more of the week's transactions lie between
\* $2000 and $2999.  It raises on a week with an amount that is no number.
Structuring(history) ==
  LET week == history.transactions_7d
  IN  Cardinality({i \in DOMAIN week : Dollars(2000) <= week[i] /\ week[i] <= Dollars(2999)}) >= 3

When(test, rule, priority, user) == IF test THEN <<Alert(rule, priority, user)>> ELSE <<>>

\* The alerts of a history, in the order monitor_transaction tries its rules:
\* the one rule before _detect_structuring, and the others.
FirstAlert(user, history) ==
  When(history.outbound_30d > Dollars(5000), "aggregation_threshold", "high", user)

OtherAlerts(user, history) ==
  LET out == history.outbound_30d
      in == history.inbound_30d
      avg == history.avg_monthly_volume
  IN  When(Structuring(history), "structuring_suspected", "critical", user)
      \o When(10 * out > 8 * in /\ in > Dollars(1000), "rapid_movement", "high", user)
      \o When(avg > 0 /\ out + in > 3 * avg, "behavioral_anomaly", "medium", user)
      \o When(history.abroad, "geographic_mismatch", "medium", user)

\* The alerts created before the call returns or raises.
Created(user, history) ==
  FirstAlert(user, history) \o (IF history.malformed THEN <<>> ELSE OtherAlerts(user, history))

MonitorLogsLast(user, history) ==
  LET created == Created(user, history)
  IN  /\ alerts' = alerts \o created
      /\ events' = IF history.malformed THEN events
                    ELSE events \o [i \in DOMAIN created |-> AlertEvent(created[i])]
      /\ UNCHANGED <<user_kyc, frozen_accounts>>

\* monitor_transaction: each alert is logged when it is created; the alerts
\* join the list at the end, which a call that raises does not reach.
MonitorTransaction(user, history) ==
  LET created == Created(user, history)
  IN  /\ alerts' = IF history.malformed THEN alerts ELSE alerts \o created
      /\ events' = events \o [i \in DOMAIN created |-> AlertEvent(created[i])]
      /\ UNCHANGED <<user_kyc, frozen_accounts>>

Init == user_kyc = <<>> /\ frozen_accounts = {} /\ alerts = <<>> /\ events = <<>>
=============================================================================
