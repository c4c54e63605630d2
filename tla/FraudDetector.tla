---------------------------- MODULE FraudDetector ----------------------------
(***************************************************************************)
(* fraud_detector.py: nine weighted rules over the context of a            *)
(* transaction, two lists that overrule them, and the log of decisions.    *)
(***************************************************************************)
EXTENDS Money, Sequences, Functions

VARIABLES
  blocklist, allowlist,  \* sets of users
  decisions              \* the list of results, in the order of evaluation

Decisions == {"approve", "review", "decline"}

\* The limit of the user's KYC tier, as _extract_features has it.
TierLimit == [basic |-> Dollars(250), standard |-> Dollars(1000), enhanced |-> Dollars(5000)]

Weight ==
  [high_amount |-> 20, velocity |-> 15, amount_velocity |-> 18, new_account |-> 22,
   new_device |-> 10, failed_attempts |-> 25, near_tier_limit |-> 12,
   round_amount |-> 5, first_transaction |-> 15]

\* The rules that hold of a context.
Triggered(ctx) ==
  { rule \in DOMAIN Weight :
      \/ /\ rule = "high_amount"
         /\ ctx.amount > (IF ctx.avg_transaction_amount = 0
                            THEN Dollars(500) ELSE 3 * ctx.avg_transaction_amount)
      \/ rule = "velocity" /\ ctx.transactions_last_24h > 5
      \/ rule = "amount_velocity" /\ ctx.amount_last_24h + ctx.amount > Dollars(2500)
      \/ rule = "new_account" /\ ctx.account_age_days < 7 /\ ctx.amount > Dollars(500)
      \/ rule = "new_device" /\ ctx.unique_devices_last_7d > 1
      \/ rule = "failed_attempts" /\ ctx.failed_transactions_last_24h >= 3
      \/ rule = "near_tier_limit" /\ 10 * ctx.amount > 9 * TierLimit[ctx.kyc_tier]
      \/ /\ rule = "round_amount"
         /\ ctx.amount % Dollars(100) = 0 /\ ctx.amount >= Dollars(500)
      \/ /\ rule = "first_transaction"
         /\ ctx.lifetime_transaction_count = 0 /\ ctx.amount > Dollars(250) }

Score(rules) == SumFunctionOnSet(Weight, rules)

\* normalized_score >= threshold, without the division.
Reaches(rules, threshold) == 100 * Score(rules) >= threshold * Score(DOMAIN Weight)

Scored(ctx) ==
  LET rules == Triggered(ctx)
  IN  IF Reaches(rules, 70) THEN "decline"
      ELSE IF Reaches(rules, 30) THEN "review" ELSE "approve"

\* The lists come before the rules, the blocklist before the allowlist.
AllowlistFirst(user, ctx) ==
  IF user \in allowlist THEN "approve"
  ELSE IF user \in blocklist THEN "decline" ELSE Scored(ctx)

Decision(user, ctx) ==
  IF user \in blocklist THEN "decline"
  ELSE IF user \in allowlist THEN "approve" ELSE Scored(ctx)

\* A fast path that returns without logging.
EvaluateScored(user, ctx) ==
  /\ decisions' = IF user \in blocklist \cup allowlist THEN decisions
                   ELSE Append(decisions, [user |-> user, decision |-> Decision(user, ctx)])
  /\ UNCHANGED <<blocklist, allowlist>>

\* evaluate; a decision_id is its position.
Evaluate(user, ctx) ==
  /\ decisions' = Append(decisions, [user |-> user, decision |-> Decision(user, ctx)])
  /\ UNCHANGED <<blocklist, allowlist>>

\* Whoever keeps the lists adds users to them and removes them.
ListUser(user, blocked, allowed) ==
  /\ blocklist' = IF blocked THEN blocklist \cup {user} ELSE blocklist \ {user}
  /\ allowlist' = IF allowed THEN allowlist \cup {user} ELSE allowlist \ {user}
  /\ UNCHANGED decisions

Init == blocklist = {} /\ allowlist = {} /\ decisions = <<>>
=============================================================================
