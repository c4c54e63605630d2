----------------------------- MODULE MCSettlement -----------------------------
(***************************************************************************)
(* The two implementations of settlement, one or the other: the repository *)
(* has both and they share no state.                                       *)
(*                                                                         *)
(* The engine's transactions are of two users: fractions of a cent, fees   *)
(* above the gross amount, a split that is refused, an id used twice.      *)
(***************************************************************************)
EXTENDS SettlementEngine, SettlementJob

VARIABLE which

all_vars == <<which, settlement_vars, vars>>

Collected(id, user, gross, psp, method, risk) ==
  [transaction_id |-> id, user_id |-> user, gross_amount |-> gross, platform_fee_rate |-> 125,
   psp_name |-> psp, payout_method |-> method, is_high_risk |-> risk]

MCTransactions ==
  {Collected("t1", "u1", 100050, "stripe", "ach", FALSE),
   Collected("t1", "u2", 33333, "adyen", "ach", TRUE),
   Collected("t2", "u1", 200, "stripe", "card", FALSE),
   Collected("t3", "u2", 205, "stripe", "card", FALSE),
   Collected("t4", "u2", Dollars(3), "adyen", "wire", FALSE),
   Collected("t5", "u1", Dollars(50), "tabapay", "instant", TRUE)}

MCInit == which \in {"engine", "job"} /\ SettlementInit /\ Init

MCNext ==
  \/ which = "engine" /\ SettlementNext /\ UNCHANGED <<which, vars>>
  \/ which = "job" /\ Next /\ UNCHANGED <<which, settlement_vars>>

MCSpec == MCInit /\ [][MCNext]_all_vars /\ Fairness
=============================================================================
