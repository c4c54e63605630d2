--------------------------- MODULE MCTransactionApi ---------------------------
(***************************************************************************)
(* TransactionApi with one employer, whose holding account exists, and     *)
(* users whose wallets are opened and funded while requests arrive.        *)
(***************************************************************************)
EXTENDS TransactionApi

CONSTANTS u1, e1

MCUsers     == {u1}
MCEmployers == {e1}
MCPSPs      == {Stripe}
MCBootstrap == {Bank, FeeRevenue, FraudLosses, Receivable(Stripe), Holding(e1)}

\* An allocation of $400 less $1; requests the rules approve and review.
MCAmounts        == {Dollars(400)}
MCFees           == {Dollars(1)}
\* Quiet, structured payments sent on from abroad, money passing through, and
\* a week with an amount that is no number.
MCHistories ==
  {[outbound_30d |-> Dollars(400), inbound_30d |-> Dollars(500), avg_monthly_volume |-> Dollars(300),
    transactions_7d |-> <<Dollars(400)>>, abroad |-> FALSE, malformed |-> FALSE],
   [outbound_30d |-> Dollars(8998), inbound_30d |-> 0, avg_monthly_volume |-> Dollars(2000),
    transactions_7d |-> <<Dollars(2999), Dollars(2000), Dollars(2999), Dollars(1000)>>,
    abroad |-> TRUE, malformed |-> FALSE],
   [outbound_30d |-> Dollars(5000), inbound_30d |-> Dollars(6000), avg_monthly_volume |-> Dollars(4000),
    transactions_7d |-> <<Dollars(2500), Dollars(2500)>>, abroad |-> FALSE, malformed |-> FALSE],
   [outbound_30d |-> Dollars(5001), inbound_30d |-> Dollars(6000), avg_monthly_volume |-> Dollars(4000),
    transactions_7d |-> <<Dollars(2500)>>, abroad |-> TRUE, malformed |-> TRUE]}

MCRequestAmounts == {Dollars(200), Dollars(3000)}
=============================================================================
