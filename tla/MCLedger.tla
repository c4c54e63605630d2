------------------------------- MODULE MCLedger -------------------------------
(***************************************************************************)
(* Ledger on a small instance, and its refinement of LedgerBook.           *)
(***************************************************************************)
EXTENDS LedgerRefinement

CONSTANTS u1, e1, p1

MCUsers     == {u1}
MCEmployers == {e1}
MCPSPs      == {p1}

\* What bootstrap_accounts creates; the wallet and the holding come later.
MCBootstrap == {Bank, FeeRevenue, FraudLosses, Receivable(p1)}

\* A wallet topped up with two cents; a correction 4 mills out of balance,
\* which rounding accepts; one that is out of balance by a cent.
MCManualEntries ==
  { <<Dr(Wallet(u1), 20), Cr(Bank, 20)>>,
    <<Dr(Wallet(u1), 14), Cr(FeeRevenue, 10)>>,
    <<Dr(Bank, 20), Cr(Wallet(u1), 10)>> }
=============================================================================
