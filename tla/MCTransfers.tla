------------------------------ MODULE MCTransfers ------------------------------
(***************************************************************************)
(* One wallet that is topped up by hand and then only used through         *)
(* record_user_transfer, with calls retried under the key they first had,  *)
(* and the holds settled as the documents describe.  Two statements of the *)
(* documents are checked here against what the ledger does.                *)
(***************************************************************************)
EXTENDS Ledger

CONSTANTS u1, p1, topUpKey

MCUsers     == {u1}
MCPSPs      == {p1}
MCBootstrap == {Bank, Wallet(u1), Receivable(p1)}

TopUps == {<<Dr(Wallet(u1), 30), Cr(Bank, 30)>>}

TransferNext ==
  \/ \E lines \in ManualEntries : PostManual(topUpKey, lines)
  \/ \E u \in Users, x \in Amounts, p \in PSPs, k \in Keys \ {topUpKey} :
       RecordUserTransfer(u, x, p, k)
  \/ \E i \in DOMAIN holds : CaptureHold(i)
  \/ \E i \in DOMAIN holds : VoidHold(i)

TransferSpec == Init /\ [][TransferNext]_vars

Transfers == {i \in DOMAIN journal_entries : journal_entries[i].type = "transfer"}

\* LEDGER_DESIGN.md section 5.2: a request that arrives with a known key
\* gets the first result back and executes nothing, so a transfer has one
\* hold however often it is retried.
OneHoldPerTransfer == Len(holds) <= Cardinality(Transfers)

\* LEDGER_DESIGN.md section 4.1: with holds, a second transfer of funds that
\* a first one already claims is rejected, so transfers out of a wallet never
\* add up to more than was put in.
NoDoubleSpend ==
  LET OnWallet(S) == MapThenSumSet(LAMBDA i : NetOn(Wallet(u1), journal_entries[i].lines), S)
  IN  OnWallet(Transfers) <= OnWallet(DOMAIN journal_entries \ Transfers)
=============================================================================
