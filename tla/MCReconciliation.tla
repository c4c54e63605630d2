--------------------------- MODULE MCReconciliation ---------------------------
(***************************************************************************)
(* The two implementations of reconciliation, one or the other: the        *)
(* repository has both and they share no state.                            *)
(***************************************************************************)
EXTENDS ReconciliationEngine, ReconciliationJob

VARIABLE which

all_vars == <<which, engine_vars, job_vars>>

\* $100 to Stripe in three hands: exact, exact but for a fraction of a cent,
\* and of another day.  $99 is within $5 of the net amount, $97.10 is it, and
\* $40 fits nothing.
Booked(amount, day, psp) == [amount |-> amount, day |-> day, psp_name |-> psp]
MCLedgerLists ==
  SeqOf({Booked(Dollars(100), 1, "stripe"), Booked(Dollars(100) + 4, 3, "stripe"),
         Booked(Dollars(99), 1, "stripe"), Booked(97100, 2, "stripe"),
         Booked(Dollars(40), 1, "adyen")}, 2)

Settled(id, amount, fee, day, psp) ==
  [id |-> id, amount |-> amount, fee |-> fee, net_amount |-> amount - fee, day |-> day,
   psp_name |-> psp]
MCPspLists ==
  SeqOf({Settled("p1", Dollars(100), 2900, 1, "stripe"),
         Settled("p2", Dollars(100), 2900, 2, "stripe"),
         Settled("p3", Dollars(50), 0, 2, "adyen")}, 3)

\* One settlement, two of them netted, a settlement and another processor's.
Deposited(amount, day) == [amount |-> amount, day |-> day]
MCBankLists ==
  SeqOf({Deposited(97100, 2), Deposited(194200, 1), Deposited(147100, 3)}, 2)

\* The job's nights: an entry's lines sum to zero, but a one-sided one is there
\* to be matched exactly or within a cent; p2 is reported twice.
Entry(id, amount, user) == [id |-> id, amount |-> amount, user |-> user]
MCNights ==
  {[ledger |-> <<Entry("e1", Dollars(100), "u1"), Entry("e2", 0, "u1"), Entry("e3", Dollars(100), "u1")>>,
    psp |-> <<Entry("p1", Dollars(100), "u1"), Entry("p2", 99990, "u1"), Entry("p2", 99990, "u1")>>],
   [ledger |-> <<Entry("e1", 0, "u1")>>,
    psp |-> <<Entry("p1", Dollars(20), "u1"), Entry("p2", Dollars(30), "u2"), Entry("p3", 900, "u1")>>],
   [ledger |-> <<>>, psp |-> <<>>]}
MCDeposits ==
  <<[id |-> "b1", amount |-> Dollars(30)], [id |-> "b2", amount |-> 20900]>>

EngineIdle ==
  /\ ledger_records = <<>> /\ psp_records = <<>> /\ bank_records = <<>>
  /\ EngineStart

JobIdle == night = [ledger |-> <<>>, psp |-> <<>>] /\ JobStart

MCInit ==
  \/ which = "engine" /\ EngineInit /\ JobIdle
  \/ which = "job" /\ EngineIdle /\ JobInit

MCNext ==
  \/ which = "engine" /\ EngineNext /\ UNCHANGED <<which, job_vars>>
  \/ which = "job" /\ JobNext /\ UNCHANGED <<which, engine_vars>>

MCSpec == MCInit /\ [][MCNext]_all_vars /\ JobFairness
=============================================================================
