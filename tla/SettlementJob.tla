---------------------------- MODULE SettlementJob ----------------------------
(***************************************************************************)
(* The daily job of trigger-jobs/settlement_batch.ts.  Each trigger starts *)
(* a run of its own; runs meet in the tables of the database and at the    *)
(* bank.  A run gives way at every await, may die there, and ends up in    *)
(* its catch block when the statement or call it awaits raises, whether or *)
(* not it took effect.                                                     *)
(*                                                                         *)
(* The bank is external: it keeps the first file it gets under a key, and  *)
(* acknowledges or rejects it some time later.                             *)
(***************************************************************************)
EXTENDS Integers, FiniteSets

CONSTANTS
  Runs,       \* the times the job is triggered
  Transfers,  \* journal entries of type transfer, pending settlement
  Days,       \* bound on the calendar: the days are 1 .. Days
  MaxPolls,   \* maxRetries of waitForBankAcknowledgment
  Faults,     \* whether statements and calls may raise, and workers die
  AcceptsDoubleSet  \* whether the database takes an UPDATE that sets a column twice

ASSUME JobAssumption ==
  /\ Days \in Nat \ {0}
  /\ MaxPolls \in Nat \ {0}
  /\ Faults \in BOOLEAN
  /\ AcceptsDoubleSet \in BOOLEAN

VARIABLES
  today,               \* the date of new Date(), of now() and of the batch_id
  posted,              \* transfer |-> the date of posted_at, 0 if not posted yet
  settled,             \* transfer |-> settlement_batch_id, 0 while "pending"
  settlement_batches,  \* batch_id |-> status
  nacha_batches,       \* batch_id |-> the transfers in the stored file
  bank,                \* key |-> the file it got, and its answer so far
  runs                 \* run |-> where it is in the job

tables == <<settled, settlement_batches, nacha_batches>>
vars == <<today, posted, tables, bank, runs>>

Dates == 1 .. Days

\* f with d mapped to v: a row inserted or updated, a key the bank learns.
With(f, d, v) == [k \in DOMAIN f \cup {d} |-> IF k = d THEN v ELSE f[k]]

\* pc names what the run awaits.  A run that is "died" is over and had no
\* chance to mark its batch; one that is "ended" returned or threw.
Working ==
  {"check", "insert", "fetch", "confirm", "store", "submit", "poll", "settle", "finalize", "catch"}
Over == {"ended", "died"}

\* Past the insert, and not yet in the catch block: the batch is the run's own.
Owning == {"fetch", "confirm", "store", "submit", "poll", "settle", "finalize"}

Idle == [pc |-> "idle", batch |-> 1, transactions |-> {}, polls |-> 0]

Goto(r, pc) == runs' = [runs EXCEPT ![r].pc = pc]

\* The statement took effect, but its answer may not arrive.
Continue(r, pc) == Goto(r, pc) \/ (Faults /\ Goto(r, "catch"))

At(r, pc) == runs[r].pc = pc

-----------------------------------------------------------------------------
(* A run, await by await.                                                  *)

Trigger(r) ==
  /\ At(r, "idle")
  /\ runs' = [runs EXCEPT ![r] = [@ EXCEPT !.pc = "check", !.batch = today]]
  /\ UNCHANGED <<today, posted, tables, bank>>

\* CHECKPOINT 1: a batch of the day makes the run skip.
CheckExisting(r) ==
  /\ At(r, "check")
  /\ Goto(r, IF runs[r].batch \in DOMAIN settlement_batches THEN "ended" ELSE "insert")
  /\ UNCHANGED <<today, posted, tables, bank>>

\* batch_id is the primary key.
NeverConflicts(d) == FALSE

Conflicts(d) == d \in DOMAIN settlement_batches

InsertBatch(r) ==
  /\ At(r, "insert")
  /\ IF Conflicts(runs[r].batch)
       THEN Goto(r, "catch") /\ UNCHANGED settlement_batches
       ELSE /\ settlement_batches' = With(settlement_batches, runs[r].batch, "created")
            /\ Continue(r, "fetch")
  /\ UNCHANGED <<today, posted, settled, nacha_batches, bank>>

\* CHECKPOINT 2, and 3 and 4 after it, which await nothing.
AllPending(d) == {t \in Transfers : posted[t] # 0 /\ settled[t] = 0}

Pending(d) == {t \in Transfers : posted[t] = d /\ settled[t] = 0}

FetchPending(r) ==
  /\ At(r, "fetch")
  /\ LET found == Pending(runs[r].batch)
     IN  runs' = [runs EXCEPT ![r] =
               [@ EXCEPT !.transactions = found, !.pc = IF found = {} THEN "confirm" ELSE "store"]]
  /\ UNCHANGED <<today, posted, tables, bank>>

\* Nothing to settle.
ConfirmEmpty(r) ==
  /\ At(r, "confirm")
  /\ settlement_batches' = With(settlement_batches, runs[r].batch, "confirmed")
  /\ Continue(r, "ended")
  /\ UNCHANGED <<today, posted, settled, nacha_batches, bank>>

\* CHECKPOINT 5.  batch_id is the primary key here, too.
StoreNacha(r) ==
  /\ At(r, "store")
  /\ IF runs[r].batch \in DOMAIN nacha_batches
       THEN Goto(r, "catch") /\ UNCHANGED nacha_batches
       ELSE /\ nacha_batches' = With(nacha_batches, runs[r].batch, runs[r].transactions)
            /\ Continue(r, "submit")
  /\ UNCHANGED <<today, posted, settled, settlement_batches, bank>>

\* CHECKPOINT 6: the bank has the file, whether or not the run hears of it.
SubmitToBank(r) ==
  /\ At(r, "submit")
  /\ bank' = IF runs[r].batch \in DOMAIN bank THEN bank
               ELSE With(bank, runs[r].batch, [file |-> runs[r].transactions, answer |-> "none"])
  /\ Continue(r, "poll")
  /\ UNCHANGED <<today, posted, tables>>

\* CHECKPOINT 7: one look at the bank's answer; the last one without an
\* answer is a timeout.
LastPollPasses(answer, polls) ==
  IF answer = "acknowledged" THEN "settle"
  ELSE IF answer = "rejected" THEN "catch"
  ELSE IF polls < MaxPolls THEN "poll" ELSE "settle"

PollsForEver(answer, polls) ==
  IF answer = "acknowledged" THEN "settle"
  ELSE IF answer = "rejected" THEN "catch" ELSE "poll"

AfterPoll(answer, polls) ==
  IF answer = "acknowledged" THEN "settle"
  ELSE IF answer = "rejected" THEN "catch"
  ELSE IF polls < MaxPolls THEN "poll" ELSE "catch"

PollBank(r) ==
  /\ At(r, "poll")
  /\ LET polls == runs[r].polls + 1
     IN  runs' = [runs EXCEPT ![r] =
               [@ EXCEPT !.polls = IF polls < MaxPolls THEN polls ELSE MaxPolls,
                         !.pc = AfterPoll(bank[runs[r].batch].answer, polls)]]
  /\ UNCHANGED <<today, posted, tables, bank>>

\* CHECKPOINT 8.  The UPDATE sets metadata twice, which PostgreSQL refuses.  A
\* database that accepts it may raise for other reasons (Raises), so what
\* holds with AcceptsDoubleSet and Faults holds without.
UpdateLedgerSettled(r) ==
  /\ At(r, "settle")
  /\ IF AcceptsDoubleSet
       THEN /\ settled' = [t \in Transfers |->
                 IF t \in runs[r].transactions THEN runs[r].batch ELSE settled[t]]
            /\ Continue(r, "finalize")
       ELSE Goto(r, "catch") /\ UNCHANGED settled
  /\ UNCHANGED <<today, posted, settlement_batches, nacha_batches, bank>>

\* CHECKPOINT 9
FinalizeSettlement(r) ==
  /\ At(r, "finalize")
  /\ settlement_batches' = With(settlement_batches, runs[r].batch, "submitted")
  /\ Continue(r, "ended")
  /\ UNCHANGED <<today, posted, settled, nacha_batches, bank>>

\* What a run awaits raises, and had no effect.
Raises(r) ==
  /\ Faults
  /\ runs[r].pc \in Working \ {"catch"}
  /\ Goto(r, "catch")
  /\ UNCHANGED <<today, posted, tables, bank>>

\* The catch block marks the batch of the day as failed, whoever inserted
\* it, and throws.  The statement is an UPDATE: it inserts no row.
Unmarked(d) == settlement_batches

Rejected(d) ==
  IF d \in DOMAIN settlement_batches
    THEN [settlement_batches EXCEPT ![d] = "rejected"] ELSE settlement_batches

MarkedFailed(d) ==
  IF d \in DOMAIN settlement_batches
    THEN [settlement_batches EXCEPT ![d] = "failed"] ELSE settlement_batches

Catch(r) ==
  /\ At(r, "catch")
  /\ settlement_batches' = MarkedFailed(runs[r].batch)
  /\ Goto(r, "ended")
  /\ UNCHANGED <<today, posted, settled, nacha_batches, bank>>

\* The worker is gone, or the statement of the catch block raises.
Die(r) ==
  /\ Faults
  /\ runs[r].pc \in Working
  /\ Goto(r, "died")
  /\ UNCHANGED <<today, posted, tables, bank>>

-----------------------------------------------------------------------------
(* What goes on around the runs.                                           *)

PostTransfer(t) ==
  /\ posted[t] = 0
  /\ posted' = [posted EXCEPT ![t] = today]
  /\ UNCHANGED <<today, tables, bank, runs>>

BankAnswers(d, answer) ==
  /\ bank[d].answer = "none"
  /\ bank' = [bank EXCEPT ![d].answer = answer]
  /\ UNCHANGED <<today, posted, tables, runs>>

Midnight ==
  /\ today < Days
  /\ today' = today + 1
  /\ UNCHANGED <<posted, tables, bank, runs>>

-----------------------------------------------------------------------------
Init ==
  /\ today = 1
  /\ posted = [t \in Transfers |-> 0]
  /\ settled = [t \in Transfers |-> 0]
  /\ settlement_batches = <<>>
  /\ nacha_batches = <<>>
  /\ bank = <<>>
  /\ runs = [r \in Runs |-> Idle]

Proceed(r) ==
  \/ CheckExisting(r) \/ InsertBatch(r) \/ FetchPending(r) \/ ConfirmEmpty(r)
  \/ StoreNacha(r) \/ SubmitToBank(r) \/ PollBank(r)
  \/ UpdateLedgerSettled(r) \/ FinalizeSettlement(r) \/ Catch(r)

Next ==
  \/ \E r \in Runs : Trigger(r)
  \/ \E r \in Runs : Proceed(r)
  \/ \E r \in Runs : Raises(r)
  \/ \E r \in Runs : Die(r)
  \/ \E t \in Transfers : PostTransfer(t)
  \/ \E d \in DOMAIN bank, answer \in {"acknowledged", "rejected"} : BankAnswers(d, answer)
  \/ Midnight

\* An await of a run that lives returns or raises.  Nobody has to trigger a
\* run, and the bank need not answer.
Fairness == \A r \in Runs : WF_vars(Proceed(r))

Spec == Init /\ [][Next]_vars /\ Fairness

-----------------------------------------------------------------------------
(* Properties.                                                             *)

BatchStatuses == {"created", "submitted", "confirmed", "failed"}
BankFile == [file : SUBSET Transfers, answer : {"none", "acknowledged", "rejected"}]
RunRecord ==
  [pc : {"idle"} \cup Working \cup Over, batch : Dates,
   transactions : SUBSET Transfers, polls : 0 .. MaxPolls]

\* A table with rows from S, at most one a day.
IsTable(f, S) == DOMAIN f \subseteq Dates /\ \A d \in DOMAIN f : f[d] \in S

\* Every variable has its type.
TypeOK ==
  /\ today \in Dates
  /\ posted \in [Transfers -> 0 .. Days]
  /\ settled \in [Transfers -> 0 .. Days]
  /\ IsTable(settlement_batches, BatchStatuses)
  /\ IsTable(nacha_batches, SUBSET Transfers)
  /\ IsTable(bank, BankFile)
  /\ runs \in [Runs -> RunRecord]

\* Every transfer is paid out once: no two files at the bank have a transfer
\* in common, though failed runs leave their transfers pending and later runs
\* look for pending transfers.
PaidOnce ==
  \A d, e \in DOMAIN bank : d # e => bank[d].file \cap bank[e].file = {}

\* However many runs of a day pass the check for an existing batch together,
\* only one gets past the insert: no two work on the same batch.
OneOwner ==
  \A r, q \in Runs :
    r # q /\ runs[r].pc \in Owning /\ runs[q].pc \in Owning => runs[r].batch # runs[q].batch

\* The database can account for what the bank has: its file is the stored one,
\* and a batch confirmed as empty has none, here or there.
FilesAccountedFor ==
  /\ \A d \in DOMAIN bank : d \in DOMAIN nacha_batches /\ bank[d].file = nacha_batches[d]
  /\ \A d \in DOMAIN settlement_batches :
       settlement_batches[d] = "confirmed" => d \notin DOMAIN nacha_batches

\* The ledger calls a transfer settled only when the bank has acknowledged the
\* file it was in, under the batch the ledger names; a timeout is no answer.
SettledWasAcknowledged ==
  \A t \in Transfers : settled[t] # 0 =>
    /\ settled[t] \in DOMAIN bank
    /\ t \in bank[settled[t]].file /\ bank[settled[t]].answer = "acknowledged"

Undecided(d) == d \in DOMAIN settlement_batches /\ settlement_batches[d] = "created"

\* A batch does not stay "created": some run of its day decides it, unless one
\* died.
BatchesAreDecided ==
  \A d \in Dates :
    Undecided(d) ~> ~ Undecided(d) \/ \E r \in Runs : runs[r].batch = d /\ At(r, "died")

\* A run that was triggered comes to an end, also when the bank is silent.
RunsEnd == \A r \in Runs : runs[r].pc # "idle" ~> runs[r].pc \in Over

\* "Stage 7: Update ledger to mark transactions as settled": when no
\* statement is lost and no worker dies, a run that goes on after the bank's
\* acknowledgement has settled its transfers.
AcknowledgedIsSettled ==
  [][\A r \in Runs :
       At(r, "settle") /\ runs'[r].pc # "settle" =>
         \A t \in runs[r].transactions : settled'[t] = runs[r].batch]_vars
=============================================================================
