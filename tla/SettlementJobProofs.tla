------------------------- MODULE SettlementJobProofs -------------------------
(***************************************************************************)
(* Safety of the settlement job for any number of runs, transfers, days    *)
(* and polls, with or without faults.                                      *)
(***************************************************************************)
EXTENDS SettlementJob, TLAPS

\* What a run fetched is of the day of its batch, and so is what is stored; a
\* run that has not fetched has nothing.
OfTheDay ==
  /\ \A r \in Runs : At(r, "idle") => runs[r].transactions = {}
  /\ \A r \in Runs : \A t \in runs[r].transactions : posted[t] = runs[r].batch
  /\ \A d \in DOMAIN nacha_batches : \A t \in nacha_batches[d] : posted[t] = d

\* An owned batch has its row, which is not confirmed, and its stored file
\* once, and only once, the owner is past "store".
RowsOfOwners ==
  /\ DOMAIN nacha_batches \subseteq DOMAIN settlement_batches
  /\ \A r \in Runs :
       /\ runs[r].pc \in Owning =>
            /\ runs[r].batch \in DOMAIN settlement_batches
            /\ settlement_batches[runs[r].batch] # "confirmed"
       /\ runs[r].pc \in {"fetch", "confirm", "store"} => runs[r].batch \notin DOMAIN nacha_batches
       /\ runs[r].pc \in {"submit", "poll", "settle", "finalize"} =>
            /\ runs[r].batch \in DOMAIN nacha_batches
            /\ nacha_batches[runs[r].batch] = runs[r].transactions

\* A run that polls has its file at the bank; one that got past polling has
\* it acknowledged.
FilesOfOwners ==
  \A r \in Runs :
    /\ runs[r].pc \in {"poll", "settle", "finalize"} => runs[r].batch \in DOMAIN bank
    /\ runs[r].pc \in {"settle", "finalize"} => bank[runs[r].batch].answer = "acknowledged"

JobInv ==
  /\ OfTheDay /\ OneOwner /\ RowsOfOwners
  /\ FilesOfOwners /\ FilesAccountedFor /\ SettledWasAcknowledged

\* A table after a row was inserted or updated.
LEMMA WithType ==
  ASSUME NEW S, NEW f, IsTable(f, S), NEW d \in Dates, NEW v \in S
  PROVE  IsTable(With(f, d, v), S)
BY DEF With, IsTable

\* Moving a run to another await.
LEMMA GotoType ==
  ASSUME runs \in [Runs -> RunRecord], NEW r \in Runs, NEW pc \in Working \cup Over, Goto(r, pc)
  PROVE  runs' \in [Runs -> RunRecord]
BY DEF Goto, RunRecord

\* TypeOK is inductive.
LEMMA TypeStep == ASSUME TypeOK, [Next]_vars PROVE TypeOK'
<1> USE JobAssumption DEF TypeOK, tables
<1>a. ASSUME NEW r \in Runs
      PROVE  /\ runs[r] \in RunRecord
             /\ runs[r].batch \in Dates
             /\ runs[r].transactions \in SUBSET Transfers
             /\ runs[r].polls \in 0 .. MaxPolls
  BY DEF RunRecord
<1>1. CASE UNCHANGED vars
  BY <1>1 DEF vars
<1>2. ASSUME NEW r \in Runs, Trigger(r) PROVE TypeOK'
  <2>1. runs' \in [Runs -> RunRecord]
    BY <1>2 DEF Trigger, RunRecord, Working
  <2> QED BY <1>2, <2>1 DEF Trigger
<1>3. ASSUME NEW r \in Runs, CheckExisting(r) PROVE TypeOK'
  <2>1. runs' \in [Runs -> RunRecord]
    BY <1>3, GotoType DEF CheckExisting, Working, Over
  <2> QED BY <1>3, <2>1 DEF CheckExisting
<1>4. ASSUME NEW r \in Runs, InsertBatch(r) PROVE TypeOK'
  <2>1. runs' \in [Runs -> RunRecord]
    BY <1>4, GotoType DEF InsertBatch, Continue, Working
  <2>2. IsTable(With(settlement_batches, runs[r].batch, "created"), BatchStatuses)
    BY <1>a, WithType DEF BatchStatuses
  <2> QED BY <1>4, <2>1, <2>2 DEF InsertBatch
<1>5. ASSUME NEW r \in Runs, FetchPending(r) PROVE TypeOK'
  <2> DEFINE found == Pending(runs[r].batch)
             pc == IF found = {} THEN "confirm" ELSE "store"
  <2>1. found \in SUBSET Transfers
    BY DEF Pending
  <2>2. pc \in Working
    BY DEF Working
  <2>3. runs' = [runs EXCEPT ![r] = [@ EXCEPT !.transactions = found, !.pc = pc]]
    BY <1>5 DEF FetchPending
  <2> HIDE DEF found, pc
  <2>4. runs' \in [Runs -> RunRecord]
    BY <2>1, <2>2, <2>3 DEF RunRecord
  <2> QED BY <1>5, <2>4 DEF FetchPending
<1>6. ASSUME NEW r \in Runs, ConfirmEmpty(r) PROVE TypeOK'
  <2>1. runs' \in [Runs -> RunRecord]
    BY <1>6, GotoType DEF ConfirmEmpty, Continue, Working, Over
  <2>2. IsTable(With(settlement_batches, runs[r].batch, "confirmed"), BatchStatuses)
    BY <1>a, WithType DEF BatchStatuses
  <2> QED BY <1>6, <2>1, <2>2 DEF ConfirmEmpty
<1>7. ASSUME NEW r \in Runs, StoreNacha(r) PROVE TypeOK'
  <2>1. runs' \in [Runs -> RunRecord]
    BY <1>7, GotoType DEF StoreNacha, Continue, Working
  <2>2. IsTable(With(nacha_batches, runs[r].batch, runs[r].transactions), SUBSET Transfers)
    BY <1>a, WithType
  <2> QED BY <1>7, <2>1, <2>2 DEF StoreNacha
<1>8. ASSUME NEW r \in Runs, SubmitToBank(r) PROVE TypeOK'
  <2>1. runs' \in [Runs -> RunRecord]
    BY <1>8, GotoType DEF SubmitToBank, Continue, Working
  <2> DEFINE new == [file |-> runs[r].transactions, answer |-> "none"]
  <2>2. new \in BankFile
    BY <1>a DEF BankFile
  <2>3. bank' = bank \/ bank' = With(bank, runs[r].batch, new)
    BY <1>8 DEF SubmitToBank
  <2> HIDE DEF new
  <2>4. IsTable(bank', BankFile)
    BY <1>a, <2>2, <2>3, WithType
  <2> QED BY <1>8, <2>1, <2>4 DEF SubmitToBank
<1>9. ASSUME NEW r \in Runs, PollBank(r) PROVE TypeOK'
  <2> DEFINE polls == runs[r].polls + 1
             n == IF polls < MaxPolls THEN polls ELSE MaxPolls
             pc == AfterPoll(bank[runs[r].batch].answer, polls)
  <2>1. n \in 0 .. MaxPolls
    BY <1>a
  <2>2. pc \in Working
    BY DEF AfterPoll, Working
  <2>3. runs' = [runs EXCEPT ![r] = [@ EXCEPT !.polls = n, !.pc = pc]]
    BY <1>9 DEF PollBank
  <2> HIDE DEF n, pc, polls
  <2>4. runs' \in [Runs -> RunRecord]
    BY <2>1, <2>2, <2>3 DEF RunRecord
  <2> QED BY <1>9, <2>4 DEF PollBank
<1>10. ASSUME NEW r \in Runs, UpdateLedgerSettled(r) PROVE TypeOK'
  <2>1. runs' \in [Runs -> RunRecord]
    BY <1>10, GotoType DEF UpdateLedgerSettled, Continue, Working
  <2>2. settled' \in [Transfers -> 0 .. Days]
    BY <1>10, <1>a DEF UpdateLedgerSettled, Dates
  <2> QED BY <1>10, <2>1, <2>2 DEF UpdateLedgerSettled
<1>11. ASSUME NEW r \in Runs, FinalizeSettlement(r) PROVE TypeOK'
  <2>1. runs' \in [Runs -> RunRecord]
    BY <1>11, GotoType DEF FinalizeSettlement, Continue, Working, Over
  <2>2. IsTable(With(settlement_batches, runs[r].batch, "submitted"), BatchStatuses)
    BY <1>a, WithType DEF BatchStatuses
  <2> QED BY <1>11, <2>1, <2>2 DEF FinalizeSettlement
<1>12. ASSUME NEW r \in Runs, Catch(r) PROVE TypeOK'
  <2>1. runs' \in [Runs -> RunRecord]
    BY <1>12, GotoType DEF Catch, Over
  <2>2. IsTable(settlement_batches', BatchStatuses)
    BY <1>12 DEF Catch, MarkedFailed, IsTable, BatchStatuses
  <2> QED BY <1>12, <2>1, <2>2 DEF Catch
<1>13. ASSUME NEW r \in Runs, Raises(r) \/ Die(r) PROVE TypeOK'
  <2>1. runs' \in [Runs -> RunRecord]
    BY <1>13, GotoType DEF Raises, Die, Working, Over
  <2> QED BY <1>13, <2>1 DEF Raises, Die
<1>14. ASSUME NEW t \in Transfers, PostTransfer(t) PROVE TypeOK'
  <2>1. posted' \in [Transfers -> 0 .. Days]
    BY <1>14 DEF PostTransfer, Dates
  <2> QED BY <1>14, <2>1 DEF PostTransfer
<1>15. ASSUME NEW d \in DOMAIN bank, NEW a \in {"acknowledged", "rejected"}, BankAnswers(d, a)
       PROVE TypeOK'
  <2>1. IsTable(bank', BankFile)
    BY <1>15 DEF BankAnswers, IsTable, BankFile
  <2> QED BY <1>15, <2>1 DEF BankAnswers
<1>16. CASE Midnight
  <2>1. today' \in Dates
    BY <1>16 DEF Midnight, Dates
  <2> QED BY <1>16, <2>1 DEF Midnight
<1> QED
  BY <1>1, <1>2, <1>3, <1>4, <1>5, <1>6, <1>7, <1>8, <1>9, <1>10, <1>11, <1>12, <1>13, <1>14,
     <1>15, <1>16 DEF Next, Proceed

\* The settlement tables and the bank never lead to a state out of type,
\* however runs of the job interleave, fail and die.
THEOREM JobTypeCorrect == Spec => []TypeOK
<1>1. Init => TypeOK
  BY JobAssumption DEF Init, TypeOK, IsTable, RunRecord, Idle, Dates
<1> QED
  BY <1>1, TypeStep, PTL DEF Spec
-----------------------------------------------------------------------------
(* Safety.                                                                 *)

\* What a move of one run to another await leaves as it was.
Moved(r, pc) ==
  /\ runs'[r].pc = pc
  /\ \A q \in Runs : /\ runs'[q].batch = runs[q].batch
                     /\ runs'[q].transactions = runs[q].transactions
                     /\ q # r => runs'[q].pc = runs[q].pc

LEMMA Moves ==
  ASSUME TypeOK, NEW r \in Runs, NEW pc, Goto(r, pc)
  PROVE  Moved(r, pc)
BY DEF TypeOK, RunRecord, Goto, Moved

\* A run that stops owning its batch, or never did, disturbs nothing as long
\* as the tables and the bank stay as they are.
LEMMA Leaves ==
  ASSUME TypeOK, JobInv, NEW r \in Runs, NEW pc \in {"insert", "catch", "ended", "died"},
         Goto(r, pc), UNCHANGED <<posted, tables, bank>>
  PROVE  JobInv'
<1>1. Moved(r, pc) /\ pc \notin Owning \cup {"idle"}
  BY Moves DEF Owning
<1>2. OfTheDay'
  BY <1>1 DEF Moved, JobInv, OfTheDay, At, tables
<1>3. OneOwner'
  BY <1>1 DEF Moved, JobInv, OneOwner
<1>4. RowsOfOwners'
  BY <1>1 DEF Moved, JobInv, RowsOfOwners, tables, Owning
<1>5. FilesOfOwners'
  BY <1>1 DEF Moved, JobInv, FilesOfOwners, Owning
<1>6. FilesAccountedFor' /\ SettledWasAcknowledged'
  BY DEF JobInv, FilesAccountedFor, SettledWasAcknowledged, tables
<1> QED BY <1>2, <1>3, <1>4, <1>5, <1>6 DEF JobInv

\* Only an owner's step to the next await is left: one lemma for each await.
LEMMA InsertKeeps ==
  ASSUME TypeOK, JobInv, NEW r \in Runs, InsertBatch(r) PROVE JobInv'
<1> DEFINE d == runs[r].batch
<1>1. CASE Conflicts(d)
  BY <1>1, Leaves DEF InsertBatch, tables
<1>2. CASE ~ Conflicts(d)
  <2>1. PICK pc \in {"fetch", "catch"} : Goto(r, pc)
    BY <1>2 DEF InsertBatch, Continue
  <2>2. /\ d \notin DOMAIN settlement_batches
        /\ settlement_batches' = With(settlement_batches, d, "created")
        /\ UNCHANGED <<posted, settled, nacha_batches, bank>>
    BY <1>2 DEF InsertBatch, Conflicts
  <2>3. At(r, "insert")
    BY DEF InsertBatch
  <2>4. Moved(r, pc)
    BY <2>1, Moves
  <2>5. \A q \in Runs : runs[q].pc \in Owning => runs[q].batch # d
    BY <2>2 DEF JobInv, RowsOfOwners
  <2>6. /\ DOMAIN settlement_batches' = DOMAIN settlement_batches \cup {d}
        /\ settlement_batches'[d] = "created"
        /\ \A e \in DOMAIN settlement_batches : settlement_batches'[e] = settlement_batches[e]
    BY <2>2 DEF With
  <2>7. d \notin DOMAIN nacha_batches
    BY <2>2 DEF JobInv, RowsOfOwners
  <2> HIDE DEF d
  <2>8. OfTheDay'
    BY <2>2, <2>3, <2>4 DEF Moved, JobInv, OfTheDay, At
  <2>9. OneOwner'
    BY <2>1, <2>4, <2>5 DEF Moved, JobInv, OneOwner, d
  <2>10. RowsOfOwners'
    BY <2>1, <2>2, <2>4, <2>6, <2>7 DEF Moved, JobInv, RowsOfOwners, Owning, d
  <2>11. FilesOfOwners'
    BY <2>1, <2>2, <2>4 DEF Moved, JobInv, FilesOfOwners
  <2>12. FilesAccountedFor' /\ SettledWasAcknowledged'
    BY <2>2, <2>6 DEF JobInv, FilesAccountedFor, SettledWasAcknowledged
  <2> QED BY <2>8, <2>9, <2>10, <2>11, <2>12 DEF JobInv
<1> QED BY <1>1, <1>2

LEMMA FetchKeeps ==
  ASSUME TypeOK, JobInv, NEW r \in Runs, FetchPending(r) PROVE JobInv'
<1> DEFINE found == Pending(runs[r].batch)
           pc == IF found = {} THEN "confirm" ELSE "store"
<1>1. /\ runs' = [runs EXCEPT ![r] = [@ EXCEPT !.transactions = found, !.pc = pc]]
      /\ UNCHANGED <<posted, settled, settlement_batches, nacha_batches, bank>>
      /\ At(r, "fetch")
  BY DEF FetchPending, tables
<1>2. \A t \in found : posted[t] = runs[r].batch
  BY DEF Pending
<1>3. pc \in {"confirm", "store"}
  OBVIOUS
<1> HIDE DEF found, pc
<1>4. /\ runs'[r].pc = pc /\ runs'[r].transactions = found
      /\ \A q \in Runs : /\ runs'[q].batch = runs[q].batch
                         /\ q # r => runs'[q] = runs[q]
  BY <1>1 DEF TypeOK, RunRecord
<1>5. OfTheDay'
  BY <1>1, <1>2, <1>3, <1>4 DEF JobInv, OfTheDay, At
<1>6. OneOwner'
  BY <1>1, <1>3, <1>4 DEF JobInv, OneOwner, Owning, At
<1>7. RowsOfOwners'
  BY <1>1, <1>3, <1>4 DEF JobInv, RowsOfOwners, Owning, At
<1>8. FilesOfOwners'
  BY <1>1, <1>3, <1>4 DEF JobInv, FilesOfOwners
<1>9. FilesAccountedFor' /\ SettledWasAcknowledged'
  BY <1>1 DEF JobInv, FilesAccountedFor, SettledWasAcknowledged
<1> QED BY <1>5, <1>6, <1>7, <1>8, <1>9 DEF JobInv

\* A row of its own batch is updated as an owner leaves.
LEMMA UpdateKeeps ==
  ASSUME TypeOK, JobInv, NEW r \in Runs, ConfirmEmpty(r) \/ FinalizeSettlement(r) PROVE JobInv'
<1> DEFINE d == runs[r].batch
<1>1. /\ \E pc \in {"ended", "catch"} : Goto(r, pc)
      /\ \E status \in {"confirmed", "submitted"} :
           /\ settlement_batches' = With(settlement_batches, d, status)
           /\ status = "confirmed" => At(r, "confirm")
      /\ UNCHANGED <<posted, settled, nacha_batches, bank>>
      /\ runs[r].pc \in {"confirm", "finalize"}
  BY DEF ConfirmEmpty, FinalizeSettlement, Continue, At
<1>2. PICK pc \in {"ended", "catch"} : Goto(r, pc)
  BY <1>1
<1>3. PICK status \in {"confirmed", "submitted"} :
        /\ settlement_batches' = With(settlement_batches, d, status)
        /\ status = "confirmed" => At(r, "confirm")
  BY <1>1
<1>4. Moved(r, pc) /\ runs[r].pc \in Owning
  BY <1>1, <1>2, Moves DEF Owning
<1>5. /\ DOMAIN settlement_batches' = DOMAIN settlement_batches \cup {d}
      /\ settlement_batches'[d] = status
      /\ \A e \in DOMAIN settlement_batches : e # d => settlement_batches'[e] = settlement_batches[e]
  BY <1>3 DEF With
<1>6. d \in DOMAIN settlement_batches /\ (status = "confirmed" => d \notin DOMAIN nacha_batches)
  BY <1>3, <1>4 DEF JobInv, RowsOfOwners, At
<1>7. \A q \in Runs : q # r /\ runs[q].pc \in Owning => runs[q].batch # d
  BY <1>4 DEF JobInv, OneOwner
<1> HIDE DEF d
<1>8. OfTheDay'
  BY <1>1, <1>2, <1>4 DEF Moved, JobInv, OfTheDay, At
<1>9. OneOwner'
  BY <1>2, <1>4 DEF Moved, JobInv, OneOwner, Owning
<1>10. RowsOfOwners'
  BY <1>1, <1>2, <1>4, <1>5, <1>6, <1>7 DEF Moved, JobInv, RowsOfOwners, Owning
<1>11. FilesOfOwners'
  BY <1>1, <1>2, <1>4 DEF Moved, JobInv, FilesOfOwners
<1>12. FilesAccountedFor' /\ SettledWasAcknowledged'
  BY <1>1, <1>5, <1>6 DEF JobInv, FilesAccountedFor, SettledWasAcknowledged
<1> QED BY <1>8, <1>9, <1>10, <1>11, <1>12 DEF JobInv

LEMMA StoreKeeps ==
  ASSUME TypeOK, JobInv, NEW r \in Runs, StoreNacha(r) PROVE JobInv'
<1> DEFINE d == runs[r].batch
<1>1. At(r, "store") /\ d \notin DOMAIN nacha_batches
  BY DEF StoreNacha, JobInv, RowsOfOwners, At
<1>2. /\ nacha_batches' = With(nacha_batches, d, runs[r].transactions)
      /\ UNCHANGED <<posted, settled, settlement_batches, bank>>
  BY <1>1 DEF StoreNacha
<1>3. PICK pc \in {"submit", "catch"} : Goto(r, pc)
  BY <1>1 DEF StoreNacha, Continue
<1>4. Moved(r, pc) /\ runs[r].pc \in Owning
  BY <1>1, <1>3, Moves DEF Owning, At
<1>5. /\ DOMAIN nacha_batches' = DOMAIN nacha_batches \cup {d}
      /\ nacha_batches'[d] = runs[r].transactions
      /\ \A e \in DOMAIN nacha_batches : nacha_batches'[e] = nacha_batches[e]
  BY <1>1, <1>2 DEF With
<1>6. d \in DOMAIN settlement_batches /\ settlement_batches[d] # "confirmed"
  BY <1>4 DEF JobInv, RowsOfOwners
<1>7. \A q \in Runs : q # r /\ runs[q].pc \in Owning => runs[q].batch # d
  BY <1>4 DEF JobInv, OneOwner
<1>8. \A t \in runs[r].transactions : posted[t] = d
  BY DEF JobInv, OfTheDay
<1>9. runs'[r].batch = d /\ runs'[r].transactions = runs[r].transactions
  BY <1>4 DEF Moved
<1> HIDE DEF d
<1>10. OfTheDay'
  BY <1>2, <1>3, <1>4, <1>5, <1>8 DEF Moved, JobInv, OfTheDay, At
<1>11. OneOwner'
  BY <1>3, <1>4 DEF Moved, JobInv, OneOwner, Owning
<1>12. RowsOfOwners'
  BY <1>2, <1>3, <1>4, <1>5, <1>6, <1>7, <1>9 DEF Moved, JobInv, RowsOfOwners, Owning
<1>13. FilesOfOwners'
  BY <1>2, <1>3, <1>4 DEF Moved, JobInv, FilesOfOwners
<1>14. FilesAccountedFor' /\ SettledWasAcknowledged'
  BY <1>2, <1>5, <1>6 DEF JobInv, FilesAccountedFor, SettledWasAcknowledged
<1> QED BY <1>10, <1>11, <1>12, <1>13, <1>14 DEF JobInv

LEMMA SubmitKeeps ==
  ASSUME TypeOK, JobInv, NEW r \in Runs, SubmitToBank(r) PROVE JobInv'
<1> DEFINE d == runs[r].batch
<1>1. /\ At(r, "submit")
      /\ d \in DOMAIN nacha_batches /\ nacha_batches[d] = runs[r].transactions
      /\ UNCHANGED <<posted, settled, settlement_batches, nacha_batches>>
  BY DEF SubmitToBank, JobInv, RowsOfOwners, At, tables
<1>2. PICK pc \in {"poll", "catch"} : Goto(r, pc)
  BY DEF SubmitToBank, Continue
<1>3. Moved(r, pc) /\ runs[r].pc \in Owning
  BY <1>1, <1>2, Moves DEF Owning, At
<1>4. /\ DOMAIN bank' = DOMAIN bank \cup {d}
      /\ \A e \in DOMAIN bank : bank'[e] = bank[e]
      /\ d \notin DOMAIN bank => bank'[d].file = runs[r].transactions
  BY DEF SubmitToBank, With
<1>5. runs'[r].batch = d /\ runs'[r].transactions = runs[r].transactions
  BY <1>3 DEF Moved
<1> HIDE DEF d
<1>6. OfTheDay'
  BY <1>1, <1>2, <1>3 DEF Moved, JobInv, OfTheDay, At
<1>7. OneOwner'
  BY <1>2, <1>3 DEF Moved, JobInv, OneOwner, Owning
<1>8. RowsOfOwners'
  BY <1>1, <1>2, <1>3 DEF Moved, JobInv, RowsOfOwners, Owning, At
<1>9. FilesOfOwners'
  BY <1>2, <1>3, <1>4, <1>5 DEF Moved, JobInv, FilesOfOwners
<1>10. FilesAccountedFor' /\ SettledWasAcknowledged'
  BY <1>1, <1>4 DEF JobInv, FilesAccountedFor, SettledWasAcknowledged
<1> QED BY <1>6, <1>7, <1>8, <1>9, <1>10 DEF JobInv

\* A run gets past polling only with the answer "acknowledged".
LEMMA PollKeeps ==
  ASSUME TypeOK, JobInv, NEW r \in Runs, PollBank(r) PROVE JobInv'
<1> DEFINE d == runs[r].batch
           polls == runs[r].polls + 1
           n == IF polls < MaxPolls THEN polls ELSE MaxPolls
           pc == AfterPoll(bank[d].answer, polls)
<1>1. /\ At(r, "poll")
      /\ runs' = [runs EXCEPT ![r] = [@ EXCEPT !.polls = n, !.pc = pc]]
      /\ UNCHANGED <<posted, settled, settlement_batches, nacha_batches, bank>>
  BY DEF PollBank, tables
<1>2. pc \in {"poll", "settle", "catch"} /\ (pc = "settle" => bank[d].answer = "acknowledged")
  BY DEF AfterPoll
<1>3. d \in DOMAIN bank
  BY <1>1 DEF JobInv, FilesOfOwners, At
<1> HIDE DEF pc, n, polls
<1>4. Moved(r, pc)
  BY <1>1 DEF TypeOK, RunRecord, Moved
<1>5. runs'[r].batch = d
  BY <1>4 DEF Moved
<1> HIDE DEF d
<1>6. OfTheDay'
  BY <1>1, <1>2, <1>4 DEF Moved, JobInv, OfTheDay, At
<1>7. OneOwner'
  BY <1>1, <1>2, <1>4 DEF Moved, JobInv, OneOwner, Owning, At
<1>8. RowsOfOwners'
  BY <1>1, <1>2, <1>4 DEF Moved, JobInv, RowsOfOwners, Owning, At
<1>9. FilesOfOwners'
  BY <1>1, <1>2, <1>3, <1>4, <1>5 DEF Moved, JobInv, FilesOfOwners
<1>10. FilesAccountedFor' /\ SettledWasAcknowledged'
  BY <1>1 DEF JobInv, FilesAccountedFor, SettledWasAcknowledged
<1> QED BY <1>6, <1>7, <1>8, <1>9, <1>10 DEF JobInv

\* What a run marks as settled is the acknowledged file of its batch.
LEMMA SettleKeeps ==
  ASSUME TypeOK, JobInv, NEW r \in Runs, UpdateLedgerSettled(r) PROVE JobInv'
<1> DEFINE d == runs[r].batch
<1>1. /\ At(r, "settle")
      /\ UNCHANGED <<posted, settlement_batches, nacha_batches, bank>>
      /\ \A t \in Transfers :
           settled'[t] = settled[t] \/ (t \in runs[r].transactions /\ settled'[t] = d)
  BY DEF UpdateLedgerSettled, TypeOK
<1>2. PICK pc \in {"finalize", "catch"} : Goto(r, pc)
  BY DEF UpdateLedgerSettled, Continue
<1>3. Moved(r, pc) /\ runs[r].pc \in Owning
  BY <1>1, <1>2, Moves DEF Owning, At
<1>4. /\ d \in DOMAIN bank /\ bank[d].answer = "acknowledged"
      /\ bank[d].file = runs[r].transactions
  BY <1>1 DEF JobInv, FilesOfOwners, RowsOfOwners, FilesAccountedFor, At
<1>5. runs'[r].batch = d
  BY <1>3 DEF Moved
<1> HIDE DEF d
<1>6. OfTheDay'
  BY <1>1, <1>2, <1>3 DEF Moved, JobInv, OfTheDay, At
<1>7. OneOwner'
  BY <1>2, <1>3 DEF Moved, JobInv, OneOwner, Owning
<1>8. RowsOfOwners'
  BY <1>1, <1>2, <1>3 DEF Moved, JobInv, RowsOfOwners, Owning, At
<1>9. FilesOfOwners'
  BY <1>1, <1>2, <1>3, <1>4, <1>5 DEF Moved, JobInv, FilesOfOwners
<1>10. FilesAccountedFor'
  BY <1>1 DEF JobInv, FilesAccountedFor
<1>11. SettledWasAcknowledged'
  BY <1>1, <1>4 DEF JobInv, SettledWasAcknowledged
<1> QED BY <1>6, <1>7, <1>8, <1>9, <1>10, <1>11 DEF JobInv

\* The catch block may hit the batch of another run, which goes on with it:
\* the row stays, and is not confirmed.
LEMMA CatchKeeps ==
  ASSUME TypeOK, JobInv, NEW r \in Runs, Catch(r) PROVE JobInv'
<1>1. /\ Goto(r, "ended")
      /\ UNCHANGED <<posted, settled, nacha_batches, bank>>
      /\ DOMAIN settlement_batches' = DOMAIN settlement_batches
      /\ \A d \in DOMAIN settlement_batches :
           settlement_batches'[d] = settlement_batches[d] \/ settlement_batches'[d] = "failed"
  BY DEF Catch, MarkedFailed
<1>2. Moved(r, "ended")
  BY <1>1, Moves
<1>3. OfTheDay'
  BY <1>1, <1>2 DEF Moved, JobInv, OfTheDay, At
<1>4. OneOwner'
  BY <1>2 DEF Moved, JobInv, OneOwner, Owning
<1>5. RowsOfOwners'
  BY <1>1, <1>2 DEF Moved, JobInv, RowsOfOwners, Owning
<1>6. FilesOfOwners'
  BY <1>1, <1>2 DEF Moved, JobInv, FilesOfOwners
<1>7. FilesAccountedFor' /\ SettledWasAcknowledged'
  BY <1>1 DEF JobInv, FilesAccountedFor, SettledWasAcknowledged
<1> QED BY <1>3, <1>4, <1>5, <1>6, <1>7 DEF JobInv

\* A trigger gives a batch to a run that has no transactions yet.
LEMMA TriggerKeeps ==
  ASSUME TypeOK, JobInv, NEW r \in Runs, Trigger(r) PROVE JobInv'
<1>1. /\ At(r, "idle")
      /\ UNCHANGED <<posted, settled, settlement_batches, nacha_batches, bank>>
      /\ runs'[r].pc = "check" /\ runs'[r].transactions = {}
      /\ \A q \in Runs : q # r => runs'[q] = runs[q]
  BY DEF Trigger, TypeOK, RunRecord, JobInv, OfTheDay, tables
<1>2. OfTheDay'
  BY <1>1 DEF JobInv, OfTheDay, At
<1>3. OneOwner'
  BY <1>1 DEF JobInv, OneOwner, Owning
<1>4. RowsOfOwners'
  BY <1>1 DEF JobInv, RowsOfOwners, Owning
<1>5. FilesOfOwners'
  BY <1>1 DEF JobInv, FilesOfOwners
<1>6. FilesAccountedFor' /\ SettledWasAcknowledged'
  BY <1>1 DEF JobInv, FilesAccountedFor, SettledWasAcknowledged
<1> QED BY <1>2, <1>3, <1>4, <1>5, <1>6 DEF JobInv

\* Posting dates a transfer no run and no file has: their days are not 0.
LEMMA PostKeeps ==
  ASSUME TypeOK, JobInv, NEW t \in Transfers, PostTransfer(t) PROVE JobInv'
<1>1. /\ posted[t] = 0 /\ \A u \in Transfers : u # t => posted'[u] = posted[u]
      /\ UNCHANGED <<settled, settlement_batches, nacha_batches, bank, runs>>
  BY DEF PostTransfer, TypeOK, tables
<1>2. OfTheDay'
  <2>1. ASSUME NEW r \in Runs, NEW u \in runs[r].transactions PROVE posted'[u] = runs[r].batch
    <3>1. u \in Transfers /\ runs[r].batch # 0
      BY DEF TypeOK, RunRecord, Dates
    <3> QED BY <1>1, <3>1 DEF JobInv, OfTheDay
  <2>2. ASSUME NEW d \in DOMAIN nacha_batches, NEW u \in nacha_batches[d] PROVE posted'[u] = d
    <3>1. u \in Transfers /\ d # 0
      BY DEF TypeOK, IsTable, Dates
    <3> QED BY <1>1, <3>1 DEF JobInv, OfTheDay
  <2> QED BY <1>1, <2>1, <2>2 DEF JobInv, OfTheDay, At
<1>3. OneOwner' /\ RowsOfOwners' /\ FilesOfOwners'
  BY <1>1 DEF JobInv, OneOwner, RowsOfOwners, FilesOfOwners
<1>4. FilesAccountedFor' /\ SettledWasAcknowledged'
  BY <1>1 DEF JobInv, FilesAccountedFor, SettledWasAcknowledged
<1> QED BY <1>2, <1>3, <1>4 DEF JobInv

\* The bank answers once: what it has acknowledged stays acknowledged.
LEMMA AnswerKeeps ==
  ASSUME TypeOK, JobInv, NEW d \in DOMAIN bank, NEW answer, BankAnswers(d, answer) PROVE JobInv'
<1>1. /\ UNCHANGED <<posted, settled, settlement_batches, nacha_batches, runs>>
      /\ DOMAIN bank' = DOMAIN bank
      /\ \A e \in DOMAIN bank : /\ bank'[e].file = bank[e].file
                                /\ bank[e].answer = "acknowledged" =>
                                     bank'[e].answer = "acknowledged"
  BY DEF BankAnswers, TypeOK, IsTable, BankFile, tables
<1>2. OfTheDay' /\ OneOwner' /\ RowsOfOwners'
  BY <1>1 DEF JobInv, OfTheDay, OneOwner, RowsOfOwners, At
<1>3. FilesOfOwners'
  BY <1>1 DEF JobInv, FilesOfOwners, Owning, TypeOK
<1>4. FilesAccountedFor' /\ SettledWasAcknowledged'
  BY <1>1 DEF JobInv, FilesAccountedFor, SettledWasAcknowledged
<1> QED BY <1>2, <1>3, <1>4 DEF JobInv

\* JobInv is inductive, together with TypeOK.
LEMMA JobStep == ASSUME TypeOK, JobInv, [Next]_vars PROVE JobInv'
<1>1. CASE UNCHANGED <<posted, tables, bank, runs>>
  BY <1>1 DEF JobInv, OfTheDay, OneOwner, RowsOfOwners, FilesOfOwners, FilesAccountedFor,
              SettledWasAcknowledged, At, tables
<1>2. ASSUME NEW r \in Runs, CheckExisting(r) PROVE JobInv'
  BY <1>2, Leaves DEF CheckExisting
<1>3. ASSUME NEW r \in Runs, Raises(r) \/ Die(r) PROVE JobInv'
  BY <1>3, Leaves DEF Raises, Die
<1>4. ASSUME NEW r \in Runs, Proceed(r) PROVE JobInv'
  BY <1>2, <1>4, InsertKeeps, FetchKeeps, UpdateKeeps, StoreKeeps, SubmitKeeps, PollKeeps,
     SettleKeeps, CatchKeeps DEF Proceed
<1>5. CASE UNCHANGED vars \/ Midnight
  BY <1>1, <1>5 DEF vars, Midnight
<1> QED
  BY <1>3, <1>4, <1>5, TriggerKeeps, PostKeeps, AnswerKeeps DEF Next

THEOREM JobCorrect == Spec => []JobInv
<1>1. Init => JobInv
  BY DEF Init, JobInv, OfTheDay, OneOwner, RowsOfOwners, FilesOfOwners, FilesAccountedFor,
         SettledWasAcknowledged, At, Idle, Owning
<1> QED
  BY <1>1, JobStep, JobTypeCorrect, PTL DEF Spec

\* Under any overlap of runs of the same day, no two work on the same batch.
THEOREM JobOneOwner == Spec => []OneOwner
BY JobCorrect, PTL DEF JobInv

\* The ledger calls a transfer settled only when the bank has acknowledged the
\* file it was in.
THEOREM JobSettledWasAcknowledged == Spec => []SettledWasAcknowledged
BY JobCorrect, PTL DEF JobInv

\* What the bank has is what the database stored.
THEOREM JobFilesAccountedFor == Spec => []FilesAccountedFor
BY JobCorrect, PTL DEF JobInv

\* No transfer is in two files at the bank: a file holds what was posted on
\* its day, however many runs fail and are followed by others.
THEOREM JobPaidOnce == Spec => []PaidOnce
<1>1. JobInv => PaidOnce
  BY DEF JobInv, OfTheDay, FilesAccountedFor, PaidOnce
<1> QED
  BY <1>1, JobCorrect, PTL
=============================================================================
