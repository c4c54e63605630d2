-------------------------- MODULE ReconciliationJob --------------------------
(***************************************************************************)
(* The nightly job of trigger-jobs/reconciliation_run.ts, the second       *)
(* implementation of matching.  Each trigger starts a run with an id of    *)
(* its own (the millisecond is in it); a run gives way at every await, may *)
(* die there, and ends up in its catch block when a statement raises,      *)
(* whether or not it took effect.                                          *)
(*                                                                         *)
(* The night that is reconciled is over: its ledger entries and processor  *)
(* events do not change, and all have one date, so that the job's date     *)
(* tolerance excludes none.  The bank's statement still grows.             *)
(***************************************************************************)
EXTENDS Money, Sequences, SequencesExt

CONSTANTS
  Runs,      \* the times the job is triggered
  Nights,    \* [ledger, psp]: the records a night may have left
  Deposits,  \* what the bank posts, in its order
  Faults     \* whether statements may raise, and workers die

VARIABLES
  night,                      \* the night that is reconciled
  posted,                     \* how many of Deposits are on the statement
  reconciliation_runs,        \* run |-> its row
  reconciliation_matches,     \* run |-> its rows, oldest first
  reconciliation_exceptions,  \* run |-> its rows, oldest first
  runs                        \* run |-> where it is in the job

tables == <<reconciliation_runs, reconciliation_matches, reconciliation_exceptions>>
job_vars == <<night, posted, tables, runs>>

\* What is matched, and a row of the report; none is a column that is null.
JobRecord == [id : STRING \ {"none"}, amount : Int, user : STRING]
Deposit == [id : STRING \ {"none"}, amount : Int]
Column == STRING \cup {"none"}
Match ==
  [ledger : Column, psp : Column, bank : Column, type : {"exact", "fuzzy", "many_to_one"},
   status : {"exact_match", "fuzzy_match", "many_to_one", "auto_resolved", "exception", "unmatched"},
   delta : Int]

ASSUME JobAssumption ==
  /\ Faults \in BOOLEAN
  /\ Nights \subseteq [ledger : Seq(JobRecord), psp : Seq(JobRecord)]
  /\ Deposits \in Seq(Deposit)
  /\ \A n \in Nights : \A i, j \in DOMAIN n.ledger : n.ledger[i].id = n.ledger[j].id => i = j

Working == {"insert", "ledger", "psp", "bank", "store", "except", "finalize", "catch"}
Over == {"ended", "died"}

-----------------------------------------------------------------------------
(* The matching, which awaits nothing.                                     *)

\* type is not stored; the statistics count by it.
Row(ledger, psp, bank, type, status, delta) ==
  [ledger |-> ledger, psp |-> psp, bank |-> bank, type |-> type, status |-> status, delta |-> delta]

\* The rows a loop over the positions 1 .. n of a list pushes: f has those of
\* the positions that push one.
Pushed(f, n) ==
  LET after[k \in 0 .. n] ==
        IF k = 0 THEN <<>>
        ELSE IF k \in DOMAIN f THEN Append(after[k - 1], f[k]) ELSE after[k - 1]
  IN  after[n]

\* The ids of the records taken so far; position 0 is none.
Ignored(list, taken) == {}

UsedIds(list, taken) == {list[j].id : j \in taken \ {0}}

\* What record i, partners being f so far, may take: what fits it, by a set of
\* pairs of positions, and has an id that is not used.
FreeFor(i, f, right, fits) ==
  {j \in DOMAIN right : <<i, j>> \in fits /\ right[j].id \notin UsedIds(right, Range(f))}

Nobody(left) == [i \in DOMAIN left |-> 0]

\* The step of record i, as a function of the partners so far.
TakeFirst(i, left, right, fits) ==
  [f \in [DOMAIN left -> 0 .. Len(right)] |->
     LET free == FreeFor(i, f, right, fits)
     IN  IF f[i] # 0 \/ free = {} THEN f ELSE [f EXCEPT ![i] = Min(free)]]

\* A pass of the loops: each record of left that has no partner before takes
\* the first record of right that is free.
Partners(left, right, before, fits) ==
  LET after[i \in 0 .. Len(left)] ==
        IF i = 0 THEN before ELSE TakeFirst(i, left, right, fits)[after[i - 1]]
  IN  after[Len(left)]

\* matchLedgerToPSP.  An amount is what the lines of an entry sum to.
OfOneUser(ledger, psp) ==
  {p \in (DOMAIN ledger) \X (DOMAIN psp) : ledger[p[1]].user = psp[p[2]].user}

ExactPairsOf(ledger, psp) ==
  {p \in OfOneUser(ledger, psp) : ledger[p[1]].amount = psp[p[2]].amount}

FuzzyPairsOf(ledger, psp) ==
  {p \in OfOneUser(ledger, psp) : Distance(ledger[p[1]].amount, psp[p[2]].amount) <= 10}

MatchLedgerToPSP(ledger, psp) ==
  LET exact == Partners(ledger, psp, Nobody(ledger), ExactPairsOf(ledger, psp))
      all == Partners(ledger, psp, exact, FuzzyPairsOf(ledger, psp))
      Missing(l, p, amount) == Row(l, p, "none", "many_to_one", "unmatched", amount)
      exactRows == [i \in {i \in DOMAIN ledger : exact[i] # 0} |->
        Row(ledger[i].id, psp[exact[i]].id, "none", "exact", "exact_match", 0)]
      fuzzyRows == [i \in {i \in DOMAIN ledger : exact[i] = 0 /\ all[i] # 0} |->
        Row(ledger[i].id, psp[all[i]].id, "none", "fuzzy", "fuzzy_match",
            Distance(ledger[i].amount, psp[all[i]].amount))]
      ledgerRows == [i \in {i \in DOMAIN ledger : all[i] = 0} |->
        Missing(ledger[i].id, "none", ledger[i].amount)]
      pspRows == [j \in {j \in DOMAIN psp : psp[j].id \notin UsedIds(psp, Range(all))} |->
        Missing("none", psp[j].id, psp[j].amount)]
  IN  Pushed(exactRows, Len(ledger)) \o Pushed(fuzzyRows, Len(ledger))
      \o Pushed(ledgerRows, Len(ledger)) \o Pushed(pspRows, Len(psp))

\* The totals of a night per user, in the order the users first appear.
Batches(psp) ==
  LET Of(j) == {k \in DOMAIN psp : psp[k].user = psp[j].user}
  IN  Pushed([j \in {j \in DOMAIN psp : \A k \in Of(j) : j <= k} |->
                [id |-> psp[j].user, amount |-> SumFunction([k \in Of(j) |-> psp[k].amount])]],
             Len(psp))

\* matchPSPToBank: the column of the processor's id holds a user.
BankPairs(batches, bank) ==
  {p \in (DOMAIN batches) \X (DOMAIN bank) : batches[p[1]].amount = bank[p[2]].amount}

MatchPSPToBank(psp, bank) ==
  LET batches == Batches(psp)
      match == Partners(batches, bank, Nobody(batches), BankPairs(batches, bank))
  IN  Pushed([i \in {i \in DOMAIN batches : match[i] # 0} |->
                Row("none", batches[i].id, bank[match[i]].id, "exact", "exact_match", 0)],
             Len(batches))

\* autoResolvePatterns: an unmatched record of at most a dollar.
AutoResolvePattern(row) ==
  IF row.status = "unmatched" /\ 0 <= row.delta /\ row.delta <= Dollars(1)
    THEN [row EXCEPT !.status = "auto_resolved"] ELSE row

AutoResolvePatterns ==
  [rows \in Seq(Match) |-> [i \in DOMAIN rows |-> AutoResolvePattern(rows[i])]]

Matched(ledger, psp, bank) ==
  AutoResolvePatterns[MatchLedgerToPSP(ledger, psp) \o MatchPSPToBank(psp, bank)]

\* The same as a table: what a run computes from a night and the statement's
\* length when it fetches it.
MatchedRows ==
  [p \in Nights \X (0 .. Len(Deposits)) |->
     Matched(p[1].ledger, p[1].psp, SubSeq(Deposits, 1, p[2]))]

OfType(rows, type) == {i \in DOMAIN rows : rows[i].type = type}
OfStatus(rows, status) == {i \in DOMAIN rows : rows[i].status = status}

\* createExceptions: the rows that are still unmatched.
Open(rows) == Pushed([i \in OfStatus(rows, "unmatched") |-> rows[i]], Len(rows))

\* The columns start at 0; the rate is null until the run is finalized.
NoStats ==
  [exact |-> 0, fuzzy |-> 0, many_to_one |-> 0, auto_resolved |-> 0, unmatched |-> 0,
   rated |-> FALSE]

Stats(rows) ==
  [exact |-> Cardinality(OfType(rows, "exact")),
   fuzzy |-> Cardinality(OfType(rows, "fuzzy")),
   many_to_one |-> Cardinality(OfType(rows, "many_to_one")),
   auto_resolved |-> Cardinality(OfStatus(rows, "auto_resolved")),
   unmatched |-> Cardinality(OfStatus(rows, "unmatched")),
   rated |-> TRUE]

-----------------------------------------------------------------------------
(* A run, await by await.                                                  *)

At(r, pc) == runs[r].pc = pc
Goto(r, pc) == runs' = [runs EXCEPT ![r].pc = pc]

\* The statement took effect, but its answer may not arrive.
Continue(r, pc) == Goto(r, pc) \/ (Faults /\ Goto(r, "catch"))

Trigger(r) ==
  /\ At(r, "idle")
  /\ Goto(r, "insert")
  /\ UNCHANGED <<night, posted, tables>>

InsertRun(r) ==
  /\ At(r, "insert")
  /\ reconciliation_runs' = [q \in DOMAIN reconciliation_runs \cup {r} |->
       IF q = r THEN [completed |-> FALSE, stats |-> NoStats] ELSE reconciliation_runs[q]]
  /\ Continue(r, "ledger")
  /\ UNCHANGED <<night, posted, reconciliation_matches, reconciliation_exceptions>>

\* CHECKPOINT 1
FetchLedger(r) ==
  /\ At(r, "ledger")
  /\ runs' = [runs EXCEPT ![r] = [@ EXCEPT !.pc = "psp", !.ledger = night.ledger]]
  /\ UNCHANGED <<night, posted, tables>>

FetchPSP(r) ==
  /\ At(r, "psp")
  /\ runs' = [runs EXCEPT ![r] = [@ EXCEPT !.pc = "bank", !.psp = night.psp]]
  /\ UNCHANGED <<night, posted, tables>>

\* The loops of storeMatches and createExceptions await one INSERT a row; a
\* loop over no rows awaits nothing.
AfterRowsEarly(rows, stored, raised) ==
  IF stored + 1 < Len(rows) THEN "store"
  ELSE IF raised < Len(Open(rows)) THEN "except" ELSE "finalize"

AfterRows(rows, stored, raised) ==
  IF stored < Len(rows) THEN "store"
  ELSE IF raised < Len(Open(rows)) THEN "except" ELSE "finalize"

\* The third fetch, and CHECKPOINTs 2 and 3 after it, which await nothing.
FetchBank(r) ==
  /\ At(r, "bank")
  /\ LET rows == MatchedRows[<<[ledger |-> runs[r].ledger, psp |-> runs[r].psp], posted>>]
     IN  runs' = [runs EXCEPT ![r] =
               [@ EXCEPT !.pc = AfterRows(rows, 0, 0), !.rows = rows]]
  /\ UNCHANGED <<night, posted, tables>>

\* CHECKPOINT 4.  Only this run inserts rows with its id, one after the other,
\* so the rows in the table tell where the loop is.
StoreMatch(r) ==
  LET stored == Len(reconciliation_matches[r]) + 1
      rows == runs[r].rows
  IN  /\ At(r, "store")
      /\ reconciliation_matches' =
           [reconciliation_matches EXCEPT ![r] = Append(@, rows[stored])]
      /\ Continue(r, AfterRows(rows, stored, 0))
      /\ UNCHANGED <<night, posted, reconciliation_runs, reconciliation_exceptions>>

\* CHECKPOINT 5
StoreException(r) ==
  LET raised == Len(reconciliation_exceptions[r]) + 1
      rows == runs[r].rows
  IN  /\ At(r, "except")
      /\ reconciliation_exceptions' =
           [reconciliation_exceptions EXCEPT ![r] = Append(@, Open(rows)[raised].delta)]
      /\ Continue(r, AfterRows(rows, Len(rows), raised))
      /\ UNCHANGED <<night, posted, reconciliation_runs, reconciliation_matches>>

\* CHECKPOINT 6
Finalize(r) ==
  /\ At(r, "finalize")
  /\ reconciliation_runs' = [reconciliation_runs EXCEPT ![r] =
       [completed |-> TRUE, stats |-> Stats(runs[r].rows)]]
  /\ Continue(r, "ended")
  /\ UNCHANGED <<night, posted, reconciliation_matches, reconciliation_exceptions>>

\* What a run awaits raises, and had no effect.
Raises(r) ==
  /\ Faults
  /\ runs[r].pc \in Working \ {"catch"}
  /\ Goto(r, "catch")
  /\ UNCHANGED <<night, posted, tables>>

\* The catch block: completed_at is all that marks a run as failed.
CatchWithRow(r) ==
  /\ At(r, "catch") /\ r \in DOMAIN reconciliation_runs
  /\ reconciliation_runs' = [reconciliation_runs EXCEPT ![r].completed = TRUE]
  /\ Goto(r, "ended")
  /\ UNCHANGED <<night, posted, reconciliation_matches, reconciliation_exceptions>>

Catch(r) ==
  /\ At(r, "catch")
  /\ reconciliation_runs' =
       IF r \in DOMAIN reconciliation_runs
         THEN [reconciliation_runs EXCEPT ![r].completed = TRUE] ELSE reconciliation_runs
  /\ Goto(r, "ended")
  /\ UNCHANGED <<night, posted, reconciliation_matches, reconciliation_exceptions>>

\* The worker is gone, or the statement of the catch block raises.
Die(r) ==
  /\ Faults
  /\ runs[r].pc \in Working
  /\ Goto(r, "died")
  /\ UNCHANGED <<night, posted, tables>>

\* Around the runs: the statement gets another deposit.
BankPosts ==
  /\ posted < Len(Deposits)
  /\ posted' = posted + 1
  /\ UNCHANGED <<night, tables, runs>>

-----------------------------------------------------------------------------
JobStart ==
  /\ posted = 0
  /\ reconciliation_runs = <<>>
  /\ reconciliation_matches = [r \in Runs |-> <<>>]
  /\ reconciliation_exceptions = [r \in Runs |-> <<>>]
  /\ runs = [r \in Runs |-> [pc |-> "idle", ledger |-> <<>>, psp |-> <<>>, rows |-> <<>>]]

JobInit == night \in Nights /\ JobStart

Proceed(r) ==
  \/ InsertRun(r) \/ FetchLedger(r) \/ FetchPSP(r) \/ FetchBank(r)
  \/ StoreMatch(r) \/ StoreException(r) \/ Finalize(r) \/ Catch(r)

JobNext ==
  \/ \E r \in Runs : Trigger(r) \/ Proceed(r) \/ Raises(r) \/ Die(r)
  \/ BankPosts

\* A statement returns or raises as long as the worker lives; nobody has to
\* trigger a run.
JobFairness == \A r \in Runs : WF_job_vars(Proceed(r))

JobSpec == JobInit /\ [][JobNext]_job_vars /\ JobFairness

-----------------------------------------------------------------------------
(* Properties.                                                             *)

\* What readers of the tables rely on: no statement of a run is lost for the
\* later ones.  Exceptions are those of rows that are stored, in their order,
\* and a run has a rate only when its rows and exceptions are all there and
\* are what its numbers count.
ReportsAreComplete ==
  \A r \in DOMAIN reconciliation_runs :
    LET stored == reconciliation_matches[r]
        open == Open(stored)
        stats == reconciliation_runs[r].stats
        With(status) == Cardinality(OfStatus(stored, status))
    IN  /\ IsPrefix(reconciliation_exceptions[r], [i \in DOMAIN open |-> open[i].delta])
        /\ stats.rated =>
             /\ stats.exact = With("exact_match") /\ stats.fuzzy = With("fuzzy_match")
             /\ stats.auto_resolved = With("auto_resolved")
             /\ stats.unmatched = With("unmatched")
             /\ stats.exact + stats.fuzzy + stats.many_to_one = Len(stored)
             /\ Len(reconciliation_exceptions[r]) = Len(open)

\* A run with a rate accounts for what it fetched: each ledger entry is in one
\* row, an id of a processor is paired with one entry and then not called
\* missing, each id is somewhere, and no deposit is matched twice.
FetchedAccountedFor ==
  \A r \in DOMAIN reconciliation_runs : reconciliation_runs[r].stats.rated =>
    LET stored == reconciliation_matches[r]
        OfLedger(id) == {i \in DOMAIN stored : stored[i].ledger = id}
        OfPsp(id) == {i \in DOMAIN stored : stored[i].psp = id /\ stored[i].bank = "none"}
    IN  /\ \A l \in Range(runs[r].ledger) : \E i \in DOMAIN stored : OfLedger(l.id) = {i}
        /\ \A p \in Range(runs[r].psp) :
             \/ \E i \in DOMAIN stored : OfPsp(p.id) = {i}
             \/ OfPsp(p.id) # {} /\ \A i \in OfPsp(p.id) : stored[i].ledger = "none"
        /\ \A i, j \in DOMAIN stored :
             i # j /\ stored[i].bank # "none" => stored[i].bank # stored[j].bank

\* A run that was triggered comes to an end.
JobRunsEnd == \A r \in Runs : runs[r].pc # "idle" ~> runs[r].pc \in Over
=============================================================================
