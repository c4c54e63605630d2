------------------------- MODULE ReconciliationEngine -------------------------
(***************************************************************************)
(* reconciliation_engine.py: run_reconciliation of one night.  The records *)
(* of the ledger, the payment processors and the bank are paired greedily, *)
(* in the order of the lists; one step is one iteration of a loop.  Ledger *)
(* and bank records are known by their positions, as their ids are unique; *)
(* a processor may report the same id more than once.                      *)
(***************************************************************************)
EXTENDS Money, Sequences, FiniteSets, Folds, FiniteSetsExt

CONSTANTS
  LedgerLists, PspLists, BankLists  \* what a run may be given

VARIABLES
  ledger_records, psp_records, bank_records,  \* the inputs of the run
  matched_ledger, matched_psp, matched_bank,  \* what is matched so far
  matches, exception_list, counts,            \* the run's report
  phase, todo, pool                           \* loop, positions left, list searched

input_vars == <<ledger_records, psp_records, bank_records>>
matched_vars == <<matched_ledger, matched_psp, matched_bank>>
report_vars == <<matches, exception_list, counts>>
engine_vars == <<input_vars, matched_vars, report_vars, phase, todo, pool>>

LedgerRecord == [amount : Nat, day : Int, psp_name : STRING]
PSPRecord == [id : STRING, amount : Nat, fee : Nat, net_amount : Int, day : Int, psp_name : STRING]
BankRecord == [amount : Nat, day : Int]

ASSUME EngineAssumption ==
  /\ LedgerLists \subseteq Seq(LedgerRecord)
  /\ PspLists \subseteq Seq(PSPRecord)
  /\ BankLists \subseteq Seq(BankRecord)

MatchStatus == {"exact_match", "fuzzy_match", "many_to_one", "auto_resolved", "exception"}

Cents(x) == (x + 5) \div 10
NextDay(d, e) == Distance(d, e) <= 1

\* The loops take the first element of a list that fits.
First(S) == CHOOSE i \in S : \A j \in S : i <= j

-----------------------------------------------------------------------------
(* Which records fit.                                                      *)

\* _exact_match, whose document promises the id and the date as well.
ExactMatch(ledger, psp) ==
  /\ ledger.psp_name = psp.psp_name
  /\ Cents(ledger.amount) = Cents(psp.amount)

FuzzyMatch(ledger, psp) ==
  /\ Distance(ledger.amount, psp.net_amount) < Dollars(5)
  /\ NextDay(ledger.day, psp.day)
  /\ ledger.psp_name = psp.psp_name

BankMatch(psp, bank) ==
  /\ Cents(bank.amount) = Cents(psp.net_amount)
  /\ NextDay(bank.day, psp.day)

PspId(j) == psp_records[j].id
FreePsps == {j \in DOMAIN psp_records : PspId(j) \notin matched_psp}

FirstOnly(i) ==
  LET fit == {j \in DOMAIN psp_records : ExactMatch(ledger_records[i], psp_records[j])}
  IN  {j \in fit : j = First(fit) /\ PspId(j) \notin matched_psp}

Unchecked(i) ==
  {j \in DOMAIN psp_records : ExactMatch(ledger_records[i], psp_records[j])}

ExactPartners(i) == {j \in FreePsps : ExactMatch(ledger_records[i], psp_records[j])}

FuzzyPartners(i) == {j \in pool \cap FreePsps : FuzzyMatch(ledger_records[i], psp_records[j])}

BankPartners(j) ==
  {b \in DOMAIN bank_records \ matched_bank : BankMatch(psp_records[j], bank_records[b])}

\* _find_netting_group: all records around the day, or none.
NettingGroup(b) ==
  LET candidates == {j \in pool : NextDay(psp_records[j].day, bank_records[b].day)}
      total == MapThenSumSet(LAMBDA j : psp_records[j].net_amount, candidates)
  IN  IF Cents(total) = Cents(bank_records[b].amount) THEN candidates ELSE {}

\* AUTO_RESOLUTION_PATTERNS; an unknown break has no pattern.
MaxDelta ==
  [timing |-> 0, fee_deduction |-> Dollars(5), fx_rounding |-> 50]

\* _identify_break_type of a match that pairs a ledger with a processor record.
BreakType(match) ==
  LET psp == psp_records[match.psp]
      isFee == match.delta <= Dollars(5) /\ Cents(Distance(match.delta, psp.fee)) = 0
  IN  IF match.bank = 0 THEN "timing"
      ELSE IF isFee THEN "fee_deduction"
      ELSE IF match.delta < 50 THEN "fx_rounding" ELSE "unknown"

CanAutoResolve(break, delta) ==
  break \in DOMAIN MaxDelta /\ delta <= Dollars(5) /\ delta <= MaxDelta[break]

Priority(delta) ==
  IF delta > Dollars(100) THEN "critical" ELSE IF delta > Dollars(5) THEN "high" ELSE "medium"

-----------------------------------------------------------------------------
(* The report.                                                             *)

\* Position 0 is none.  netted: the records the notes of the match count.
Pair(status, i, j, b, delta) ==
  [status |-> status, ledger |-> i, psp |-> j, bank |-> b, delta |-> delta, netted |-> {}]

Netting(b, group) ==
  [status |-> "many_to_one", ledger |-> 0, psp |-> 0, bank |-> b, delta |-> 0, netted |-> group]

Report(match, counter) ==
  /\ matches' = Append(matches, match)
  /\ counts' = [counts EXCEPT ![counter] = counts[counter] + 1]

StatusOnly(k, status) ==
  /\ matches' = [matches EXCEPT ![k].status = status]
  /\ counts' = [counts EXCEPT ![status] = counts[status] + 1]

\* A fuzzy match is counted under its new status and no more under its old.
Restate(k, status) ==
  /\ matches' = [matches EXCEPT ![k].status = status]
  /\ counts' = [counts EXCEPT ![status] = counts[status] + 1,
                              !["fuzzy_match"] = counts["fuzzy_match"] - 1]

Unresolved(k) == matches[k].status = "fuzzy_match" /\ matches[k].delta > 0

Taken == todo' = todo \ {First(todo)}
InLoop(name) == phase = name /\ todo # {}
Advance(name, next) == phase = name /\ todo = {} /\ phase' = next

-----------------------------------------------------------------------------
(* The phases.                                                             *)

ReportExactly(i, j) ==
  LET b == IF BankPartners(j) = {} THEN 0 ELSE First(BankPartners(j))
  IN  /\ Report(Pair("exact_match", i, j, b, 0), "exact_match")
      /\ matched_ledger' = matched_ledger \cup {i}
      /\ matched_psp' = matched_psp \cup {PspId(j)}
      /\ matched_bank' = IF b = 0 THEN matched_bank ELSE matched_bank \cup {b}

MatchExactly ==
  LET i == First(todo)
  IN  /\ InLoop("exact") /\ Taken
      /\ IF ExactPartners(i) = {} THEN UNCHANGED <<matched_vars, matches, counts>>
                                  ELSE ReportExactly(i, First(ExactPartners(i)))
      /\ UNCHANGED <<input_vars, exception_list, phase, pool>>

StartFuzzy ==
  /\ Advance("exact", "fuzzy")
  /\ todo' = DOMAIN ledger_records \ matched_ledger
  /\ pool' = FreePsps
  /\ UNCHANGED <<input_vars, matched_vars, report_vars>>

ReportFuzzily(i, j) ==
  LET delta == 10 * Cents(Distance(ledger_records[i].amount, psp_records[j].net_amount))
  IN  /\ Report(Pair("fuzzy_match", i, j, 0, delta), "fuzzy_match")
      /\ matched_ledger' = matched_ledger \cup {i}
      /\ matched_psp' = matched_psp \cup {PspId(j)}
      /\ UNCHANGED matched_bank

MatchFuzzily ==
  LET i == First(todo)
  IN  /\ InLoop("fuzzy") /\ Taken
      /\ IF FuzzyPartners(i) = {} THEN UNCHANGED <<matched_vars, matches, counts>>
                                  ELSE ReportFuzzily(i, First(FuzzyPartners(i)))
      /\ UNCHANGED <<input_vars, exception_list, phase, pool>>

\* remaining_psp is computed here, once.
StartNetting ==
  /\ Advance("fuzzy", "netting")
  /\ todo' = DOMAIN bank_records \ matched_bank
  /\ pool' = FreePsps
  /\ UNCHANGED <<input_vars, matched_vars, report_vars>>

NetToBank ==
  LET b == First(todo)
      group == NettingGroup(b)
  IN  /\ InLoop("netting") /\ Taken
      /\ IF group = {} THEN UNCHANGED <<matched_vars, matches, counts>>
         ELSE /\ Report(Netting(b, group), "many_to_one")
              /\ matched_bank' = matched_bank \cup {b}
              /\ matched_psp' = matched_psp \cup {PspId(j) : j \in group}
              /\ UNCHANGED matched_ledger
      /\ UNCHANGED <<input_vars, exception_list, phase, pool>>

StartResolving ==
  /\ Advance("netting", "resolve")
  /\ todo' = DOMAIN matches
  /\ UNCHANGED <<input_vars, matched_vars, report_vars, pool>>

AutoResolve ==
  LET k == First(todo)
  IN  /\ InLoop("resolve") /\ Taken
      /\ IF Unresolved(k) /\ CanAutoResolve(BreakType(matches[k]), matches[k].delta)
           THEN Restate(k, "auto_resolved") ELSE UNCHANGED <<matches, counts>>
      /\ UNCHANGED <<input_vars, matched_vars, exception_list, phase, pool>>

StartExceptions ==
  /\ Advance("resolve", "except")
  /\ todo' = DOMAIN matches
  /\ UNCHANGED <<input_vars, matched_vars, report_vars, pool>>

CreateException ==
  LET k == First(todo)
  IN  /\ InLoop("except") /\ Taken
      /\ IF Unresolved(k)
           THEN /\ exception_list' = Append(exception_list,
                     [match |-> k, priority |-> Priority(matches[k].delta)])
                /\ Restate(k, "exception")
           ELSE UNCHANGED report_vars
      /\ UNCHANGED <<input_vars, matched_vars, phase, pool>>

Finish ==
  /\ Advance("except", "done")
  /\ counts' = [counts EXCEPT !["unmatched"] =
       Cardinality(DOMAIN ledger_records \ matched_ledger) + Cardinality(FreePsps)]
  /\ UNCHANGED <<input_vars, matched_vars, matches, exception_list, todo, pool>>

EngineStart ==
  /\ matched_ledger = {} /\ matched_psp = {} /\ matched_bank = {}
  /\ matches = <<>> /\ exception_list = <<>>
  /\ counts = [s \in MatchStatus \cup {"unmatched"} |-> 0]
  /\ phase = "exact" /\ todo = DOMAIN ledger_records /\ pool = {}

EngineInit ==
  /\ ledger_records \in LedgerLists
  /\ psp_records \in PspLists
  /\ bank_records \in BankLists
  /\ EngineStart

EngineNext ==
  \/ MatchExactly \/ StartFuzzy \/ MatchFuzzily \/ StartNetting \/ NetToBank
  \/ StartResolving \/ AutoResolve \/ StartExceptions \/ CreateException \/ Finish

EngineSpec == EngineInit /\ [][EngineNext]_engine_vars
-----------------------------------------------------------------------------
(* Properties.                                                             *)

PairedId(k) == {PspId(j) : j \in {matches[k].psp} \ {0}}
NettedIds(k) == {PspId(j) : j \in matches[k].netted}

\* Over all three phases nothing is paired twice: no ledger record, bank
\* record or processor id occurs in two matches, except that one processor
\* record may be netted to two bank records (remaining_psp is not refreshed).
PairedOnce ==
  \A k, l \in DOMAIN matches : k # l =>
    /\ matches[k].ledger # 0 => matches[k].ledger # matches[l].ledger
    /\ matches[k].bank # 0 => matches[k].bank # matches[l].bank
    /\ PairedId(k) \cap (PairedId(l) \cup NettedIds(l)) = {}

WithStatus(s) == {k \in DOMAIN matches : matches[k].status = s}

\* What the report calls unmatched is what no match names.
Unnamed ==
  Cardinality({i \in DOMAIN ledger_records : \A k \in DOMAIN matches : matches[k].ledger # i})
  + Cardinality({j \in DOMAIN psp_records : \A k \in DOMAIN matches :
                   PspId(j) \notin PairedId(k) \cup NettedIds(k)})

\* The counters are kept by hand while matches change their status: at every
\* moment each is the number of matches of its status, the exceptions are the
\* matches in status exception, and in the end the rest is counted unmatched.
CountsAddUp ==
  /\ \A s \in MatchStatus : counts[s] = Cardinality(WithStatus(s))
  /\ {exception_list[e].match : e \in DOMAIN exception_list} = WithStatus("exception")
  /\ Len(exception_list) = counts["exception"]
  /\ phase = "done" => counts["unmatched"] = Unnamed

\* The ledger records and the processor ids with one processor and amount.
LedgerWith(name, cents) ==
  {i \in DOMAIN ledger_records :
     ledger_records[i].psp_name = name /\ Cents(ledger_records[i].amount) = cents}
IdsWith(name, cents) ==
  {PspId(j) : j \in {j \in DOMAIN psp_records :
     psp_records[j].psp_name = name /\ Cents(psp_records[j].amount) = cents}}

\* Records with one id are repetitions of one record.
Repetitions ==
  \A j, l \in DOMAIN psp_records : PspId(j) = PspId(l) =>
    /\ psp_records[j].psp_name = psp_records[l].psp_name
    /\ Cents(psp_records[j].amount) = Cents(psp_records[l].amount)

\* The pairing is greedy, yet no order of the lists yields more exact matches,
\* when records with one id are repetitions of one record: for each processor
\* and amount there are as many as the scarcer side has records.
ExactIsBest ==
  phase # "exact" /\ Repetitions =>
    \A i \in DOMAIN ledger_records :
      LET name == ledger_records[i].psp_name
          cents == Cents(ledger_records[i].amount)
          available == {Cardinality(LedgerWith(name, cents)), Cardinality(IdsWith(name, cents))}
      IN  Cardinality({k \in WithStatus("exact_match") : matches[k].ledger \in LedgerWith(name, cents)})
            = First(available)
=============================================================================
