---------------------- MODULE ReconciliationEngineProofs ----------------------
(***************************************************************************)
(* Theorems about ReconciliationEngine for any lists of records: nothing   *)
(* is paired twice, the counters are what the matches say, and the first   *)
(* loop makes as many exact matches as there can be.                       *)
(***************************************************************************)
EXTENDS ReconciliationEngine, SeqSumsProofs, FiniteSetTheorems

MatchRecord ==
  [status : MatchStatus, ledger : {0} \cup DOMAIN ledger_records,
   psp : {0} \cup DOMAIN psp_records, bank : Nat, delta : Int,
   netted : SUBSET DOMAIN psp_records]

ExceptionRecord == [match : Nat, priority : {"critical", "high", "medium"}]

TypeInv ==
  /\ ledger_records \in Seq(LedgerRecord)
  /\ psp_records \in Seq(PSPRecord)
  /\ bank_records \in Seq(BankRecord)
  /\ matches \in Seq(MatchRecord)
  /\ exception_list \in Seq(ExceptionRecord)
  /\ counts \in [MatchStatus \cup {"unmatched"} -> Int]
  /\ todo \in SUBSET Nat
  /\ pool \in SUBSET DOMAIN psp_records

\* The ids a match pairs, and those it nets.
Paired(match) == {PspId(j) : j \in {match.psp} \ {0}}
Nets(match) == {PspId(j) : j \in match.netted}

\* The sets of matched records hold what the matches name.
Named ==
  /\ \A i \in DOMAIN ledger_records :
       i \in matched_ledger <=> \E k \in DOMAIN matches : matches[k].ledger = i
  /\ \A k \in DOMAIN matches : matches[k].bank # 0 => matches[k].bank \in matched_bank
  /\ \A j \in DOMAIN psp_records :
       PspId(j) \in matched_psp
         <=> \E k \in DOMAIN matches : PspId(j) \in PairedId(k) \cup NettedIds(k)

\* A loop only goes over what is not matched yet, and the pool of the third
\* phase, however stale, has nothing that was paired.
Ahead ==
  /\ phase \in {"exact", "fuzzy"} => todo \subseteq DOMAIN ledger_records \ matched_ledger
  /\ phase = "netting" =>
       /\ todo \subseteq DOMAIN bank_records \ matched_bank
       /\ \A j \in pool, k \in DOMAIN matches : PspId(j) \notin PairedId(k)
  /\ phase \in {"resolve", "except"} => todo \subseteq DOMAIN matches

\* CountsAddUp but for the records that are left in the end.
Counted ==
  /\ \A s \in MatchStatus : counts[s] = Cardinality(WithStatus(s))
  /\ {exception_list[e].match : e \in DOMAIN exception_list} = WithStatus("exception")
  /\ Len(exception_list) = counts["exception"]

Rest == phase = "done" => counts["unmatched"] = Unnamed

IInv == TypeInv /\ PairedOnce /\ Named /\ Ahead /\ Counted /\ Rest

-----------------------------------------------------------------------------
(* The loops.                                                              *)

\* What a loop takes is one of what it goes over.
LEMMA FirstIsIn ==
  ASSUME NEW X \in SUBSET Nat, X # {}
  PROVE  First(X) \in X
  BY LeastElement DEF First

LEMMA CentsType == \A x \in Int : Cents(x) \in Int
  BY DEF Cents

\* What fits is a position, and the first of it is taken.
LEMMA PartnersAreFree ==
  ASSUME TypeInv, NEW i
  PROVE  /\ ExactPartners(i) # {} => First(ExactPartners(i)) \in FreePsps
         /\ FuzzyPartners(i) # {} => First(FuzzyPartners(i)) \in FreePsps
<1>1. FreePsps \in SUBSET Nat
  BY DEF FreePsps, TypeInv
<1>2. ExactPartners(i) \subseteq FreePsps /\ FuzzyPartners(i) \subseteq FreePsps
  BY DEF ExactPartners, FuzzyPartners
<1>3. ExactPartners(i) \in SUBSET Nat /\ FuzzyPartners(i) \in SUBSET Nat
  BY <1>1, <1>2
<1> QED
  BY <1>2, <1>3, FirstIsIn

LEMMA BankPartnersAreFree ==
  ASSUME TypeInv, NEW j, BankPartners(j) # {}
  PROVE  First(BankPartners(j)) \in (Nat \ {0}) \ matched_bank
<1>1. BankPartners(j) \subseteq DOMAIN bank_records \ matched_bank
  BY DEF BankPartners
<1>2. DOMAIN bank_records \subseteq Nat \ {0}
  BY DEF TypeInv
<1>3. BankPartners(j) \in SUBSET Nat
  BY <1>1, <1>2
<1>4. First(BankPartners(j)) \in BankPartners(j)
  BY <1>3, FirstIsIn
<1> QED
  BY <1>1, <1>2, <1>4

-----------------------------------------------------------------------------
(* A report of a match.                                                    *)

\* The matches with one more at the end.
LEMMA Appended ==
  ASSUME TypeInv, NEW m \in MatchRecord, matches' = Append(matches, m)
  PROVE  LET n == Len(matches) + 1
         IN  /\ n \notin DOMAIN matches
             /\ DOMAIN matches' = DOMAIN matches \cup {n}
             /\ matches'[n] = m
             /\ \A k \in DOMAIN matches : matches'[k] = matches[k]
             /\ matches' \in Seq(MatchRecord)
  BY DEF TypeInv

\* A match of records that no match names yet is one more of which the sets of
\* matched records know, and nothing is paired twice.
LEMMA ReportPairsOnce ==
  ASSUME TypeInv, PairedOnce, Named, UNCHANGED input_vars,
         NEW m \in MatchRecord, matches' = Append(matches, m),
         matched_ledger' = matched_ledger \cup ({m.ledger} \ {0}),
         matched_bank' = matched_bank \cup ({m.bank} \ {0}),
         matched_psp' = matched_psp \cup {PspId(j) : j \in ({m.psp} \ {0}) \cup m.netted},
         m.ledger # 0 => m.ledger \notin matched_ledger,
         m.bank # 0 => m.bank \notin matched_bank,
         m.psp # 0 => PspId(m.psp) \notin matched_psp,
         \A j \in m.netted, k \in DOMAIN matches : PspId(j) \notin PairedId(k)
  PROVE  PairedOnce' /\ Named'
<1> DEFINE n == Len(matches) + 1
<1>1. /\ n \notin DOMAIN matches
      /\ DOMAIN matches' = DOMAIN matches \cup {n}
      /\ matches'[n] = m
      /\ \A k \in DOMAIN matches : matches'[k] = matches[k]
  BY Appended
<1> HIDE DEF n
<1>2. psp_records' = psp_records /\ ledger_records' = ledger_records
  BY DEF input_vars
<1>3. /\ \A k : PairedId(k) = Paired(matches[k]) /\ NettedIds(k) = Nets(matches[k])
      /\ Nets(m) \cup Paired(m) = {PspId(j) : j \in ({m.psp} \ {0}) \cup m.netted}
  BY DEF PairedId, NettedIds, Paired, Nets
<1>4. \A k \in DOMAIN matches : matches[k] \in MatchRecord
  BY DEF TypeInv
<1>5. \A k \in DOMAIN matches : matches[k].ledger # 0 => matches[k].ledger \in matched_ledger
  BY <1>4 DEF Named, MatchRecord
<1>6. \A k \in DOMAIN matches : Paired(matches[k]) \cup Nets(matches[k]) \subseteq matched_psp
  BY <1>3, <1>4 DEF Named, MatchRecord, Paired, Nets
<1>7. PairedOnce'
  <2> SUFFICES ASSUME NEW k \in DOMAIN matches', NEW l \in DOMAIN matches', k # l
               PROVE  /\ matches'[k].ledger # 0 => matches'[k].ledger # matches'[l].ledger
                      /\ matches'[k].bank # 0 => matches'[k].bank # matches'[l].bank
                      /\ Paired(matches'[k]) \cap (Paired(matches'[l]) \cup Nets(matches'[l])) = {}
    BY <1>2 DEF PairedOnce, PairedId, NettedIds, Paired, Nets, PspId
  <2>1. CASE k \in DOMAIN matches /\ l \in DOMAIN matches
    BY <1>1, <1>3, <2>1 DEF PairedOnce
  <2>2. CASE k = n /\ l \in DOMAIN matches
    <3>1. Paired(m) \cap matched_psp = {}
      BY DEF Paired
    <3> QED
      BY <1>1, <1>5, <1>6, <2>2, <3>1 DEF Named
  <2>3. CASE k \in DOMAIN matches /\ l = n
    <3>1. Paired(matches[k]) \cap (Paired(m) \cup Nets(m)) = {}
      BY <1>3, <1>6, <2>3 DEF Paired, Nets
    <3> QED
      BY <1>1, <1>5, <2>3, <3>1 DEF Named
  <2> QED
    BY <1>1, <2>1, <2>2, <2>3
<1>8. Named'
  <2> SUFFICES
        /\ \A i \in DOMAIN ledger_records :
             i \in matched_ledger' <=> \E k \in DOMAIN matches' : matches'[k].ledger = i
        /\ \A k \in DOMAIN matches' : matches'[k].bank # 0 => matches'[k].bank \in matched_bank'
        /\ \A j \in DOMAIN psp_records :
             PspId(j) \in matched_psp'
               <=> \E k \in DOMAIN matches' : PspId(j) \in Paired(matches'[k]) \cup Nets(matches'[k])
    BY <1>2 DEF Named, PairedId, NettedIds, Paired, Nets, PspId
  <2>1. ASSUME NEW i \in DOMAIN ledger_records
        PROVE  i \in matched_ledger' <=> \E k \in DOMAIN matches' : matches'[k].ledger = i
    <3>1. i # 0
      BY DEF TypeInv
    <3> QED
      BY <1>1, <3>1 DEF Named
  <2>2. \A k \in DOMAIN matches' : matches'[k].bank # 0 => matches'[k].bank \in matched_bank'
    BY <1>1 DEF Named
  <2>3. ASSUME NEW j \in DOMAIN psp_records
        PROVE  PspId(j) \in matched_psp'
                 <=> \E k \in DOMAIN matches' : PspId(j) \in Paired(matches'[k]) \cup Nets(matches'[k])
    <3>1. PspId(j) \in matched_psp' <=> PspId(j) \in matched_psp \cup Paired(m) \cup Nets(m)
      BY <1>3
    <3>2. PspId(j) \in matched_psp
            <=> \E k \in DOMAIN matches : PspId(j) \in Paired(matches[k]) \cup Nets(matches[k])
      BY <1>3 DEF Named
    <3> QED
      BY <1>1, <3>1, <3>2
  <2> QED
    BY <2>1, <2>2, <2>3
<1> QED
  BY <1>7, <1>8

\* The matches of a status are finitely many.
LEMMA StatusesAreFinite ==
  ASSUME TypeInv, NEW s
  PROVE  IsFiniteSet(WithStatus(s)) /\ WithStatus(s) \subseteq DOMAIN matches
<1>1. IsFiniteSet(1 .. Len(matches)) /\ DOMAIN matches = 1 .. Len(matches)
  BY FS_Interval DEF TypeInv
<1>2. WithStatus(s) \subseteq DOMAIN matches
  BY DEF WithStatus
<1> QED
  BY <1>1, <1>2, FS_Subset

\* A report counts what it reports.
LEMMA ReportCounts ==
  ASSUME TypeInv, Counted, NEW m \in MatchRecord, UNCHANGED exception_list,
         m.status \in MatchStatus \ {"exception"}, Report(m, m.status)
  PROVE  Counted' /\ counts' \in [MatchStatus \cup {"unmatched"} -> Int]
<1> DEFINE n == Len(matches) + 1
<1>1. matches' = Append(matches, m)
  BY DEF Report
<1>2. /\ n \notin DOMAIN matches
      /\ DOMAIN matches' = DOMAIN matches \cup {n}
      /\ matches'[n] = m
      /\ \A k \in DOMAIN matches : matches'[k] = matches[k]
  BY <1>1, Appended
<1> HIDE DEF n
<1>3. /\ counts' \in [MatchStatus \cup {"unmatched"} -> Int]
      /\ counts'[m.status] = counts[m.status] + 1
      /\ \A s \in MatchStatus \ {m.status} : counts'[s] = counts[s]
  BY DEF Report, TypeInv
<1>4. \A s : WithStatus(s)' = IF s = m.status THEN WithStatus(s) \cup {n} ELSE WithStatus(s)
  BY <1>2 DEF WithStatus
<1>5. ASSUME NEW s \in MatchStatus PROVE counts'[s] = Cardinality(WithStatus(s)')
  <2>1. IsFiniteSet(WithStatus(s)) /\ n \notin WithStatus(s)
    BY <1>2, StatusesAreFinite
  <2>2. Cardinality(WithStatus(s) \cup {n}) = Cardinality(WithStatus(s)) + 1
    BY <2>1, FS_AddElement
  <2> QED
    BY <1>3, <1>4, <2>2 DEF Counted
<1>6. WithStatus("exception")' = WithStatus("exception")
  BY <1>4
<1>7. "exception" \in MatchStatus \ {m.status}
  BY DEF MatchStatus
<1> QED
  BY <1>3, <1>5, <1>6, <1>7 DEF Counted

-----------------------------------------------------------------------------
(* A change of a match's status.                                           *)

\* A match under another status names the same records.
LEMMA Restated ==
  ASSUME TypeInv, NEW k \in DOMAIN matches, NEW status \in MatchStatus,
         matches' = [matches EXCEPT ![k].status = status]
  PROVE  /\ matches' \in Seq(MatchRecord)
         /\ DOMAIN matches' = DOMAIN matches
         /\ matches'[k].status = status
         /\ \A l \in DOMAIN matches \ {k} : matches'[l] = matches[l]
         /\ \A l \in DOMAIN matches :
              /\ matches'[l].ledger = matches[l].ledger /\ matches'[l].psp = matches[l].psp
              /\ matches'[l].bank = matches[l].bank /\ matches'[l].netted = matches[l].netted
<1> DEFINE m == [matches[k] EXCEPT !.status = status]
<1>1. matches[k] \in MatchRecord
  BY DEF TypeInv
<1>2. /\ m \in MatchRecord /\ m.status = status
      /\ m.ledger = matches[k].ledger /\ m.psp = matches[k].psp
      /\ m.bank = matches[k].bank /\ m.netted = matches[k].netted
  BY <1>1 DEF MatchRecord
<1>3. matches' = [matches EXCEPT ![k] = m]
  OBVIOUS
<1> HIDE DEF m
<1>4. matches \in Seq(MatchRecord)
  BY DEF TypeInv
<1> QED
  BY <1>2, <1>3, <1>4

\* What is paired, and what the sets of matched records know, stays as it is.
LEMMA RestatePairsOnce ==
  ASSUME TypeInv, PairedOnce, Named, UNCHANGED <<input_vars, matched_vars>>,
         NEW k \in DOMAIN matches, NEW status \in MatchStatus,
         matches' = [matches EXCEPT ![k].status = status]
  PROVE  PairedOnce' /\ Named'
<1>1. /\ DOMAIN matches' = DOMAIN matches
      /\ \A l \in DOMAIN matches :
           /\ matches'[l].ledger = matches[l].ledger /\ matches'[l].psp = matches[l].psp
           /\ matches'[l].bank = matches[l].bank /\ matches'[l].netted = matches[l].netted
  BY Restated
<1>2. /\ psp_records' = psp_records /\ ledger_records' = ledger_records
      /\ matched_ledger' = matched_ledger /\ matched_psp' = matched_psp
      /\ matched_bank' = matched_bank
  BY DEF input_vars, matched_vars
<1>3. /\ \A l : PairedId(l) = Paired(matches[l]) /\ NettedIds(l) = Nets(matches[l])
      /\ \A l \in DOMAIN matches :
           Paired(matches'[l]) = Paired(matches[l]) /\ Nets(matches'[l]) = Nets(matches[l])
  BY <1>1 DEF PairedId, NettedIds, Paired, Nets
<1>4. PairedOnce'
  <2> SUFFICES ASSUME NEW i \in DOMAIN matches, NEW l \in DOMAIN matches, i # l
               PROVE  /\ matches'[i].ledger # 0 => matches'[i].ledger # matches'[l].ledger
                      /\ matches'[i].bank # 0 => matches'[i].bank # matches'[l].bank
                      /\ Paired(matches'[i]) \cap (Paired(matches'[l]) \cup Nets(matches'[l])) = {}
    BY <1>1, <1>2 DEF PairedOnce, PairedId, NettedIds, Paired, Nets, PspId
  <2> QED
    BY <1>1, <1>3 DEF PairedOnce
<1>5. Named'
  <2> SUFFICES
        /\ \A i \in DOMAIN ledger_records :
             i \in matched_ledger <=> \E l \in DOMAIN matches : matches'[l].ledger = i
        /\ \A l \in DOMAIN matches : matches'[l].bank # 0 => matches'[l].bank \in matched_bank
        /\ \A j \in DOMAIN psp_records :
             PspId(j) \in matched_psp
               <=> \E l \in DOMAIN matches : PspId(j) \in Paired(matches'[l]) \cup Nets(matches'[l])
    BY <1>1, <1>2 DEF Named, PairedId, NettedIds, Paired, Nets, PspId
  <2> QED
    BY <1>1, <1>3 DEF Named
<1> QED
  BY <1>4, <1>5

\* The counters follow the match from its old status to its new.
LEMMA RestateCounts ==
  ASSUME TypeInv, Counted, NEW k \in WithStatus("fuzzy_match"),
         NEW status \in {"auto_resolved", "exception"}, Restate(k, status)
  PROVE  /\ counts' \in [MatchStatus \cup {"unmatched"} -> Int]
         /\ \A s \in MatchStatus : counts'[s] = Cardinality(WithStatus(s)')
         /\ \A s : WithStatus(s)' = CASE s = status -> WithStatus(s) \cup {k}
                                      [] s = "fuzzy_match" -> WithStatus(s) \ {k}
                                      [] OTHER -> WithStatus(s)
         /\ counts'[status] = counts[status] + 1
         /\ \A s \in MatchStatus \ {status, "fuzzy_match"} : counts'[s] = counts[s]
<1>1. k \in DOMAIN matches /\ matches[k].status = "fuzzy_match" /\ status \in MatchStatus
  BY DEF WithStatus, MatchStatus
<1>2. /\ DOMAIN matches' = DOMAIN matches
      /\ matches'[k].status = status
      /\ \A l \in DOMAIN matches \ {k} : matches'[l] = matches[l]
  BY <1>1, Restated DEF Restate
<1>3. /\ counts' \in [MatchStatus \cup {"unmatched"} -> Int]
      /\ counts'[status] = counts[status] + 1
      /\ counts'["fuzzy_match"] = counts["fuzzy_match"] - 1
      /\ \A s \in MatchStatus \ {status, "fuzzy_match"} : counts'[s] = counts[s]
  <2>1. counts \in [MatchStatus \cup {"unmatched"} -> Int]
    BY DEF TypeInv
  <2>2. status # "fuzzy_match" /\ status \in MatchStatus /\ "fuzzy_match" \in MatchStatus
    BY DEF MatchStatus
  <2>3. \A s \in DOMAIN counts : counts[s] + 1 \in Int /\ counts[s] - 1 \in Int
    BY <2>1
  <2>4. counts' = [counts EXCEPT ![status] = counts[status] + 1,
                                 !["fuzzy_match"] = counts["fuzzy_match"] - 1]
    BY DEF Restate
  <2> QED
    BY <2>1, <2>2, <2>3, <2>4
<1>4. \A s : WithStatus(s)' = CASE s = status -> WithStatus(s) \cup {k}
                                [] s = "fuzzy_match" -> WithStatus(s) \ {k}
                                [] OTHER -> WithStatus(s)
  BY <1>1, <1>2 DEF WithStatus
<1>5. ASSUME NEW s \in MatchStatus PROVE counts'[s] = Cardinality(WithStatus(s)')
  <2>1. IsFiniteSet(WithStatus(s)) /\ counts[s] = Cardinality(WithStatus(s))
    BY StatusesAreFinite DEF Counted
  <2>2. CASE s = status
    <3>1. k \notin WithStatus(s)
      BY <1>1, <2>2 DEF WithStatus
    <3>2. Cardinality(WithStatus(s) \cup {k}) = Cardinality(WithStatus(s)) + 1
      BY <2>1, <3>1, FS_AddElement
    <3> QED
      BY <1>3, <1>4, <2>1, <2>2, <3>2
  <2>3. CASE s = "fuzzy_match"
    <3>1. Cardinality(WithStatus(s) \ {k}) = Cardinality(WithStatus(s)) - 1
      BY <2>1, <2>3, FS_RemoveElement
    <3> QED
      BY <1>3, <1>4, <2>1, <2>3, <3>1
  <2> QED
    BY <1>3, <1>4, <2>1, <2>2, <2>3
<1> QED
  BY <1>3, <1>4, <1>5

-----------------------------------------------------------------------------
(* The invariant.                                                          *)

LEMMA InvariantStarts == EngineInit => IInv
<1> SUFFICES ASSUME EngineInit PROVE IInv
  OBVIOUS
<1> USE DEF EngineInit, EngineStart
<1>1. TypeInv
  <2>1. /\ ledger_records \in Seq(LedgerRecord) /\ psp_records \in Seq(PSPRecord)
        /\ bank_records \in Seq(BankRecord)
    BY EngineAssumption
  <2>2. DOMAIN ledger_records \in SUBSET Nat
    BY <2>1
  <2> QED
    BY <2>1, <2>2 DEF TypeInv
<1>2. DOMAIN matches = {} /\ DOMAIN exception_list = {} /\ Len(exception_list) = 0
  OBVIOUS
<1>3. PairedOnce /\ Named
  BY <1>2 DEF PairedOnce, Named
<1>4. Ahead /\ Rest
  BY DEF Ahead, Rest
<1>5. Counted
  <2>1. \A s : WithStatus(s) = {}
    BY <1>2 DEF WithStatus
  <2>2. {exception_list[e].match : e \in DOMAIN exception_list} = {}
    BY <1>2
  <2>3. "exception" \in MatchStatus
    BY DEF MatchStatus
  <2> QED
    BY <1>2, <2>1, <2>2, <2>3, FS_EmptySet DEF Counted
<1> QED
  BY <1>1, <1>3, <1>4, <1>5 DEF IInv

\* A loop that reports nothing changes nothing that was said.
LEMMA NothingReported ==
  ASSUME IInv, UNCHANGED <<input_vars, matched_vars, report_vars>>
  PROVE  /\ PairedOnce' /\ Named' /\ Counted'
         /\ todo' \in SUBSET Nat /\ pool' \in SUBSET DOMAIN psp_records => TypeInv'
<1> USE DEF IInv, input_vars, matched_vars, report_vars
<1>1. PairedOnce'
  BY DEF PairedOnce, PairedId, NettedIds, PspId
<1>2. Named'
  BY DEF Named, PairedId, NettedIds, PspId
<1>3. Counted'
  BY DEF Counted, WithStatus
<1>4. MatchRecord' = MatchRecord
  BY DEF MatchRecord
<1> QED
  BY <1>1, <1>2, <1>3, <1>4 DEF TypeInv

\* A loop that reports a match of records no match names.
LEMMA MatchReported ==
  ASSUME IInv, NEW m \in MatchRecord, m.status \in MatchStatus \ {"exception"},
         Report(m, m.status), Taken,
         UNCHANGED <<input_vars, exception_list, phase, pool>>, phase # "done",
         matched_ledger' = matched_ledger \cup ({m.ledger} \ {0}),
         matched_bank' = matched_bank \cup ({m.bank} \ {0}),
         matched_psp' = matched_psp \cup {PspId(j) : j \in ({m.psp} \ {0}) \cup m.netted},
         m.ledger # 0 => m.ledger \notin matched_ledger,
         m.bank # 0 => m.bank \notin matched_bank,
         m.psp # 0 => PspId(m.psp) \notin matched_psp,
         \A j \in m.netted, k \in DOMAIN matches : PspId(j) \notin PairedId(k)
  PROVE  TypeInv' /\ PairedOnce' /\ Named' /\ Counted' /\ Rest'
<1> USE DEF IInv
<1>1. matches' = Append(matches, m)
  BY DEF Report
<1>2. PairedOnce' /\ Named'
  BY <1>1, ReportPairsOnce
<1>3. Counted' /\ counts' \in [MatchStatus \cup {"unmatched"} -> Int]
  BY ReportCounts
<1>4. MatchRecord' = MatchRecord
  BY DEF MatchRecord, input_vars
<1>5. matches' \in Seq(MatchRecord)
  BY <1>1, Appended
<1>6. TypeInv'
  BY <1>3, <1>4, <1>5 DEF TypeInv, Taken, input_vars
<1> QED
  BY <1>2, <1>3, <1>6 DEF Rest

LEMMA MatchExactlyKeeps == IInv /\ MatchExactly => IInv'
<1> SUFFICES ASSUME IInv, MatchExactly PROVE IInv'
  OBVIOUS
<1> DEFINE i == First(todo)
           j == First(ExactPartners(i))
           b == IF BankPartners(j) = {} THEN 0 ELSE First(BankPartners(j))
           m == Pair("exact_match", i, j, b, 0)
<1>1. i \in todo /\ todo \in SUBSET Nat /\ phase = "exact" /\ phase' = phase
  BY FirstIsIn DEF IInv, TypeInv, MatchExactly, InLoop
<1>2. i \in DOMAIN ledger_records \ matched_ledger /\ i # 0
  <2>1. todo \subseteq DOMAIN ledger_records \ matched_ledger
    BY <1>1 DEF IInv, Ahead
  <2>2. 0 \notin DOMAIN ledger_records
    BY DEF IInv, TypeInv
  <2> QED
    BY <1>1, <2>1, <2>2
<1>3. CASE ExactPartners(i) = {}
  <2>1. UNCHANGED <<input_vars, matched_vars, report_vars>> /\ Taken /\ pool' = pool
    BY <1>3 DEF MatchExactly, report_vars
  <2>2. todo' \in SUBSET Nat /\ pool' \in SUBSET DOMAIN psp_records
    BY <1>1, <2>1 DEF Taken, IInv, TypeInv
  <2>3. TypeInv' /\ PairedOnce' /\ Named' /\ Counted'
    BY <2>1, <2>2, NothingReported
  <2>4. Ahead' /\ Rest'
    BY <1>1, <2>1 DEF IInv, Ahead, Rest, Taken, input_vars, matched_vars
  <2> QED
    BY <2>3, <2>4 DEF IInv
<1>4. CASE ExactPartners(i) # {}
  <2>1. ReportExactly(i, j) /\ Taken /\ UNCHANGED <<input_vars, exception_list, phase, pool>>
    BY <1>4 DEF MatchExactly
  <2>2. j \in DOMAIN psp_records /\ PspId(j) \notin matched_psp
    BY <1>4, PartnersAreFree DEF IInv, FreePsps
  <2>3. b \in Nat /\ (b # 0 => b \notin matched_bank)
    BY BankPartnersAreFree DEF IInv
  <2>4. matched_bank' = matched_bank \cup ({b} \ {0})
    BY <2>1 DEF ReportExactly
  <2>5. /\ Report(m, "exact_match")
        /\ matched_ledger' = matched_ledger \cup {i}
        /\ matched_psp' = matched_psp \cup {PspId(j)}
    BY <2>1 DEF ReportExactly
  <2> HIDE DEF i, j, b
  <2>6. /\ m \in MatchRecord /\ m.status = "exact_match"
        /\ m.ledger = i /\ m.psp = j /\ m.bank = b /\ m.netted = {}
    BY <1>2, <2>2, <2>3 DEF Pair, MatchRecord, MatchStatus
  <2> HIDE DEF m
  <2>7. j # 0
    BY <2>2 DEF IInv, TypeInv
  <2>8. /\ matched_ledger' = matched_ledger \cup ({m.ledger} \ {0})
        /\ matched_bank' = matched_bank \cup ({m.bank} \ {0})
        /\ matched_psp' = matched_psp \cup {PspId(l) : l \in ({m.psp} \ {0}) \cup m.netted}
    BY <1>2, <2>4, <2>5, <2>6, <2>7
  <2>9. m.status \in MatchStatus \ {"exception"} /\ Report(m, m.status)
    BY <2>5, <2>6 DEF MatchStatus
  <2>10. TypeInv' /\ PairedOnce' /\ Named' /\ Counted' /\ Rest'
    BY <1>1, <1>2, <2>1, <2>2, <2>3, <2>6, <2>8, <2>9, MatchReported
  <2>11. Ahead'
    BY <1>1, <2>1, <2>5 DEF IInv, Ahead, Taken, input_vars, i
  <2> QED
    BY <2>10, <2>11 DEF IInv
<1> QED
  BY <1>3, <1>4

LEMMA MatchFuzzilyKeeps == IInv /\ MatchFuzzily => IInv'
<1> SUFFICES ASSUME IInv, MatchFuzzily PROVE IInv'
  OBVIOUS
<1> DEFINE i == First(todo)
           j == First(FuzzyPartners(i))
           delta == 10 * Cents(Distance(ledger_records[i].amount, psp_records[j].net_amount))
           m == Pair("fuzzy_match", i, j, 0, delta)
<1>1. i \in todo /\ todo \in SUBSET Nat /\ phase = "fuzzy" /\ phase' = phase
  BY FirstIsIn DEF IInv, TypeInv, MatchFuzzily, InLoop
<1>2. i \in DOMAIN ledger_records \ matched_ledger /\ i # 0
  <2>1. todo \subseteq DOMAIN ledger_records \ matched_ledger
    BY <1>1 DEF IInv, Ahead
  <2>2. 0 \notin DOMAIN ledger_records
    BY DEF IInv, TypeInv
  <2> QED
    BY <1>1, <2>1, <2>2
<1>3. CASE FuzzyPartners(i) = {}
  <2>1. UNCHANGED <<input_vars, matched_vars, report_vars>> /\ Taken /\ pool' = pool
    BY <1>3 DEF MatchFuzzily, report_vars
  <2>2. todo' \in SUBSET Nat /\ pool' \in SUBSET DOMAIN psp_records
    BY <1>1, <2>1 DEF Taken, IInv, TypeInv
  <2>3. TypeInv' /\ PairedOnce' /\ Named' /\ Counted'
    BY <2>1, <2>2, NothingReported
  <2>4. Ahead' /\ Rest'
    BY <1>1, <2>1 DEF IInv, Ahead, Rest, Taken, input_vars, matched_vars
  <2> QED
    BY <2>3, <2>4 DEF IInv
<1>4. CASE FuzzyPartners(i) # {}
  <2>1. ReportFuzzily(i, j) /\ Taken /\ UNCHANGED <<input_vars, exception_list, phase, pool>>
    BY <1>4 DEF MatchFuzzily
  <2>2. j \in DOMAIN psp_records /\ PspId(j) \notin matched_psp
    BY <1>4, PartnersAreFree DEF IInv, FreePsps
  <2>3. delta \in Int
    <3>1. ledger_records[i] \in LedgerRecord /\ psp_records[j] \in PSPRecord
      <4> HIDE DEF i, j
      <4> QED
        BY <1>2, <2>2 DEF IInv, TypeInv
    <3>2. ledger_records[i].amount \in Int /\ psp_records[j].net_amount \in Int
      BY <3>1 DEF LedgerRecord, PSPRecord
    <3> HIDE DEF i, j
    <3> QED
      BY <3>2, CentsType DEF Distance
  <2>4. /\ Report(m, "fuzzy_match")
        /\ matched_ledger' = matched_ledger \cup {i}
        /\ matched_psp' = matched_psp \cup {PspId(j)}
        /\ matched_bank' = matched_bank
    BY <2>1 DEF ReportFuzzily
  <2> HIDE DEF i, j, delta
  <2>5. /\ m \in MatchRecord /\ m.status = "fuzzy_match"
        /\ m.ledger = i /\ m.psp = j /\ m.bank = 0 /\ m.netted = {}
    BY <1>2, <2>2, <2>3 DEF Pair, MatchRecord, MatchStatus
  <2> HIDE DEF m
  <2>6. j # 0
    BY <2>2 DEF IInv, TypeInv
  <2>7. /\ matched_ledger' = matched_ledger \cup ({m.ledger} \ {0})
        /\ matched_bank' = matched_bank \cup ({m.bank} \ {0})
        /\ matched_psp' = matched_psp \cup {PspId(l) : l \in ({m.psp} \ {0}) \cup m.netted}
    BY <1>2, <2>4, <2>5, <2>6
  <2>8. m.status \in MatchStatus \ {"exception"} /\ Report(m, m.status)
    BY <2>4, <2>5 DEF MatchStatus
  <2>9. TypeInv' /\ PairedOnce' /\ Named' /\ Counted' /\ Rest'
    BY <1>1, <1>2, <2>1, <2>2, <2>5, <2>7, <2>8, MatchReported
  <2>10. Ahead'
    BY <1>1, <2>1, <2>4 DEF IInv, Ahead, Taken, input_vars, i
  <2> QED
    BY <2>9, <2>10 DEF IInv
<1> QED
  BY <1>3, <1>4

\* The stale pool of the third phase never had a record that was paired, and
\* netting pairs none.
LEMMA NetToBankKeeps == IInv /\ NetToBank => IInv'
<1> SUFFICES ASSUME IInv, NetToBank PROVE IInv'
  OBVIOUS
<1> DEFINE b == First(todo)
           group == NettingGroup(b)
           m == Netting(b, group)
<1>1. b \in todo /\ todo \in SUBSET Nat /\ phase = "netting" /\ phase' = phase
  BY FirstIsIn DEF IInv, TypeInv, NetToBank, InLoop
<1>2. b \in DOMAIN bank_records \ matched_bank /\ b # 0 /\ b \in Nat
  <2>1. todo \subseteq DOMAIN bank_records \ matched_bank
    BY <1>1 DEF IInv, Ahead
  <2>2. 0 \notin DOMAIN bank_records
    BY DEF IInv, TypeInv
  <2> QED
    BY <1>1, <2>1, <2>2
<1>3. CASE group = {}
  <2>1. UNCHANGED <<input_vars, matched_vars, report_vars>> /\ Taken /\ pool' = pool
    BY <1>3 DEF NetToBank, report_vars
  <2>2. todo' \in SUBSET Nat /\ pool' \in SUBSET DOMAIN psp_records
    BY <1>1, <2>1 DEF Taken, IInv, TypeInv
  <2>3. TypeInv' /\ PairedOnce' /\ Named' /\ Counted'
    BY <2>1, <2>2, NothingReported
  <2>4. Ahead'
    <3>1. todo' \subseteq DOMAIN bank_records' \ matched_bank'
      BY <1>1, <2>1 DEF IInv, Ahead, Taken, input_vars, matched_vars
    <3>2. \A j \in pool, k \in DOMAIN matches : PspId(j) \notin PairedId(k)
      BY <1>1 DEF IInv, Ahead
    <3>3. psp_records' = psp_records /\ matches' = matches /\ pool' = pool
      BY <2>1 DEF input_vars, report_vars
    <3>4. \A j \in pool', k \in DOMAIN matches' : PspId(j)' \notin PairedId(k)'
      BY <3>2, <3>3 DEF PairedId, PspId
    <3> QED
      BY <1>1, <3>1, <3>4 DEF Ahead
  <2>5. Rest'
    BY <1>1 DEF Rest
  <2> QED
    BY <2>3, <2>4, <2>5 DEF IInv
<1>4. CASE group # {}
  <2>1. /\ Report(m, "many_to_one") /\ Taken
        /\ UNCHANGED <<input_vars, exception_list, phase, pool, matched_ledger>>
        /\ matched_bank' = matched_bank \cup {b}
        /\ matched_psp' = matched_psp \cup {PspId(j) : j \in group}
    BY <1>4 DEF NetToBank
  <2>2. group \subseteq pool /\ group \in SUBSET DOMAIN psp_records
    BY DEF NettingGroup, IInv, TypeInv
  <2>3. \A j \in group, k \in DOMAIN matches : PspId(j) \notin PairedId(k)
    BY <1>1, <2>2 DEF IInv, Ahead
  <2> HIDE DEF b, group
  <2>4. /\ m \in MatchRecord /\ m.status = "many_to_one"
        /\ m.ledger = 0 /\ m.psp = 0 /\ m.bank = b /\ m.netted = group
    BY <1>2, <2>2 DEF Netting, MatchRecord, MatchStatus
  <2> HIDE DEF m
  <2>5. /\ matched_ledger' = matched_ledger \cup ({m.ledger} \ {0})
        /\ matched_bank' = matched_bank \cup ({m.bank} \ {0})
        /\ matched_psp' = matched_psp \cup {PspId(l) : l \in ({m.psp} \ {0}) \cup m.netted}
    BY <1>2, <2>1, <2>4
  <2>6. m.status \in MatchStatus \ {"exception"} /\ Report(m, m.status)
    BY <2>1, <2>4 DEF MatchStatus
  <2>7. UNCHANGED <<input_vars, exception_list, phase, pool>>
    BY <2>1
  <2>8. TypeInv' /\ PairedOnce' /\ Named' /\ Counted' /\ Rest'
    BY <1>1, <1>2, <2>1, <2>3, <2>4, <2>5, <2>6, <2>7, MatchReported
  <2>9. Ahead'
    <3>1. todo' \subseteq DOMAIN bank_records' \ matched_bank'
      BY <1>1, <2>1 DEF IInv, Ahead, Taken, input_vars, b
    <3>2. ASSUME NEW j \in pool, NEW k \in DOMAIN matches'
          PROVE  PspId(j) \notin Paired(matches'[k])
      <4>1. /\ \A l \in DOMAIN matches' : l \in DOMAIN matches \/ matches'[l] = m
            /\ \A l \in DOMAIN matches : matches'[l] = matches[l]
        BY <2>1, <2>4, Appended DEF IInv, Report
      <4>2. Paired(m) = {}
        BY <2>4 DEF Paired
      <4>3. \A l : PairedId(l) = Paired(matches[l])
        BY DEF PairedId, Paired
      <4> QED
        BY <1>1, <4>1, <4>2, <4>3 DEF IInv, Ahead
    <3>3. \A j \in pool', k \in DOMAIN matches' : PspId(j)' \notin PairedId(k)'
      BY <2>1, <3>2 DEF input_vars, PairedId, Paired, PspId
    <3> QED
      BY <1>1, <3>1, <3>3 DEF Ahead
  <2> QED
    BY <2>8, <2>9 DEF IInv
<1> QED
  BY <1>3, <1>4

\* The next phase starts with what is left.
LEMMA PhasesStart ==
  IInv /\ (StartFuzzy \/ StartNetting \/ StartResolving \/ StartExceptions) => IInv'
<1> SUFFICES ASSUME IInv, StartFuzzy \/ StartNetting \/ StartResolving \/ StartExceptions
             PROVE  IInv'
  OBVIOUS
<1> USE DEF StartFuzzy, StartNetting, StartResolving, StartExceptions, Advance
<1>1. UNCHANGED <<input_vars, matched_vars, report_vars>> /\ phase' # "done"
  OBVIOUS
<1>2. /\ ledger_records \in Seq(LedgerRecord) /\ bank_records \in Seq(BankRecord)
      /\ psp_records \in Seq(PSPRecord) /\ matches \in Seq(MatchRecord)
  BY DEF IInv, TypeInv
<1>3. /\ DOMAIN ledger_records \in SUBSET Nat /\ DOMAIN bank_records \in SUBSET Nat
      /\ DOMAIN matches \in SUBSET Nat
  BY <1>2
<1>4. todo' \in SUBSET Nat /\ pool' \in SUBSET DOMAIN psp_records
  BY <1>3 DEF IInv, TypeInv, FreePsps
<1>5. TypeInv' /\ PairedOnce' /\ Named' /\ Counted'
  BY <1>1, <1>4, NothingReported
<1>6. Rest'
  BY <1>1 DEF Rest
<1>7. Ahead'
  <2>1. \A j \in FreePsps, k \in DOMAIN matches : PspId(j) \notin PairedId(k)
    BY DEF IInv, Named, FreePsps
  <2>2. /\ ledger_records' = ledger_records /\ bank_records' = bank_records
        /\ psp_records' = psp_records /\ matches' = matches
        /\ matched_ledger' = matched_ledger /\ matched_bank' = matched_bank
    BY <1>1 DEF input_vars, matched_vars, report_vars
  <2>3. StartNetting => \A j \in pool', k \in DOMAIN matches' : PspId(j)' \notin PairedId(k)'
    BY <2>1, <2>2 DEF PspId, PairedId
  <2> QED
    BY <2>2, <2>3 DEF Ahead
<1> QED
  BY <1>5, <1>6, <1>7 DEF IInv

\* In the last phases todo holds positions of matches.
LEMMA ResolvingTakesMatches ==
  ASSUME IInv, phase \in {"resolve", "except"}, todo # {}, Taken
  PROVE  /\ First(todo) \in DOMAIN matches
         /\ todo' \in SUBSET Nat /\ todo' \subseteq DOMAIN matches
  BY FirstIsIn DEF IInv, TypeInv, Ahead, Taken

LEMMA AutoResolveKeeps == IInv /\ AutoResolve => IInv'
<1> SUFFICES ASSUME IInv, AutoResolve PROVE IInv'
  OBVIOUS
<1> DEFINE k == First(todo)
<1>1. /\ phase = "resolve" /\ phase' = "resolve" /\ Taken /\ todo # {}
      /\ UNCHANGED <<input_vars, matched_vars, exception_list, pool>>
      /\ \/ Unresolved(k) /\ Restate(k, "auto_resolved")
         \/ UNCHANGED <<matches, counts>>
  BY DEF AutoResolve, InLoop
<1>2. k \in DOMAIN matches /\ todo' \in SUBSET Nat /\ todo' \subseteq DOMAIN matches
  BY <1>1, ResolvingTakesMatches
<1> HIDE DEF k
<1>3. CASE Unresolved(k) /\ Restate(k, "auto_resolved")
  <2>1. matches' = [matches EXCEPT ![k].status = "auto_resolved"]
    BY <1>3 DEF Restate
  <2>2. /\ k \in WithStatus("fuzzy_match") /\ "auto_resolved" \in MatchStatus
        /\ "exception" \in MatchStatus \ {"auto_resolved", "fuzzy_match"}
    BY <1>2, <1>3 DEF Unresolved, WithStatus, MatchStatus
  <2>3. TypeInv
    BY DEF IInv
  <2>4. matches' \in Seq(MatchRecord) /\ DOMAIN matches' = DOMAIN matches
    BY <1>2, <2>1, <2>2, <2>3, Restated
  <2>5. PairedOnce' /\ Named'
    BY <1>1, <1>2, <2>1, <2>2, RestatePairsOnce DEF IInv
  <2>6. /\ counts' \in [MatchStatus \cup {"unmatched"} -> Int]
        /\ \A s \in MatchStatus : counts'[s] = Cardinality(WithStatus(s)')
        /\ WithStatus("exception")' = WithStatus("exception")
        /\ counts'["exception"] = counts["exception"]
    BY <1>3, <2>2, RestateCounts DEF IInv
  <2>7. Counted'
    BY <1>1, <2>6 DEF IInv, Counted
  <2>8. MatchRecord' = MatchRecord
    BY <1>1 DEF MatchRecord, input_vars
  <2>9. TypeInv'
    BY <1>1, <1>2, <2>3, <2>4, <2>6, <2>8 DEF TypeInv, input_vars
  <2>10. Ahead' /\ Rest'
    BY <1>1, <1>2, <2>4 DEF Ahead, Rest
  <2> QED
    BY <2>5, <2>7, <2>9, <2>10 DEF IInv
<1>4. CASE UNCHANGED <<matches, counts>>
  <2>1. UNCHANGED <<input_vars, matched_vars, report_vars>>
    BY <1>1, <1>4 DEF report_vars
  <2>2. pool' \in SUBSET DOMAIN psp_records
    BY <1>1 DEF IInv, TypeInv
  <2>3. TypeInv' /\ PairedOnce' /\ Named' /\ Counted'
    BY <1>2, <2>1, <2>2, NothingReported
  <2>4. Ahead' /\ Rest'
    BY <1>1, <1>2, <1>4 DEF Ahead, Rest
  <2> QED
    BY <2>3, <2>4 DEF IInv
<1> QED
  BY <1>1, <1>3, <1>4

\* The exception list grows with the matches in status exception.
LEMMA CreateExceptionKeeps == IInv /\ CreateException => IInv'
<1> SUFFICES ASSUME IInv, CreateException PROVE IInv'
  OBVIOUS
<1> DEFINE k == First(todo)
           e == [match |-> k, priority |-> Priority(matches[k].delta)]
<1>1. /\ phase = "except" /\ phase' = "except" /\ Taken /\ todo # {}
      /\ UNCHANGED <<input_vars, matched_vars, pool>>
      /\ \/ /\ Unresolved(k) /\ Restate(k, "exception")
            /\ exception_list' = Append(exception_list, e)
         \/ UNCHANGED report_vars
  BY DEF CreateException, InLoop
<1>2. k \in DOMAIN matches /\ todo' \in SUBSET Nat /\ todo' \subseteq DOMAIN matches
  BY <1>1, ResolvingTakesMatches
<1>3. e.match = k /\ e \in ExceptionRecord
  <2> HIDE DEF k
  <2>1. k \in Nat
    BY <1>2 DEF IInv, TypeInv
  <2>2. matches[k] \in MatchRecord
    BY <1>2 DEF IInv, TypeInv
  <2>3. matches[k].delta \in Int
    BY <2>2 DEF MatchRecord
  <2>4. \A d \in Int : Priority(d) \in {"critical", "high", "medium"}
    BY DEF Priority
  <2> QED
    BY <2>1, <2>3, <2>4 DEF ExceptionRecord
<1> HIDE DEF k, e
<1>4. CASE /\ Unresolved(k) /\ Restate(k, "exception")
           /\ exception_list' = Append(exception_list, e)
  <2>1. matches' = [matches EXCEPT ![k].status = "exception"]
    BY <1>4 DEF Restate
  <2>2. k \in WithStatus("fuzzy_match") /\ "exception" \in MatchStatus
    BY <1>2, <1>4 DEF Unresolved, WithStatus, MatchStatus
  <2>3. TypeInv
    BY DEF IInv
  <2>4. matches' \in Seq(MatchRecord) /\ DOMAIN matches' = DOMAIN matches
    BY <1>2, <2>1, <2>2, <2>3, Restated
  <2>5. PairedOnce' /\ Named'
    BY <1>1, <1>2, <2>1, <2>2, RestatePairsOnce DEF IInv
  <2>6. /\ counts' \in [MatchStatus \cup {"unmatched"} -> Int]
        /\ \A s \in MatchStatus : counts'[s] = Cardinality(WithStatus(s)')
        /\ WithStatus("exception")' = WithStatus("exception") \cup {k}
        /\ counts'["exception"] = counts["exception"] + 1
    BY <1>4, <2>2, RestateCounts DEF IInv
  <2>7. LET n == Len(exception_list) + 1
        IN  /\ exception_list' \in Seq(ExceptionRecord)
            /\ Len(exception_list') = n
            /\ DOMAIN exception_list' = DOMAIN exception_list \cup {n}
            /\ exception_list'[n] = e
            /\ \A x \in DOMAIN exception_list : exception_list'[x] = exception_list[x]
    BY <1>3, <1>4, <2>3 DEF TypeInv
  <2>8. {exception_list'[x].match : x \in DOMAIN exception_list'}
          = {exception_list[x].match : x \in DOMAIN exception_list} \cup {k}
    BY <1>3, <2>7
  <2>9. Counted'
    BY <2>6, <2>7, <2>8 DEF IInv, Counted
  <2>10. MatchRecord' = MatchRecord
    BY <1>1 DEF MatchRecord, input_vars
  <2>11. TypeInv'
    BY <1>1, <1>2, <2>3, <2>4, <2>6, <2>7, <2>10 DEF TypeInv, input_vars
  <2>12. Ahead' /\ Rest'
    BY <1>1, <1>2, <2>4 DEF Ahead, Rest
  <2> QED
    BY <2>5, <2>9, <2>11, <2>12 DEF IInv
<1>5. CASE UNCHANGED report_vars
  <2>1. UNCHANGED <<input_vars, matched_vars, report_vars>>
    BY <1>1, <1>5
  <2>2. pool' \in SUBSET DOMAIN psp_records
    BY <1>1 DEF IInv, TypeInv
  <2>3. TypeInv' /\ PairedOnce' /\ Named' /\ Counted'
    BY <1>2, <2>1, <2>2, NothingReported
  <2>4. Ahead' /\ Rest'
    BY <1>1, <1>2, <1>5 DEF Ahead, Rest, report_vars
  <2> QED
    BY <2>3, <2>4 DEF IInv
<1> QED
  BY <1>1, <1>4, <1>5

\* What the loops left is what no match names.
LEMMA FinishKeeps == IInv /\ Finish => IInv'
<1> SUFFICES ASSUME IInv, Finish PROVE IInv'
  OBVIOUS
<1> USE DEF Finish, Advance
<1>1. /\ UNCHANGED <<input_vars, matched_vars, matches, exception_list, todo, pool>>
      /\ phase' = "done"
  OBVIOUS
<1>2. /\ psp_records' = psp_records /\ ledger_records' = ledger_records
      /\ bank_records' = bank_records /\ matched_ledger' = matched_ledger
      /\ matched_psp' = matched_psp /\ matched_bank' = matched_bank
  BY <1>1 DEF input_vars, matched_vars
<1>3. PairedOnce' /\ Named'
  BY <1>1, <1>2 DEF IInv, PairedOnce, Named, PairedId, NettedIds, PspId
<1>4. DOMAIN ledger_records \ matched_ledger
        = {i \in DOMAIN ledger_records : \A k \in DOMAIN matches : matches[k].ledger # i}
  BY DEF IInv, Named
<1>5. FreePsps
        = {j \in DOMAIN psp_records : \A k \in DOMAIN matches :
             PspId(j) \notin PairedId(k) \cup NettedIds(k)}
  BY DEF IInv, Named, FreePsps
<1>6. Unnamed' = Unnamed
  BY <1>1, <1>2 DEF Unnamed, PairedId, NettedIds, PspId
<1>7. /\ IsFiniteSet(DOMAIN ledger_records \ matched_ledger) /\ IsFiniteSet(FreePsps)
  <2>1. /\ DOMAIN ledger_records = 1 .. Len(ledger_records)
        /\ DOMAIN psp_records = 1 .. Len(psp_records)
    BY DEF IInv, TypeInv
  <2>2. IsFiniteSet(1 .. Len(ledger_records)) /\ IsFiniteSet(1 .. Len(psp_records))
    BY FS_Interval DEF IInv, TypeInv
  <2> QED
    BY <2>1, <2>2, FS_Subset DEF FreePsps
<1>8. Unnamed = Cardinality(DOMAIN ledger_records \ matched_ledger) + Cardinality(FreePsps)
  BY <1>4, <1>5 DEF Unnamed
<1>9. Unnamed \in Int
  BY <1>7, <1>8, FS_CardinalityType
<1>10. /\ counts' \in [MatchStatus \cup {"unmatched"} -> Int]
       /\ counts'["unmatched"] = Unnamed
       /\ \A s \in MatchStatus : counts'[s] = counts[s]
  BY <1>8, <1>9 DEF IInv, TypeInv, MatchStatus
<1>11. Rest'
  BY <1>6, <1>10 DEF Rest
<1>12. Counted'
  <2>1. \A s : WithStatus(s)' = WithStatus(s)
    BY <1>1 DEF WithStatus
  <2>2. "exception" \in MatchStatus
    BY DEF MatchStatus
  <2>3. \A s \in MatchStatus : counts'[s] = Cardinality(WithStatus(s)')
    BY <1>10, <2>1 DEF IInv, Counted
  <2>4. /\ {exception_list'[x].match : x \in DOMAIN exception_list'} = WithStatus("exception")'
        /\ Len(exception_list') = counts'["exception"]
    BY <1>1, <1>10, <2>1, <2>2 DEF IInv, Counted
  <2> QED
    BY <2>3, <2>4 DEF Counted
<1>13. TypeInv'
  <2>1. MatchRecord' = MatchRecord
    BY <1>2 DEF MatchRecord
  <2> QED
    BY <1>1, <1>2, <1>10, <2>1 DEF IInv, TypeInv
<1>14. Ahead'
  BY <1>1 DEF Ahead
<1> QED
  BY <1>3, <1>11, <1>12, <1>13, <1>14 DEF IInv

LEMMA StepKeeps == IInv /\ [EngineNext]_engine_vars => IInv'
<1> SUFFICES ASSUME IInv, [EngineNext]_engine_vars PROVE IInv'
  OBVIOUS
<1>1. CASE UNCHANGED engine_vars
  <2>1. /\ UNCHANGED <<input_vars, matched_vars, report_vars>>
        /\ phase' = phase /\ todo' = todo /\ pool' = pool
    BY <1>1 DEF engine_vars
  <2>2. todo' \in SUBSET Nat /\ pool' \in SUBSET DOMAIN psp_records
    BY <2>1 DEF IInv, TypeInv
  <2>3. TypeInv' /\ PairedOnce' /\ Named' /\ Counted'
    BY <2>1, <2>2, NothingReported
  <2>4. Ahead'
    BY <2>1 DEF IInv, Ahead, input_vars, matched_vars, report_vars, PairedId, PspId
  <2>5. Rest'
    BY <2>1 DEF IInv, Rest, Unnamed, input_vars, report_vars, PairedId, NettedIds, PspId
  <2> QED
    BY <2>3, <2>4, <2>5 DEF IInv
<1> QED
  BY <1>1, MatchExactlyKeeps, MatchFuzzilyKeeps, NetToBankKeeps, PhasesStart, AutoResolveKeeps,
     CreateExceptionKeeps, FinishKeeps DEF EngineNext

-----------------------------------------------------------------------------
(* Exact matches.                                                          *)

Exacts == WithStatus("exact_match")

\* Exact matches pair records that match exactly; there are no others at first.
ExactPairs ==
  /\ \A k \in Exacts :
       /\ matches[k].ledger \in DOMAIN ledger_records
       /\ matches[k].psp \in DOMAIN psp_records
       /\ ExactMatch(ledger_records[matches[k].ledger], psp_records[matches[k].psp])
  /\ phase = "exact" => \A k \in DOMAIN matches : k \in Exacts /\ matches[k].netted = {}

\* The ledger record of position i has an exact match; the id of j is in one.
HasExact(i) == \E k \in Exacts : matches[k].ledger = i
InExact(j) == \E k \in Exacts : PspId(matches[k].psp) = PspId(j)

\* A record the first loop passed without a match had no record to match left:
\* the ids of all that fit it are in exact matches.
Exhausted ==
  \A i \in DOMAIN ledger_records :
    \/ phase = "exact" /\ i \in todo
    \/ HasExact(i)
    \/ \A j \in DOMAIN psp_records :
         ExactMatch(ledger_records[i], psp_records[j]) => InExact(j)

\* The inductive invariant of ExactIsBest.
Greedy == IInv /\ ExactPairs /\ Exhausted

\* After the first phase the exact matches are what they are.
LEMMA ExactsStay ==
  ASSUME ExactPairs, Exhausted, UNCHANGED input_vars, phase' # "exact",
         phase = "exact" => todo = {},
         Exacts' = Exacts,
         \A k \in Exacts : matches'[k].ledger = matches[k].ledger /\ matches'[k].psp = matches[k].psp
  PROVE  ExactPairs' /\ Exhausted'
<1>1. /\ ledger_records' = ledger_records /\ psp_records' = psp_records
      /\ \A j : PspId(j)' = PspId(j)
  BY DEF input_vars, PspId
<1>2. ExactPairs'
  BY <1>1 DEF ExactPairs
<1>3. \A i : HasExact(i)' <=> HasExact(i)
  BY DEF HasExact
<1>4. \A j : InExact(j)' <=> InExact(j)
  BY <1>1 DEF InExact, PspId
<1>5. Exhausted'
  BY <1>1, <1>3, <1>4 DEF Exhausted
<1> QED BY <1>2, <1>5

\* Reporting another kind of match leaves the exact ones alone, ...
LEMMA OtherReport ==
  ASSUME TypeInv, NEW m \in MatchRecord, matches' = Append(matches, m), m.status # "exact_match"
  PROVE  /\ Exacts' = Exacts
         /\ \A k \in Exacts : matches'[k] = matches[k]
  BY Appended DEF Exacts, WithStatus

\* ... and so does a new status for one of the others.
LEMMA OtherStatus ==
  ASSUME TypeInv, NEW k \in DOMAIN matches, NEW status \in MatchStatus \ {"exact_match"},
         matches[k].status # "exact_match", matches' = [matches EXCEPT ![k].status = status]
  PROVE  /\ Exacts' = Exacts
         /\ \A l \in Exacts : matches'[l] = matches[l]
<1>1. /\ DOMAIN matches' = DOMAIN matches
      /\ matches'[k].status = status
      /\ \A l \in DOMAIN matches \ {k} : matches'[l] = matches[l]
  BY Restated
<1> QED BY <1>1 DEF Exacts, WithStatus

\* In the first phase a matched id is in an exact match.
LEMMA MatchedIdsAreInExacts ==
  ASSUME IInv, ExactPairs, phase = "exact", NEW j \in DOMAIN psp_records, PspId(j) \in matched_psp
  PROVE  InExact(j)
<1>1. PICK k \in DOMAIN matches : PspId(j) \in PairedId(k) \cup NettedIds(k)
  BY DEF IInv, Named
<1>2. k \in Exacts /\ matches[k].netted = {}
  BY DEF ExactPairs
<1>3. PspId(j) \in PairedId(k)
  BY <1>1, <1>2 DEF NettedIds
<1>4. PspId(j) = PspId(matches[k].psp)
  BY <1>3 DEF PairedId
<1> QED BY <1>2, <1>4 DEF InExact

LEMMA FirstLoopIsGreedy ==
  ASSUME IInv, ExactPairs, Exhausted, MatchExactly
  PROVE  ExactPairs' /\ Exhausted'
<1> DEFINE i == First(todo)
           j == First(ExactPartners(i))
           b == IF BankPartners(j) = {} THEN 0 ELSE First(BankPartners(j))
           m == Pair("exact_match", i, j, b, 0)
<1>1. /\ i \in todo /\ i \in DOMAIN ledger_records
      /\ phase = "exact" /\ phase' = phase /\ todo' = todo \ {i}
  <2>1. i \in todo /\ phase = "exact" /\ phase' = phase /\ todo' = todo \ {i}
    BY FirstIsIn DEF IInv, TypeInv, MatchExactly, InLoop, Taken
  <2> QED BY <2>1 DEF IInv, Ahead
<1>2. /\ ledger_records' = ledger_records /\ psp_records' = psp_records
      /\ \A q : PspId(q)' = PspId(q)
  BY DEF MatchExactly, input_vars, PspId
<1>3. CASE ExactPartners(i) = {}
  <2>1. matches' = matches
    BY <1>3 DEF MatchExactly
  <2>2. ExactPairs'
    BY <1>1, <1>2, <2>1 DEF ExactPairs, Exacts, WithStatus
  <2>3. \A q \in DOMAIN psp_records :
          ExactMatch(ledger_records[i], psp_records[q]) => PspId(q) \in matched_psp
    BY <1>3 DEF ExactPartners, FreePsps
  <2>4. \A q \in DOMAIN psp_records : ExactMatch(ledger_records[i], psp_records[q]) => InExact(q)
    BY <1>1, <2>3, MatchedIdsAreInExacts
  <2>5. /\ \A l : HasExact(l)' <=> HasExact(l)
        /\ \A q : InExact(q)' <=> InExact(q)
    BY <1>2, <2>1 DEF HasExact, InExact, Exacts, WithStatus, PspId
  <2> HIDE DEF i
  <2>6. Exhausted'
    BY <1>1, <1>2, <2>4, <2>5 DEF Exhausted
  <2> QED BY <2>2, <2>6
<1>4. CASE ExactPartners(i) # {}
  <2>1. ReportExactly(i, j)
    BY <1>4 DEF MatchExactly
  <2>2. j \in ExactPartners(i)
    <3>1. ExactPartners(i) \in SUBSET Nat
      BY DEF IInv, TypeInv, ExactPartners, FreePsps
    <3> QED BY <1>4, <3>1, FirstIsIn
  <2>3. j \in DOMAIN psp_records /\ ExactMatch(ledger_records[i], psp_records[j])
    BY <2>2 DEF ExactPartners, FreePsps
  <2>4. b \in Nat
    BY BankPartnersAreFree DEF IInv
  <2>5. matches' = Append(matches, m)
    BY <2>1 DEF ReportExactly, Report
  <2> HIDE DEF i, j, b
  <2>6. /\ m \in MatchRecord /\ m.status = "exact_match"
        /\ m.ledger = i /\ m.psp = j /\ m.netted = {}
    BY <1>1, <2>3, <2>4 DEF Pair, MatchRecord, MatchStatus
  <2> HIDE DEF m
  <2> DEFINE n == Len(matches) + 1
  <2>7. /\ n \notin DOMAIN matches /\ DOMAIN matches' = DOMAIN matches \cup {n} /\ matches'[n] = m
        /\ \A k \in DOMAIN matches : matches'[k] = matches[k]
    BY <2>5, <2>6, Appended DEF IInv
  <2> HIDE DEF n
  <2>8. Exacts' = Exacts \cup {n} /\ Exacts \subseteq DOMAIN matches
    BY <2>6, <2>7 DEF Exacts, WithStatus
  <2>9. ExactPairs'
    BY <1>1, <1>2, <2>3, <2>6, <2>7, <2>8 DEF ExactPairs
  <2>10. \A l : l = i \/ HasExact(l) => HasExact(l)'
    BY <2>6, <2>7, <2>8 DEF HasExact
  <2>11. \A q : InExact(q) => InExact(q)'
    BY <1>2, <2>7, <2>8 DEF InExact, PspId
  <2>12. Exhausted'
    BY <1>1, <1>2, <2>10, <2>11 DEF Exhausted
  <2> QED BY <2>9, <2>12
<1> QED BY <1>3, <1>4

LEMMA GreedyStarts == EngineInit => Greedy
<1> SUFFICES ASSUME EngineInit PROVE Greedy
  OBVIOUS
<1>1. IInv /\ phase = "exact" /\ todo = DOMAIN ledger_records /\ DOMAIN matches = {}
  BY InvariantStarts DEF EngineInit, EngineStart
<1>2. ExactPairs /\ Exhausted
  BY <1>1 DEF ExactPairs, Exhausted, Exacts, WithStatus
<1> QED BY <1>1, <1>2 DEF Greedy

LEMMA GreedyKept == Greedy /\ [EngineNext]_engine_vars => Greedy'
<1> SUFFICES ASSUME Greedy, [EngineNext]_engine_vars PROVE Greedy'
  OBVIOUS
<1>1. IInv /\ IInv' /\ ExactPairs /\ Exhausted /\ TypeInv
  BY StepKeeps DEF Greedy, IInv
<1>2. ASSUME matches' = matches, UNCHANGED input_vars, phase' # "exact", phase = "exact" => todo = {}
      PROVE  ExactPairs' /\ Exhausted'
  <2>1. Exacts' = Exacts
    BY <1>2 DEF Exacts, WithStatus
  <2> QED BY <1>1, <1>2, <2>1, ExactsStay
<1>3. ASSUME NEW m, m.status # "exact_match", matches' = Append(matches, m),
             UNCHANGED input_vars, phase # "exact", phase' # "exact"
      PROVE  ExactPairs' /\ Exhausted'
  <2>1. m \in MatchRecord
    <3>1. matches' \in Seq(MatchRecord)
      BY <1>1, <1>3 DEF IInv, TypeInv, MatchRecord, input_vars
    <3>2. /\ Len(matches') = Len(matches) + 1 /\ matches'[Len(matches) + 1] = m
          /\ Len(matches) \in Nat
      BY <1>1, <1>3 DEF TypeInv
    <3> QED BY <3>1, <3>2
  <2>2. Exacts' = Exacts /\ \A k \in Exacts : matches'[k] = matches[k]
    BY <1>1, <1>3, <2>1, OtherReport
  <2> QED BY <1>1, <1>3, <2>2, ExactsStay
<1>4. ASSUME NEW k \in DOMAIN matches, NEW status \in {"auto_resolved", "exception"},
             matches[k].status # "exact_match", matches' = [matches EXCEPT ![k].status = status],
             UNCHANGED input_vars, phase # "exact", phase' # "exact"
      PROVE  ExactPairs' /\ Exhausted'
  <2>1. status \in MatchStatus \ {"exact_match"}
    BY DEF MatchStatus
  <2>2. Exacts' = Exacts /\ \A l \in Exacts : matches'[l] = matches[l]
    BY <1>1, <1>4, <2>1, OtherStatus
  <2> QED BY <1>1, <1>4, <2>2, ExactsStay
<1>5. CASE MatchExactly
  BY <1>1, <1>5, FirstLoopIsGreedy DEF Greedy
<1>6. CASE MatchFuzzily
  <2>1. phase = "fuzzy" /\ phase' = "fuzzy" /\ UNCHANGED input_vars
    BY <1>6 DEF MatchFuzzily, InLoop
  <2>2. \/ matches' = matches
        \/ \E j, d : matches' = Append(matches, Pair("fuzzy_match", First(todo), j, 0, d))
    BY <1>6 DEF MatchFuzzily, ReportFuzzily, Report
  <2>3. \A i, j, d : Pair("fuzzy_match", i, j, 0, d).status # "exact_match"
    BY DEF Pair
  <2> QED BY <1>1, <1>2, <1>3, <2>1, <2>2, <2>3 DEF Greedy
<1>7. CASE NetToBank
  <2>1. phase = "netting" /\ phase' = "netting" /\ UNCHANGED input_vars
    BY <1>7 DEF NetToBank, InLoop
  <2>2. \/ matches' = matches
        \/ \E group : matches' = Append(matches, Netting(First(todo), group))
    BY <1>7 DEF NetToBank, Report
  <2>3. \A b, group : Netting(b, group).status # "exact_match"
    BY DEF Netting
  <2> QED BY <1>1, <1>2, <1>3, <2>1, <2>2, <2>3 DEF Greedy
<1>8. CASE AutoResolve \/ CreateException
  <2>1. /\ phase \in {"resolve", "except"} /\ phase' = phase /\ UNCHANGED input_vars
        /\ todo # {} /\ Taken
    BY <1>8 DEF AutoResolve, CreateException, InLoop
  <2>2. First(todo) \in DOMAIN matches
    BY <1>1, <2>1, ResolvingTakesMatches
  <2>3. \/ matches' = matches
        \/ /\ matches[First(todo)].status # "exact_match"
           /\ \E status \in {"auto_resolved", "exception"} :
                matches' = [matches EXCEPT ![First(todo)].status = status]
    BY <1>8 DEF AutoResolve, CreateException, Restate, Unresolved, report_vars
  <2> QED BY <1>1, <1>2, <1>4, <2>1, <2>2, <2>3 DEF Greedy
<1>9. CASE StartFuzzy \/ StartNetting \/ StartResolving \/ StartExceptions \/ Finish
  <2>1. /\ matches' = matches /\ UNCHANGED input_vars /\ phase' # "exact"
        /\ phase = "exact" => todo = {}
    BY <1>9 DEF StartFuzzy, StartNetting, StartResolving, StartExceptions, Finish, Advance, report_vars
  <2> QED BY <1>1, <1>2, <2>1 DEF Greedy
<1>10. CASE UNCHANGED engine_vars
  <2>1. /\ matches' = matches /\ phase' = phase /\ todo' = todo
        /\ ledger_records' = ledger_records /\ psp_records' = psp_records
    BY <1>10 DEF engine_vars, report_vars, input_vars
  <2>2. ExactPairs' /\ Exhausted'
    BY <1>1, <2>1 DEF ExactPairs, Exhausted, HasExact, InExact, Exacts, WithStatus, PspId
  <2> QED BY <1>1, <2>2 DEF Greedy
<1> QED BY <1>5, <1>6, <1>7, <1>8, <1>9, <1>10 DEF EngineNext

\* The exact matches of one processor and amount, and what they pair.
ExactsOf(L) == {k \in Exacts : matches[k].ledger \in L}

\* Of one processor and amount there are as many exact matches as the scarcer
\* side has records: the matches map one to one into either side, and onto the
\* ledger's, or, if some record there has no exact match, onto the processor's.
LEMMA ScarcerSide ==
  ASSUME Greedy, phase # "exact", Repetitions, NEW i \in DOMAIN ledger_records
  PROVE  LET L == LedgerWith(ledger_records[i].psp_name, Cents(ledger_records[i].amount))
             Q == IdsWith(ledger_records[i].psp_name, Cents(ledger_records[i].amount))
         IN  /\ Cardinality(L) \in Nat /\ Cardinality(Q) \in Nat
             /\ Cardinality(ExactsOf(L)) <= Cardinality(L)
             /\ Cardinality(ExactsOf(L)) <= Cardinality(Q)
             /\ \/ Cardinality(ExactsOf(L)) = Cardinality(L)
                \/ Cardinality(ExactsOf(L)) = Cardinality(Q)
<1> DEFINE name == ledger_records[i].psp_name
           cents == Cents(ledger_records[i].amount)
           L == LedgerWith(name, cents)
           Q == IdsWith(name, cents)
           J == {j \in DOMAIN psp_records :
                   psp_records[j].psp_name = name /\ Cents(psp_records[j].amount) = cents}
           M == ExactsOf(L)
           toLedger == [k \in M |-> matches[k].ledger]
           toId == [k \in M |-> PspId(matches[k].psp)]
<1>1. /\ TypeInv /\ PairedOnce /\ ExactPairs /\ Exhausted
      /\ 0 \notin DOMAIN ledger_records /\ 0 \notin DOMAIN psp_records
  <2>1. TypeInv /\ PairedOnce /\ ExactPairs /\ Exhausted
    BY DEF Greedy, IInv
  <2> QED BY <2>1 DEF TypeInv
<1>2. IsFiniteSet(DOMAIN ledger_records) /\ IsFiniteSet(DOMAIN psp_records)
  <2>1. /\ DOMAIN ledger_records = 1 .. Len(ledger_records)
        /\ DOMAIN psp_records = 1 .. Len(psp_records)
        /\ Len(ledger_records) \in Nat /\ Len(psp_records) \in Nat
    BY <1>1 DEF TypeInv
  <2>2. IsFiniteSet(1 .. Len(ledger_records)) /\ IsFiniteSet(1 .. Len(psp_records))
    BY <2>1, FS_Interval
  <2> QED BY <2>1, <2>2
<1>3. IsFiniteSet(L) /\ Cardinality(L) \in Nat
  BY <1>2, FS_Subset, FS_CardinalityType DEF LedgerWith
<1>4. IsFiniteSet(Q) /\ Cardinality(Q) \in Nat
  <2> DEFINE g == [j \in J |-> PspId(j)]
  <2>1. IsFiniteSet(J)
    BY <1>2, FS_Subset
  <2>2. g \in Surjection(J, Q)
    BY DEF IdsWith, Surjection
  <2>3. IsFiniteSet(Q)
    BY <2>1, <2>2, FS_Surjection
  <2> QED BY <2>3, FS_CardinalityType
<1>5. \A l \in L : l \in DOMAIN ledger_records /\ ledger_records[l].psp_name = name
                   /\ Cents(ledger_records[l].amount) = cents
  BY DEF LedgerWith
<1>6. \A k \in M : /\ k \in DOMAIN matches /\ matches[k].ledger \in L /\ matches[k].ledger # 0
                   /\ matches[k].psp \in J /\ matches[k].psp # 0
  <2> TAKE k \in M
  <2>1. /\ k \in Exacts /\ k \in DOMAIN matches /\ matches[k].ledger \in L
        /\ matches[k].psp \in DOMAIN psp_records
        /\ ExactMatch(ledger_records[matches[k].ledger], psp_records[matches[k].psp])
    BY <1>1 DEF ExactsOf, ExactPairs, Exacts, WithStatus
  <2> QED BY <1>1, <1>5, <2>1 DEF ExactMatch
<1>7. Q = {PspId(j) : j \in J}
  BY DEF IdsWith
<1>8. \A k, l \in M : k # l => matches[k].ledger # matches[l].ledger
  BY <1>1, <1>6 DEF PairedOnce
<1>9. \A k, l \in M : k # l => PspId(matches[k].psp) # PspId(matches[l].psp)
  <2> TAKE k, l \in M
  <2>1. PspId(matches[k].psp) \in PairedId(k) /\ PspId(matches[l].psp) \in PairedId(l)
    BY <1>6 DEF PairedId
  <2>2. k # l => PairedId(k) \cap PairedId(l) = {}
    BY <1>1, <1>6 DEF PairedOnce
  <2> QED BY <2>1, <2>2
<1>10. toLedger \in Injection(M, L)
  <2> HIDE DEF M, L
  <2> QED BY <1>6, <1>8 DEF Injection, IsInjective
<1>11. toId \in Injection(M, Q)
  <2> HIDE DEF M, Q, J
  <2> QED BY <1>6, <1>7, <1>9 DEF Injection, IsInjective
<1> HIDE DEF L, Q, M
<1>12. /\ Cardinality(M) <= Cardinality(L)
       /\ toLedger \in Surjection(M, L) => Cardinality(M) = Cardinality(L)
  BY <1>3, <1>10, FS_Injection
<1>13. /\ Cardinality(M) <= Cardinality(Q)
       /\ toId \in Surjection(M, Q) => Cardinality(M) = Cardinality(Q)
  BY <1>4, <1>11, FS_Injection
<1>14. CASE \A l \in L : HasExact(l)
  <2>1. \A l \in L : \E k \in M : matches[k].ledger = l
    BY <1>14 DEF HasExact, M, ExactsOf
  <2>2. toLedger \in Surjection(M, L)
    BY <1>10, <2>1 DEF Injection, Surjection
  <2> QED BY <1>3, <1>4, <1>12, <1>13, <2>2 DEF L, Q, M
<1>15. CASE \E l \in L : ~ HasExact(l)
  <2>1. PICK l \in L : ~ HasExact(l)
    BY <1>15
  <2>2. \A j \in J : InExact(j)
    BY <1>1, <1>5, <2>1 DEF Exhausted, ExactMatch
  <2>3. \A j \in J : \E k \in M : PspId(matches[k].psp) = PspId(j)
    <3> TAKE j \in J
    <3>1. PICK k \in Exacts : PspId(matches[k].psp) = PspId(j)
      BY <2>2 DEF InExact
    <3>2. /\ matches[k].ledger \in DOMAIN ledger_records
          /\ matches[k].psp \in DOMAIN psp_records
          /\ ExactMatch(ledger_records[matches[k].ledger], psp_records[matches[k].psp])
      BY <1>1 DEF ExactPairs
    <3>3. /\ psp_records[matches[k].psp].psp_name = psp_records[j].psp_name
          /\ Cents(psp_records[matches[k].psp].amount) = Cents(psp_records[j].amount)
      BY <3>1, <3>2 DEF Repetitions
    <3>4. matches[k].ledger \in L
      BY <3>2, <3>3 DEF L, LedgerWith, ExactMatch
    <3> QED BY <3>1, <3>4 DEF M, ExactsOf
  <2>4. \A q \in Q : \E k \in M : PspId(matches[k].psp) = q
    BY <1>7, <2>3
  <2>5. toId \in Surjection(M, Q)
    BY <1>11, <2>4 DEF Injection, Surjection
  <2> QED BY <1>3, <1>4, <1>12, <1>13, <2>5 DEF L, Q, M
<1> QED BY <1>14, <1>15

-----------------------------------------------------------------------------
(* The theorems.                                                           *)

\* However long the lists are and in whatever order: no record is matched twice
\* over the three phases, but for processor records netted to two deposits.
THEOREM EnginePairsOnce == EngineSpec => []PairedOnce
<1>1. IInv => PairedOnce
  BY DEF IInv
<1> QED
  BY <1>1, InvariantStarts, StepKeeps, PTL DEF EngineSpec

\* The counters of a run are the numbers of its matches at every moment, and
\* what it calls unmatched is what no match names.
THEOREM EngineCountsAddUp == EngineSpec => []CountsAddUp
<1>1. IInv => CountsAddUp
  BY DEF IInv, Counted, Rest, CountsAddUp
<1> QED
  BY <1>1, InvariantStarts, StepKeeps, PTL DEF EngineSpec

\* Greedy as it is, the first loop leaves no exact match unmade that another
\* order of the lists would have made.
THEOREM EngineExactIsBest == EngineSpec => []ExactIsBest
<1>1. Greedy => ExactIsBest
  <2> SUFFICES ASSUME Greedy, phase # "exact", Repetitions, NEW i \in DOMAIN ledger_records
               PROVE  LET name == ledger_records[i].psp_name
                          cents == Cents(ledger_records[i].amount)
                          available == {Cardinality(LedgerWith(name, cents)),
                                        Cardinality(IdsWith(name, cents))}
                      IN  Cardinality({k \in WithStatus("exact_match") :
                                         matches[k].ledger \in LedgerWith(name, cents)})
                            = First(available)
    BY DEF ExactIsBest
  <2> DEFINE L == LedgerWith(ledger_records[i].psp_name, Cents(ledger_records[i].amount))
             Q == IdsWith(ledger_records[i].psp_name, Cents(ledger_records[i].amount))
             x == Cardinality(ExactsOf(L))
             a == Cardinality(L)
             b == Cardinality(Q)
  <2>1. a \in Nat /\ b \in Nat /\ x <= a /\ x <= b /\ (x = a \/ x = b)
    BY ScarcerSide
  <2>2. ExactsOf(L) = {k \in WithStatus("exact_match") : matches[k].ledger \in L}
    BY DEF ExactsOf, Exacts
  <2>3. x = First({a, b})
    <3> HIDE DEF x, a, b
    <3> QED BY <2>1 DEF First
  <2> QED BY <2>2, <2>3
<1> QED
  BY <1>1, GreedyStarts, GreedyKept, PTL DEF EngineSpec
=============================================================================
