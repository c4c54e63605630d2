---------------------------- MODULE NachaGenerator ----------------------------
(***************************************************************************)
(* nacha_generator.py: the control totals of an ACH file.  The generator   *)
(* keeps nothing between files; the layout of the records is left out.     *)
(* The amount of an entry is a whole number, which the file gives as cents.*)
(***************************************************************************)
EXTENDS Integers, Sequences, SeqSums

\* Transaction codes, as this code uses them.
Debit == "22"
Credit == "32"

\* int() of a Decimal of two places, given in hundredths: it drops the fraction.
WholeOf(hundredths) ==
  IF hundredths >= 0 THEN hundredths \div 100 ELSE - ((- hundredths) \div 100)

\* An entry of create_sample_nacha_batch.  It takes the amount for cents,
\* whatever unit its caller counts in.
NachaEntry(user, hundredths) ==
  [transaction_code |-> Credit, user |-> user, amount |-> WholeOf(hundredths)]

AmountsWith(entries, codes) ==
  Total([i \in DOMAIN entries |->
    IF entries[i].transaction_code \in codes THEN entries[i].amount ELSE 0])

AmountsWithout(entries, codes) ==
  Total([i \in DOMAIN entries |->
    IF entries[i].transaction_code \in codes THEN 0 ELSE entries[i].amount])

\* get_batch_control: one list of codes for each total.
BatchControl(entries) ==
  [entry_count |-> Len(entries),
   debit_total |-> AmountsWith(entries, {Debit}),
   credit_total |-> AmountsWith(entries, {Credit})]

\* to_records: header, entries, control.
RecordsOf(batches) == 2 + Total([b \in DOMAIN batches |-> 2 + Len(batches[b])])

\* generate_file numbers the batches in their order and adds up the entries;
\* every code but a debit's counts as a credit here.
GenerateFile(batches) ==
  [controls |-> [b \in DOMAIN batches |-> BatchControl(batches[b])],
   batch_count |-> Len(batches),
   record_count |-> RecordsOf(batches),
   total_debits |-> Total([b \in DOMAIN batches |-> AmountsWith(batches[b], {Debit})]),
   total_credits |-> Total([b \in DOMAIN batches |-> AmountsWithout(batches[b], {Debit})])]
=============================================================================
