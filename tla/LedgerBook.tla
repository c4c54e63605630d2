------------------------------ MODULE LedgerBook ------------------------------
(***************************************************************************)
(* What the ledger promises, without entries, keys or a list of holds: an  *)
(* account has a net balance (debits less credits) and an amount held.     *)
(* Postings touch open accounts only and add up to nothing, to the cent;   *)
(* funds are held only while the account's balance covers everything held  *)
(* on it; a hold is released without touching a balance.  Ledger           *)
(* implements this.                                                        *)
(***************************************************************************)
EXTENDS Integers, Functions

CONSTANTS
  Chart,          \* every account there may be
  DebitAccounts,  \* those whose balance is debits less credits
  Opening,        \* accounts open at the start
  Rounding        \* what one posting may be out of balance by

VARIABLES open, net, held

book == <<open, net, held>>

Balance(a) == IF a \in DebitAccounts THEN net[a] ELSE -net[a]

Open ==
  /\ \E a \in Chart \ open : open' = open \cup {a}
  /\ UNCHANGED <<net, held>>

\* A balanced entry on open accounts, or none.
Post ==
  LET moved == {a \in Chart : net'[a] # net[a]}
      sum   == SumFunction([a \in moved |-> net'[a] - net[a]])
  IN  moved \subseteq open /\ sum \in -Rounding .. Rounding

\* Funds are held that the balance, as it is after the step, covers.
Reserve(a) ==
  /\ held'[a] > held[a] /\ held'[a] <= Balance(a)'
  /\ \A b \in Chart \ {a} : held'[b] = held[b]

\* Holds end: captured, voided, or any number of them expired at once.
Release ==
  /\ \A a \in Chart : held'[a] \in 0 .. held[a]
  /\ UNCHANGED net

Init ==
  /\ open = Opening
  /\ net = [a \in Chart |-> 0]
  /\ held = [a \in Chart |-> 0]

Next ==
  \/ Open
  \/ /\ UNCHANGED open
     /\ \/ Release
        \/ Post /\ (UNCHANGED held \/ \E a \in Chart : Reserve(a))

Spec == Init /\ [][Next]_book
=============================================================================
