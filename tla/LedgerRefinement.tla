--------------------------- MODULE LedgerRefinement ---------------------------
(***************************************************************************)
(* The refinement mapping under which Ledger implements LedgerBook.        *)
(***************************************************************************)
EXTENDS Ledger

Book == INSTANCE LedgerBook WITH
  DebitAccounts <- {a \in Chart : DebitNormal(a)},
  Opening <- Bootstrap,
  Rounding <- 9,
  open <- accounts,
  net  <- [a \in Chart |-> NetPosted(a, journal_entries)],
  held <- [a \in Chart |-> ActiveHolds(a, holds)]

\* The ledger implements the book: every balance moves by balanced entries
\* on existing accounts only, and no hold is ever placed that the balance
\* does not cover (get_available_balance is what the user can spend).
ImplementsBook == Book!Spec
=============================================================================
