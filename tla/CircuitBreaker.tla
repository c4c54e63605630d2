---------------------------- MODULE CircuitBreaker ----------------------------
(***************************************************************************)
(* The circuit breaker of one payment processor (payment_orchestrator.py), *)
(* as operators on its record.  Times are ages in ticks: how long ago a    *)
(* failure, or the last change of state, was.                              *)
(***************************************************************************)
EXTENDS Integers, Sequences

CONSTANTS
  Threshold,  \* failure_threshold
  Window,     \* failure_window_seconds, in ticks
  Cooldown    \* cooldown_seconds, in ticks

ASSUME BreakerAssumption ==
  /\ Threshold \in Nat \ {0}
  /\ Window \in Nat
  /\ Cooldown \in Nat

States == {"closed", "open", "half_open"}

\* failures is the deque, oldest first.  since is how long the circuit has
\* been open: last_state_change is read in no other state.  An age beyond
\* Window, or a time beyond Cooldown, is as good as any larger one.
Breaker == [state : States, failures : Seq(0 .. Window + 1), since : 0 .. Cooldown]

NewBreaker == [state |-> "closed", failures |-> <<>>, since |-> Cooldown]

Rested(b) == b.since >= Cooldown

\* can_execute: the answer, and the breaker it leaves behind.
CanExecute(b) == b.state # "open" \/ Rested(b)

AfterCanExecute(b) ==
  IF b.state = "open" /\ Rested(b)
    THEN [b EXCEPT !.state = "half_open"] ELSE b

KeepsFailures(b) ==
  IF b.state = "half_open" THEN [b EXCEPT !.state = "closed"] ELSE b

ClosesAlways(b) == [b EXCEPT !.state = "closed", !.failures = <<>>]

\* record_success
Succeeded(b) ==
  IF b.state = "half_open"
    THEN [b EXCEPT !.state = "closed", !.failures = <<>>] ELSE b

\* The eviction loop stops at the first failure that is not older than the
\* window, so it only ever drops a prefix.
Recent(failures) ==
  LET kept == {i \in DOMAIN failures : failures[i] <= Window}
  IN  IF kept = {} THEN <<>>
      ELSE SubSeq(failures, CHOOSE i \in kept : \A j \in kept : i <= j, Len(failures))

\* record_failure
Failed(b) ==
  LET failures == Recent(Append(b.failures, 0))
  IN  IF Len(failures) >= Threshold
        THEN [state |-> "open", failures |-> failures, since |-> 0]
        ELSE [b EXCEPT !.failures = failures]

\* A tick later.
Grow(age, limit) == IF age < limit THEN age + 1 ELSE age

Aged(b) ==
  [b EXCEPT !.failures = [i \in DOMAIN @ |-> Grow(@[i], Window + 1)],
            !.since = Grow(@, Cooldown)]
=============================================================================
