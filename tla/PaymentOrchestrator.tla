------------------------- MODULE PaymentOrchestrator -------------------------
(***************************************************************************)
(* PaymentOrchestrator of payment_orchestrator.py, shared by the workers   *)
(* that execute payments.  A call of process_payment is cut into steps     *)
(* where it talks to a processor or sleeps before a retry: other workers   *)
(* see and change the breakers and health scores in between.               *)
(*                                                                         *)
(* The processors are external.  They execute a payment at most once per   *)
(* idempotency key, may execute one whose answer gets lost, and answer a   *)
(* key they already executed with success, if the answer arrives.          *)
(***************************************************************************)
EXTENDS CircuitBreaker, FiniteSetsExt

CONSTANTS
  Workers,
  PSPs,
  Supported,   \* PSP |-> its adapter's supported_methods
  Routing,     \* method |-> <<primary, fallback>>
  Payments,    \* [key, method], what there is to be paid
  MaxRetries,  \* MAX_RETRIES, attempts per processor
  MaxCalls     \* bound on the calls of process_payment

VARIABLES
  circuit_breakers,  \* PSP |-> breaker
  healthy,           \* PSP |-> PSPHealthScore.is_healthy
  calls,             \* worker |-> where it is in process_payment
  results,           \* key |-> the responses its calls returned, in order
  charges            \* PSP |-> the keys it executed

vars == <<circuit_breakers, healthy, calls, results, charges>>

ASSUME OrchestratorAssumption ==
  /\ Supported \in [PSPs -> SUBSET DOMAIN Routing]
  /\ \A m \in DOMAIN Routing : Routing[m] \in PSPs \X PSPs
  /\ \A p \in Payments : p.method \in DOMAIN Routing
  /\ \A p, q \in Payments : p.key = q.key => p = q
  /\ MaxRetries \in Nat \ {0}
  /\ MaxCalls \in Nat

Keys == {p.key : p \in Payments}

Failure == [psp |-> "none", status |-> "failed"]
Success(psp) == [psp |-> psp, status |-> "success"]

\* A worker's call.  order: the processors not yet done with; attempt: how
\* many times the first of them was tried; pc: what comes next.
Idle == [pc |-> "idle"]

Call(pc, payment, order, attempt) ==
  [pc |-> pc, payment |-> payment, order |-> order, attempt |-> attempt]

Psp(w) == Head(calls[w].order)
Key(w) == calls[w].payment.key

\* The primary gets another chance when the fallback fails.
PspOrderAndBack(method) == <<Routing[method][1], Routing[method][2], Routing[method][1]>>

\* _get_psp_order
PspOrder(method) ==
  LET primary  == Routing[method][1]
      fallback == Routing[method][2]
  IN  IF ~ healthy[primary] /\ healthy[fallback]
        THEN <<fallback, primary>> ELSE <<primary, fallback>>

\* record_result.  The score weighs latencies, success and error rates of the
\* last hour: from one result to the next it may fall on either side of 0.8.
RecordResult(psp) == \E h \in BOOLEAN : healthy' = [healthy EXCEPT ![psp] = h]

-----------------------------------------------------------------------------
\* A payment is given to one worker at a time, and given out again after a
\* call that failed ("queued for retry").
InHands(key) == \E w \in Workers : calls[w] # Idle /\ Key(w) = key

Paid(key) == \E i \in DOMAIN results[key] : results[key][i].status = "success"

CallsMade ==
  MapThenSumSet(LAMBDA k : Len(results[k]), Keys) + Cardinality({w \in Workers : calls[w] # Idle})

ProcessPayment(w, payment) ==
  /\ calls[w] = Idle
  /\ ~ InHands(payment.key) /\ ~ Paid(payment.key)
  /\ CallsMade < MaxCalls
  /\ calls' = [calls EXCEPT ![w] = Call("next", payment, PspOrder(payment.method), 1)]
  /\ UNCHANGED <<circuit_breakers, healthy, results, charges>>

\* The head of the loop over the processors: can_execute, which may put the
\* breaker into half_open, and only then the test of the method.
AdmitsAnyMethod(w) == CanExecute(circuit_breakers[Psp(w)])

Admits(w) ==
  /\ CanExecute(circuit_breakers[Psp(w)])
  /\ calls[w].payment.method \in Supported[Psp(w)]

\* Where the loop goes on after a processor that was not admitted.
Waiting(order) == order

Skipping(order) == Tail(order)

NextPsp(w) ==
  /\ calls[w].pc = "next" /\ calls[w].order # <<>>
  /\ circuit_breakers' = [circuit_breakers EXCEPT ![Psp(w)] = AfterCanExecute(@)]
  /\ calls' = [calls EXCEPT ![w] =
       IF Admits(w) THEN [@ EXCEPT !.pc = "call", !.attempt = 1]
                    ELSE [@ EXCEPT !.order = Skipping(calls[w].order)]]
  /\ UNCHANGED <<healthy, results, charges>>

\* The loop is over: ALL_PSP_UNAVAILABLE.
GiveUp(w) ==
  /\ calls[w].pc = "next" /\ calls[w].order = <<>>
  /\ results' = [results EXCEPT ![Key(w)] = Append(@, Failure)]
  /\ calls' = [calls EXCEPT ![w] = Idle]
  /\ UNCHANGED <<circuit_breakers, healthy, charges>>

\* What a processor may make of a create_payment: it executed the payment,
\* before or now, or it did not, and this is the status the worker gets to
\* see ("timeout" also stands for an exception).
Outcomes(before) ==
  {o \in [status : {"success", "pending", "failed", "timeout"}, executed : BOOLEAN] :
     /\ o.status \in {"success", "pending"} => o.executed
     /\ o.status = "failed" => ~ o.executed
     /\ before => o.executed}

NotFailed(status) == status # "failed"

IsSuccess(status) == status = "success"

\* One round of _execute_with_retry: only a success ends it early.
Attempt(w) ==
  /\ calls[w].pc = "call"
  /\ \E o \in Outcomes(Key(w) \in charges[Psp(w)]) :
       /\ charges' = [charges EXCEPT ![Psp(w)] = IF o.executed THEN @ \cup {Key(w)} ELSE @]
       /\ calls' = [calls EXCEPT ![w] =
            IF IsSuccess(o.status) THEN [@ EXCEPT !.pc = "succeeded"]
            ELSE IF @.attempt < MaxRetries THEN [@ EXCEPT !.attempt = calls[w].attempt + 1]
            ELSE [@ EXCEPT !.pc = "failed"]]
  /\ UNCHANGED <<circuit_breakers, healthy, results>>

RecordSuccess(w) ==
  /\ calls[w].pc = "succeeded"
  /\ circuit_breakers' = [circuit_breakers EXCEPT ![Psp(w)] = Succeeded(@)]
  /\ RecordResult(Psp(w))
  /\ results' = [results EXCEPT ![Key(w)] = Append(@, Success(Psp(w)))]
  /\ calls' = [calls EXCEPT ![w] = Idle]
  /\ UNCHANGED charges

RecordFailure(w) ==
  /\ calls[w].pc = "failed"
  /\ circuit_breakers' = [circuit_breakers EXCEPT ![Psp(w)] = Failed(@)]
  /\ RecordResult(Psp(w))
  /\ calls' = [calls EXCEPT ![w] = [@ EXCEPT !.pc = "next", !.order = Tail(calls[w].order)]]
  /\ UNCHANGED <<results, charges>>

Tick ==
  /\ circuit_breakers' = [p \in PSPs |-> Aged(circuit_breakers[p])]
  /\ UNCHANGED <<healthy, calls, results, charges>>

-----------------------------------------------------------------------------
Init ==
  /\ circuit_breakers = [p \in PSPs |-> NewBreaker]
  /\ healthy = [p \in PSPs |-> TRUE]
  /\ calls = [w \in Workers |-> Idle]
  /\ results = [k \in Keys |-> <<>>]
  /\ charges = [p \in PSPs |-> {}]

Working(w) == NextPsp(w) \/ GiveUp(w) \/ Attempt(w) \/ RecordSuccess(w) \/ RecordFailure(w)

Next ==
  \/ \E w \in Workers, p \in Payments : ProcessPayment(w, p)
  \/ \E w \in Workers : NextPsp(w)
  \/ \E w \in Workers : GiveUp(w)
  \/ \E w \in Workers : Attempt(w)
  \/ \E w \in Workers : RecordSuccess(w)
  \/ \E w \in Workers : RecordFailure(w)
  \/ Tick

\* A worker that is in a call goes on with it: create_payment returns or
\* raises, sleeps end.  Nobody has to call process_payment, and time may stop.
Spec == Init /\ [][Next]_vars /\ \A w \in Workers : WF_vars(Working(w))

-----------------------------------------------------------------------------
(* Properties.                                                             *)

\* Every variable has its type; a worker has at most two processors left to
\* try, and has tried the first of them at most MaxRetries times.
TypeOK ==
  /\ circuit_breakers \in [PSPs -> Breaker]
  /\ healthy \in [PSPs -> BOOLEAN]
  /\ \A w \in Workers :
       \/ calls[w] = Idle
       \/ /\ calls[w].pc \in {"next", "call", "succeeded", "failed"}
          /\ calls[w].payment \in Payments
          /\ calls[w].order \in Seq(PSPs) /\ Len(calls[w].order) <= 2
          /\ calls[w].pc # "next" => calls[w].order # <<>>
          /\ calls[w].attempt \in 1 .. MaxRetries
  /\ results \in [Keys -> Seq([psp : PSPs \cup {"none"}, status : {"success", "failed"}])]
  /\ charges \in [PSPs -> SUBSET Keys]

\* A payment reported as successful was executed by the processor the
\* response names, whatever timed out or was pending on the way there.
SuccessWasExecuted ==
  \A k \in Keys : \A i \in DOMAIN results[k] :
    results[k][i].status = "success" => k \in charges[results[k][i].psp]

\* A processor only ever executes payments that are routed to it and that its
\* adapter supports, on a failover too.
ChargesFollowRouting ==
  \A psp \in PSPs, p \in Payments :
    p.key \in charges[psp] =>
      p.method \in Supported[psp] /\ psp \in {Routing[p.method][1], Routing[p.method][2]}

\* A closed breaker remembers fewer failures than would open it: a circuit
\* that was closed by a successful test starts from nothing, and no failure
\* of any worker goes uncounted.
ClosedIsBelowThreshold ==
  \A psp \in PSPs :
    circuit_breakers[psp].state = "closed" =>
      Len(circuit_breakers[psp].failures) < Threshold

Calling(psp, w) == calls[w] # Idle /\ calls[w].pc = "call" /\ Psp(w) = psp

\* An open circuit rests: until it has been open for the cooldown it stays
\* open and no worker turns to the processor, even when calls that were under
\* way before it opened come back with success.
OpenCircuitRests ==
  [][\A psp \in PSPs :
       circuit_breakers[psp].state = "open" /\ ~ Rested(circuit_breakers[psp]) =>
         /\ circuit_breakers'[psp].state = "open"
         /\ \A w \in Workers : Calling(psp, w)' => Calling(psp, w)]_vars

\* process_payment always returns: retries and failover come to an end.
CallsReturn == \A w \in Workers : calls[w] # Idle ~> calls[w] = Idle

\* "Safe retries without double-charging" (PRD, PAY-05): a payment is
\* executed by one processor at most.
NoDoubleCharge ==
  \A p, q \in PSPs : charges[p] \cap charges[q] # {} => p = q

\* "Failed test re-opens" (ROADMAP, circuit breaker): a failure recorded in
\* half_open opens the circuit.
FailedTestReopens ==
  [][\A w \in Workers :
       calls[w].pc = "failed" /\ calls'[w].pc # "failed"
         /\ circuit_breakers[Psp(w)].state = "half_open"
       => circuit_breakers'[Psp(w)].state = "open"]_vars
=============================================================================
