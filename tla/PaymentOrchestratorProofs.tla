---------------------- MODULE PaymentOrchestratorProofs ----------------------
(***************************************************************************)
(* Theorems about PaymentOrchestrator for any number of workers, any       *)
(* processors, routing table and payments, and any threshold, window and   *)
(* cooldown: what a success means, where payments go, and what the         *)
(* breakers remember.                                                      *)
(***************************************************************************)
EXTENDS PaymentOrchestrator, SeqSumsProofs

-----------------------------------------------------------------------------
(* One breaker.                                                            *)

Ages == 0 .. Window + 1

\* What ClosedIsBelowThreshold says of one breaker.
Below(b) == b.state = "closed" => Len(b.failures) < Threshold

\* Evicting old failures leaves a sequence of failures.
LEMMA RecentType ==
  ASSUME NEW f \in Seq(Ages)
  PROVE  Recent(f) \in Seq(Ages)
<1> DEFINE kept == {i \in DOMAIN f : f[i] <= Window}
<1>1. CASE kept = {}
  BY <1>1 DEF Recent
<1>2. CASE kept # {}
  <2> DEFINE first == CHOOSE i \in kept : \A j \in kept : i <= j
  <2>1. DOMAIN f = 1 .. Len(f) /\ Len(f) \in Nat
    OBVIOUS
  <2>2. kept \subseteq Nat
    BY <2>1
  <2>3. \E i \in kept : \A j \in kept : i <= j
    <3> HIDE DEF kept
    <3> QED BY <1>2, <2>2, LeastElement
  <2>4. first \in kept
    <3> HIDE DEF kept
    <3> QED BY <2>3
  <2>5. first \in 1 .. Len(f)
    BY <2>1, <2>4
  <2>6. Recent(f) = SubSeq(f, first, Len(f))
    BY <1>2 DEF Recent
  <2>7. SubSeq(f, first, Len(f)) \in Seq(Ages)
    <3> HIDE DEF first
    <3>1. \A i \in first .. Len(f) : f[i] \in Ages
      BY <2>1, <2>5
    <3> QED BY <2>1, <2>5, <3>1, SubSeqProperties
  <2> QED BY <2>6, <2>7
<1> QED BY <1>1, <1>2

\* Ageing keeps the failures and their number.
LEMMA GrownType ==
  ASSUME NEW f \in Seq(Ages)
  PROVE  LET g == [i \in DOMAIN f |-> Grow(f[i], Window + 1)]
         IN  g \in Seq(Ages) /\ Len(g) = Len(f)
<1> DEFINE g == [i \in DOMAIN f |-> Grow(f[i], Window + 1)]
<1>1. DOMAIN f = 1 .. Len(f) /\ Len(f) \in Nat
  OBVIOUS
<1>2. \A i \in 1 .. Len(f) : f[i] \in Ages
  OBVIOUS
<1>3. \A i \in 1 .. Len(f) : Grow(f[i], Window + 1) \in Ages
  BY <1>2, BreakerAssumption DEF Grow, Ages
<1>4. g \in [1 .. Len(f) -> Ages]
  BY <1>1, <1>3
<1> QED BY <1>1, <1>4

\* can_execute, record_success, record_failure and time keep a breaker a
\* breaker that, when closed, is below the threshold.
LEMMA AdmittingKeeps ==
  ASSUME NEW b \in Breaker, Below(b)
  PROVE  AfterCanExecute(b) \in Breaker /\ Below(AfterCanExecute(b))
BY DEF AfterCanExecute, Breaker, Below, States

LEMMA SucceedingKeeps ==
  ASSUME NEW b \in Breaker, Below(b)
  PROVE  Succeeded(b) \in Breaker /\ Below(Succeeded(b))
<1>1. CASE b.state = "half_open"
  <2> DEFINE c == [b EXCEPT !.state = "closed", !.failures = <<>>]
  <2>1. c \in Breaker
    <3>1. <<>> \in Seq(0 .. Window + 1)
      OBVIOUS
    <3> QED BY <3>1 DEF Breaker, States
  <2>2. c.failures = <<>>
    BY DEF Breaker
  <2>3. Len(c.failures) = 0 /\ 0 < Threshold
    BY <2>2, BreakerAssumption
  <2> QED BY <1>1, <2>1, <2>3 DEF Succeeded, Below
<1>2. CASE b.state # "half_open"
  BY <1>2 DEF Succeeded
<1> QED BY <1>1, <1>2

LEMMA FailingKeeps ==
  ASSUME NEW b \in Breaker, Below(b)
  PROVE  Failed(b) \in Breaker /\ Below(Failed(b))
<1> DEFINE f == Recent(Append(b.failures, 0))
<1>1. b.failures \in Seq(Ages)
  BY DEF Breaker, Ages
<1>2. 0 \in Ages
  BY BreakerAssumption DEF Ages
<1>3. f \in Seq(Ages)
  BY <1>1, <1>2, RecentType, AppendProperties
<1>4. Failed(b) = IF Len(f) >= Threshold
                    THEN [state |-> "open", failures |-> f, since |-> 0]
                    ELSE [b EXCEPT !.failures = f]
  BY DEF Failed
<1> HIDE DEF f
<1>5. Len(f) \in Nat
  BY <1>3
<1>6. CASE Len(f) >= Threshold
  BY <1>3, <1>4, <1>6, BreakerAssumption DEF Breaker, States, Below, Ages
<1>7. CASE ~ Len(f) >= Threshold
  <2>1. Failed(b) = [b EXCEPT !.failures = f]
    BY <1>4, <1>7
  <2>2. Failed(b) \in Breaker
    BY <1>3, <2>1 DEF Breaker, Ages
  <2>3. Failed(b).failures = f
    BY <2>1 DEF Breaker
  <2> QED BY <1>5, <1>7, <2>2, <2>3, BreakerAssumption DEF Below
<1> QED BY <1>6, <1>7

LEMMA AgeingKeeps ==
  ASSUME NEW b \in Breaker, Below(b)
  PROVE  Aged(b) \in Breaker /\ Below(Aged(b))
<1> DEFINE g == [i \in DOMAIN b.failures |-> Grow(b.failures[i], Window + 1)]
<1>1. b.failures \in Seq(Ages)
  BY DEF Breaker, Ages
<1>2. g \in Seq(Ages) /\ Len(g) = Len(b.failures)
  BY <1>1, GrownType
<1>3. Grow(b.since, Cooldown) \in 0 .. Cooldown
  BY BreakerAssumption DEF Breaker, Grow
<1>4. Aged(b) = [b EXCEPT !.failures = g, !.since = Grow(b.since, Cooldown)]
  BY DEF Aged, Breaker
<1> HIDE DEF g
<1>5. Aged(b) \in Breaker
  BY <1>2, <1>3, <1>4 DEF Breaker, Ages
<1>6. Aged(b).state = b.state /\ Aged(b).failures = g
  BY <1>4 DEF Breaker
<1> QED BY <1>2, <1>5, <1>6 DEF Below

\* An open breaker that has not rested admits nobody and stays open.
LEMMA OpenStays ==
  ASSUME NEW b \in Breaker, b.state = "open", ~ Rested(b)
  PROVE  /\ ~ CanExecute(b)
         /\ AfterCanExecute(b).state = "open"
         /\ Succeeded(b).state = "open"
         /\ Failed(b).state = "open"
         /\ Aged(b).state = "open"
<1>1. ~ CanExecute(b) /\ AfterCanExecute(b) = b /\ Succeeded(b) = b
  BY DEF CanExecute, AfterCanExecute, Succeeded
<1>2. Failed(b).state = "open"
  BY DEF Failed, Breaker
<1>3. Aged(b).state = "open"
  BY DEF Aged, Breaker
<1> QED BY <1>1, <1>2, <1>3

-----------------------------------------------------------------------------
(* The orchestrator.                                                       *)

InCall ==
  [pc : {"next", "call", "succeeded", "failed"}, payment : Payments,
   order : Seq(PSPs), attempt : 1 .. MaxRetries]

Response == [psp : PSPs \cup {"none"}, status : {"success", "failed"}]

Types ==
  /\ circuit_breakers \in [PSPs -> Breaker]
  /\ healthy \in [PSPs -> BOOLEAN]
  /\ calls \in [Workers -> {Idle} \cup InCall]
  /\ results \in [Keys -> Seq(Response)]
  /\ charges \in [PSPs -> SUBSET Keys]

Routed(method) == {Routing[method][1], Routing[method][2]}

\* A call goes to processors its payment is routed to.  Once past the tests
\* at the head of the loop the first of them supports the method, and when it
\* answered with success it executed the payment.
SoundCall(c, charged) ==
  /\ Len(c.order) <= 2
  /\ \A i \in DOMAIN c.order : c.order[i] \in Routed(c.payment.method)
  /\ c.pc # "next" => c.order # <<>> /\ c.payment.method \in Supported[Head(c.order)]
  /\ c.pc = "succeeded" => c.payment.key \in charged[Head(c.order)]

CallsSound == \A w \in Workers : calls[w] # Idle => SoundCall(calls[w], charges)

\* SuccessWasExecuted, and that the processor is one.
SuccessSound(responses, key, charged) ==
  \A i \in DOMAIN responses :
    responses[i].status = "success" =>
      responses[i].psp \in PSPs /\ key \in charged[responses[i].psp]

ResultsSound == \A k \in Keys : SuccessSound(results[k], k, charges)

BreakersSound == \A psp \in PSPs : Below(circuit_breakers[psp])

IInv == Types /\ CallsSound /\ ResultsSound /\ ChargesFollowRouting /\ BreakersSound

\* Idle is no call.
LEMMA IdleOrCall ==
  ASSUME NEW c \in {Idle} \cup InCall, c.pc # "idle"
  PROVE  c \in InCall /\ c # Idle
BY DEF Idle

LEMMA CallIsNotIdle ==
  ASSUME NEW c \in InCall
  PROVE  c # Idle
<1>1. c.pc # "idle"
  BY DEF InCall
<1> QED BY <1>1 DEF Idle

\* What a call is made of.
LEMMA CallFields ==
  ASSUME NEW c \in InCall
  PROVE  /\ c.pc \in {"next", "call", "succeeded", "failed"}
         /\ c.payment \in Payments
         /\ c.order \in Seq(PSPs)
         /\ c.attempt \in 1 .. MaxRetries
         /\ c.payment.key \in Keys
         /\ c.payment.method \in DOMAIN Routing
BY OrchestratorAssumption DEF InCall, Keys

\* Charging more processors takes nothing away.
LEMMA ChargingKeeps ==
  ASSUME NEW before, NEW after,
         \A psp \in PSPs : before[psp] \subseteq after[psp]
  PROVE  /\ \A c \in InCall : SoundCall(c, before) => SoundCall(c, after)
         /\ \A r \in Seq(Response), k \in Keys :
              SuccessSound(r, k, before) => SuccessSound(r, k, after)
<1>1. ASSUME NEW c \in InCall, SoundCall(c, before)
      PROVE  SoundCall(c, after)
  <2>1. CASE c.pc = "succeeded"
    <3>1. c.order \in Seq(PSPs) /\ c.order # <<>>
      BY <1>1, <2>1, CallFields DEF SoundCall
    <3>2. Head(c.order) \in PSPs
      BY <3>1, HeadTailProperties
    <3> QED BY <1>1, <2>1, <3>2 DEF SoundCall
  <2>2. CASE c.pc # "succeeded"
    BY <1>1, <2>2 DEF SoundCall
  <2> QED BY <2>1, <2>2
<1>2. ASSUME NEW r \in Seq(Response), NEW k \in Keys, SuccessSound(r, k, before)
      PROVE  SuccessSound(r, k, after)
  BY <1>2 DEF SuccessSound
<1> QED BY <1>1, <1>2

\* The processors a new call may go to are those of its route.
LEMMA PspOrderType ==
  ASSUME Types, NEW m \in DOMAIN Routing
  PROVE  /\ PspOrder(m) \in Seq(PSPs)
         /\ Len(PspOrder(m)) = 2
         /\ \A i \in DOMAIN PspOrder(m) : PspOrder(m)[i] \in Routed(m)
<1> DEFINE a == Routing[m][1]
           b == Routing[m][2]
<1>1. a \in PSPs /\ b \in PSPs
  BY OrchestratorAssumption
<1>2. PspOrder(m) = <<a, b>> \/ PspOrder(m) = <<b, a>>
  BY DEF PspOrder
<1>3. Routed(m) = {a, b}
  BY DEF Routed
<1> HIDE DEF a, b
<1>4. CASE PspOrder(m) = <<a, b>>
  <2> DEFINE o == <<a, b>>
  <2>1. o \in Seq(PSPs) /\ Len(o) = 2 /\ DOMAIN o = 1 .. 2 /\ o[1] = a /\ o[2] = b
    BY <1>1
  <2> HIDE DEF o
  <2>2. \A i \in DOMAIN o : o[i] \in Routed(m)
    BY <1>3, <2>1
  <2> QED BY <1>4, <2>1, <2>2 DEF o
<1>5. CASE PspOrder(m) = <<b, a>>
  <2> DEFINE o == <<b, a>>
  <2>1. o \in Seq(PSPs) /\ Len(o) = 2 /\ DOMAIN o = 1 .. 2 /\ o[1] = b /\ o[2] = a
    BY <1>1
  <2> HIDE DEF o
  <2>2. \A i \in DOMAIN o : o[i] \in Routed(m)
    BY <1>3, <2>1
  <2> QED BY <1>5, <2>1, <2>2 DEF o
<1> QED BY <1>2, <1>4, <1>5

\* Going on to the next processor.
LEMMA TailSound ==
  ASSUME NEW c \in InCall, NEW d \in InCall, NEW charged,
         Len(c.order) <= 2, c.order # <<>>,
         \A i \in DOMAIN c.order : c.order[i] \in Routed(c.payment.method),
         d.pc = "next", d.payment = c.payment, d.order = Tail(c.order)
  PROVE  SoundCall(d, charged)
<1>1. c.order \in Seq(PSPs)
  BY CallFields
<1>2. /\ Len(Tail(c.order)) = Len(c.order) - 1
      /\ \A i \in 1 .. Len(Tail(c.order)) : Tail(c.order)[i] = c.order[i + 1]
      /\ Tail(c.order) \in Seq(PSPs)
  BY <1>1, HeadTailProperties
<1>3. \A i \in DOMAIN d.order : d.order[i] \in Routed(d.payment.method)
  BY <1>1, <1>2
<1>4. Len(d.order) <= 2
  BY <1>1, <1>2
<1> QED BY <1>3, <1>4 DEF SoundCall

-----------------------------------------------------------------------------
(* The steps.                                                              *)

LEMMA InitSound == Init => IInv
<1> SUFFICES ASSUME Init PROVE IInv
  OBVIOUS
<1>1. NewBreaker \in Breaker /\ Below(NewBreaker)
  <2>1. <<>> \in Seq(0 .. Window + 1)
    OBVIOUS
  <2> QED BY <2>1, BreakerAssumption DEF NewBreaker, Breaker, States, Below
<1>2. Types
  <2>1. <<>> \in Seq(Response)
    OBVIOUS
  <2> QED BY <1>1, <2>1 DEF Init, Types
<1>3. CallsSound
  BY DEF Init, CallsSound
<1>4. ResultsSound
  BY DEF Init, ResultsSound, SuccessSound
<1>5. ChargesFollowRouting
  BY DEF Init, ChargesFollowRouting
<1>6. BreakersSound
  BY <1>1 DEF Init, BreakersSound
<1> QED BY <1>2, <1>3, <1>4, <1>5, <1>6 DEF IInv

\* When only one call and perhaps the breakers and scores change, the new
\* call has to be sound.
LEMMA OneCallChanges ==
  ASSUME IInv, NEW w \in Workers, NEW c \in {Idle} \cup InCall,
         calls' = [calls EXCEPT ![w] = c],
         c # Idle => SoundCall(c, charges),
         circuit_breakers' \in [PSPs -> Breaker],
         \A psp \in PSPs : Below(circuit_breakers'[psp]),
         healthy' \in [PSPs -> BOOLEAN],
         results' \in [Keys -> Seq(Response)],
         \A k \in Keys : SuccessSound(results'[k], k, charges),
         UNCHANGED charges
  PROVE  IInv'
<1>1. calls' \in [Workers -> {Idle} \cup InCall] /\ calls'[w] = c
  BY DEF IInv, Types
<1>2. Types'
  BY <1>1 DEF IInv, Types
<1>3. CallsSound'
  <2> SUFFICES ASSUME NEW v \in Workers, calls'[v] # Idle PROVE SoundCall(calls'[v], charges)
    BY DEF CallsSound
  <2>1. CASE v = w
    BY <1>1, <2>1
  <2>2. CASE v # w
    BY <2>2 DEF IInv, Types, CallsSound
  <2> QED BY <2>1, <2>2
<1>4. ResultsSound'
  BY DEF ResultsSound
<1>5. ChargesFollowRouting'
  BY DEF IInv, ChargesFollowRouting
<1>6. BreakersSound'
  BY DEF BreakersSound
<1> QED BY <1>2, <1>3, <1>4, <1>5, <1>6 DEF IInv

LEMMA ProcessPaymentKeeps ==
  ASSUME IInv, NEW w \in Workers, NEW p \in Payments, ProcessPayment(w, p)
  PROVE  IInv'
<1> DEFINE c == Call("next", p, PspOrder(p.method), 1)
<1>1. p.method \in DOMAIN Routing
  BY OrchestratorAssumption
<1>2. /\ PspOrder(p.method) \in Seq(PSPs)
      /\ Len(PspOrder(p.method)) = 2
      /\ \A i \in DOMAIN PspOrder(p.method) : PspOrder(p.method)[i] \in Routed(p.method)
  BY <1>1, PspOrderType DEF IInv
<1>3. c \in InCall
  BY <1>2, OrchestratorAssumption DEF Call, InCall
<1>4. SoundCall(c, charges)
  <2>1. c.pc = "next" /\ c.payment = p /\ c.order = PspOrder(p.method)
    BY DEF Call
  <2> HIDE DEF c
  <2> QED BY <1>2, <2>1 DEF SoundCall
<1>5. /\ circuit_breakers' = circuit_breakers /\ healthy' = healthy
      /\ results' = results /\ UNCHANGED charges
      /\ calls' = [calls EXCEPT ![w] = c]
  BY DEF ProcessPayment
<1> HIDE DEF c
<1> QED BY <1>3, <1>4, <1>5, OneCallChanges DEF IInv, Types, ResultsSound, BreakersSound

\* The call an action goes on with.
LEMMA CallAtWork ==
  ASSUME IInv, NEW w \in Workers, calls[w].pc # "idle"
  PROVE  /\ calls[w] \in InCall
         /\ calls[w] # Idle
         /\ SoundCall(calls[w], charges)
         /\ Key(w) \in Keys
         /\ calls[w].order # <<>> => Psp(w) \in PSPs
<1>1. calls[w] \in InCall /\ calls[w] # Idle
  BY IdleOrCall DEF IInv, Types
<1>2. SoundCall(calls[w], charges)
  BY <1>1 DEF IInv, CallsSound
<1>3. calls[w].order \in Seq(PSPs) /\ calls[w].payment.key \in Keys
  BY <1>1, CallFields
<1>4. calls[w].order # <<>> => Head(calls[w].order) \in PSPs
  BY <1>3, HeadTailProperties
<1> QED BY <1>1, <1>2, <1>3, <1>4 DEF Key, Psp

LEMMA NextPspKeeps ==
  ASSUME IInv, NEW w \in Workers, NextPsp(w)
  PROVE  IInv'
<1> DEFINE c == calls[w]
           b == circuit_breakers[Psp(w)]
<1>1. c.pc = "next" /\ c.order # <<>>
  BY DEF NextPsp
<1>2. c \in InCall /\ SoundCall(c, charges) /\ Psp(w) \in PSPs
  BY <1>1, CallAtWork
<1>3. b \in Breaker /\ Below(b)
  BY <1>2 DEF IInv, Types, BreakersSound
<1>4. AfterCanExecute(b) \in Breaker /\ Below(AfterCanExecute(b))
  <2> HIDE DEF b
  <2> QED BY <1>3, AdmittingKeeps
<1>5. circuit_breakers' = [circuit_breakers EXCEPT ![Psp(w)] = AfterCanExecute(b)]
  BY DEF NextPsp
<1>6. circuit_breakers' \in [PSPs -> Breaker] /\ \A psp \in PSPs : Below(circuit_breakers'[psp])
  <2> HIDE DEF b
  <2> QED BY <1>2, <1>4, <1>5 DEF IInv, Types, BreakersSound
<1>7. healthy' = healthy /\ results' = results /\ UNCHANGED charges
  BY DEF NextPsp
<1>8. CASE Admits(w)
  <2> DEFINE d == [c EXCEPT !.pc = "call", !.attempt = 1]
  <2>1. d \in InCall
    <3>1. 1 \in 1 .. MaxRetries
      BY OrchestratorAssumption
    <3> HIDE DEF c
    <3> QED BY <1>2, <3>1 DEF InCall
  <2>2. d.pc = "call" /\ d.payment = c.payment /\ d.order = c.order
    BY <1>2 DEF InCall
  <2>3. c.payment.method \in Supported[Head(c.order)]
    BY <1>8 DEF Admits, Psp
  <2>4. calls' = [calls EXCEPT ![w] = d]
    BY <1>8 DEF NextPsp
  <2> HIDE DEF c, d
  <2>5. SoundCall(d, charges)
    BY <1>1, <1>2, <2>2, <2>3 DEF SoundCall
  <2> QED BY <1>6, <1>7, <2>1, <2>4, <2>5, OneCallChanges DEF IInv, Types, ResultsSound
<1>9. CASE ~ Admits(w)
  <2> DEFINE d == [c EXCEPT !.order = Tail(c.order)]
  <2>1. c.order \in Seq(PSPs)
    BY <1>2, CallFields
  <2>2. Tail(c.order) \in Seq(PSPs)
    BY <1>1, <2>1, HeadTailProperties
  <2>3. d \in InCall /\ d.pc = "next" /\ d.payment = c.payment /\ d.order = Tail(c.order)
    BY <1>1, <1>2, <2>2 DEF InCall
  <2>4. calls' = [calls EXCEPT ![w] = d]
    BY <1>9 DEF NextPsp, Skipping
  <2> HIDE DEF c, d
  <2>5. SoundCall(d, charges)
    BY <1>1, <1>2, <2>3, TailSound DEF SoundCall
  <2> QED BY <1>6, <1>7, <2>3, <2>4, <2>5, OneCallChanges DEF IInv, Types, ResultsSound
<1> QED BY <1>8, <1>9

\* Another response: a success has to name a processor that executed it.
LEMMA ResponseKeeps ==
  ASSUME IInv, NEW k \in Keys, NEW r \in Response,
         r.status = "success" => r.psp \in PSPs /\ k \in charges[r.psp],
         results' = [results EXCEPT ![k] = Append(results[k], r)]
  PROVE  /\ results' \in [Keys -> Seq(Response)]
         /\ \A l \in Keys : SuccessSound(results'[l], l, charges)
<1>1. results[k] \in Seq(Response)
  BY DEF IInv, Types
<1>2. Append(results[k], r) \in Seq(Response)
  BY <1>1, AppendProperties
<1>3. results' \in [Keys -> Seq(Response)]
  BY <1>2 DEF IInv, Types
<1>4. ASSUME NEW l \in Keys PROVE SuccessSound(results'[l], l, charges)
  <2>1. SuccessSound(results[l], l, charges)
    BY DEF IInv, ResultsSound
  <2>2. CASE l = k
    <3>1. results'[l] = Append(results[k], r)
      BY <2>2 DEF IInv, Types
    <3> SUFFICES ASSUME NEW i \in DOMAIN Append(results[k], r),
                        Append(results[k], r)[i].status = "success"
                 PROVE  LET s == Append(results[k], r)[i]
                        IN  s.psp \in PSPs /\ k \in charges[s.psp]
      BY <2>2, <3>1 DEF SuccessSound
    <3>2. CASE i = Len(results[k]) + 1
      <4>1. Append(results[k], r)[i] = r
        BY <1>1, <3>2
      <4> QED BY <4>1
    <3>3. CASE i # Len(results[k]) + 1
      <4>1. i \in DOMAIN results[k] /\ Append(results[k], r)[i] = results[k][i]
        BY <1>1, <3>3
      <4> QED BY <2>1, <2>2, <4>1 DEF SuccessSound
    <3> QED BY <3>2, <3>3
  <2>3. CASE l # k
    BY <2>1, <2>3 DEF IInv, Types
  <2> QED BY <2>2, <2>3
<1> QED BY <1>3, <1>4

LEMMA GiveUpKeeps ==
  ASSUME IInv, NEW w \in Workers, GiveUp(w)
  PROVE  IInv'
<1>1. Key(w) \in Keys
  BY CallAtWork DEF GiveUp
<1>2. Failure \in Response /\ Failure.status # "success"
  BY DEF Failure, Response
<1>3. results' = [results EXCEPT ![Key(w)] = Append(results[Key(w)], Failure)]
  BY DEF GiveUp
<1>4. /\ results' \in [Keys -> Seq(Response)]
      /\ \A l \in Keys : SuccessSound(results'[l], l, charges)
  BY <1>1, <1>2, <1>3, ResponseKeeps
<1>5. /\ calls' = [calls EXCEPT ![w] = Idle]
      /\ circuit_breakers' = circuit_breakers /\ healthy' = healthy /\ UNCHANGED charges
  BY DEF GiveUp
<1> QED BY <1>4, <1>5, OneCallChanges DEF IInv, Types, BreakersSound

LEMMA AttemptKeeps ==
  ASSUME IInv, NEW w \in Workers, Attempt(w)
  PROVE  IInv'
<1> DEFINE c == calls[w]
<1>1. c.pc = "call" /\ UNCHANGED <<circuit_breakers, healthy, results>>
  BY DEF Attempt
<1>2. c \in InCall /\ c # Idle /\ SoundCall(c, charges)
  BY <1>1, CallAtWork
<1>3. c.order # <<>> /\ c.payment.method \in Supported[Psp(w)]
  BY <1>1, <1>2 DEF SoundCall, Psp
<1>4. Psp(w) \in PSPs /\ Key(w) \in Keys
  BY <1>1, <1>3, CallAtWork
<1>5. Psp(w) \in Routed(c.payment.method)
  <2>1. c.order \in Seq(PSPs)
    BY <1>2, CallFields
  <2>2. 1 \in DOMAIN c.order /\ Head(c.order) = c.order[1]
    BY <1>3, <2>1
  <2> QED BY <1>2, <2>2 DEF SoundCall, Psp
<1>6. PICK o \in Outcomes(Key(w) \in charges[Psp(w)]) :
        /\ charges' = [charges EXCEPT ![Psp(w)] = IF o.executed THEN @ \cup {Key(w)} ELSE @]
        /\ calls' = [calls EXCEPT ![w] =
             IF IsSuccess(o.status) THEN [@ EXCEPT !.pc = "succeeded"]
             ELSE IF @.attempt < MaxRetries THEN [@ EXCEPT !.attempt = calls[w].attempt + 1]
             ELSE [@ EXCEPT !.pc = "failed"]]
  BY DEF Attempt
<1>7. IsSuccess(o.status) => o.executed
  BY DEF Outcomes, IsSuccess
<1>8. /\ charges' \in [PSPs -> SUBSET Keys]
      /\ \A psp \in PSPs : charges[psp] \subseteq charges'[psp]
      /\ o.executed => Key(w) \in charges'[Psp(w)]
      /\ \A psp \in PSPs : \A k \in charges'[psp] :
           k \in charges[psp] \/ (psp = Psp(w) /\ k = Key(w))
  BY <1>4, <1>6 DEF IInv, Types
<1>9. /\ calls' \in [Workers -> {Idle} \cup InCall]
      /\ calls'[w] \in InCall
      /\ calls'[w].order = c.order /\ calls'[w].payment = c.payment
      /\ calls'[w].pc \in {"call", "succeeded", "failed"}
      /\ calls'[w].pc = "succeeded" => IsSuccess(o.status)
      /\ \A v \in Workers : v # w => calls'[v] = calls[v]
  <2> DEFINE d == IF IsSuccess(o.status) THEN [c EXCEPT !.pc = "succeeded"]
                  ELSE IF c.attempt < MaxRetries THEN [c EXCEPT !.attempt = c.attempt + 1]
                  ELSE [c EXCEPT !.pc = "failed"]
  <2>1. calls' = [calls EXCEPT ![w] = d]
    BY <1>6
  <2>2. /\ d \in InCall
        /\ d.order = c.order /\ d.payment = c.payment
        /\ d.pc \in {"call", "succeeded", "failed"}
        /\ d.pc = "succeeded" => IsSuccess(o.status)
    <3> HIDE DEF c
    <3>1. c.attempt \in 1 .. MaxRetries
      BY <1>2, CallFields
    <3>2. c.attempt < MaxRetries => c.attempt + 1 \in 1 .. MaxRetries
      BY <3>1, OrchestratorAssumption
    <3>3. CASE IsSuccess(o.status)
      BY <1>2, <3>3 DEF InCall
    <3>4. CASE ~ IsSuccess(o.status) /\ c.attempt < MaxRetries
      BY <1>1, <1>2, <3>2, <3>4 DEF InCall
    <3>5. CASE ~ IsSuccess(o.status) /\ ~ c.attempt < MaxRetries
      BY <1>2, <3>5 DEF InCall
    <3> QED BY <3>3, <3>4, <3>5
  <2> HIDE DEF d, c
  <2> QED BY <2>1, <2>2 DEF IInv, Types
<1>10. Types'
  BY <1>1, <1>8, <1>9 DEF IInv, Types
<1>11. CallsSound'
  <2> SUFFICES ASSUME NEW v \in Workers, calls'[v] # Idle
               PROVE  SoundCall(calls'[v], charges')
    BY DEF CallsSound
  <2>1. CASE v = w
    <3>1. SoundCall(c, charges) /\ c.order # <<>>
      BY <1>2, <1>3
    <3>2. calls'[w].pc = "succeeded" => c.payment.key \in charges'[Head(c.order)]
      BY <1>7, <1>8, <1>9 DEF Key, Psp
    <3>3. c.payment.method \in Supported[Head(c.order)]
      BY <1>3 DEF Psp
    <3> HIDE DEF c
    <3> QED BY <1>9, <2>1, <3>1, <3>2, <3>3 DEF SoundCall
  <2>2. CASE v # w
    <3>1. calls[v] \in InCall /\ SoundCall(calls[v], charges) /\ calls'[v] = calls[v]
      BY <1>9, <2>2 DEF IInv, Types, CallsSound
    <3> QED BY <1>8, <3>1, ChargingKeeps
  <2> QED BY <2>1, <2>2
<1>12. ResultsSound'
  <2> SUFFICES ASSUME NEW k \in Keys
               PROVE  SuccessSound(results[k], k, charges')
    BY <1>1 DEF ResultsSound
  <2>1. results[k] \in Seq(Response) /\ SuccessSound(results[k], k, charges)
    BY DEF IInv, Types, ResultsSound
  <2> QED BY <1>8, <2>1, ChargingKeeps
<1>13. ChargesFollowRouting'
  <2> SUFFICES ASSUME NEW psp \in PSPs, NEW p \in Payments, p.key \in charges'[psp]
               PROVE  /\ p.method \in Supported[psp]
                      /\ psp \in {Routing[p.method][1], Routing[p.method][2]}
    BY DEF ChargesFollowRouting
  <2>1. CASE p.key \in charges[psp]
    BY <2>1 DEF IInv, ChargesFollowRouting
  <2>2. CASE psp = Psp(w) /\ p.key = Key(w)
    <3>1. p = c.payment
      BY <1>2, <2>2, CallFields, OrchestratorAssumption DEF Key
    <3> QED BY <1>3, <1>5, <2>2, <3>1 DEF Routed
  <2> QED BY <1>8, <2>1, <2>2
<1>14. BreakersSound'
  BY <1>1 DEF IInv, BreakersSound
<1> QED BY <1>10, <1>11, <1>12, <1>13, <1>14 DEF IInv

LEMMA RecordSuccessKeeps ==
  ASSUME IInv, NEW w \in Workers, RecordSuccess(w)
  PROVE  IInv'
<1> DEFINE b == circuit_breakers[Psp(w)]
<1>1. calls[w].pc = "succeeded" /\ UNCHANGED charges /\ calls' = [calls EXCEPT ![w] = Idle]
  BY DEF RecordSuccess
<1>2. SoundCall(calls[w], charges) /\ Key(w) \in Keys
  BY <1>1, CallAtWork
<1>3. Psp(w) \in PSPs /\ Key(w) \in charges[Psp(w)]
  BY <1>1, <1>2, CallAtWork DEF SoundCall, Key, Psp
<1>4. /\ circuit_breakers' \in [PSPs -> Breaker]
      /\ \A psp \in PSPs : Below(circuit_breakers'[psp])
  <2>1. b \in Breaker /\ Below(b)
    BY <1>3 DEF IInv, Types, BreakersSound
  <2>2. circuit_breakers' = [circuit_breakers EXCEPT ![Psp(w)] = Succeeded(b)]
    BY DEF RecordSuccess
  <2> HIDE DEF b
  <2>3. Succeeded(b) \in Breaker /\ Below(Succeeded(b))
    BY <2>1, SucceedingKeeps
  <2> QED BY <1>3, <2>2, <2>3 DEF IInv, Types, BreakersSound
<1>5. healthy' \in [PSPs -> BOOLEAN]
  BY DEF RecordSuccess, RecordResult, IInv, Types
<1>6. results' = [results EXCEPT ![Key(w)] = Append(results[Key(w)], Success(Psp(w)))]
  BY DEF RecordSuccess
<1>7. Success(Psp(w)) \in Response /\ Success(Psp(w)).psp = Psp(w)
  BY <1>3 DEF Success, Response
<1>8. /\ results' \in [Keys -> Seq(Response)]
      /\ \A l \in Keys : SuccessSound(results'[l], l, charges)
  <2> HIDE DEF b
  <2> QED BY <1>2, <1>3, <1>6, <1>7, ResponseKeeps
<1> HIDE DEF b
<1> QED BY <1>1, <1>4, <1>5, <1>8, OneCallChanges

LEMMA RecordFailureKeeps ==
  ASSUME IInv, NEW w \in Workers, RecordFailure(w)
  PROVE  IInv'
<1> DEFINE c == calls[w]
           b == circuit_breakers[Psp(w)]
           d == [c EXCEPT !.pc = "next", !.order = Tail(c.order)]
<1>1. c.pc = "failed" /\ UNCHANGED charges /\ results' = results
  BY DEF RecordFailure
<1>2. c \in InCall /\ SoundCall(c, charges)
  BY <1>1, CallAtWork
<1>3. c.order # <<>> /\ Psp(w) \in PSPs
  BY <1>1, <1>2, CallAtWork DEF SoundCall
<1>4. /\ circuit_breakers' \in [PSPs -> Breaker]
      /\ \A psp \in PSPs : Below(circuit_breakers'[psp])
  <2>1. b \in Breaker /\ Below(b)
    BY <1>3 DEF IInv, Types, BreakersSound
  <2>2. circuit_breakers' = [circuit_breakers EXCEPT ![Psp(w)] = Failed(b)]
    BY DEF RecordFailure
  <2> HIDE DEF b
  <2>3. Failed(b) \in Breaker /\ Below(Failed(b))
    BY <2>1, FailingKeeps
  <2> QED BY <1>3, <2>2, <2>3 DEF IInv, Types, BreakersSound
<1>5. healthy' \in [PSPs -> BOOLEAN]
  BY DEF RecordFailure, RecordResult, IInv, Types
<1>6. calls' = [calls EXCEPT ![w] = d]
  BY DEF RecordFailure
<1>7. d \in InCall /\ d.pc = "next" /\ d.payment = c.payment /\ d.order = Tail(c.order)
  <2>1. c.order \in Seq(PSPs)
    BY <1>2, CallFields
  <2>2. Tail(c.order) \in Seq(PSPs)
    BY <1>3, <2>1, HeadTailProperties
  <2> HIDE DEF c
  <2> QED BY <1>2, <2>2 DEF InCall
<1>8. SoundCall(d, charges)
  <2> HIDE DEF c, d
  <2> QED BY <1>2, <1>3, <1>7, TailSound DEF SoundCall
<1> HIDE DEF b, c, d
<1> QED BY <1>1, <1>4, <1>5, <1>6, <1>7, <1>8, OneCallChanges DEF IInv, Types, ResultsSound

LEMMA TickKeeps ==
  ASSUME IInv, Tick
  PROVE  IInv'
<1>1. UNCHANGED <<healthy, calls, results, charges>>
  BY DEF Tick
<1>2. \A psp \in PSPs : circuit_breakers[psp] \in Breaker /\ Below(circuit_breakers[psp])
  BY DEF IInv, Types, BreakersSound
<1>3. \A psp \in PSPs :
        Aged(circuit_breakers[psp]) \in Breaker /\ Below(Aged(circuit_breakers[psp]))
  BY <1>2, AgeingKeeps
<1>4. circuit_breakers' = [p \in PSPs |-> Aged(circuit_breakers[p])]
  BY DEF Tick
<1>5. Types'
  BY <1>1, <1>3, <1>4 DEF IInv, Types
<1>6. BreakersSound'
  BY <1>3, <1>4 DEF BreakersSound
<1>7. CallsSound' /\ ResultsSound' /\ ChargesFollowRouting'
  BY <1>1 DEF IInv, CallsSound, ResultsSound, ChargesFollowRouting
<1> QED BY <1>5, <1>6, <1>7 DEF IInv

LEMMA StepSound == IInv /\ [Next]_vars => IInv'
<1> SUFFICES ASSUME IInv, [Next]_vars PROVE IInv'
  OBVIOUS
<1>1. ASSUME NEW w \in Workers, NEW p \in Payments, ProcessPayment(w, p) PROVE IInv'
  BY <1>1, ProcessPaymentKeeps
<1>2. ASSUME NEW w \in Workers, NextPsp(w) PROVE IInv'
  BY <1>2, NextPspKeeps
<1>3. ASSUME NEW w \in Workers, GiveUp(w) PROVE IInv'
  BY <1>3, GiveUpKeeps
<1>4. ASSUME NEW w \in Workers, Attempt(w) PROVE IInv'
  BY <1>4, AttemptKeeps
<1>5. ASSUME NEW w \in Workers, RecordSuccess(w) PROVE IInv'
  BY <1>5, RecordSuccessKeeps
<1>6. ASSUME NEW w \in Workers, RecordFailure(w) PROVE IInv'
  BY <1>6, RecordFailureKeeps
<1>7. CASE Tick
  BY <1>7, TickKeeps
<1>8. CASE UNCHANGED vars
  BY <1>8 DEF vars, IInv, Types, CallsSound, ResultsSound, ChargesFollowRouting, BreakersSound
<1> QED BY <1>1, <1>2, <1>3, <1>4, <1>5, <1>6, <1>7, <1>8 DEF Next

-----------------------------------------------------------------------------
(* What a step does to an open circuit.                                    *)

\* The clause OpenCircuitRests has for one processor.
OpenRests(psp) ==
  circuit_breakers[psp].state = "open" /\ ~ Rested(circuit_breakers[psp]) =>
    /\ circuit_breakers'[psp].state = "open"
    /\ \A w \in Workers : Calling(psp, w)' => Calling(psp, w)

\* A worker that was in no call of the processor gets into one only by being
\* admitted, and the open breaker admits nobody.
LEMMA StepRests ==
  ASSUME IInv, [Next]_vars, NEW psp \in PSPs
  PROVE  OpenRests(psp)
<1> DEFINE b == circuit_breakers[psp]
<1> SUFFICES ASSUME b.state = "open", ~ Rested(b)
             PROVE  /\ circuit_breakers'[psp].state = "open"
                    /\ \A w \in Workers :
                         (calls'[w] # Idle /\ calls'[w].pc = "call" /\ Head(calls'[w].order) = psp)
                           => Calling(psp, w)
  BY DEF OpenRests, Calling, Psp
<1>1. b \in Breaker /\ circuit_breakers \in [PSPs -> Breaker]
      /\ calls \in [Workers -> {Idle} \cup InCall]
  BY DEF IInv, Types
<1>2. /\ ~ CanExecute(b)
      /\ AfterCanExecute(b).state = "open"
      /\ Succeeded(b).state = "open"
      /\ Failed(b).state = "open"
      /\ Aged(b).state = "open"
  <2> HIDE DEF b
  <2> QED BY <1>1, OpenStays
<1>3. ASSUME NEW w \in Workers, NEW c, calls' = [calls EXCEPT ![w] = c],
             c.pc # "call" \/ Head(c.order) # psp
             \/ (c.order = calls[w].order /\ calls[w].pc = "call")
      PROVE  \A v \in Workers :
               (calls'[v] # Idle /\ calls'[v].pc = "call" /\ Head(calls'[v].order) = psp)
                 => Calling(psp, v)
  <2> SUFFICES ASSUME NEW v \in Workers,
                      calls'[v] # Idle, calls'[v].pc = "call", Head(calls'[v].order) = psp
               PROVE  Calling(psp, v)
    OBVIOUS
  <2>1. CASE v = w
    <3>1. calls'[v] = c
      BY <1>1, <1>3, <2>1
    <3>2. c.order = calls[w].order /\ calls[w].pc = "call"
      BY <1>3, <3>1
    <3> QED BY <2>1, <3>1, <3>2 DEF Calling, Psp, Idle
  <2>2. CASE v # w
    <3>1. calls'[v] = calls[v]
      BY <1>1, <1>3, <2>2
    <3> QED BY <3>1 DEF Calling, Psp
  <2> QED BY <2>1, <2>2
<1>4. ASSUME NEW w \in Workers, NEW p \in Payments, ProcessPayment(w, p)
      PROVE  OpenRests(psp)
  <2>1. circuit_breakers' = circuit_breakers
        /\ calls' = [calls EXCEPT ![w] = Call("next", p, PspOrder(p.method), 1)]
    BY <1>4 DEF ProcessPayment
  <2>2. Call("next", p, PspOrder(p.method), 1).pc # "call"
    BY DEF Call
  <2> QED BY <1>3, <2>1, <2>2 DEF OpenRests, Calling, Psp
<1>5. ASSUME NEW w \in Workers, NextPsp(w)
      PROVE  OpenRests(psp)
  <2>1. calls[w].pc = "next"
    BY <1>5 DEF NextPsp
  <2>2. calls[w] \in InCall
    BY <2>1, CallAtWork
  <2>3. circuit_breakers'[psp].state = "open"
    BY <1>1, <1>2, <1>5 DEF NextPsp
  <2>4. CASE Admits(w)
    <3> DEFINE d == [calls[w] EXCEPT !.pc = "call", !.attempt = 1]
    <3>1. calls' = [calls EXCEPT ![w] = d]
      BY <1>5, <2>4 DEF NextPsp
    <3>2. d.order = calls[w].order
      BY <2>2 DEF InCall
    <3>3. Head(calls[w].order) # psp
      BY <1>2, <2>4 DEF Admits, Psp
    <3> HIDE DEF d
    <3> QED BY <1>3, <2>3, <3>1, <3>2, <3>3 DEF OpenRests, Calling, Psp
  <2>5. CASE ~ Admits(w)
    <3> DEFINE d == [calls[w] EXCEPT !.order = Tail(calls[w].order)]
    <3>1. calls' = [calls EXCEPT ![w] = d]
      BY <1>5, <2>5 DEF NextPsp, Skipping
    <3>2. d.pc # "call"
      BY <2>1, <2>2 DEF InCall
    <3> HIDE DEF d
    <3> QED BY <1>3, <2>3, <3>1, <3>2 DEF OpenRests, Calling, Psp
  <2> QED BY <2>4, <2>5
<1>6. ASSUME NEW w \in Workers, GiveUp(w)
      PROVE  OpenRests(psp)
  <2>1. circuit_breakers' = circuit_breakers /\ calls' = [calls EXCEPT ![w] = Idle]
    BY <1>6 DEF GiveUp
  <2>2. Idle.pc # "call"
    BY DEF Idle
  <2> QED BY <1>3, <2>1, <2>2 DEF OpenRests, Calling, Psp
<1>7. ASSUME NEW w \in Workers, Attempt(w)
      PROVE  OpenRests(psp)
  <2>1. calls[w].pc = "call" /\ circuit_breakers' = circuit_breakers
    BY <1>7 DEF Attempt
  <2>2. calls[w] \in InCall
    BY <2>1, CallAtWork
  <2>3. PICK d : /\ calls' = [calls EXCEPT ![w] = d]
                 /\ \/ d = [calls[w] EXCEPT !.pc = "succeeded"]
                    \/ d = [calls[w] EXCEPT !.attempt = calls[w].attempt + 1]
                    \/ d = [calls[w] EXCEPT !.pc = "failed"]
    BY <1>7 DEF Attempt
  <2>4. d.order = calls[w].order
    BY <2>2, <2>3 DEF InCall
  <2> QED BY <1>3, <2>1, <2>3, <2>4 DEF OpenRests, Calling, Psp
<1>8. ASSUME NEW w \in Workers, RecordSuccess(w)
      PROVE  OpenRests(psp)
  <2>1. circuit_breakers'[psp].state = "open"
    BY <1>1, <1>2, <1>8 DEF RecordSuccess
  <2>2. calls' = [calls EXCEPT ![w] = Idle] /\ Idle.pc # "call"
    BY <1>8 DEF RecordSuccess, Idle
  <2> QED BY <1>3, <2>1, <2>2 DEF OpenRests, Calling, Psp
<1>9. ASSUME NEW w \in Workers, RecordFailure(w)
      PROVE  OpenRests(psp)
  <2> DEFINE d == [calls[w] EXCEPT !.pc = "next", !.order = Tail(calls[w].order)]
  <2>1. calls[w] \in InCall
    BY <1>9, CallAtWork DEF RecordFailure
  <2>2. circuit_breakers'[psp].state = "open"
    BY <1>1, <1>2, <1>9 DEF RecordFailure
  <2>3. calls' = [calls EXCEPT ![w] = d]
    BY <1>9 DEF RecordFailure
  <2>4. d.pc # "call"
    BY <2>1 DEF InCall
  <2> HIDE DEF d
  <2> QED BY <1>3, <2>2, <2>3, <2>4 DEF OpenRests, Calling, Psp
<1>10. CASE Tick
  <2>1. circuit_breakers'[psp].state = "open" /\ calls' = calls
    BY <1>2, <1>10 DEF Tick
  <2> QED BY <2>1 DEF Calling, Psp
<1>11. CASE UNCHANGED vars
  BY <1>11 DEF vars, Calling, Psp
<1> HIDE DEF b
<1>12. OpenRests(psp) \/ Tick \/ UNCHANGED vars
  BY <1>4, <1>5, <1>6, <1>7, <1>8, <1>9 DEF Next
<1> QED BY <1>10, <1>11, <1>12 DEF OpenRests, Calling, Psp, b

-----------------------------------------------------------------------------
(* The theorems.                                                           *)

THEOREM OrchestratorCorrect == Spec => []IInv
BY InitSound, StepSound, PTL DEF Spec

\* The parts of IInv that the runs check.
LEMMA Consequences == IInv => TypeOK /\ SuccessWasExecuted /\ ClosedIsBelowThreshold
<1> SUFFICES ASSUME IInv PROVE TypeOK /\ SuccessWasExecuted /\ ClosedIsBelowThreshold
  OBVIOUS
<1>1. ASSUME NEW w \in Workers, calls[w] # Idle
      PROVE  /\ calls[w].pc \in {"next", "call", "succeeded", "failed"}
             /\ calls[w].payment \in Payments
             /\ calls[w].order \in Seq(PSPs) /\ Len(calls[w].order) <= 2
             /\ calls[w].pc # "next" => calls[w].order # <<>>
             /\ calls[w].attempt \in 1 .. MaxRetries
  <2>1. calls[w] \in InCall /\ SoundCall(calls[w], charges)
    BY <1>1 DEF IInv, Types, CallsSound
  <2> QED BY <2>1, CallFields DEF SoundCall
<1>2. TypeOK
  BY <1>1 DEF TypeOK, IInv, Types, Response
<1>3. SuccessWasExecuted
  BY DEF IInv, ResultsSound, SuccessSound, SuccessWasExecuted
<1>4. ClosedIsBelowThreshold
  BY DEF IInv, BreakersSound, Below, ClosedIsBelowThreshold
<1> QED BY <1>2, <1>3, <1>4

\* Every variable keeps its type, and a worker's call stays within its two
\* processors and MAX_RETRIES (process_payment, _execute_with_retry).
THEOREM OrchestratorTypeCorrect == Spec => []TypeOK
BY OrchestratorCorrect, Consequences, PTL

\* process_payment only reports a success of a processor that executed the
\* payment, however the workers interleave and answers get lost.
THEOREM OrchestratorSuccessWasExecuted == Spec => []SuccessWasExecuted
BY OrchestratorCorrect, Consequences, PTL

\* create_payment is only ever called on processors of the payment's route
\* whose adapter supports its method.
THEOREM OrchestratorFollowsRouting == Spec => []ChargesFollowRouting
<1>1. IInv => ChargesFollowRouting
  BY DEF IInv
<1> QED BY <1>1, OrchestratorCorrect, PTL

\* record_failure, record_success and can_execute leave no closed breaker at
\* or above its threshold.
THEOREM OrchestratorClosedIsBelow == Spec => []ClosedIsBelowThreshold
BY OrchestratorCorrect, Consequences, PTL

\* An open breaker stays open for its cooldown and no worker starts a call of
\* its processor meanwhile, whatever calls under way come back with.
THEOREM OrchestratorOpenRests == Spec => OpenCircuitRests
<1>1. IInv /\ [Next]_vars =>
        [\A psp \in PSPs :
           circuit_breakers[psp].state = "open" /\ ~ Rested(circuit_breakers[psp]) =>
             /\ circuit_breakers'[psp].state = "open"
             /\ \A w \in Workers : Calling(psp, w)' => Calling(psp, w)]_vars
  BY StepRests DEF OpenRests
<1> QED BY <1>1, OrchestratorCorrect, PTL DEF Spec, OpenCircuitRests
=============================================================================
