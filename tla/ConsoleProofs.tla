---------------------------- MODULE ConsoleProofs ----------------------------
(***************************************************************************)
(* Proofs about MCConsole, part by part: the circuit breaker it extends,   *)
(* for any number of overlapping requests and any options; the audit       *)
(* outbox; the idempotency keys; and the rate limiter.                     *)
(***************************************************************************)
EXTENDS MCConsole, FiniteSetTheorems, TLAPS

Sample == [age : Nat, ok : BOOLEAN]

(* The window holds no more samples than requests settled since the breaker*)
(* last closed, so a window that trips is all fresh evidence; and while the*)
(* breaker is open or half-open that evidence stays.                       *)
IInv ==
    /\ state \in {"closed", "open", "half-open"}
    /\ samples \in Seq(Sample)
    /\ settledClosed \in 0..MinRequests
    /\ settledClosed = MinRequests \/ Len(samples) <= settledClosed
    /\ state = "open" => settledClosed = MinRequests
    /\ sinceOpen \in Nat /\ DOMAIN admittedIn = Requests
-----------------------------------------------------------------------------
(* What record leaves is a suffix of the window with the new sample.       *)
LEMMA RecordedType ==
    ASSUME samples \in Seq(Sample), NEW ok \in BOOLEAN
    PROVE  /\ Recorded(ok) \in Seq(Sample)
           /\ Len(Recorded(ok)) <= Len(samples) + 1
<1> DEFINE w    == Append(samples, [age |-> 0, ok |-> ok])
           gone == {i \in 1..Len(w) : \A j \in 1..i : w[j].age > WindowMs}
<1>1. [age |-> 0, ok |-> ok] \in Sample
  BY DEF Sample
<1>2. w \in Seq(Sample) /\ Len(w) = Len(samples) + 1 /\ Len(w) \in Nat
  BY <1>1
<1>3. Cardinality(gone) \in Nat
  <2>1. IsFiniteSet(1..Len(w))
    BY <1>2, FS_Interval
  <2>2. IsFiniteSet(gone)
    BY <2>1, FS_Subset
  <2> QED
    BY <2>2, FS_CardinalityType
<1>4. Recorded(ok) = SubSeq(w, Cardinality(gone) + 1, Len(w))
  BY DEF Recorded
<1> HIDE DEF w, gone
<1> DEFINE m == Cardinality(gone) + 1
<1>5. m \in Nat /\ m >= 1
  BY <1>3
<1> HIDE DEF m
<1>6. /\ SubSeq(w, m, Len(w)) \in Seq(Sample)
      /\ Len(SubSeq(w, m, Len(w))) <= Len(w)
  BY <1>2, <1>5
<1> QED
  BY <1>2, <1>4, <1>6 DEF m

LEMMA InitIInv == BreakerAssumption /\ Init => IInv
BY DEF BreakerAssumption, Init, IInv

LEMMA LeastOf == \A a, b \in Nat : Least(a, b) \in Nat /\ Least(a, b) <= a /\ Least(a, b) <= b
                                   /\ Least(a, b) \in {a, b}
BY DEF Least

(* A request that settles without closing the breaker counts.              *)
LEMMA SettlingCounts ==
    ASSUME BreakerAssumption, IInv, NEW ok \in BOOLEAN, samples' = Recorded(ok),
           settledClosed' = Least(settledClosed + 1, MinRequests)
    PROVE  /\ samples' \in Seq(Sample)
           /\ settledClosed' \in 0..MinRequests
           /\ settledClosed' = MinRequests \/ Len(samples') <= settledClosed'
           /\ settledClosed = MinRequests => settledClosed' = MinRequests
<1>1. /\ Recorded(ok) \in Seq(Sample) /\ Len(Recorded(ok)) <= Len(samples) + 1
      /\ Len(Recorded(ok)) \in Nat /\ Len(samples) \in Nat
  BY RecordedType DEF IInv
<1>2. settledClosed \in 0..MinRequests /\ MinRequests \in Nat
  BY DEF IInv, BreakerAssumption
<1> QED
  BY <1>1, <1>2 DEF IInv, Least

LEMMA SucceedKeepsIInv ==
    ASSUME BreakerAssumption, IInv, NEW r \in Requests, Succeed(r)
    PROVE  IInv'
<1>0. sinceOpen' = sinceOpen /\ DOMAIN admittedIn' = DOMAIN admittedIn
  BY DEF Succeed
<1>1. CASE state = "half-open"
  <2>1. state' = "closed" /\ samples' = <<>> /\ settledClosed' = 0
    BY <1>1 DEF Succeed
  <2> QED
    BY <1>0, <2>1 DEF IInv, BreakerAssumption
<1>2. CASE state # "half-open"
  <2>1. /\ samples' = Recorded(TRUE) /\ state' = state
        /\ settledClosed' = Least(settledClosed + 1, MinRequests)
    BY <1>2 DEF Succeed
  <2> QED
    BY <1>0, <2>1, SettlingCounts DEF IInv
<1> QED
  BY <1>1, <1>2

LEMMA FailKeepsIInv ==
    ASSUME BreakerAssumption, IInv, NEW r \in Requests, Fail(r)
    PROVE  IInv'
<1>0. (sinceOpen' = sinceOpen \/ sinceOpen' = 0) /\ DOMAIN admittedIn' = DOMAIN admittedIn
  BY DEF Fail
<1>1. /\ samples' = Recorded(FALSE)
      /\ settledClosed' = Least(settledClosed + 1, MinRequests)
  BY DEF Fail
<1>2. /\ samples' \in Seq(Sample)
      /\ settledClosed' \in 0..MinRequests
      /\ settledClosed' = MinRequests \/ Len(samples') <= settledClosed'
      /\ settledClosed = MinRequests => settledClosed' = MinRequests
  BY <1>1, SettlingCounts
<1>3. CASE state = "closed" /\ Trips(samples')
  <2>1. state' = "open" /\ Len(samples') >= MinRequests
    BY <1>3 DEF Fail, Trips
  <2>2. settledClosed' = MinRequests
    BY <1>2, <2>1 DEF BreakerAssumption
  <2> QED
    BY <1>0, <1>2, <2>1, <2>2 DEF IInv
<1>4. CASE ~(state = "closed" /\ Trips(samples'))
  <2>1. state' = state
    BY <1>4 DEF Fail
  <2> QED
    BY <1>0, <1>2, <2>1 DEF IInv
<1> QED
  BY <1>3, <1>4

LEMMA TickKeepsIInv ==
    ASSUME BreakerAssumption, IInv, Tick
    PROVE  IInv'
<1>1. samples \in Seq(Sample) /\ WindowMs \in Nat
  BY DEF IInv, BreakerAssumption
<1>2. /\ samples' = [i \in DOMAIN samples |->
                        [samples[i] EXCEPT !.age = Least(samples[i].age + 1, WindowMs + 1)]]
      /\ UNCHANGED <<state, settledClosed>>
  BY DEF Tick
<1>3. ASSUME NEW i \in 1..Len(samples)
      PROVE  [samples[i] EXCEPT !.age = Least(samples[i].age + 1, WindowMs + 1)] \in Sample
  <2>1. samples[i] \in Sample
    BY <1>1
  <2>2. Least(samples[i].age + 1, WindowMs + 1) \in Nat
    BY <1>1, <2>1 DEF Sample, Least
  <2> QED
    BY <2>1, <2>2 DEF Sample
<1>4. DOMAIN samples = 1..Len(samples) /\ Len(samples) \in Nat
  BY <1>1
<1>5. samples' \in [1..Len(samples) -> Sample]
  BY <1>2, <1>3, <1>4
<1>6. samples' \in Seq(Sample) /\ Len(samples') = Len(samples)
  BY <1>4, <1>5
<1>7. sinceOpen' \in Nat /\ admittedIn' = admittedIn
  BY DEF Tick, Least, IInv, BreakerAssumption
<1> QED
  BY <1>2, <1>6, <1>7 DEF IInv

LEMMA NextKeepsIInv == BreakerAssumption /\ IInv /\ [Next]_vars => IInv'
<1> SUFFICES ASSUME BreakerAssumption, IInv, [Next]_vars PROVE IInv'
  OBVIOUS
<1>1. ASSUME NEW r \in Requests, Admit(r) \/ Reject(r) PROVE IInv'
  <2>1. /\ UNCHANGED <<samples, sinceOpen, settledClosed>>
        /\ DOMAIN admittedIn' = DOMAIN admittedIn
        /\ state' = IF state = "open" /\ sinceOpen >= OpenMs THEN "half-open" ELSE state
    BY <1>1 DEF Admit, Reject, Transitioned
  <2> QED
    BY <2>1 DEF IInv
<1>2. CASE UNCHANGED vars
  BY <1>2 DEF vars, IInv
<1> QED
  BY <1>1, <1>2, SucceedKeepsIInv, FailKeepsIInv, TickKeepsIInv DEF Next

(* While the cooldown lasts, no step admits a request or leaves "open".    *)
LEMMA StepKeepsCooldown ==
    ASSUME BreakerAssumption, IInv, [Next]_vars, state = "open", sinceOpen < OpenMs
    PROVE  /\ state' = "open"
           /\ \A r \in Requests : admittedIn[r] = "none" => admittedIn'[r] = "none"
<1>1. Transitioned = "open"
  BY DEF Transitioned, BreakerAssumption, IInv
<1>2. ASSUME NEW r \in Requests, Admit(r) PROVE FALSE
  BY <1>1, <1>2 DEF Admit
<1>3. ASSUME NEW r \in Requests, Reject(r)
      PROVE  state' = "open" /\ admittedIn' = admittedIn
  BY <1>1, <1>3 DEF Reject
<1>4. ASSUME NEW r \in Requests, Succeed(r) \/ Fail(r)
      PROVE  state' = "open" /\ admittedIn' = [admittedIn EXCEPT ![r] = "none"]
  BY <1>4 DEF Succeed, Fail
<1>5. CASE Tick \/ UNCHANGED vars
  BY <1>5 DEF Tick, vars
<1>6. ASSUME NEW r \in Requests, Succeed(r) \/ Fail(r)
      PROVE  /\ state' = "open"
             /\ \A q \in Requests : admittedIn[q] = "none" => admittedIn'[q] = "none"
  BY <1>4, <1>6 DEF IInv
<1> QED
  BY <1>2, <1>3, <1>5, <1>6 DEF Next

(* However requests overlap, the breaker opens only on the evidence of     *)
(* MinRequests requests settled since it last closed, and from then on     *)
(* nothing gets through until OpenMs have passed                           *)
(* (circuit-breaker.ts:49-98).                                             *)
THEOREM BreakerIsAlwaysJustified ==
    ASSUME BreakerAssumption PROVE Spec => BreakerIsJustified
<1>1. Init => IInv
  BY InitIInv
<1>2. IInv /\ [Next]_vars => IInv'
  BY NextKeepsIInv
<1>3. IInv => OpensOnFreshEvidence
  BY DEF IInv, OpensOnFreshEvidence
<1>4. IInv /\ [Next]_vars =>
         [state = "open" /\ sinceOpen < OpenMs =>
             /\ state' = "open"
             /\ \A r \in Requests : admittedIn[r] = "none" => admittedIn'[r] = "none"]_vars
  BY StepKeepsCooldown
<1> QED
  BY <1>1, <1>2, <1>3, <1>4, PTL DEF Spec, BreakerIsJustified, CooldownHolds
-----------------------------------------------------------------------------
(* The audit outbox, for any number of drains and events.                  *)
OutboxType ==
    /\ pending \in Seq(Events) /\ enqueued \in Seq(Events) /\ received \in Seq(Events)
    /\ handling \in [Drains -> Events \cup {NoEvent}]
    /\ overlapped \in BOOLEAN

(* The events received and then the pending ones are the events enqueued.  *)
QueueIsRest ==
    /\ Len(enqueued) = Len(received) + Len(pending)
    /\ \A i \in 1..Len(received) : received[i] = enqueued[i]
    /\ \A i \in 1..Len(pending) : pending[i] = enqueued[Len(received) + i]

(* One drain at a time awaits a handler, and for the head of the queue.    *)
HandlesHead ==
    \A d \in Drains : handling[d] # NoEvent =>
        /\ Len(pending) > 0 /\ handling[d] = pending[1]
        /\ \A o \in Drains : handling[o] # NoEvent => o = d

OutboxInv == OutboxType /\ (~overlapped => QueueIsRest /\ HandlesHead)

LEMMA OutboxInit == Outbox!Init => OutboxInv
<1> SUFFICES ASSUME Outbox!Init PROVE OutboxInv
  OBVIOUS
<1>1. /\ pending \in Seq(Events) /\ enqueued \in Seq(Events) /\ received \in Seq(Events)
      /\ Len(pending) = 0 /\ Len(enqueued) = 0 /\ Len(received) = 0
  BY DEF Outbox!Init
<1>2. QueueIsRest
  BY <1>1 DEF QueueIsRest
<1>3. OutboxType /\ HandlesHead
  BY <1>1 DEF Outbox!Init, OutboxType, HandlesHead
<1> QED
  BY <1>2, <1>3 DEF OutboxInv

LEMMA EnqueueKeepsOutbox ==
    ASSUME OutboxInv, NEW e \in Events, Outbox!Enqueue(e)
    PROVE  OutboxInv'
<1> USE DEF OutboxInv
<1>1. /\ pending \in Seq(Events) /\ enqueued \in Seq(Events) /\ received \in Seq(Events)
      /\ pending' = Append(pending, e) /\ enqueued' = Append(enqueued, e)
      /\ UNCHANGED <<handling, received, overlapped>>
  BY DEF OutboxType, Outbox!Enqueue
<1>2. OutboxType'
  BY <1>1 DEF OutboxType
<1>3. ASSUME ~overlapped PROVE QueueIsRest' /\ HandlesHead'
  <2>1. /\ Len(pending') = Len(pending) + 1 /\ Len(enqueued') = Len(enqueued) + 1
        /\ \A i \in 1..Len(pending) : pending'[i] = pending[i]
        /\ \A i \in 1..Len(enqueued) : enqueued'[i] = enqueued[i]
        /\ pending'[Len(pending) + 1] = e /\ enqueued'[Len(enqueued) + 1] = e
        /\ Len(received) \in Nat /\ Len(pending) \in Nat /\ Len(enqueued) \in Nat
        /\ received' = received
    BY <1>1
  <2> USE <2>1
  <2>2. QueueIsRest'
    <3>1. Len(enqueued') = Len(received') + Len(pending')
      <4>1. Len(enqueued) = Len(received) + Len(pending)
        BY <1>3 DEF QueueIsRest
      <4> QED
        BY <4>1
    <3>2. \A i \in 1..Len(received') : received'[i] = enqueued'[i]
      BY <1>1, <1>3, <2>1 DEF QueueIsRest
    <3>3. ASSUME NEW i \in 1..Len(pending') PROVE pending'[i] = enqueued'[Len(received') + i]
      <4>0. Len(enqueued) = Len(received) + Len(pending)
        BY <1>3 DEF QueueIsRest
      <4>1. CASE i \in 1..Len(pending)
        <5>1. Len(received) + i \in 1..Len(enqueued)
          BY <4>0, <4>1
        <5>2. pending[i] = enqueued[Len(received) + i]
          BY <4>1, <1>3 DEF QueueIsRest
        <5> QED
          BY <4>1, <5>1, <5>2
      <4>2. CASE i = Len(pending) + 1
        <5>1. Len(received) + i = Len(enqueued) + 1
          BY <4>0, <4>2
        <5> QED
          BY <4>2, <5>1
      <4> QED
        BY <4>1, <4>2
    <3> QED
      BY <3>1, <3>2, <3>3 DEF QueueIsRest
  <2>3. HandlesHead'
    BY <1>1, <1>3, <2>1 DEF HandlesHead
  <2> QED
    BY <2>2, <2>3
<1> QED
  BY <1>1, <1>2, <1>3

LEMMA StartKeepsOutbox ==
    ASSUME OutboxInv, NEW d \in Drains, Outbox!Start(d)
    PROVE  OutboxInv'
<1> USE DEF OutboxInv
<1>1. /\ pending # <<>> /\ pending \in Seq(Events)
      /\ handling' = [handling EXCEPT ![d] = pending[1]]
      /\ overlapped' = (overlapped \/ Outbox!Overlaps(d))
      /\ UNCHANGED <<pending, enqueued, received>>
  BY DEF Outbox!Start, OutboxType
<1>2. pending[1] \in Events /\ Len(pending) > 0
  BY <1>1
<1>3. OutboxType'
  BY <1>1, <1>2 DEF OutboxType, Outbox!Overlaps
<1>4. ASSUME ~overlapped' PROVE QueueIsRest' /\ HandlesHead'
  <2>1. ~overlapped /\ \A o \in Drains \ {d} : handling[o] = NoEvent
    BY <1>1, <1>4 DEF Outbox!Overlaps, OutboxType
  <2>2. QueueIsRest'
    BY <1>1, <2>1 DEF QueueIsRest
  <2>3. HandlesHead'
    BY <1>1, <1>2, <2>1 DEF HandlesHead, OutboxType
  <2> QED
    BY <2>2, <2>3
<1> QED
  BY <1>3, <1>4

LEMMA ResolvesKeepsOutbox ==
    ASSUME OutboxInv, NEW d \in Drains, Outbox!HandlerResolves(d)
    PROVE  OutboxInv'
<1> USE DEF OutboxInv
<1> DEFINE e == handling[d]
<1>1. /\ pending \in Seq(Events) /\ enqueued \in Seq(Events) /\ received \in Seq(Events)
      /\ e \in Events /\ e # NoEvent
      /\ received' = Append(received, e)
      /\ pending' = Outbox!Shifted
      /\ handling' = [handling EXCEPT ![d] = IF pending' = <<>> THEN NoEvent ELSE pending'[1]]
      /\ UNCHANGED <<enqueued, overlapped>>
  BY DEF Outbox!HandlerResolves, OutboxType
<1>2. pending' \in Seq(Events)
  BY <1>1 DEF Outbox!Shifted
<1>3. OutboxType'
  <2>1. pending' # <<>> => pending'[1] \in Events
    BY <1>2
  <2> QED
    BY <1>1, <1>2, <2>1 DEF OutboxType
<1>4. ASSUME ~overlapped PROVE QueueIsRest' /\ HandlesHead'
  <2>1. /\ Len(pending) > 0 /\ e = pending[1]
        /\ \A o \in Drains : o # d => handling[o] = NoEvent
    BY <1>1, <1>4 DEF HandlesHead
  <2> HIDE DEF e
  <2>2. /\ Len(pending') = Len(pending) - 1
        /\ \A i \in 1..Len(pending') : pending'[i] = pending[i + 1]
        /\ Len(received') = Len(received) + 1
        /\ \A i \in 1..Len(received) : received'[i] = received[i]
        /\ received'[Len(received) + 1] = e
        /\ Len(received) \in Nat /\ Len(pending) \in Nat
    BY <1>1, <2>1 DEF Outbox!Shifted
  <2>3. QueueIsRest'
    <3>1. Len(enqueued') = Len(received') + Len(pending')
      <4>1. Len(enqueued) = Len(received) + Len(pending)
        BY <1>4 DEF QueueIsRest
      <4>2. Len(enqueued') = Len(enqueued)
        BY <1>1
      <4>3. /\ Len(pending') = Len(pending) - 1 /\ Len(received') = Len(received) + 1
            /\ Len(received) \in Nat /\ Len(pending) \in Nat
        BY <2>2
      <4> QED
        BY <4>1, <4>2, <4>3
    <3>2. ASSUME NEW i \in 1..Len(received') PROVE received'[i] = enqueued'[i]
      <4>1. CASE i \in 1..Len(received)
        BY <4>1, <1>1, <1>4, <2>2 DEF QueueIsRest
      <4>2. CASE i = Len(received) + 1
        <5>1. pending[1] = enqueued[Len(received) + 1]
          BY <2>1, <1>4, <2>2 DEF QueueIsRest
        <5> QED
          BY <4>2, <5>1, <1>1, <2>1, <2>2
      <4> QED
        BY <4>1, <4>2, <2>2
    <3>3. ASSUME NEW i \in 1..Len(pending') PROVE pending'[i] = enqueued'[Len(received') + i]
      <4>0. i \in Nat /\ 1 <= i /\ i <= Len(pending) - 1
        BY <2>2
      <4>1. i + 1 \in 1..Len(pending) /\ Len(received) + (i + 1) = Len(received') + i
        BY <2>2, <4>0
      <4>2. pending[i + 1] = enqueued[Len(received) + (i + 1)]
        BY <4>1, <1>4 DEF QueueIsRest
      <4> QED
        BY <4>1, <4>2, <2>2, <1>1
    <3> QED
      BY <3>1, <3>2, <3>3 DEF QueueIsRest
  <2>4. HandlesHead'
    <3>1. \A o \in Drains : handling'[o] # NoEvent => o = d
      BY <1>1, <2>1 DEF OutboxType
    <3>2. handling'[d] # NoEvent => Len(pending') > 0 /\ handling'[d] = pending'[1]
      BY <1>1, <1>2 DEF OutboxType
    <3> QED
      BY <3>1, <3>2 DEF HandlesHead
  <2> QED
    BY <2>3, <2>4
<1> QED
  BY <1>1, <1>3, <1>4

LEMMA NextKeepsOutbox == OutboxInv /\ [Outbox!Next]_outboxVars => OutboxInv'
<1> SUFFICES ASSUME OutboxInv, [Outbox!Next]_outboxVars PROVE OutboxInv'
  OBVIOUS
<1>1. ASSUME NEW d \in Drains, Outbox!HandlerFails(d) PROVE OutboxInv'
  BY <1>1 DEF Outbox!HandlerFails, OutboxInv, OutboxType, QueueIsRest, HandlesHead
<1>2. CASE UNCHANGED outboxVars
  BY <1>2 DEF outboxVars, OutboxInv, OutboxType, QueueIsRest, HandlesHead
<1> QED
  BY <1>1, <1>2, EnqueueKeepsOutbox, StartKeepsOutbox, ResolvesKeepsOutbox DEF Outbox!Next

LEMMA OutboxLosesNothing ==
    ASSUME OutboxInv, ~overlapped
    PROVE  Outbox!Elements(enqueued) = Outbox!Elements(pending) \cup Outbox!Elements(received)
<1>1. /\ Len(received) \in Nat /\ Len(pending) \in Nat /\ Len(enqueued) \in Nat
      /\ DOMAIN received = 1..Len(received) /\ DOMAIN pending = 1..Len(pending)
      /\ DOMAIN enqueued = 1..Len(enqueued)
      /\ QueueIsRest
  BY DEF OutboxInv, OutboxType
<1>2. ASSUME NEW x \in Outbox!Elements(enqueued)
      PROVE  x \in Outbox!Elements(pending) \cup Outbox!Elements(received)
  <2>1. PICK i \in 1..Len(enqueued) : x = enqueued[i]
    BY <1>1, <1>2 DEF Outbox!Elements
  <2>2. CASE i <= Len(received)
    <3>1. i \in 1..Len(received)
      BY <1>1, <2>2
    <3>2. received[i] = x
      BY <1>1, <2>1, <3>1 DEF QueueIsRest
    <3> QED
      BY <1>1, <3>1, <3>2 DEF Outbox!Elements
  <2>3. CASE i > Len(received)
    <3>1. i - Len(received) \in 1..Len(pending)
      BY <1>1, <2>3 DEF QueueIsRest
    <3>2. Len(received) + (i - Len(received)) = i
      BY <1>1
    <3>3. pending[i - Len(received)] = x
      BY <1>1, <2>1, <3>1, <3>2 DEF QueueIsRest
    <3> QED
      BY <1>1, <3>1, <3>3 DEF Outbox!Elements
  <2> QED
    BY <1>1, <2>2, <2>3
<1>3. ASSUME NEW x \in Outbox!Elements(received) PROVE x \in Outbox!Elements(enqueued)
  <2>1. PICK i \in 1..Len(received) : x = received[i]
    BY <1>1, <1>3 DEF Outbox!Elements
  <2>2. i \in 1..Len(enqueued) /\ x = enqueued[i]
    BY <1>1, <2>1 DEF QueueIsRest
  <2> QED
    BY <1>1, <2>2 DEF Outbox!Elements
<1>4. ASSUME NEW x \in Outbox!Elements(pending) PROVE x \in Outbox!Elements(enqueued)
  <2>1. PICK i \in 1..Len(pending) : x = pending[i]
    BY <1>1, <1>4 DEF Outbox!Elements
  <2>2. Len(received) + i \in 1..Len(enqueued) /\ x = enqueued[Len(received) + i]
    BY <1>1, <2>1 DEF QueueIsRest
  <2> QED
    BY <1>1, <2>2 DEF Outbox!Elements
<1> QED
  BY <1>2, <1>3, <1>4

(* A step of the composition is one of the outbox, or none.                *)
LEMMA StepIsOutboxStep ==
    [ConsoleNext]_consoleVars => [Outbox!Next]_outboxVars
BY DEF ConsoleNext, consoleVars

(* As long as no two drains overlap, an event leaves the queue only when a *)
(* handler has resolved for it, and events are received once each in the   *)
(* order of their enqueue, whatever handlers fail (audit-outbox.ts:5-8,    *)
(* 48-72).                                                                 *)
THEOREM ConsoleEventsReceivedInOrder == ConsoleSpec => []EventsReceivedInOrder
<1>1. ConsoleInit => OutboxInv
  BY OutboxInit DEF ConsoleInit
<1>2. OutboxInv /\ [ConsoleNext]_consoleVars => OutboxInv'
  BY StepIsOutboxStep, NextKeepsOutbox
<1>3. OutboxInv => Outbox!NoEventLost
  BY OutboxLosesNothing DEF Outbox!NoEventLost
<1>4. OutboxInv => Outbox!ReceivedInOrder
  BY DEF OutboxInv, OutboxType, QueueIsRest, Outbox!ReceivedInOrder
<1>5. OutboxInv => EventsReceivedInOrder
  BY <1>3, <1>4 DEF EventsReceivedInOrder, Outbox!EventsReceivedInOrder
<1> QED
  BY <1>1, <1>2, <1>5, PTL DEF ConsoleSpec
-----------------------------------------------------------------------------
(* The idempotency store.  Its inductive invariant, key by key: while an   *)
(* entry lives, every request that executes or waits under it has the same *)
(* body; a key without an entry has nobody under way; and the hash that    *)
(* finish falls back to is the mark of a second execution.                 *)
InUse(k) == {r \in Requests : key[r] = k /\ pc[r] \in {"waiting", "handling"}}

ExecutionsAreNoted(k) ==
    /\ IsFiniteSet(executed[k])
    /\ \A q \in executed[k] : key[q] = k /\ pc[q] \in {"handling", "died", "answered"}
    /\ \A r \in InUse(k) : pc[r] = "handling" => r \in executed[k]

NoEntry(k) == executed[k] = {} /\ InUse(k) = {}

EntryInFlight(k) ==
    /\ inflightBodies[k] \in Bodies
    /\ executed[k] # {}
    /\ \A q \in executed[k] : pc[q] # "answered"
    /\ \A q \in executed[k] \cup InUse(k) : body[q] = inflightBodies[k]

EntryFinished(k) ==
    LET q == cache[k].response IN
    /\ inflightBodies[k] = Absent
    /\ q \in executed[k] /\ pc[q] = "answered"
    /\ \A r \in executed[k] \cup InUse(k) : body[r] = body[q]
    /\ \/ cache[k].bodyHash = body[q]
       \/ cache[k].bodyHash = EmptyHash /\ \E p \in executed[k] : p # q

KeyInv(k) ==
    /\ ExecutionsAreNoted(k)
    /\ \/ cache[k] = Absent /\ NoEntry(k)
       \/ cache[k] = InFlight /\ EntryInFlight(k)
       \/ cache[k] \in Idem!Entry /\ EntryFinished(k)

RequestTypes ==
    /\ DOMAIN cache = Keys /\ DOMAIN inflightBodies = Keys /\ DOMAIN executed = Keys
    /\ \A k \in Keys : executed[k] \subseteq Requests
    /\ pc \in [Requests -> {"new", "waiting", "handling", "answered", "replayed",
                            "conflict", "died"}]
    /\ key \in [Requests -> Keys] /\ body \in [Requests -> Bodies]
    /\ DOMAIN answer = Requests

IdemInv == RequestTypes /\ \A k \in Keys : KeyInv(k)

LEMMA IdemInit == ConsoleAssumption /\ Idem!Init => IdemInv
<1> SUFFICES ASSUME ConsoleAssumption, Idem!Init PROVE IdemInv
  OBVIOUS
<1>1. RequestTypes
  BY DEF Idem!Init, RequestTypes
<1>2. ASSUME NEW k \in Keys PROVE KeyInv(k)
  <2>1. cache[k] = Absent /\ executed[k] = {} /\ InUse(k) = {}
    BY DEF Idem!Init, InUse
  <2>2. IsFiniteSet(executed[k])
    BY <2>1, FS_EmptySet
  <2> QED
    BY <2>1, <2>2 DEF KeyInv, ExecutionsAreNoted, NoEntry
<1> QED
  BY <1>1, <1>2 DEF IdemInv

(* A step about one key leaves what is known of the others.                *)
LEMMA OtherKeysKeep ==
    ASSUME NEW k \in Keys, KeyInv(k), UNCHANGED <<key, body>>,
           cache'[k] = cache[k], inflightBodies'[k] = inflightBodies[k],
           executed'[k] = executed[k], executed[k] \subseteq Requests,
           \A q \in Requests : key[q] = k => pc'[q] = pc[q]
    PROVE  KeyInv(k)'
<1>1. InUse(k)' = InUse(k)
  BY DEF InUse
<1>2. \A q \in executed[k] : q \in Requests /\ pc'[q] = pc[q]
  BY DEF KeyInv, ExecutionsAreNoted
<1>3. ExecutionsAreNoted(k)'
  BY <1>1, <1>2 DEF KeyInv, ExecutionsAreNoted, InUse
<1>4. NoEntry(k) => NoEntry(k)'
  BY <1>1 DEF NoEntry
<1>5. EntryInFlight(k) => EntryInFlight(k)'
  BY <1>1, <1>2 DEF EntryInFlight
<1>6. EntryFinished(k) => EntryFinished(k)'
  BY <1>1, <1>2 DEF EntryFinished
<1> QED
  BY <1>3, <1>4, <1>5, <1>6 DEF KeyInv

(* What Finished says of a key of which the invariant holds.               *)
LEMMA KeyCases ==
    ASSUME ConsoleAssumption, NEW k \in Keys, KeyInv(k)
    PROVE  /\ cache[k] = Absent => NoEntry(k)
           /\ cache[k] = InFlight => EntryInFlight(k)
           /\ Idem!Finished(k) <=> cache[k] \in Idem!Entry
           /\ Idem!Finished(k) => EntryFinished(k)
           /\ cache[k] \in Idem!Entry => cache[k] # InFlight /\ cache[k] # Absent
BY DEF ConsoleAssumption, Idem!IdempotencyAssumption, KeyInv, Idem!Finished

(* A request that starts its handler under the key.                        *)
LEMMA HandlerIsNoted ==
    ASSUME IdemInv, NEW r \in Requests, Idem!RunsHandler(r), UNCHANGED <<key, body>>
    PROVE  /\ executed'[key[r]] = executed[key[r]] \cup {r}
           /\ pc'[r] = "handling"
           /\ ExecutionsAreNoted(key[r])'
           /\ InUse(key[r])' = InUse(key[r]) \cup {r}
<1> DEFINE k == key[r]
<1>1. k \in Keys /\ KeyInv(k)
  BY DEF IdemInv, RequestTypes
<1>2. executed'[k] = executed[k] \cup {r}
  BY <1>1 DEF Idem!RunsHandler, IdemInv, RequestTypes
<1>3. pc'[r] = "handling" /\ \A q \in Requests : q # r => pc'[q] = pc[q]
  BY DEF Idem!RunsHandler, Idem!Goes, IdemInv, RequestTypes
<1>4. InUse(k)' = InUse(k) \cup {r}
  BY <1>3 DEF InUse
<1>5. IsFiniteSet(executed'[k])
  BY <1>1, <1>2, FS_AddElement DEF KeyInv, ExecutionsAreNoted
<1>6. executed[k] \subseteq Requests
  BY <1>1 DEF IdemInv, RequestTypes
<1>7. \A q \in executed[k] : key[q] = k /\ pc[q] \in {"handling", "died", "answered"}
  BY <1>1 DEF KeyInv, ExecutionsAreNoted
<1>8. \A q \in InUse(k) : pc[q] = "handling" => q \in executed[k]
  BY <1>1 DEF KeyInv, ExecutionsAreNoted
<1>9. ExecutionsAreNoted(k)'
  BY <1>2, <1>3, <1>4, <1>5, <1>6, <1>7, <1>8 DEF ExecutionsAreNoted, InUse
<1> QED
  BY <1>2, <1>3, <1>4, <1>9

LEMMA BeginFreshKeeps ==
    ASSUME ConsoleAssumption, IdemInv, NEW r \in Requests, Idem!BeginFresh(r)
    PROVE  KeyInv(key[r])'
<1> DEFINE k == key[r]
<1>1. k \in Keys /\ KeyInv(k) /\ body[r] \in Bodies
  BY DEF IdemInv, RequestTypes
<1>2. NoEntry(k)
  BY <1>1, KeyCases DEF Idem!BeginFresh
<1>3. /\ executed'[k] = {r} /\ InUse(k)' = {r} /\ ExecutionsAreNoted(k)'
      /\ pc'[r] = "handling"
  BY <1>2, HandlerIsNoted DEF Idem!BeginFresh, NoEntry
<1>4. cache'[k] = InFlight /\ inflightBodies'[k] = body[r] /\ body' = body
  BY <1>1 DEF Idem!BeginFresh, IdemInv, RequestTypes
<1>5. key' = key /\ executed'[k] \cup InUse(k)' = {r}
  BY <1>3 DEF Idem!BeginFresh
<1>6. EntryInFlight(k)'
  BY <1>1, <1>3, <1>4, <1>5 DEF EntryInFlight
<1> QED
  BY <1>3, <1>4, <1>6 DEF KeyInv, Idem!BeginFresh

(* The request that waits has the body of the one it waits for.            *)
LEMMA BeginInFlightKeeps ==
    ASSUME ConsoleAssumption, IdemInv, NEW r \in Requests, Idem!BeginInFlight(r)
    PROVE  KeyInv(key[r])'
<1> DEFINE k == key[r]
<1>1. k \in Keys /\ KeyInv(k) /\ pc[r] = "new"
  BY DEF IdemInv, RequestTypes, Idem!BeginInFlight
<1>2. cache[k] = InFlight /\ EntryInFlight(k)
  BY <1>1, KeyCases DEF Idem!BeginInFlight
<1>3. UNCHANGED <<cache, inflightBodies, executed, key, body>>
  BY DEF Idem!BeginInFlight
<1>4. /\ (pc'[r] = "waiting" /\ body[r] = inflightBodies[k]) \/ pc'[r] = "conflict"
      /\ \A q \in Requests : q # r => pc'[q] = pc[q]
  BY <1>1, <1>2 DEF Idem!BeginInFlight, Idem!Goes, Idem!SameBody, EntryInFlight,
     IdemInv, RequestTypes, ConsoleAssumption, Idem!IdempotencyAssumption
<1>5. \A q \in executed[k] : q \in Requests /\ q # r
  BY <1>1 DEF IdemInv, RequestTypes, KeyInv, ExecutionsAreNoted
<1>6. \A q \in InUse(k)' : q \in InUse(k) \/ (q = r /\ pc'[r] = "waiting")
  <2>1. \A q \in Requests : q # r /\ q \in InUse(k)' => q \in InUse(k)
    BY <1>3, <1>4 DEF InUse
  <2>2. r \in InUse(k)' => pc'[r] = "waiting"
    BY <1>4 DEF InUse
  <2>3. InUse(k)' \subseteq Requests
    BY DEF InUse
  <2> QED
    BY <2>1, <2>2, <2>3
<1>7. ExecutionsAreNoted(k)'
  BY <1>1, <1>3, <1>4, <1>5, <1>6 DEF KeyInv, ExecutionsAreNoted, InUse
<1>8. EntryInFlight(k)'
  BY <1>2, <1>3, <1>4, <1>5, <1>6 DEF EntryInFlight
<1> QED
  BY <1>2, <1>3, <1>7, <1>8 DEF KeyInv

(* A request that leaves the key, or never entered it.                     *)
LEMMA LeavingKeeps ==
    ASSUME IdemInv, NEW r \in Requests, NEW to \in {"replayed", "conflict", "died"},
           Idem!Goes(r, to), pc[r] \in {"new", "waiting"} \/ (to = "died" /\ pc[r] = "handling"),
           UNCHANGED <<cache, inflightBodies, executed, key, body>>
    PROVE  KeyInv(key[r])'
<1> DEFINE k == key[r]
<1>1. k \in Keys /\ KeyInv(k)
  BY DEF IdemInv, RequestTypes
<1>2. pc'[r] = to /\ \A q \in Requests : q # r => pc'[q] = pc[q]
  BY DEF Idem!Goes, IdemInv, RequestTypes
<1>3. InUse(k)' \subseteq InUse(k)
  BY <1>2 DEF InUse
<1>4. \A q \in executed[k] : /\ q \in Requests
                             /\ pc'[q] = pc[q] \/ (pc[q] = "handling" /\ pc'[q] = "died")
  <2>1. \A q \in executed[k] : q \in Requests /\ pc[q] \in {"handling", "died", "answered"}
    BY <1>1 DEF IdemInv, RequestTypes, KeyInv, ExecutionsAreNoted
  <2>2. r \in executed[k] => pc[r] = "handling" /\ pc'[r] = "died"
    BY <1>2, <2>1
  <2> QED
    BY <1>2, <2>1, <2>2
<1>5. \A q \in InUse(k)' : pc'[q] = pc[q]
  <2>1. r \notin InUse(k)' /\ InUse(k)' \subseteq Requests
    BY <1>2 DEF InUse
  <2> QED
    BY <1>2, <2>1
<1>6. ExecutionsAreNoted(k)'
  BY <1>1, <1>3, <1>4, <1>5 DEF KeyInv, ExecutionsAreNoted
<1>7. NoEntry(k) => NoEntry(k)'
  BY <1>3 DEF NoEntry
<1>8. EntryInFlight(k) => EntryInFlight(k)'
  BY <1>3, <1>4 DEF EntryInFlight
<1>9. EntryFinished(k) => EntryFinished(k)'
  BY <1>3, <1>4 DEF EntryFinished
<1> QED
  BY <1>1, <1>6, <1>7, <1>8, <1>9 DEF KeyInv

LEMMA WakeFreshKeeps ==
    ASSUME ConsoleAssumption, IdemInv, NEW r \in Requests, Idem!WakeFresh(r)
    PROVE  KeyInv(key[r])' /\ EntryInFlight(key[r])
<1> DEFINE k == key[r]
<1>1. k \in Keys /\ KeyInv(k) /\ r \in InUse(k)
  BY DEF IdemInv, RequestTypes, Idem!WakeFresh, InUse
<1>2. cache[k] = InFlight /\ EntryInFlight(k)
  BY <1>1, KeyCases DEF Idem!WakeFresh, Idem!Finished, NoEntry
<1>3. UNCHANGED <<cache, inflightBodies, key, body>> /\ Idem!RunsHandler(r)
  BY DEF Idem!WakeFresh
<1>4. /\ executed'[k] = executed[k] \cup {r} /\ InUse(k)' = InUse(k) \cup {r}
      /\ ExecutionsAreNoted(k)' /\ pc'[r] = "handling"
  BY <1>3, HandlerIsNoted
<1>5. \A q \in executed[k] : q \in Requests /\ (q # r => pc'[q] = pc[q])
  BY <1>1, <1>3 DEF Idem!RunsHandler, Idem!Goes, IdemInv, RequestTypes
<1>6. EntryInFlight(k)'
  BY <1>1, <1>2, <1>3, <1>4, <1>5 DEF EntryInFlight
<1> QED
  BY <1>2, <1>3, <1>4, <1>6 DEF KeyInv

(* The first finish keeps the body hash, a later one falls back to "".     *)
LEMMA FinishKeeps ==
    ASSUME ConsoleAssumption, IdemInv, NEW r \in Requests, Idem!Finish(r)
    PROVE  KeyInv(key[r])'
<1> DEFINE k == key[r]
<1>1. k \in Keys /\ KeyInv(k) /\ r \in InUse(k) /\ pc[r] = "handling"
  BY DEF IdemInv, RequestTypes, Idem!Finish, InUse
<1>2. r \in executed[k] /\ body[r] \in Bodies
  BY <1>1 DEF KeyInv, ExecutionsAreNoted, IdemInv, RequestTypes
<1>3. /\ cache'[k] = Idem!FinishedEntry(r) /\ inflightBodies'[k] = Absent
      /\ UNCHANGED <<key, body, executed>>
  BY <1>1 DEF Idem!Finish, IdemInv, RequestTypes
<1>4. pc'[r] = "answered" /\ \A q \in Requests : q # r => pc'[q] = pc[q]
  BY DEF Idem!Finish, Idem!Goes, IdemInv, RequestTypes
<1>5. InUse(k)' \subseteq InUse(k) /\ \A q \in InUse(k)' : pc'[q] = pc[q]
  <2>1. r \notin InUse(k)' /\ InUse(k)' \subseteq Requests
    BY <1>4 DEF InUse
  <2>2. InUse(k)' \subseteq InUse(k)
    BY <1>3, <1>4, <2>1 DEF InUse
  <2> QED
    BY <1>4, <2>1, <2>2
<1>6. \A q \in executed[k] : q \in Requests
  BY <1>1 DEF IdemInv, RequestTypes
<1>7. ExecutionsAreNoted(k)'
  BY <1>1, <1>3, <1>4, <1>5, <1>6 DEF KeyInv, ExecutionsAreNoted
<1>8. CASE EntryInFlight(k)
  <2>1. Idem!FinishedEntry(r) = [response |-> r, bodyHash |-> body[r]]
    BY <1>1, <1>2, <1>8 DEF Idem!FinishedEntry, EntryInFlight, ConsoleAssumption,
       Idem!IdempotencyAssumption
  <2>2. cache'[k] \in Idem!Entry
    BY <1>2, <1>3, <2>1 DEF Idem!Entry
  <2>3. \A q \in executed[k] \cup InUse(k) : body[q] = body[r]
    BY <1>1, <1>8 DEF EntryInFlight
  <2>4. EntryFinished(k)'
    BY <1>2, <1>3, <1>4, <1>5, <2>1, <2>3 DEF EntryFinished
  <2> QED
    BY <1>3, <1>7, <2>2, <2>4 DEF KeyInv
<1>9. CASE EntryFinished(k)
  <2>1. Idem!FinishedEntry(r) = [response |-> r, bodyHash |-> EmptyHash]
    BY <1>9 DEF Idem!FinishedEntry, EntryFinished
  <2>2. cache'[k] \in Idem!Entry
    BY <1>2, <1>3, <2>1 DEF Idem!Entry
  <2>3. cache[k].response \in executed[k] /\ cache[k].response # r
    BY <1>1, <1>9 DEF EntryFinished
  <2>4. \A q \in executed[k] \cup InUse(k) : body[q] = body[r]
    BY <1>1, <1>9 DEF EntryFinished
  <2>5. EntryFinished(k)'
    BY <1>2, <1>3, <1>4, <1>5, <2>1, <2>3, <2>4 DEF EntryFinished
  <2> QED
    BY <1>3, <1>7, <2>2, <2>5 DEF KeyInv
<1> QED
  BY <1>1, <1>8, <1>9 DEF KeyInv, NoEntry

LEMMA EvictKeeps ==
    ASSUME IdemInv, NEW k \in Keys, Idem!Evict(k)
    PROVE  KeyInv(k)'
<1>1. cache'[k] = Absent /\ executed'[k] = {} /\ UNCHANGED <<pc, key>>
  BY DEF Idem!Evict, IdemInv, RequestTypes
<1>2. InUse(k)' = {}
  BY <1>1 DEF Idem!Evict, Idem!Pending, InUse
<1>3. IsFiniteSet(executed'[k])
  BY <1>1, FS_EmptySet
<1> QED
  BY <1>1, <1>2, <1>3 DEF KeyInv, ExecutionsAreNoted, NoEntry

LEMMA RequestTypesKept ==
    ASSUME IdemInv, [Idem!Next]_idemVars
    PROVE  RequestTypes'
<1>1. CASE UNCHANGED idemVars
  BY <1>1 DEF idemVars, IdemInv, RequestTypes
<1>2. CASE \E k \in Keys : Idem!Evict(k)
  BY <1>2 DEF Idem!Evict, IdemInv, RequestTypes
<1>3. ASSUME NEW r \in Requests,
             \/ Idem!BeginFresh(r) \/ Idem!BeginInFlight(r) \/ Idem!BeginFinished(r)
             \/ Idem!WakeReplay(r) \/ Idem!WakeFresh(r) \/ Idem!Finish(r) \/ Idem!Dies(r)
      PROVE  RequestTypes'
  <2>1. PICK to \in {"waiting", "handling", "answered", "replayed", "conflict", "died"} :
            Idem!Goes(r, to)
    BY <1>3 DEF Idem!BeginFresh, Idem!BeginInFlight, Idem!BeginFinished, Idem!Replays,
       Idem!WakeReplay, Idem!WakeFresh, Idem!RunsHandler, Idem!Finish, Idem!Dies
  <2>2. pc' \in [Requests -> {"new", "waiting", "handling", "answered", "replayed",
                              "conflict", "died"}]
    BY <2>1 DEF Idem!Goes, IdemInv, RequestTypes
  <2>3. UNCHANGED <<key, body>>
    BY <1>3 DEF Idem!BeginFresh, Idem!BeginInFlight, Idem!BeginFinished, Idem!Replays,
       Idem!WakeReplay, Idem!WakeFresh, Idem!RunsHandler, Idem!Finish, Idem!Dies
  <2>4. \/ executed' = executed
        \/ executed' = [executed EXCEPT ![key[r]] = executed[key[r]] \cup {r}]
    BY <1>3 DEF Idem!BeginFresh, Idem!BeginInFlight, Idem!BeginFinished, Idem!Replays,
       Idem!WakeReplay, Idem!WakeFresh, Idem!RunsHandler, Idem!Finish, Idem!Dies
  <2>5. DOMAIN executed' = Keys /\ \A k \in Keys : executed'[k] \subseteq Requests
    BY <2>4 DEF IdemInv, RequestTypes
  <2>6. DOMAIN cache' = DOMAIN cache
    BY <1>3 DEF Idem!BeginFresh, Idem!BeginInFlight, Idem!BeginFinished, Idem!Replays,
       Idem!WakeReplay, Idem!WakeFresh, Idem!RunsHandler, Idem!Finish, Idem!Dies
  <2>7. DOMAIN inflightBodies' = DOMAIN inflightBodies
    BY <1>3 DEF Idem!BeginFresh, Idem!BeginInFlight, Idem!BeginFinished, Idem!Replays,
       Idem!WakeReplay, Idem!WakeFresh, Idem!RunsHandler, Idem!Finish, Idem!Dies
  <2>8. DOMAIN answer' = DOMAIN answer
    BY <1>3 DEF Idem!BeginFresh, Idem!BeginInFlight, Idem!BeginFinished, Idem!Replays,
       Idem!WakeReplay, Idem!WakeFresh, Idem!RunsHandler, Idem!Finish, Idem!Dies
  <2> QED
    BY <2>2, <2>3, <2>5, <2>6, <2>7, <2>8 DEF IdemInv, RequestTypes
<1> QED
  BY <1>1, <1>2, <1>3 DEF Idem!Next

LEMMA IdemStep ==
    ASSUME ConsoleAssumption, IdemInv, [Idem!Next]_idemVars
    PROVE  IdemInv'
<1>1. CASE UNCHANGED idemVars
  <2>1. \A k \in Keys : KeyInv(k)'
    BY <1>1, OtherKeysKeep DEF idemVars, IdemInv, RequestTypes
  <2> QED
    BY <2>1, RequestTypesKept DEF IdemInv
<1>2. ASSUME NEW r \in Requests,
             \/ Idem!BeginFresh(r) \/ Idem!BeginInFlight(r) \/ Idem!BeginFinished(r)
             \/ Idem!WakeReplay(r) \/ Idem!WakeFresh(r) \/ Idem!Finish(r) \/ Idem!Dies(r)
      PROVE  \A k \in Keys : KeyInv(k)'
  <2>1. KeyInv(key[r])'
    <3>1. CASE Idem!BeginFinished(r) \/ Idem!WakeReplay(r) \/ Idem!Dies(r)
      <4>1. UNCHANGED <<cache, inflightBodies, executed, key, body>>
        BY <3>1 DEF Idem!BeginFinished, Idem!WakeReplay, Idem!Dies
      <4>2. PICK to \in {"replayed", "conflict", "died"} :
               /\ Idem!Goes(r, to)
               /\ pc[r] \in {"new", "waiting"} \/ (to = "died" /\ pc[r] = "handling")
        <5>1. CASE Idem!BeginFinished(r)
          BY <5>1 DEF Idem!BeginFinished, Idem!Replays
        <5>2. CASE Idem!WakeReplay(r)
          BY <5>2 DEF Idem!WakeReplay, Idem!Replays
        <5>3. CASE Idem!Dies(r)
          BY <5>3 DEF Idem!Dies
        <5> QED
          BY <3>1, <5>1, <5>2, <5>3
      <4> QED
        BY <4>1, <4>2, LeavingKeeps
    <3> QED
      BY <1>2, <3>1, BeginFreshKeeps, BeginInFlightKeeps, WakeFreshKeeps, FinishKeeps
  <2>2. UNCHANGED <<key, body>> /\ \A q \in Requests : q # r => pc'[q] = pc[q]
    <3>1. \E to \in {"waiting", "handling", "answered", "replayed", "conflict", "died"} :
              Idem!Goes(r, to)
      BY <1>2 DEF Idem!BeginFresh, Idem!BeginInFlight, Idem!BeginFinished, Idem!Replays,
         Idem!WakeReplay, Idem!WakeFresh, Idem!RunsHandler, Idem!Finish, Idem!Dies
    <3>2. UNCHANGED <<key, body>>
      BY <1>2 DEF Idem!BeginFresh, Idem!BeginInFlight, Idem!BeginFinished, Idem!Replays,
         Idem!WakeReplay, Idem!WakeFresh, Idem!RunsHandler, Idem!Finish, Idem!Dies
    <3> QED
      BY <3>1, <3>2 DEF Idem!Goes, IdemInv, RequestTypes
  <2>3. \A k \in Keys \ {key[r]} : cache'[k] = cache[k] /\ executed'[k] = executed[k]
    BY <1>2 DEF Idem!BeginFresh, Idem!BeginInFlight, Idem!BeginFinished, Idem!Replays,
       Idem!WakeReplay, Idem!WakeFresh, Idem!RunsHandler, Idem!Finish, Idem!Dies,
       IdemInv, RequestTypes
  <2>4. \A k \in Keys \ {key[r]} : inflightBodies'[k] = inflightBodies[k]
    BY <1>2 DEF Idem!BeginFresh, Idem!BeginInFlight, Idem!BeginFinished, Idem!Replays,
       Idem!WakeReplay, Idem!WakeFresh, Idem!RunsHandler, Idem!Finish, Idem!Dies,
       IdemInv, RequestTypes
  <2>5. ASSUME NEW k \in Keys \ {key[r]} PROVE KeyInv(k)'
    BY <2>2, <2>3, <2>4, OtherKeysKeep DEF IdemInv, RequestTypes
  <2> QED
    BY <2>1, <2>2, <2>5
<1>3. ASSUME NEW j \in Keys, Idem!Evict(j) PROVE \A k \in Keys : KeyInv(k)'
  <2>1. /\ UNCHANGED <<inflightBodies, pc, key, body>>
        /\ \A k \in Keys : k # j => cache'[k] = cache[k] /\ executed'[k] = executed[k]
    BY <1>3 DEF Idem!Evict, IdemInv, RequestTypes
  <2>2. \A k \in Keys : k # j => KeyInv(k)'
    BY <2>1, OtherKeysKeep DEF IdemInv, RequestTypes
  <2> QED
    BY <1>3, <2>2, EvictKeeps
<1> QED
  BY <1>1, <1>2, <1>3, RequestTypesKept DEF IdemInv, Idem!Next

(* A replay: of a finished entry, to a request with the entry's body.      *)
LEMMA StepReplays ==
    ASSUME ConsoleAssumption, IdemInv, [Idem!Next]_idemVars,
           NEW r \in Requests, pc[r] # "replayed", pc'[r] = "replayed"
    PROVE  answer'[r] # Absent /\ key[answer'[r]] = key[r] /\ body[answer'[r]] = body[r]
<1>1. key[r] \in Keys /\ KeyInv(key[r]) /\ body[r] \in Bodies
  BY DEF IdemInv, RequestTypes
<1>2. /\ \/ Idem!BeginFinished(r) /\ body[r] = cache[key[r]].bodyHash
         \/ Idem!WakeReplay(r)
      /\ answer'[r] = cache[key[r]].response
  <2>1. PICK q \in Requests : \/ Idem!BeginFinished(q) \/ Idem!WakeReplay(q)
    BY DEF Idem!Next, idemVars, Idem!BeginFresh, Idem!BeginInFlight, Idem!RunsHandler,
       Idem!WakeFresh, Idem!Finish, Idem!Dies, Idem!Evict, Idem!Goes, IdemInv, RequestTypes
  <2>2. q = r
    BY <2>1 DEF Idem!BeginFinished, Idem!WakeReplay, Idem!Replays, Idem!Goes, IdemInv, RequestTypes
  <2>3. CASE Idem!BeginFinished(r)
    BY <2>3 DEF Idem!BeginFinished, Idem!Replays, Idem!Goes, Idem!SameBody, IdemInv, RequestTypes
  <2>4. CASE Idem!WakeReplay(r)
    BY <2>4 DEF Idem!WakeReplay, Idem!Replays, IdemInv, RequestTypes
  <2> QED
    BY <2>1, <2>2, <2>3, <2>4
<1>3. EntryFinished(key[r])
  BY <1>1, <1>2, KeyCases DEF Idem!BeginFinished, Idem!WakeReplay
<1>4. cache[key[r]].response \in executed[key[r]]
  BY <1>3 DEF EntryFinished
<1>5. answer'[r] \in Requests /\ key[answer'[r]] = key[r]
  BY <1>1, <1>2, <1>4 DEF IdemInv, RequestTypes, KeyInv, ExecutionsAreNoted
<1>6. CASE Idem!WakeReplay(r)
  <2>1. r \in InUse(key[r])
    BY <1>6 DEF Idem!WakeReplay, InUse
  <2> QED
    BY <1>2, <1>3, <1>5, <2>1 DEF EntryFinished, ConsoleAssumption, Idem!IdempotencyAssumption
<1>7. CASE body[r] = cache[key[r]].bodyHash
  BY <1>1, <1>2, <1>3, <1>5, <1>7 DEF EntryFinished, ConsoleAssumption, Idem!IdempotencyAssumption
<1> QED
  BY <1>2, <1>6, <1>7

(* A handler that runs while the entry lives: its request has waited.      *)
LEMMA StepRunsAgain ==
    ASSUME ConsoleAssumption, IdemInv, [Idem!Next]_idemVars,
           NEW k \in Keys, NEW r \in executed'[k] \ executed[k], executed[k] # {}
    PROVE  pc[r] = "waiting" /\ \A q \in executed[k] : pc[q] \in {"handling", "died"}
<1>1. PICK q \in Requests : (Idem!BeginFresh(q) \/ Idem!WakeFresh(q)) /\ executed' # executed
  BY DEF Idem!Next, idemVars, Idem!BeginInFlight, Idem!BeginFinished, Idem!WakeReplay,
     Idem!Finish, Idem!Dies, Idem!Evict, IdemInv, RequestTypes
<1>2. k = key[q] /\ r = q
  BY <1>1 DEF Idem!BeginFresh, Idem!WakeFresh, Idem!RunsHandler, IdemInv, RequestTypes
<1>3. KeyInv(k)
  BY DEF IdemInv
<1>4. ~Idem!BeginFresh(q)
  BY <1>2, <1>3, KeyCases DEF Idem!BeginFresh, NoEntry
<1>5. EntryInFlight(k) /\ pc[r] = "waiting"
  BY <1>1, <1>2, <1>4, WakeFreshKeeps DEF Idem!WakeFresh
<1> QED
  BY <1>3, <1>5 DEF EntryInFlight, KeyInv, ExecutionsAreNoted

(* Two members make a cardinality above one.                               *)
LEMMA TwoMembers ==
    ASSUME NEW S, IsFiniteSet(S), NEW p \in S, NEW q \in S, p # q
    PROVE  Cardinality(S) > 1
<1>1. IsFiniteSet(S \ {p}) /\ Cardinality(S \ {p}) = Cardinality(S) - 1
  BY FS_RemoveElement
<1>2. Cardinality(S \ {p}) # 0 /\ Cardinality(S \ {p}) \in Nat
  BY <1>1, FS_EmptySet, FS_CardinalityType
<1> QED
  BY <1>1, <1>2, FS_CardinalityType

(* A conflict: another body was executed, or the body hash was lost.       *)
LEMMA StepConflicts ==
    ASSUME ConsoleAssumption, IdemInv, [Idem!Next]_idemVars,
           NEW r \in Requests, pc[r] # "conflict", pc'[r] = "conflict"
    PROVE  \/ \E q \in executed[key[r]] : body[q] # body[r]
           \/ Cardinality(executed[key[r]]) > 1
<1>1. key[r] \in Keys /\ KeyInv(key[r])
  BY DEF IdemInv, RequestTypes
<1>2. PICK q \in Requests : Idem!BeginInFlight(q) \/ Idem!BeginFinished(q)
  BY DEF Idem!Next, idemVars, Idem!BeginFresh, Idem!RunsHandler, Idem!WakeReplay,
     Idem!Replays, Idem!WakeFresh, Idem!Finish, Idem!Dies, Idem!Evict, Idem!Goes, IdemInv, RequestTypes
<1>3. q = r
  BY <1>2 DEF Idem!BeginInFlight, Idem!BeginFinished, Idem!Replays, Idem!Goes, IdemInv, RequestTypes
<1>4. CASE Idem!BeginInFlight(r)
  <2>1. EntryInFlight(key[r]) /\ inflightBodies[key[r]] # body[r]
    BY <1>1, <1>4, KeyCases DEF Idem!BeginInFlight, Idem!Goes, Idem!SameBody, IdemInv, RequestTypes
  <2> QED
    BY <2>1 DEF EntryInFlight
<1>5. CASE Idem!BeginFinished(r)
  <2>1. EntryFinished(key[r]) /\ cache[key[r]].bodyHash # body[r]
    BY <1>1, <1>5, KeyCases DEF Idem!BeginFinished, Idem!Replays, Idem!Goes, Idem!SameBody,
       IdemInv, RequestTypes
  <2>2. CASE cache[key[r]].bodyHash = body[cache[key[r]].response]
    BY <2>1, <2>2 DEF EntryFinished
  <2>3. CASE \E p \in executed[key[r]] : p # cache[key[r]].response
    BY <1>1, <2>1, <2>3, TwoMembers DEF EntryFinished, KeyInv, ExecutionsAreNoted
  <2> QED
    BY <2>1, <2>2, <2>3 DEF EntryFinished
<1> QED
  BY <1>2, <1>3, <1>4, <1>5

(* However requests, retries, handlers that die and evictions interleave,  *)
(* a replay is of the same request, a handler runs again only for one that *)
(* has waited, and a conflict is explained (idempotency.ts:29-55).         *)
THEOREM ConsoleKeysAreHonoured == ConsoleSpec => KeysAreHonoured
<1>1. ConsoleInit => IdemInv
  BY ConsoleAssumption, IdemInit DEF ConsoleInit
<1>2. [ConsoleNext]_consoleVars => [Idem!Next]_idemVars
  BY DEF ConsoleNext, consoleVars
<1>3. IdemInv /\ [Idem!Next]_idemVars => IdemInv'
  BY ConsoleAssumption, IdemStep
<1>4. IdemInv /\ [Idem!Next]_idemVars =>
         [\A r \in Requests : pc[r] # "replayed" /\ pc'[r] = "replayed" =>
             answer'[r] # Absent /\ key[answer'[r]] = key[r] /\ body[answer'[r]] = body[r]]_Idem!vars
  BY ConsoleAssumption, StepReplays
<1>5. IdemInv /\ [Idem!Next]_idemVars =>
         [\A k \in Keys : \A r \in executed'[k] \ executed[k] : executed[k] # {} =>
             /\ pc[r] = "waiting"
             /\ \A q \in executed[k] : pc[q] \in {"handling", "died"}]_Idem!vars
  BY ConsoleAssumption, StepRunsAgain
<1>6. IdemInv /\ [Idem!Next]_idemVars =>
         [\A r \in Requests : pc[r] # "conflict" /\ pc'[r] = "conflict" =>
             \/ \E q \in executed[key[r]] : body[q] # body[r]
             \/ Idem!Cardinality(executed[key[r]]) > 1]_Idem!vars
  <2>1. \A S : Idem!Cardinality(S) = Cardinality(S)
    BY Zenon DEF Idem!Cardinality, Cardinality
  <2> QED
    BY <2>1, ConsoleAssumption, StepConflicts
<1> QED
  BY <1>1, <1>2, <1>3, <1>4, <1>5, <1>6, PTL
     DEF ConsoleSpec, KeysAreHonoured, Idem!KeysAreHonoured, Idem!ReplayIsOfSameRequest,
         Idem!RunsAgainOnlyAfterWaiting, Idem!ConflictIsExplained
-----------------------------------------------------------------------------
(* The rate limiter.  Both logs are oldest first, and counted from their   *)
(* young ends the allowed hits are no younger than the hits: of the hits   *)
(* that live, at least as many are in the bucket as were allowed.          *)
Ages == 0..WindowSec

OldestFirst(ages) == \A i, j \in 1..Len(ages) : i <= j => ages[j] <= ages[i]

Matched ==
    \A i \in 1..Len(passed) : passed[i] < WindowSec =>
        \E j \in 1..Len(bucket) :
            Len(bucket) - j = Len(passed) - i /\ bucket[j] <= passed[i]

RateInv ==
    /\ bucket \in Seq(Ages) /\ OldestFirst(bucket)
    /\ passed \in Seq(Ages) /\ OldestFirst(passed)
    /\ Matched
    /\ Len(Rate!Live(passed)) <= Limit

(* A set of naturals that is not empty has a least element.                *)
LEMMA LeastNat ==
    ASSUME NEW T \in SUBSET Nat, T # {}
    PROVE  \E m \in T : \A n \in T : m <= n
<1> DEFINE R == OpToRel(<, Nat)
<1>1. IsWellFoundedOn(R, Nat)
  BY NatLessThanWellFounded
<1>2. \A n, m \in Nat : n < m => <<n, m>> \in R
  BY DEF OpToRel
<1> HIDE DEF R
<1>3. PICK m \in T : \A n \in T : <<n, m>> \notin R
  BY <1>1, WFMin
<1>4. ASSUME NEW n \in T PROVE m <= n
  <2>1. m \in Nat /\ n \in Nat
    OBVIOUS
  <2>2. ~(n < m)
    BY <1>2, <1>3, <2>1
  <2> QED
    BY <2>1, <2>2
<1> QED
  BY <1>4

LEMMA AgeType ==
    ASSUME NEW ages \in Seq(Ages), NEW i \in 1..Len(ages)
    PROVE  ages[i] \in 0..WindowSec
<1>1. ages[i] \in Ages
  OBVIOUS
<1> QED
  BY <1>1 DEF Ages

LEMMA Appended ==
    ASSUME NEW S, NEW seq \in Seq(S), NEW e \in S
    PROVE  /\ Append(seq, e) \in Seq(S) /\ Len(Append(seq, e)) = Len(seq) + 1
           /\ \A i \in 1..Len(seq) : Append(seq, e)[i] = seq[i]
           /\ Append(seq, e)[Len(seq) + 1] = e
           /\ \A i \in 1..Len(Append(seq, e)) : i \in 1..Len(seq) \/ i = Len(seq) + 1
OBVIOUS

(* The prune splits a log into what has expired and what lives.            *)
LEMMA LiveIs ==
    ASSUME ConsoleAssumption, NEW ages \in Seq(Ages), OldestFirst(ages)
    PROVE  \E n \in 0..Len(ages) :
              /\ Rate!Live(ages) = SubSeq(ages, n + 1, Len(ages))
              /\ \A i \in 1..n : ages[i] = WindowSec
              /\ \A i \in n+1..Len(ages) : ages[i] < WindowSec
<1> DEFINE L       == Len(ages)
           T       == {i \in Nat : i = L + 1 \/ (i \in 1..L /\ ages[i] < WindowSec)}
           expired == {i \in 1..L : \A j \in 1..i : ages[j] >= WindowSec}
<1>1. L \in Nat /\ WindowSec \in Nat /\ \A i \in 1..L : ages[i] \in 0..WindowSec
  BY DEF ConsoleAssumption, Rate!LimiterAssumption, Ages
<1>2. L + 1 \in T /\ T \in SUBSET Nat
  BY <1>1
<1> HIDE DEF L
<1>3. PICK m \in T : \A i \in T : m <= i
  BY <1>2, LeastNat
<1>4. m \in 1..L+1
  BY <1>1, <1>2, <1>3
<1>5. \A i \in 1..L : i < m => ages[i] = WindowSec
  <2> SUFFICES ASSUME NEW i \in 1..L, i < m PROVE ages[i] = WindowSec
    OBVIOUS
  <2>1. i \notin T
    BY <1>3, <1>4
  <2> QED
    BY <1>1, <2>1
<1>6. \A i \in 1..L : i >= m => ages[i] < WindowSec
  <2> SUFFICES ASSUME NEW i \in 1..L, i >= m PROVE ages[i] < WindowSec
    OBVIOUS
  <2>1. m \in 1..L /\ ages[m] < WindowSec
    BY <1>1, <1>3, <1>4
  <2>2. ages[i] <= ages[m]
    BY <2>1 DEF OldestFirst, L
  <2> QED
    BY <1>1, <2>1, <2>2
<1>7. expired = 1..(m - 1)
  <2>1. ASSUME NEW i \in 1..(m - 1) PROVE i \in expired
    <3>1. i \in 1..L
      BY <1>1, <1>4
    <3>2. \A j \in 1..i : j \in 1..L /\ j < m
      BY <1>1, <1>4
    <3> QED
      BY <1>1, <1>5, <3>1, <3>2
  <2>2. ASSUME NEW i \in expired PROVE i \in 1..(m - 1)
    <3>1. i \in 1..L /\ (i >= m => m \in 1..i)
      BY <1>1, <1>4
    <3>2. ~(i >= m)
      BY <1>1, <1>4, <1>6, <3>1
    <3> QED
      BY <1>1, <1>4, <3>1, <3>2
  <2> QED
    BY <2>1, <2>2
<1>8. Cardinality(expired) = m - 1
  <2>1. m - 1 \in Int /\ 1 \in Int /\ m - 1 >= 0
    BY <1>1, <1>4
  <2>2. Cardinality(1..(m - 1)) = IF 1 > m - 1 THEN 0 ELSE (m - 1) - 1 + 1
    BY <2>1, FS_Interval
  <2>3. Cardinality(1..(m - 1)) = m - 1
    BY <2>1, <2>2
  <2> HIDE DEF expired
  <2> QED
    BY <1>7, <2>3
<1>9. Rate!Cardinality(expired) = Cardinality(expired)
  BY Zenon DEF Rate!Cardinality, Cardinality
<1>10. Rate!Live(ages) = SubSeq(ages, Rate!Cardinality(expired) + 1, L)
  BY DEF Rate!Live, L
<1> HIDE DEF T, expired
<1>11. m - 1 \in 0..L /\ \A i \in 1..(m - 1) : i \in 1..L /\ i < m
  BY <1>1, <1>4
<1>12. \A i \in (m - 1) + 1..L : i \in 1..L /\ i >= m
  BY <1>1, <1>4
<1> QED
  BY <1>5, <1>6, <1>8, <1>9, <1>10, <1>11, <1>12 DEF L

(* The young end of a log, with the time of a hit behind it or not.        *)
YoungEnd(ages, n, live) ==
    /\ live \in Seq(Ages) /\ Len(live) = Len(ages) - n /\ OldestFirst(live)
    /\ \A i \in 1..Len(live) : live[i] = ages[n + i] /\ live[i] < WindowSec

YoungerStill(ages, n, more) ==
    /\ more \in Seq(Ages) /\ Len(more) = Len(ages) - n + 1 /\ OldestFirst(more)
    /\ \A i \in 1..(Len(ages) - n) : more[i] = ages[n + i]
    /\ more[Len(ages) - n + 1] = 0
    /\ \A i \in 1..Len(more) : more[i] < WindowSec

LEMMA YoungEnds ==
    ASSUME ConsoleAssumption, NEW ages \in Seq(Ages), OldestFirst(ages),
           NEW n \in 0..Len(ages), NEW live, live = SubSeq(ages, n + 1, Len(ages)),
           \A i \in n+1..Len(ages) : ages[i] < WindowSec
    PROVE  YoungEnd(ages, n, live) /\ YoungerStill(ages, n, Append(live, 0))
<1>1. Len(ages) \in Nat /\ WindowSec \in Nat /\ WindowSec > 0 /\ n \in Nat
  BY DEF ConsoleAssumption, Rate!LimiterAssumption
<1>2. live \in Seq(Ages) /\ Len(live) = Len(ages) - n
  BY <1>1
<1>3. \A i \in 1..Len(live) : live[i] = ages[n + i] /\ n + i \in n+1..Len(ages)
  BY <1>1, <1>2
<1>4. \A i \in 1..Len(live) : live[i] < WindowSec /\ live[i] \in Ages
  BY <1>2, <1>3
<1>5. OldestFirst(live)
  <2> SUFFICES ASSUME NEW i \in 1..Len(live), NEW j \in 1..Len(live), i <= j
               PROVE  live[j] <= live[i]
    BY DEF OldestFirst
  <2>1. n + i \in 1..Len(ages) /\ n + j \in 1..Len(ages) /\ n + i <= n + j
    BY <1>1, <1>2
  <2>2. ages[n + j] <= ages[n + i]
    BY <2>1 DEF OldestFirst
  <2> QED
    BY <1>3, <2>2
<1> HIDE DEF Ages
<1>6. 0 \in Ages
  BY <1>1 DEF Ages
<1>6a. live \in Seq(Ages)
  BY <1>2
<1>7. Append(live, 0) \in Seq(Ages) /\ Len(Append(live, 0)) = Len(live) + 1
  BY <1>6, <1>6a, Appended
<1>8. \A i \in 1..Len(live) : Append(live, 0)[i] = live[i]
  BY <1>6, <1>6a, Appended
<1>9. Append(live, 0)[Len(live) + 1] = 0
  BY <1>6, <1>6a, Appended
<1>10. \A i \in 1..Len(Append(live, 0)) : i \in 1..Len(live) \/ i = Len(live) + 1
  BY <1>6, <1>6a, Appended
<1>11. \A i \in 1..Len(Append(live, 0)) : Append(live, 0)[i] < WindowSec
  BY <1>1, <1>4, <1>8, <1>9, <1>10
<1>12. OldestFirst(Append(live, 0))
  <2> SUFFICES ASSUME NEW i \in 1..Len(Append(live, 0)), NEW j \in 1..Len(Append(live, 0)), i <= j
               PROVE  Append(live, 0)[j] <= Append(live, 0)[i]
    BY DEF OldestFirst
  <2>1. CASE j \in 1..Len(live)
    <3>1. i \in 1..Len(live)
      BY <1>1, <1>2, <2>1
    <3> QED
      BY <1>5, <1>8, <2>1, <3>1 DEF OldestFirst
  <2>2. CASE j = Len(live) + 1
    <3>1. Append(live, 0)[i] >= 0
      <4>1. Append(live, 0)[i] \in 0..WindowSec
        BY <1>7, AgeType
      <4> QED
        BY <1>1, <4>1
    <3> QED
      BY <1>9, <2>2, <3>1
  <2> QED
    BY <1>10, <2>1, <2>2
<1>13. YoungEnd(ages, n, live)
  BY <1>2, <1>3, <1>4, <1>5 DEF YoungEnd
<1>14. YoungerStill(ages, n, Append(live, 0))
  BY <1>2, <1>3, <1>7, <1>8, <1>9, <1>11, <1>12 DEF YoungerStill
<1> QED
  BY <1>13, <1>14

(* Nothing of a log that is all alive is pruned.                           *)
LEMMA AllLive ==
    ASSUME ConsoleAssumption, NEW ages \in Seq(Ages), OldestFirst(ages),
           \A i \in 1..Len(ages) : ages[i] < WindowSec
    PROVE  Len(Rate!Live(ages)) = Len(ages)
<1>1. PICK n \in 0..Len(ages) :
         /\ Rate!Live(ages) = SubSeq(ages, n + 1, Len(ages))
         /\ \A i \in 1..n : ages[i] = WindowSec
         /\ \A i \in n+1..Len(ages) : ages[i] < WindowSec
  BY LiveIs
<1>2. Len(ages) \in Nat /\ n \in Nat /\ WindowSec \in Nat
  BY DEF ConsoleAssumption, Rate!LimiterAssumption
<1>3. n = 0
  <2> SUFFICES ASSUME n >= 1 PROVE FALSE
    BY <1>2
  <2>1. 1 \in 1..n /\ 1 \in 1..Len(ages)
    BY <1>2
  <2> QED
    BY <1>1, <1>2, <2>1
<1>4. Len(SubSeq(ages, 1, Len(ages))) = Len(ages)
  BY <1>2
<1> QED
  BY <1>1, <1>3, <1>4

LEMMA HitKeeps ==
    ASSUME ConsoleAssumption, RateInv, Rate!Hit
    PROVE  RateInv'
<1>1. bucket \in Seq(Ages) /\ passed \in Seq(Ages) /\ OldestFirst(bucket) /\ OldestFirst(passed)
  BY DEF RateInv
<1>2. PICK b \in 0..Len(bucket) :
         /\ Rate!Live(bucket) = SubSeq(bucket, b + 1, Len(bucket))
         /\ \A i \in 1..b : bucket[i] = WindowSec
         /\ \A i \in b+1..Len(bucket) : bucket[i] < WindowSec
  BY <1>1, LiveIs
<1>3. PICK p \in 0..Len(passed) :
         /\ Rate!Live(passed) = SubSeq(passed, p + 1, Len(passed))
         /\ \A i \in 1..p : passed[i] = WindowSec
         /\ \A i \in p+1..Len(passed) : passed[i] < WindowSec
  BY <1>1, LiveIs
<1> DEFINE lb == Rate!Live(bucket)
           lp == Rate!Live(passed)
           nb == Len(bucket) - b
           np == Len(passed) - p
<1>4. /\ nb \in Nat /\ np \in Nat /\ b \in Nat /\ p \in Nat
      /\ Len(bucket) \in Nat /\ Len(passed) \in Nat
      /\ WindowSec \in Nat /\ WindowSec > 0 /\ Limit \in Nat
      /\ nb = Len(bucket) - b /\ np = Len(passed) - p
  BY <1>1 DEF ConsoleAssumption, Rate!LimiterAssumption
<1>5. /\ Append(lb, 0) \in Seq(Ages) /\ OldestFirst(Append(lb, 0))
      /\ Len(Append(lb, 0)) = nb + 1
      /\ \A i \in 1..nb : Append(lb, 0)[i] = bucket[b + i]
      /\ Append(lb, 0)[nb + 1] = 0
  <2>1. YoungerStill(bucket, b, Append(lb, 0))
    BY <1>1, <1>2, YoungEnds
  <2> QED
    BY <2>1 DEF YoungerStill
<1>6. /\ lp \in Seq(Ages) /\ OldestFirst(lp) /\ Len(lp) = np
      /\ \A i \in 1..np : lp[i] = passed[p + i] /\ lp[i] < WindowSec
      /\ Append(lp, 0) \in Seq(Ages) /\ OldestFirst(Append(lp, 0))
      /\ Len(Append(lp, 0)) = np + 1
      /\ \A i \in 1..np : Append(lp, 0)[i] = passed[p + i]
      /\ Append(lp, 0)[np + 1] = 0
      /\ \A i \in 1..Len(Append(lp, 0)) : Append(lp, 0)[i] < WindowSec
  <2>1. YoungEnd(passed, p, lp) /\ YoungerStill(passed, p, Append(lp, 0))
    BY <1>1, <1>3, YoungEnds
  <2> HIDE DEF lp
  <2>2. /\ lp \in Seq(Ages) /\ OldestFirst(lp) /\ Len(lp) = np
        /\ \A i \in 1..np : lp[i] = passed[p + i] /\ lp[i] < WindowSec
    BY <2>1 DEF YoungEnd
  <2>3. /\ Append(lp, 0) \in Seq(Ages) /\ OldestFirst(Append(lp, 0))
        /\ Len(Append(lp, 0)) = np + 1
        /\ \A i \in 1..np : Append(lp, 0)[i] = passed[p + i]
        /\ Append(lp, 0)[np + 1] = 0
        /\ \A i \in 1..Len(Append(lp, 0)) : Append(lp, 0)[i] < WindowSec
    BY <2>1 DEF YoungerStill
  <2> QED
    BY <2>2, <2>3
<1>7. /\ bucket' = Append(lb, 0)
      /\ \/ passed' = Append(lp, 0) /\ nb + 1 <= Limit
         \/ passed' = lp
  BY <1>5 DEF Rate!Hit, Rate!Allowed
<1>12. nb \in Nat /\ np \in Nat
  BY <1>4
<1> HIDE DEF lb, lp, nb, np
\* The place in the bucket of an allowed hit that lives.
<1>8. ASSUME NEW i \in 1..np
      PROVE  \E j \in 1..nb : nb - j = np - i /\ bucket[b + j] <= passed[p + i]
  <2>1. p + i \in 1..Len(passed) /\ passed[p + i] < WindowSec
    BY <1>3, <1>4
  <2>2. PICK j \in 1..Len(bucket) :
           Len(bucket) - j = Len(passed) - (p + i) /\ bucket[j] <= passed[p + i]
    BY <2>1 DEF RateInv, Matched
  <2>3. passed[p + i] \in 0..WindowSec /\ bucket[j] \in 0..WindowSec
    BY <1>1, <2>1, <2>2, AgeType
  <2>4. bucket[j] < WindowSec
    BY <1>4, <2>1, <2>2, <2>3
  <2>5. ~(j \in 1..b)
    BY <1>2, <1>4, <2>4
  <2>6. j - b \in 1..nb /\ nb - (j - b) = np - i /\ b + (j - b) = j
    BY <1>4, <2>2, <2>5
  <2> QED
    BY <2>2, <2>6
<1>9. np <= nb
  <2>1. CASE np = 0
    BY <1>4, <2>1
  <2>2. CASE np >= 1
    <3>0. 1 \in 1..np
      BY <1>4, <2>2
    <3>1. PICK j \in 1..nb : nb - j = np - 1
      BY <1>8, <3>0
    <3> QED
      BY <1>4, <3>1
  <2> QED
    BY <1>4, <2>1, <2>2
<1>10. CASE passed' = lp
  <2>1. Matched'
    <3>0. /\ Len(bucket') = nb + 1 /\ Len(passed') = np
          /\ \A i \in 1..np : passed'[i] = passed[p + i]
      BY <1>5, <1>6, <1>7, <1>10
    <3> SUFFICES ASSUME NEW i \in 1..Len(passed')
                 PROVE  \E j \in 1..Len(bucket') :
                           Len(bucket') - j = Len(passed') - i /\ bucket'[j] <= passed'[i]
      BY DEF Matched
    <3>1. PICK j \in 1..nb : nb - j = np - i /\ bucket[b + j] <= passed[p + i]
      BY <1>8, <3>0
    <3>2. b + j \in 1..Len(bucket) /\ p + i \in 1..Len(passed)
      BY <1>4, <3>0, <3>1
    <3>3. bucket[b + j] \in 0..WindowSec /\ passed[p + i] \in 0..WindowSec
      BY <1>1, <3>2, AgeType
    <3>4. bucket'[j + 1] <= passed[p + i]
      <4>1. CASE j = nb
        <5>1. bucket'[j + 1] = 0
          BY <1>5, <1>7, <4>1
        <5> QED
          BY <1>4, <3>3, <5>1
      <4>2. CASE j # nb
        <5>1. j + 1 \in 1..nb /\ b + (j + 1) \in 1..Len(bucket) /\ b + j <= b + (j + 1)
          BY <1>4, <3>1, <4>2
        <5>2. bucket'[j + 1] = bucket[b + (j + 1)]
          BY <1>5, <1>7, <5>1
        <5>3. bucket[b + (j + 1)] <= bucket[b + j]
          BY <1>1, <3>2, <5>1 DEF OldestFirst
        <5>4. bucket[b + (j + 1)] \in 0..WindowSec
          BY <1>1, <5>1, AgeType
        <5>5. \A x, y, z \in 0..WindowSec : x <= y /\ y <= z => x <= z
          BY <1>4
        <5> QED
          BY <3>1, <3>3, <5>2, <5>3, <5>4, <5>5
      <4> QED
        BY <4>1, <4>2
    <3>5. i \in 1..np /\ np \in Nat /\ nb \in Nat
      BY <1>4, <3>0
    <3>6. j + 1 \in 1..nb+1 /\ nb + 1 - (j + 1) = np - i
      BY <3>1, <3>5
    <3>7. passed'[i] = passed[p + i]
      BY <3>0, <3>5
    <3>8. j + 1 \in 1..Len(bucket') /\ Len(bucket') - (j + 1) = Len(passed') - i
      BY <1>12, <3>0, <3>6
    <3> QED
      BY <3>4, <3>7, <3>8
  <2>2. Len(Rate!Live(lp)) = Len(lp)
    BY <1>6, AllLive
  <2>3. np <= Limit
    BY <1>6 DEF RateInv, lp
  <2>4. Rate!Live(passed') = Rate!Live(lp)
    BY <1>10
  <2> QED
    BY <1>5, <1>6, <1>7, <1>10, <2>1, <2>2, <2>3, <2>4 DEF RateInv
<1>11. CASE passed' = Append(lp, 0) /\ nb + 1 <= Limit
  <2>1. Matched'
    <3>0. Len(bucket') = nb + 1 /\ Len(passed') = np + 1
      BY <1>5, <1>6, <1>7, <1>11
    <3> SUFFICES ASSUME NEW i \in 1..Len(passed')
                 PROVE  \E j \in 1..Len(bucket') :
                           Len(bucket') - j = Len(passed') - i /\ bucket'[j] <= passed'[i]
      BY DEF Matched
    <3>1. CASE i = np + 1
      <4>1. nb + 1 \in 1..nb+1 /\ nb + 1 - (nb + 1) = np + 1 - i
        BY <1>4, <3>1
      <4>2. bucket'[nb + 1] = 0 /\ passed'[i] = 0
        BY <1>5, <1>6, <1>7, <1>11, <3>1
      <4>3. nb + 1 \in 1..Len(bucket') /\ Len(bucket') - (nb + 1) = Len(passed') - i
        BY <1>12, <3>0, <4>1
      <4>4. bucket'[nb + 1] <= passed'[i]
        BY <4>2
      <4> QED
        BY <4>3, <4>4
    <3>2. CASE i \in 1..np
      <4>1. PICK j \in 1..nb : nb - j = np - i /\ bucket[b + j] <= passed[p + i]
        BY <1>8, <3>2
      <4>2. bucket'[j] = bucket[b + j] /\ passed'[i] = passed[p + i]
        BY <1>5, <1>6, <1>7, <1>11, <3>2, <4>1
      <4>3. j \in 1..nb+1 /\ nb + 1 - j = np + 1 - i
        BY <1>4, <4>1
      <4>4. j \in 1..Len(bucket') /\ Len(bucket') - j = Len(passed') - i
        BY <1>12, <3>0, <4>3
      <4>5. bucket'[j] <= passed'[i]
        BY <4>1, <4>2
      <4> QED
        BY <4>4, <4>5
    <3>3. i = np + 1 \/ i \in 1..np
      BY <1>4, <3>0
    <3> QED
      BY <3>1, <3>2, <3>3
  <2>2. Len(Rate!Live(Append(lp, 0))) = Len(Append(lp, 0))
    BY <1>6, AllLive
  <2>3. Rate!Live(passed') = Rate!Live(Append(lp, 0))
    BY <1>11
  <2>4. np + 1 <= Limit
    BY <1>4, <1>9, <1>11
  <2> QED
    BY <1>5, <1>6, <1>7, <1>11, <2>1, <2>2, <2>3, <2>4 DEF RateInv
<1> QED
  BY <1>7, <1>10, <1>11

(* Ageing keeps types and order, and revives nothing.                      *)
LEMMA OlderKeeps ==
    ASSUME ConsoleAssumption, NEW ages \in Seq(Ages), OldestFirst(ages)
    PROVE  /\ Rate!Older(ages) \in Seq(Ages) /\ Len(Rate!Older(ages)) = Len(ages)
           /\ \A i \in 1..Len(ages) : Rate!Older(ages)[i] =
                 IF ages[i] < WindowSec THEN ages[i] + 1 ELSE WindowSec
           /\ OldestFirst(Rate!Older(ages))
           /\ Len(Rate!Live(Rate!Older(ages))) <= Len(Rate!Live(ages))
<1> DEFINE old == Rate!Older(ages)
<1>1. /\ DOMAIN ages = 1..Len(ages) /\ Len(ages) \in Nat
      /\ WindowSec \in Nat /\ \A i \in 1..Len(ages) : ages[i] \in 0..WindowSec
  BY DEF ConsoleAssumption, Rate!LimiterAssumption, Ages
<1>2. old = [i \in 1..Len(ages) |-> IF ages[i] < WindowSec THEN ages[i] + 1 ELSE WindowSec]
  BY <1>1 DEF Rate!Older
<1> HIDE DEF old
<1>3. \A i \in 1..Len(ages) : (IF ages[i] < WindowSec THEN ages[i] + 1 ELSE WindowSec) \in Ages
  BY <1>1 DEF Ages
<1>4. old \in [1..Len(ages) -> Ages]
  BY <1>2, <1>3
<1>5. old \in Seq(Ages) /\ Len(old) = Len(ages)
  BY <1>1, <1>4
<1>6. \A i \in 1..Len(ages) : old[i] = IF ages[i] < WindowSec THEN ages[i] + 1 ELSE WindowSec
  BY <1>2
<1>7. OldestFirst(old)
  <2> SUFFICES ASSUME NEW i \in 1..Len(ages), NEW j \in 1..Len(ages), i <= j
               PROVE  old[j] <= old[i]
    BY <1>5 DEF OldestFirst
  <2>1. ages[j] <= ages[i]
    BY DEF OldestFirst
  <2> QED
    BY <1>1, <1>6, <2>1
<1>8. PICK n \in 0..Len(ages) :
         /\ Rate!Live(ages) = SubSeq(ages, n + 1, Len(ages))
         /\ \A i \in 1..n : ages[i] = WindowSec
         /\ \A i \in n+1..Len(ages) : ages[i] < WindowSec
  BY LiveIs
<1>9. PICK m \in 0..Len(old) :
         /\ Rate!Live(old) = SubSeq(old, m + 1, Len(old))
         /\ \A i \in 1..m : old[i] = WindowSec
         /\ \A i \in m+1..Len(old) : old[i] < WindowSec
  BY <1>5, <1>7, LiveIs
<1>10. Len(Rate!Live(ages)) = Len(ages) - n /\ Len(Rate!Live(old)) = Len(old) - m
  <2>1. Len(Rate!Live(ages)) = Len(ages) - n
    BY <1>8, YoungEnds DEF YoungEnd
  <2>2. Len(Rate!Live(old)) = Len(old) - m
    BY <1>5, <1>7, <1>9, YoungEnds DEF YoungEnd
  <2> QED
    BY <2>1, <2>2
<1>11. n <= m
  <2> SUFFICES ASSUME m < n PROVE FALSE
    BY <1>1, <1>5
  <2>1. n \in 1..n /\ n \in 1..Len(ages) /\ n \in m+1..Len(old)
    BY <1>1, <1>5
  <2>2. ages[n] = WindowSec /\ old[n] < WindowSec
    BY <1>8, <1>9, <2>1
  <2> QED
    BY <1>1, <1>6, <2>1, <2>2
<1>12. Len(Rate!Live(old)) <= Len(Rate!Live(ages))
  BY <1>1, <1>5, <1>10, <1>11
<1> QED
  BY <1>5, <1>6, <1>7, <1>12 DEF old

LEMMA RateTickKeeps ==
    ASSUME ConsoleAssumption, RateInv, Rate!Tick
    PROVE  RateInv'
<1>1. bucket' = Rate!Older(bucket) /\ passed' = Rate!Older(passed)
  BY DEF Rate!Tick
<1>2. bucket \in Seq(Ages) /\ passed \in Seq(Ages) /\ OldestFirst(bucket) /\ OldestFirst(passed)
  BY DEF RateInv
<1>3. /\ bucket' \in Seq(Ages) /\ Len(bucket') = Len(bucket) /\ OldestFirst(bucket')
      /\ \A i \in 1..Len(bucket) :
            bucket'[i] = IF bucket[i] < WindowSec THEN bucket[i] + 1 ELSE WindowSec
  BY <1>1, <1>2, OlderKeeps
<1>4. /\ passed' \in Seq(Ages) /\ Len(passed') = Len(passed) /\ OldestFirst(passed')
      /\ \A i \in 1..Len(passed) :
            passed'[i] = IF passed[i] < WindowSec THEN passed[i] + 1 ELSE WindowSec
      /\ Len(Rate!Live(passed')) <= Len(Rate!Live(passed))
  BY <1>1, <1>2, OlderKeeps
<1>5. Len(Rate!Live(passed')) \in Nat /\ Len(Rate!Live(passed)) \in Nat
  <2>1. \A ages \in Seq(Ages) : OldestFirst(ages) => Len(Rate!Live(ages)) \in Nat
    <3> SUFFICES ASSUME NEW ages \in Seq(Ages), OldestFirst(ages)
                 PROVE  Len(Rate!Live(ages)) \in Nat
      OBVIOUS
    <3>1. Rate!Live(ages) \in Seq(Ages)
      BY LiveIs, YoungEnds DEF YoungEnd
    <3> QED
      BY <3>1
  <2> QED
    BY <1>2, <1>3, <1>4, <2>1
<1>6. Len(Rate!Live(passed')) <= Limit
  BY <1>4, <1>5 DEF RateInv, ConsoleAssumption, Rate!LimiterAssumption
<1>7. Matched'
  <2> SUFFICES ASSUME NEW i \in 1..Len(passed), passed'[i] < WindowSec
               PROVE  \E j \in 1..Len(bucket) :
                         Len(bucket) - j = Len(passed) - i /\ bucket'[j] <= passed'[i]
    BY <1>3, <1>4 DEF Matched
  <2>1. WindowSec \in Nat /\ passed[i] \in 0..WindowSec
    BY <1>2, AgeType DEF ConsoleAssumption, Rate!LimiterAssumption
  <2>2. passed[i] < WindowSec /\ passed'[i] = passed[i] + 1
    BY <1>4, <2>1
  <2>3. PICK j \in 1..Len(bucket) :
           Len(bucket) - j = Len(passed) - i /\ bucket[j] <= passed[i]
    BY <2>2 DEF RateInv, Matched
  <2>4. bucket[j] \in 0..WindowSec
    BY <1>2, <2>3, AgeType
  <2>5. bucket'[j] = bucket[j] + 1
    BY <1>3, <2>1, <2>2, <2>3, <2>4
  <2> QED
    BY <2>1, <2>2, <2>3, <2>4, <2>5
<1> QED
  BY <1>3, <1>4, <1>6, <1>7 DEF RateInv

LEMMA EmptyLog ==
    ASSUME ConsoleAssumption
    PROVE  /\ <<>> \in Seq(Ages) /\ OldestFirst(<<>>) /\ 1..Len(<<>>) = {}
           /\ Len(Rate!Live(<<>>)) <= Limit
<1>1. <<>> \in Seq(Ages) /\ Len(<<>>) = 0 /\ 1..Len(<<>>) = {}
  OBVIOUS
<1>2. OldestFirst(<<>>)
  BY <1>1 DEF OldestFirst
<1>3. Len(Rate!Live(<<>>)) = 0
  BY <1>1, <1>2, AllLive
<1> QED
  BY <1>1, <1>2, <1>3 DEF ConsoleAssumption, Rate!LimiterAssumption

(* However hits, refused hits, resets and time follow each other, no       *)
(* window holds more allowed hits than the limit (rate-limit.ts:16-27,49). *)
THEOREM ConsoleQuotaHolds == ConsoleSpec => []QuotaHolds
<1>1. ConsoleInit => RateInv
  BY ConsoleAssumption, EmptyLog DEF ConsoleInit, Rate!Init, RateInv, Matched
<1>2. RateInv /\ [ConsoleNext]_consoleVars => RateInv'
  <2> SUFFICES ASSUME RateInv, [ConsoleNext]_consoleVars PROVE RateInv'
    OBVIOUS
  <2>1. Rate!Next \/ UNCHANGED rateVars
    BY DEF ConsoleNext, consoleVars
  <2>2. CASE UNCHANGED rateVars
    BY <2>2 DEF rateVars, RateInv, Matched
  <2>3. CASE Rate!Reset
    <3>1. bucket' = <<>> /\ passed' = <<>>
      BY <2>3 DEF Rate!Reset
    <3> QED
      BY <3>1, ConsoleAssumption, EmptyLog DEF RateInv, Matched
  <2> QED
    BY <2>1, <2>2, <2>3, ConsoleAssumption, HitKeeps, RateTickKeeps DEF Rate!Next
<1>3. RateInv => QuotaHolds
  BY DEF RateInv, QuotaHolds, Rate!QuotaHolds
<1> QED
  BY <1>1, <1>2, <1>3, PTL DEF ConsoleSpec
=============================================================================
