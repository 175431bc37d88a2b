---------------------------- MODULE CircuitBreaker ----------------------------
(***************************************************************************)
(* The console's three-state circuit breaker                               *)
(* (console/src/lib/circuit-breaker.ts): concurrent requests call run(),   *)
(* each is admitted or rejected at once, and settles later, when the       *)
(* breaker may long have left the state it was admitted in.                *)
(*                                                                         *)
(* Times are ages, now() - ts, capped where the code stops telling them    *)
(* apart; MaxSamples bounds the requests within one window.                *)
(***************************************************************************)
EXTENDS Integers, Sequences, FiniteSets

CONSTANTS Requests,              \* concurrent callers of run()
          ThresholdNum, ThresholdDen,  \* failureThreshold as a fraction
          MinRequests, WindowMs, OpenMs,
          HalfOpenMaxConcurrency,
          MaxSamples             \* bound: samples and requests in flight

BreakerAssumption ==
    /\ ThresholdNum \in Nat /\ ThresholdDen \in Nat \ {0}
    /\ MinRequests \in Nat \ {0} /\ WindowMs \in Nat /\ OpenMs \in Nat
    /\ HalfOpenMaxConcurrency \in Nat \ {0} /\ MaxSamples \in Nat

VARIABLES
    state,              \* "closed", "open" or "half-open"
    samples,            \* the window, oldest first: [age, ok]
    sinceOpen,          \* now() - openedAt, capped at OpenMs
    halfOpenInFlight,
    admittedIn,         \* history: the state a running request was admitted in
    settledClosed       \* history: requests settled since the last closing,
                        \* capped at MinRequests

vars == <<state, samples, sinceOpen, halfOpenInFlight, admittedIn, settledClosed>>
-----------------------------------------------------------------------------
Least(a, b) == IF a <= b THEN a ELSE b
Running     == {r \in Requests : admittedIn[r] # "none"}
Failures(w) == Len(SelectSeq(w, LAMBDA x : ~x.ok))

(* record(ok): push, then shift while the oldest is outside the window.    *)
Recorded(ok) ==
    LET w       == Append(samples, [age |-> 0, ok |-> ok])
        shifted == Cardinality({i \in 1..Len(w) : \A j \in 1..i : w[j].age > WindowMs})
    IN  SubSeq(w, shifted + 1, Len(w))

(* transition()                                                            *)
Transitioned == IF state = "open" /\ sinceOpen >= OpenMs THEN "half-open" ELSE state

(* The condition of maybeOpen over window w.                               *)
Trips(w) == /\ Len(w) >= MinRequests
            /\ Failures(w) * ThresholdDen >= ThresholdNum * Len(w)

(* The half-open branch of run() lets the request through.                 *)
ProbeSlotFree == halfOpenInFlight < HalfOpenMaxConcurrency

Init ==
    /\ state = "closed"
    /\ samples = <<>>
    /\ sinceOpen = OpenMs
    /\ halfOpenInFlight = 0
    /\ admittedIn = [r \in Requests |-> "none"]
    /\ settledClosed = 0
-----------------------------------------------------------------------------
(* run(): the request is admitted and fn() is awaited.                     *)
Admit(r) ==
    /\ r \notin Running
    /\ Len(samples) + Cardinality(Running) < MaxSamples
    /\ state' = Transitioned
    /\ state' # "open"
    /\ IF state' = "half-open"
       THEN /\ ProbeSlotFree
            /\ halfOpenInFlight' = halfOpenInFlight + 1
       ELSE UNCHANGED halfOpenInFlight
    /\ admittedIn' = [admittedIn EXCEPT ![r] = state']
    /\ UNCHANGED <<samples, sinceOpen, settledClosed>>

(* run(): CircuitOpenError.                                                *)
Reject(r) ==
    /\ r \notin Running
    /\ state' = Transitioned
    /\ \/ state' = "open"
       \/ state' = "half-open" /\ ~ProbeSlotFree
    /\ UNCHANGED <<samples, sinceOpen, halfOpenInFlight, admittedIn, settledClosed>>

(* The finally block: it looks at the state the settling left.             *)
LeavesProbe ==
    halfOpenInFlight' = IF state' = "half-open" /\ halfOpenInFlight > 0
                        THEN halfOpenInFlight - 1 ELSE halfOpenInFlight

(* Mutant: closing keeps the samples of the outage.                        *)
SucceedKeepingSamples(r) ==
    /\ r \in Running
    /\ samples' = Recorded(TRUE)
    /\ IF state = "half-open"
       THEN state' = "closed" /\ settledClosed' = 0
       ELSE /\ settledClosed' = Least(settledClosed + 1, MinRequests)
            /\ UNCHANGED state
    /\ LeavesProbe
    /\ admittedIn' = [admittedIn EXCEPT ![r] = "none"]
    /\ UNCHANGED sinceOpen

(* Mutant: any success closes the breaker.                                 *)
SucceedAlwaysCloses(r) ==
    /\ r \in Running
    /\ samples' = <<>>
    /\ state' = "closed"
    /\ settledClosed' = 0
    /\ LeavesProbe
    /\ admittedIn' = [admittedIn EXCEPT ![r] = "none"]
    /\ UNCHANGED sinceOpen

(* fn() resolved.                                                          *)
Succeed(r) ==
    /\ r \in Running
    /\ IF state = "half-open"
       THEN /\ state' = "closed"
            /\ samples' = <<>>
            /\ settledClosed' = 0
       ELSE /\ samples' = Recorded(TRUE)
            /\ settledClosed' = Least(settledClosed + 1, MinRequests)
            /\ UNCHANGED state
    /\ LeavesProbe
    /\ admittedIn' = [admittedIn EXCEPT ![r] = "none"]
    /\ UNCHANGED sinceOpen

(* fn() rejected: record, maybeOpen (only from "closed"), rethrow.         *)
Fail(r) ==
    /\ r \in Running
    /\ samples' = Recorded(FALSE)
    /\ IF state = "closed" /\ Trips(samples')
       THEN state' = "open" /\ sinceOpen' = 0
       ELSE UNCHANGED <<state, sinceOpen>>
    /\ settledClosed' = Least(settledClosed + 1, MinRequests)
    /\ LeavesProbe
    /\ admittedIn' = [admittedIn EXCEPT ![r] = "none"]

(* The clock advances.                                                     *)
Tick ==
    /\ samples' = [i \in DOMAIN samples |->
                     [samples[i] EXCEPT !.age = Least(@ + 1, WindowMs + 1)]]
    /\ sinceOpen' = Least(sinceOpen + 1, OpenMs)
    /\ UNCHANGED <<state, halfOpenInFlight, admittedIn, settledClosed>>

Next == \/ \E r \in Requests : Admit(r) \/ Reject(r) \/ Succeed(r) \/ Fail(r)
        \/ Tick

Spec == Init /\ [][Next]_vars
-----------------------------------------------------------------------------
TypeOK ==
    /\ state \in {"closed", "open", "half-open"}
    /\ samples \in Seq([age : 0..(WindowMs + 1), ok : BOOLEAN])
    /\ Len(samples) <= MaxSamples
    /\ sinceOpen \in 0..OpenMs
    /\ halfOpenInFlight \in 0..HalfOpenMaxConcurrency
    /\ admittedIn \in [Requests -> {"none", "closed", "half-open"}]
    /\ settledClosed \in 0..MinRequests

(* After opening, no request reaches the service until OpenMs have passed, *)
(* whatever requests admitted earlier do when they settle meanwhile.       *)
CooldownHolds ==
    [][state = "open" /\ sinceOpen < OpenMs =>
          /\ state' = "open"
          /\ \A r \in Requests : admittedIn[r] = "none" => admittedIn'[r] = "none"]_vars

(* The breaker opens only on the evidence of MinRequests requests settled  *)
(* since it last closed: the outage it recovered from does not reopen it.  *)
OpensOnFreshEvidence == state = "open" => settledClosed = MinRequests

(* The breaker opens for a reason, and open it stays for the cooldown      *)
(* (circuit-breaker.ts:60-98).                                             *)
BreakerIsJustified == []OpensOnFreshEvidence /\ CooldownHolds

(* "Half-open is single-flight: only one probe request proceeds while open,*)
(* the rest fast-fail" (circuit-breaker.ts:2-3): with nothing in flight, a *)
(* half-open breaker has a probe slot to give.                             *)
IdleBreakerHasProbeSlot ==
    state = "half-open" /\ Running = {} => halfOpenInFlight < HalfOpenMaxConcurrency

=============================================================================
