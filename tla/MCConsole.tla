------------------------------ MODULE MCConsole ------------------------------
(***************************************************************************)
(* The four resilience libraries of the console: the circuit breaker, which*)
(* this module extends, idempotency keys, audit outbox and rate limiter.   *)
(* test/resilience.test.ts also tests them together.  They share no state, *)
(* so a behaviour exercises the one it chooses at the start, and the others*)
(* stay as they began.                                                     *)
(***************************************************************************)
EXTENDS CircuitBreaker

CONSTANTS Keys, Bodies, Absent, InFlight, EmptyHash,
          Events, Drains, NoEvent,
          Limit, WindowSec, MaxHits

VARIABLES
    library,    \* the library this behaviour exercises
    cache, inflightBodies, pc, key, body, answer, executed,
    pending, enqueued, handling, received, overlapped,
    bucket, passed

Idem    == INSTANCE Idempotency
Outbox  == INSTANCE AuditOutbox
Rate    == INSTANCE RateLimiter

ASSUME ConsoleAssumption ==
    BreakerAssumption /\ Idem!IdempotencyAssumption /\ Rate!LimiterAssumption

idemVars    == <<cache, inflightBodies, pc, key, body, answer, executed>>
outboxVars  == <<pending, enqueued, handling, received, overlapped>>
rateVars    == <<bucket, passed>>

consoleVars == <<library, vars, idemVars, outboxVars, rateVars>>
-----------------------------------------------------------------------------
(* Only the idempotency store looks at bodies.                             *)
ConsoleInit ==
    /\ library \in {"breaker", "idempotency", "outbox", "limiter"}
    /\ Init /\ Idem!Init /\ Outbox!Init /\ Rate!Init
    /\ library # "idempotency" => body = [r \in Requests |-> CHOOSE b \in Bodies : TRUE]

ConsoleNext ==
    \/ /\ library = "breaker" /\ Next
       /\ UNCHANGED <<library, idemVars, outboxVars, rateVars>>
    \/ /\ library = "idempotency" /\ Idem!Next
       /\ UNCHANGED <<library, vars, outboxVars, rateVars>>
    \/ /\ library = "outbox" /\ Outbox!Next
       /\ UNCHANGED <<library, vars, idemVars, rateVars>>
    \/ /\ library = "limiter" /\ Rate!Next
       /\ UNCHANGED <<library, vars, idemVars, outboxVars>>

ConsoleSpec == ConsoleInit /\ [][ConsoleNext]_consoleVars

(* The fairness of the libraries' own specifications.  In the other        *)
(* libraries it asks nothing of a behaviour: the outbox then stays empty   *)
(* and its actions disabled, the requests are excused by the guard.        *)
FairConsole ==
    /\ ConsoleSpec
    /\ \A d \in Drains : /\ WF_outboxVars(Outbox!Start(d))
                         /\ SF_outboxVars(Outbox!HandlerResolves(d))
    /\ \A r \in Requests :
          /\ WF_idemVars(library = "idempotency" /\
                (Idem!BeginFresh(r) \/ Idem!BeginInFlight(r) \/ Idem!BeginFinished(r)))
          /\ WF_idemVars(library = "idempotency" /\ (Idem!WakeReplay(r) \/ Idem!WakeFresh(r)))
          /\ WF_idemVars(library = "idempotency" /\ Idem!Finish(r))
-----------------------------------------------------------------------------
(* Idempotency: replays are of the same request, a handler runs again only *)
(* after its request has waited, conflicts are explained.                  *)
KeysAreHonoured == Idem!KeysAreHonoured

(* Outbox: no event is lost, and events are received once each, in order.  *)
EventsReceivedInOrder == Outbox!EventsReceivedInOrder

(* What was asked of the console is settled: every idempotent request      *)
(* comes to an end, and every event of the outbox is received.             *)
ConsoleSettles == /\ library = "idempotency" => Idem!EveryRequestEnds
                  /\ Outbox!EventuallyReceived

(* Rate limiter: no window holds more allowed hits than the limit.         *)
QuotaHolds == Rate!QuotaHolds
=============================================================================
