----------------------------- MODULE AuditOutbox -----------------------------
(***************************************************************************)
(* The console's audit outbox (console/src/lib/audit-outbox.ts): privileged*)
(* actions enqueue events; drain() hands the head to an async handler and  *)
(* removes it when the handler resolves, going on until the queue is empty *)
(* or the handler fails.  drain is called by a ticking dispatcher and by   *)
(* anybody else, so several drains may be under way at once: each of the   *)
(* set Drains is one such caller.                                          *)
(***************************************************************************)
EXTENDS Integers, Sequences, FiniteSets

CONSTANTS Events, Drains,
          NoEvent

VARIABLES
    pending,    \* the queue
    enqueued,   \* history: events in the order of enqueue
    handling,   \* handling[d]: the event drain d awaits its handler for
    received,   \* history: events whose handler resolved, in that order
    overlapped  \* history: two drains were under way at the same time

vars == <<pending, enqueued, handling, received, overlapped>>
-----------------------------------------------------------------------------
Elements(q) == {q[i] : i \in DOMAIN q}

Init ==
    /\ pending  = <<>>
    /\ enqueued = <<>>
    /\ handling = [d \in Drains |-> NoEvent]
    /\ received = <<>>
    /\ overlapped = FALSE

(* enqueue                                                                 *)
Enqueue(e) ==
    /\ e \notin Elements(enqueued)
    /\ pending'  = Append(pending, e)
    /\ enqueued' = Append(enqueued, e)
    /\ UNCHANGED <<handling, received, overlapped>>

(* Another drain than d awaits its handler.                                *)
Overlaps(d) == \E o \in Drains \ {d} : handling[o] # NoEvent

(* Mutant: the event leaves the queue before its handler is awaited.       *)
StartByRemoving(d) ==
    /\ handling[d] = NoEvent
    /\ pending # <<>>
    /\ handling' = [handling EXCEPT ![d] = Head(pending)]
    /\ pending'  = Tail(pending)
    /\ overlapped' = (overlapped \/ Overlaps(d))
    /\ UNCHANGED <<enqueued, received>>

(* drain() is called: with an empty queue it returns at once.              *)
Start(d) ==
    /\ handling[d] = NoEvent
    /\ pending # <<>>
    /\ handling' = [handling EXCEPT ![d] = Head(pending)]
    /\ overlapped' = (overlapped \/ Overlaps(d))
    /\ UNCHANGED <<pending, enqueued, received>>

(* pending.shift(), which leaves an empty queue alone.                     *)
Shifted == IF pending = <<>> THEN <<>> ELSE Tail(pending)

(* The handler resolves: shift, and on to the new head.                    *)
HandlerResolves(d) ==
    /\ handling[d] # NoEvent
    /\ received' = Append(received, handling[d])
    /\ pending'  = Shifted
    /\ handling' = [handling EXCEPT ![d] =
                      IF pending' = <<>> THEN NoEvent ELSE Head(pending')]
    /\ UNCHANGED <<enqueued, overlapped>>

(* Mutant: a failing event is put at the end of the queue.                 *)
HandlerFailsRequeue(d) ==
    /\ handling[d] # NoEvent
    /\ pending' = Append(Shifted, handling[d])
    /\ handling' = [handling EXCEPT ![d] = NoEvent]
    /\ UNCHANGED <<enqueued, received, overlapped>>

(* Mutant: a failing event is skipped.                                     *)
HandlerFailsSkip(d) ==
    /\ handling[d] # NoEvent
    /\ pending' = Shifted
    /\ handling' = [handling EXCEPT ![d] = NoEvent]
    /\ UNCHANGED <<enqueued, received, overlapped>>

(* The handler rejects: the drain stops, the head stays.                   *)
HandlerFails(d) ==
    /\ handling[d] # NoEvent
    /\ handling' = [handling EXCEPT ![d] = NoEvent]
    /\ UNCHANGED <<pending, enqueued, received, overlapped>>

Next == \/ \E e \in Events : Enqueue(e)
        \/ \E d \in Drains : Start(d) \/ HandlerResolves(d) \/ HandlerFails(d)

Spec == Init /\ [][Next]_vars

(* "the next tick will retry from head", and a handler that is retried     *)
(* forever does not fail forever.                                          *)
FairSpec == Spec /\ \A d \in Drains : WF_vars(Start(d)) /\ SF_vars(HandlerResolves(d))
-----------------------------------------------------------------------------
(* At-least-once (audit-outbox.ts:5-8): as long as no two drains overlap,  *)
(* an enqueued event stays in the queue until a handler has resolved for it*)
NoEventLost ==
    ~overlapped => Elements(enqueued) = Elements(pending) \cup Elements(received)

(* "Drain stops at first failure rather than partial-flushing ... the      *)
(* alternative is reordering": without overlapping drains, events are      *)
(* received once each and in enqueue order.                                *)
ReceivedInOrder ==
    ~overlapped => /\ Len(received) <= Len(enqueued)
                   /\ \A i \in 1..Len(received) : received[i] = enqueued[i]

(* Delivery is at least once and in order while drains do not overlap.     *)
EventsReceivedInOrder == NoEventLost /\ ReceivedInOrder

(* Every enqueued event is eventually received, unless drains overlap.     *)
EventuallyReceived ==
    \A e \in Events : e \in Elements(enqueued) ~> (e \in Elements(received) \/ overlapped)
=============================================================================
