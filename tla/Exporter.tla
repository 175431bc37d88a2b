------------------------------- MODULE Exporter -------------------------------
(***************************************************************************)
(* Evidence export (src/exporters): exportReceipts walks the events batch  *)
(* by batch, sends a batch to every sink at once, each with its retries,   *)
(* and waits for all of them before the next batch.  What a sink received  *)
(* is the destination's side of a delivery, which the SDK sees only        *)
(* through the answer: a delivery may arrive and be answered by an error.  *)
(***************************************************************************)
EXTENDS Integers, Sequences, FiniteSets

CONSTANTS Sinks,        \* positions in opts.sinks
          KindOf,       \* KindOf[s] \in {"http", "file", "syslog"}
          Hanging,      \* sinks whose destination may never answer
          NumEvents, BatchSize, Retries

ExporterAssumption ==
    /\ KindOf \in [Sinks -> {"http", "file", "syslog"}]
    /\ Hanging \subseteq Sinks
    /\ NumEvents \in Nat /\ BatchSize \in Nat /\ Retries \in Int

VARIABLES
    first,      \* the loop's i, counted from 1: the first event of the batch
    attempt,    \* attempt[s]: sends of this batch to s that were started
    settled,    \* settled[s]: the batch's last result for s, or "none"
    totals,     \* totals[s]: [seen, ok, delivered]: the report's entry for s
    received,   \* received[s][e]: times event e reached s's destination
    acked,      \* acked[s][e]: times a send holding e was reported delivered
    report      \* [done, ok, batches]

vars == <<first, attempt, settled, totals, received, acked, report>>
-----------------------------------------------------------------------------
Events == 1..NumEvents

(* Math.max(1, opts.batchSize), Math.max(0, opts.retries)                  *)
StepSize   == IF BatchSize > 1 THEN BatchSize ELSE 1
MaxRetries == IF Retries > 0 THEN Retries ELSE 0

(* events.slice(i, i + batchSize)                                          *)
Batch == {e \in Events : first <= e /\ e < first + StepSize}

(* Mutant: a failing sink keeps the loop from going on.                    *)
GoesOnIfDelivered(s) == settled[s] = "ok"

GoesOn(s) == settled[s] # "none"

Init ==
    /\ first    = 1
    /\ attempt  = [s \in Sinks |-> 0]
    /\ settled  = [s \in Sinks |-> "none"]
    /\ totals   = [s \in Sinks |-> [seen |-> FALSE, ok |-> FALSE, delivered |-> 0]]
    /\ received = [s \in Sinks |-> [e \in Events |-> 0]]
    /\ acked    = [s \in Sinks |-> [e \in Events |-> 0]]
    /\ report   = [done |-> FALSE, ok |-> FALSE, batches |-> 0]

Reaches(s, es) ==
    received' = [received EXCEPT ![s] = [e \in Events |-> @[e] + (IF e \in es THEN 1 ELSE 0)]]

(* What may have arrived of a send that was answered with an error: an     *)
(* HTTP body whole or not at all, any prefix of an append, and any part of *)
(* the lines given to syslog.                                              *)
MayHaveArrived(s) ==
    CASE KindOf[s] = "http"   -> {{}, Batch}
      [] KindOf[s] = "file"   -> {{e \in Batch : e < k} : k \in first .. first + Cardinality(Batch)}
      [] KindOf[s] = "syslog" -> SUBSET Batch

(* What has arrived of a send answered with success: syslog only means     *)
(* that the local socket took the lines.                                   *)
HasArrived(s) == IF KindOf[s] = "syslog" THEN SUBSET Batch ELSE {Batch}

Pending(s) == ~report.done /\ Batch # {} /\ settled[s] = "none"
-----------------------------------------------------------------------------
(* Mutant: a delivered batch stays in the retry loop.                      *)
DeliveredTriesOn(s) ==
    /\ Pending(s)
    /\ attempt' = [attempt EXCEPT ![s] = @ + 1]
    /\ \E es \in HasArrived(s) : Reaches(s, es)
    /\ acked'   = [acked EXCEPT ![s] = [e \in Events |-> @[e] + (IF e \in Batch THEN 1 ELSE 0)]]
    /\ settled' = [settled EXCEPT ![s] = IF attempt[s] < MaxRetries THEN "none" ELSE "ok"]
    /\ UNCHANGED <<first, totals, report>>

(* An attempt is answered with success: the sink reports events.length.    *)
Delivered(s) ==
    /\ Pending(s)
    /\ attempt' = [attempt EXCEPT ![s] = @ + 1]
    /\ \E es \in HasArrived(s) : Reaches(s, es)
    /\ acked'   = [acked EXCEPT ![s] = [e \in Events |-> @[e] + (IF e \in Batch THEN 1 ELSE 0)]]
    /\ settled' = [settled EXCEPT ![s] = "ok"]
    /\ UNCHANGED <<first, totals, report>>

(* An attempt fails (an error status, a rejected promise, a throwing sink: *)
(* all become ok: false, delivered: 0); after the last one the batch is    *)
(* settled as failed.                                                      *)
Failed(s) ==
    /\ Pending(s)
    /\ \E es \in MayHaveArrived(s) : Reaches(s, es)
    /\ attempt' = [attempt EXCEPT ![s] = @ + 1]
    /\ settled' = [settled EXCEPT ![s] = IF attempt[s] < MaxRetries THEN "none" ELSE "failed"]
    /\ UNCHANGED <<first, totals, acked, report>>

(* Mutant: the entry of a sink forgets its earlier batches' failures.      *)
AddResultForgetting(t, r, n) ==
    [seen |-> TRUE, ok |-> r = "ok", delivered |-> t.delivered + (IF r = "ok" THEN n ELSE 0)]

(* totals[idx]: the first batch's result, then sums and conjunctions       *)
AddResult(t, r, n) ==
    [seen      |-> TRUE,
     ok        |-> r = "ok" /\ (t.seen => t.ok),
     delivered |-> t.delivered + (IF r = "ok" THEN n ELSE 0)]

(* Promise.all resolves, and the loop goes on.                             *)
NextBatch ==
    /\ ~report.done /\ Batch # {}
    /\ \A s \in Sinks : GoesOn(s)
    /\ totals'  = [s \in Sinks |-> AddResult(totals[s], settled[s], Cardinality(Batch))]
    /\ first'   = first + StepSize
    /\ attempt' = [s \in Sinks |-> 0]
    /\ settled' = [s \in Sinks |-> "none"]
    /\ report'  = [report EXCEPT !.batches = @ + 1]
    /\ UNCHANGED <<received, acked>>

(* The report: results lists the sinks that have an entry.                 *)
Return ==
    /\ ~report.done /\ Batch = {}
    /\ report' = [report EXCEPT
          !.done = TRUE,
          !.ok   = /\ \A s \in Sinks : totals[s].seen => totals[s].ok
                   /\ NumEvents = 0 \/ Sinks # {}]
    /\ UNCHANGED <<first, attempt, settled, totals, received, acked>>

Next == NextBatch \/ Return \/ \E s \in Sinks : Delivered(s) \/ Failed(s)

(* Every destination answers in the end, except the hanging ones.          *)
Fairness ==
    /\ WF_vars(NextBatch \/ Return)
    /\ \A s \in Sinks \ Hanging : WF_vars(Delivered(s) \/ Failed(s))

Spec == Init /\ [][Next]_vars /\ Fairness
-----------------------------------------------------------------------------
(* The report can be believed: a sink reported ok received every event,    *)
(* unless it is syslog, which acknowledges nothing, and delivered counts   *)
(* exactly the events of acknowledged batches.                             *)
ReportIsHonest ==
    report.done =>
        /\ report.ok => \A s \in Sinks : NumEvents = 0 \/ totals[s].ok
        /\ \A s \in Sinks : totals[s].ok =>
              \A e \in Events : acked[s][e] > 0 /\ (KindOf[s] # "syslog" => received[s][e] > 0)
        /\ \A s \in Sinks :
              totals[s].delivered = Cardinality({e \in Events : acked[s][e] > 0})

(* An acknowledged event is never sent again: it arrives a second time     *)
(* only because an earlier attempt arrived and was answered by an error.   *)
NoResendAfterAck == \A s \in Sinks, e \in Events : acked[s][e] <= 1

(* An export returns, however often its sinks fail, unless one of them     *)
(* never answers; and "one failing destination never blocks the others"    *)
(* from settling the batch, even then.                                     *)
ExportReturns ==
    /\ (\A s \in Hanging : []<>~Pending(s)) => <>report.done
    /\ \A s \in Sinks \ Hanging : []<>~Pending(s)
=============================================================================
