----------------------------- MODULE RateLimiter -----------------------------
(***************************************************************************)
(* The console's sliding-window rate limiter                               *)
(* (console/src/lib/rate-limit.ts), for one key: keys do not interact.     *)
(* hit() runs to its return without an await, so a hit is one step.        *)
(*                                                                         *)
(* Times are ages, now - ts, in ticks, capped at the window.               *)
(***************************************************************************)
EXTENDS Integers, Sequences, FiniteSets

CONSTANTS Limit, WindowSec,
          MaxHits       \* bound: timestamps in the bucket

LimiterAssumption == Limit \in Nat /\ WindowSec \in Nat \ {0} /\ MaxHits \in Nat

VARIABLES
    bucket,     \* the key's timestamps, oldest first
    passed      \* history: the ages of the hits that were allowed

vars == <<bucket, passed>>
-----------------------------------------------------------------------------
Init == bucket = <<>> /\ passed = <<>>

(* What the prune leaves: the timestamps behind the expired ones in front. *)
Live(ages) ==
    LET expired == {i \in 1..Len(ages) : \A j \in 1..i : ages[j] >= WindowSec}
    IN  SubSeq(ages, Cardinality(expired) + 1, Len(ages))

(* Mutant: the hits before this one are counted.                           *)
AllowedBeforePush(live) == Len(live) - 1 <= Limit

(* allow(): count <= limit                                                 *)
Allowed(live) == Len(live) <= Limit

(* hit() and allow(): the timestamp is pushed, allowed or not.             *)
Hit ==
    /\ Len(Live(bucket)) < MaxHits
    /\ bucket' = Append(Live(bucket), 0)
    /\ passed' = IF Allowed(bucket') THEN Append(Live(passed), 0) ELSE Live(passed)

(* reset(): the key starts afresh.                                         *)
Reset == bucket # <<>> /\ bucket' = <<>> /\ passed' = <<>>

(* The clock advances.                                                     *)
Older(ages) == [i \in DOMAIN ages |-> IF ages[i] < WindowSec THEN ages[i] + 1 ELSE WindowSec]

Tick == bucket' = Older(bucket) /\ passed' = Older(passed)

Next == Hit \/ Reset \/ Tick

Spec == Init /\ [][Next]_vars
-----------------------------------------------------------------------------
TypeOK == bucket \in Seq(0..WindowSec) /\ passed \in Seq(0..WindowSec)

(* "precise quota tracking without the bursty edge of fixed-window" (lines *)
(* 3-5): no interval of WindowSec holds more than Limit allowed hits since *)
(* the key was last reset.                                                 *)
QuotaHolds == Len(Live(passed)) <= Limit
=============================================================================
