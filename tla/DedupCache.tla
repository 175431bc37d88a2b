------------------------------- MODULE DedupCache -------------------------------
(***************************************************************************)
(* The prompt deduplication cache (src/cost/dedup-cache.ts): a process     *)
(* asks for a prompt, and on a miss computes an answer and puts it, while  *)
(* time passes and others do the same.  A prompt key stands for the hash   *)
(* of prompt, model, tools and temperature.                                *)
(***************************************************************************)
EXTENDS Integers, FiniteSets

CONSTANTS Clients, TenantOf, PromptKeys, TtlMs, MaxMs, MaxCalls

DedupAssumption == TtlMs \in Nat /\ MaxMs \in Nat /\ MaxCalls \in Nat

VARIABLES
    store,      \* store[t, k]: [by, stored_at, hits] or an empty entry
    gets, hits, \* counters of stats()
    asking,     \* asking[c]: the key client c missed and is computing
    served,     \* served[c]: the last hit: [tenant, key, by, stored_at, at]
    nowMs

vars == <<store, gets, hits, asking, served, nowMs>>
-----------------------------------------------------------------------------
Tenants  == {TenantOf[c] : c \in Clients}
NoEntry  == [by |-> "none", key |-> "none", stored_at |-> 0, hits |-> 0]
NoAnswer == [entry |-> NoEntry, key |-> "none", at |-> 0]

Init ==
    /\ store  = [slot \in Tenants \X PromptKeys |-> NoEntry]
    /\ gets = 0 /\ hits = 0
    /\ asking = [c \in Clients |-> "none"]
    /\ served = [c \in Clients |-> NoAnswer]
    /\ nowMs  = 0

(* Mutant: entries are looked up without their tenant.                     *)
SlotShared(c, k) == <<CHOOSE t \in Tenants : TRUE, k>>

(* key(tenantId, hash)                                                     *)
Slot(c, k) == <<TenantOf[c], k>>

(* Mutant: an entry never grows old.                                       *)
ExpiredNever(e) == FALSE

Expired(e) == nowMs - e.stored_at > TtlMs

(* get: a hit counts; an expired entry is deleted and misses.              *)
Get(c, k) ==
    LET e == store[Slot(c, k)]
    IN  /\ asking[c] = "none" /\ gets < MaxCalls
        /\ gets' = gets + 1
        /\ IF e = NoEntry
           THEN /\ asking' = [asking EXCEPT ![c] = k]
                /\ UNCHANGED <<store, hits, served>>
           ELSE IF Expired(e)
           THEN /\ store'  = [store EXCEPT ![Slot(c, k)] = NoEntry]
                /\ asking' = [asking EXCEPT ![c] = k]
                /\ UNCHANGED <<hits, served>>
           ELSE /\ store'  = [store EXCEPT ![Slot(c, k)].hits = @ + 1]
                /\ hits'   = hits + 1
                /\ served' = [served EXCEPT ![c] = [entry |-> e, key |-> k, at |-> nowMs]]
                /\ UNCHANGED asking
        /\ UNCHANGED nowMs

(* put: the answer replaces whatever was stored since the miss.            *)
Put(c) ==
    /\ asking[c] # "none"
    /\ store'  = [store EXCEPT ![Slot(c, asking[c])] =
                    [by |-> TenantOf[c], key |-> asking[c], stored_at |-> nowMs, hits |-> 0]]
    /\ asking' = [asking EXCEPT ![c] = "none"]
    /\ UNCHANGED <<gets, hits, served, nowMs>>

Tick == nowMs < MaxMs /\ nowMs' = nowMs + 1 /\ UNCHANGED <<store, gets, hits, asking, served>>

Next == Tick \/ \E c \in Clients : Put(c) \/ \E k \in PromptKeys : Get(c, k)

Spec == Init /\ [][Next]_vars
-----------------------------------------------------------------------------
(* A hit is the asking tenant's own answer to that very prompt, at most    *)
(* TtlMs old, whatever others missed, computed and put meanwhile; and the  *)
(* hits of the entries never exceed those the hit rate is computed from.   *)
HitIsOwnAndFresh ==
    /\ \A c \in Clients : served[c] # NoAnswer =>
          /\ served[c].entry.by = TenantOf[c] /\ served[c].entry.key = served[c].key
          /\ served[c].at - served[c].entry.stored_at <= TtlMs
    /\ hits <= gets
    /\ \A s \in DOMAIN store : store[s].hits <= hits
=============================================================================
