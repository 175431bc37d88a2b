------------------------------- MODULE Guardian -------------------------------
(***************************************************************************)
(* Pre-execution verdicts (src/guardian.ts) checked against the registry   *)
(* of keys (src/key-management.ts): reviewers sign verdicts on proposed    *)
(* actions, and a gate clears an action, on one verdict or on N of them,   *)
(* while time passes and keys are retired, revoked and added.  Times are   *)
(* small naturals; a date that does not parse is Unparsed.                 *)
(*                                                                         *)
(* A signature is its key, and a hash the content it was taken of: a       *)
(* verdict is the record its key signed, plus whether its bytes are still  *)
(* the ones that were hashed.                                              *)
(***************************************************************************)
EXTENDS Integers, FiniteSets

CONSTANTS Kids,         \* signing keys
          Unparsed, Nobody,
          Names,        \* reviewers, as a verdict names them
          Agents,       \* actors that propose actions
          Payloads,
          Anonymous,    \* action.actor is undefined
          NoExpiry, MaxTime, MaxVerdicts,
          Threshold, AllowConcerns

GuardianAssumption ==
    /\ MaxTime \in Nat /\ MaxVerdicts \in Nat /\ Threshold \in Int
    /\ AllowConcerns \in BOOLEAN /\ Anonymous \notin Names

VARIABLES
    records,    \* records[k]: [status, retired_at] of the key registry, or Nobody
    now,
    verdicts    \* the signed verdicts in circulation

vars == <<records, now, verdicts>>
-----------------------------------------------------------------------------
(* The key registry.                                                       *)
NoMoment == -1      \* trustedKeys() called without its argument

RegistryInit == records = [k \in Kids |-> Nobody]

Known(k) == records[k] # Nobody

(* add: active, whatever was recorded under the kid before.                *)
Add(k) == records' = [records EXCEPT ![k] = [status |-> "active", retired_at |-> Unparsed]]

(* retire throws for an unknown and for a revoked key.                     *)
Retire(k, when) ==
    /\ Known(k) /\ records[k].status # "revoked"
    /\ records' = [records EXCEPT ![k] = [status |-> "retired", retired_at |-> when]]

(* revoke throws for an unknown key, and is final but for add.             *)
Revoke(k) ==
    /\ Known(k)
    /\ records' = [records EXCEPT ![k].status = "revoked"]

(* Mutant: retired keys stay trusted when no moment is given.              *)
TrustedKeysFailingOpen(at) ==
    {k \in Kids : Known(k) /\
        \/ records[k].status = "active"
        \/ /\ records[k].status = "retired"
           /\ at # NoMoment => records[k].retired_at # Unparsed /\ at <= records[k].retired_at}

(* trustedKeys(at): without a moment no retired key is trusted.            *)
TrustedKeys(at) ==
    {k \in Kids : Known(k) /\
        \/ records[k].status = "active"
        \/ /\ records[k].status = "retired"
           /\ at # NoMoment /\ records[k].retired_at # Unparsed
           /\ at <= records[k].retired_at}

(* toJSON and fromJSON: the restarted registry holds copies of the records *)
(* that were persisted, by the kid each one carries.                       *)
FromJSON(persisted) ==
    [k \in Kids |-> IF \E r \in persisted : r.kid = k
                    THEN LET r == CHOOSE r \in persisted : r.kid = k
                         IN  [status |-> r.status, retired_at |-> r.retired_at]
                    ELSE Nobody]

ToJSON == {[kid |-> k, status |-> records[k].status, retired_at |-> records[k].retired_at] :
             k \in {k \in Kids : Known(k)}}
-----------------------------------------------------------------------------
Actions == [actor : Agents \cup {Anonymous}, payload : Payloads]

(* Mutant: the hash leaves the actor out.                                  *)
ActionHashWithoutActor(action) == [actor |-> Anonymous, payload |-> action.payload]

(* actionHash covers the actor, null when there is none.                   *)
ActionHash(action) == action

Init ==
    /\ RegistryInit
    /\ now = 0 /\ verdicts = {}

Registry ==
    /\ \E k \in Kids : Add(k) \/ Retire(k, now) \/ Revoke(k)
    /\ UNCHANGED <<now, verdicts>>

(* The process restarts from the records it persisted.                     *)
Restart == records' = FromJSON(ToJSON) /\ UNCHANGED <<now, verdicts>>

Tick == now < MaxTime /\ now' = now + 1 /\ UNCHANGED <<records, verdicts>>

(* signPreVerdict throws when the reviewer is the action's actor.  Any key *)
(* holder may review under any name; a stored verdict may be damaged.      *)
SignPreVerdict ==
    /\ Cardinality(verdicts) < MaxVerdicts
    /\ \E a \in Actions, k \in Kids, who \in Names, v \in {"approve", "concerns", "reject"},
          exp \in {NoExpiry, Unparsed, 0}, ok \in BOOLEAN :
          /\ ~(a.actor # Anonymous /\ who = a.actor)
          /\ verdicts' = verdicts \cup
                {[hashed |-> ActionHash(a), verdict |-> v, reviewer |-> who,
                  independent_of |-> a.actor, expires_at |-> exp, kid |-> k,
                  intact |-> ok, of |-> a]}
    /\ UNCHANGED <<records, now>>
-----------------------------------------------------------------------------
(* Mutant: a timestamp that does not parse counts as not expired.          *)
NotExpiredFailingOpen(v, at) ==
    v.expires_at \in {NoExpiry, Unparsed} \/ at <= v.expires_at

NotExpired(v, at) ==
    \/ v.expires_at = NoExpiry
    \/ v.expires_at # Unparsed /\ at <= v.expires_at

(* verifyPreVerdict: all five checks                                       *)
VerifyPreVerdict(v, action, trusted, at) ==
    /\ v.intact                                         \* hash and signature
    /\ v.kid \in trusted
    /\ v.hashed = ActionHash(action)
    /\ NotExpired(v, at)
    /\ ~(action.actor # Anonymous /\ v.reviewer = action.actor)
    /\ ~(v.independent_of # Anonymous /\ v.reviewer = v.independent_of)

Approves(v) == v.verdict = "approve" \/ (v.verdict = "concerns" /\ AllowConcerns)

(* assertActionCleared returns.                                            *)
ActionCleared(v, action, trusted, at) ==
    VerifyPreVerdict(v, action, trusted, at) /\ Approves(v)

(* Mutant: approvals are counted by the reviewer's name.                   *)
ReviewNofMByName(vs, action, trusted, at) ==
    LET valid     == {v \in vs : VerifyPreVerdict(v, action, trusted, at)}
        approvers == {v.reviewer : v \in {w \in valid : Approves(w)}}
    IN  /\ Threshold >= 1
        /\ \A v \in valid : v.verdict # "reject"
        /\ Cardinality(approvers) >= Threshold

(* reviewNofM clears: no valid verdict rejects, and Threshold keys approve.*)
ReviewNofM(vs, action, trusted, at) ==
    LET valid     == {v \in vs : VerifyPreVerdict(v, action, trusted, at)}
        approvers == {v.kid : v \in {w \in valid : Approves(w)}}
    IN  /\ Threshold >= 1
        /\ \A v \in valid : v.verdict # "reject"
        /\ Cardinality(approvers) >= Threshold

Next == Registry \/ Restart \/ Tick \/ SignPreVerdict

Spec == Init /\ [][Next]_vars
-----------------------------------------------------------------------------
(* A verdict that speaks for an action: undamaged, on exactly this payload *)
(* and actor, by someone else, not expired, under a key in use.            *)
SpeaksFor(v, action) ==
    /\ v.intact /\ v.of = action /\ v.reviewer # action.actor
    /\ Known(v.kid) /\ records[v.kid].status = "active"
    /\ v.expires_at = NoExpiry \/ (v.expires_at # Unparsed /\ now <= v.expires_at)

(* At no moment does a gate that trusts trustedKeys() clear an action on   *)
(* other grounds than verdicts that speak for it then: one for a single    *)
(* gate, under as many distinct keys as asked for N of M, and no verdict   *)
(* that speaks against it.  A verdict may clear its action many times, but *)
(* no other action, and neither past its expiry nor past its key's end.    *)
ClearedIsReviewed ==
    \A action \in Actions :
        LET trusted == TrustedKeys(NoMoment)
            For(vs) == {v \in vs : SpeaksFor(v, action) /\ v.verdict # "reject"}
        IN  /\ \A v \in verdicts : ActionCleared(v, action, trusted, now) => For({v}) # {}
            /\ \A vs \in SUBSET verdicts :
                  ReviewNofM(vs, action, trusted, now) =>
                      /\ Cardinality({v.kid : v \in For(vs)}) >= Threshold
                      /\ \A v \in vs : SpeaksFor(v, action) => v.verdict # "reject"
=============================================================================
