----------------------------- MODULE StoreSigner -----------------------------
(***************************************************************************)
(* signReceiptWithStore (src/receipt.ts) over a compare-and-set            *)
(* ChainStateStore (src/chain-store.ts): load the head, build and sign the *)
(* receipt at height+1, advance the head, and start over when another      *)
(* writer advanced first.                                                  *)
(*                                                                         *)
(* backend = "postgres": each signer is a process of its own; load and     *)
(* advance are transactions whose statements, commit and acknowledgement   *)
(* are separate steps, any of which may fail or be cut short by a crash.   *)
(* backend = "memory": the signers are concurrent async calls of a single  *)
(* process; load and advance each run to completion between two awaits.    *)
(*                                                                         *)
(* A receipt id is <<s, n>>: the n-th receipt signer s has built.  It also *)
(* stands for the receipt's hash (see HashChain).                          *)
(***************************************************************************)
EXTENDS Integers, Sequences, FiniteSets

CONSTANTS Tenants, Signers,
          Backends,     \* the stores a deployment may choose from
          Genesis,      \* GENESIS_HASH
          NoRow,        \* a tenant without a row / map entry
          NoSigner,     \* nobody holds the row
          MaxRetries,   \* o.maxRetries ?? 8
          MaxCalls      \* bound: calls per signer

ReceiptIds == Signers \X (Nat \ {0})
Hash       == ReceiptIds \cup {Genesis}
ChainState == [height : Nat, hash : Hash]
Receipt    == [id : ReceiptIds, tenant : Tenants, height : Nat \ {0}, prev : Hash]

ASSUME StoreAssumption ==
    /\ Backends \subseteq {"postgres", "memory"}
    /\ MaxRetries \in Nat
    /\ MaxCalls \in Nat
    /\ Tenants # {}
    /\ NoRow \notin ChainState
    /\ NoSigner \notin Signers

VARIABLES
    backend,    \* the store this deployment was configured with
    row,        \* row[t]: the committed chain-state row of tenant t, or NoRow
    holder,     \* holder[t]: the signer whose open transaction wrote the row
    pc,         \* pc[s]: where signer s is in signReceiptWithStore
    job,        \* job[s]: opts.event.tenant_id of the current call
    loaded,     \* loaded[s]: `prev`, the state store.load returned
    draft,      \* draft[s]: the receipt built from it
    attempt,    \* attempt[s]: the loop counter
    result,     \* result[s]: how the last call of s ended
    built,      \* built[s]: receipts s has built so far (all calls)
    calls,      \* calls[s]: calls s has made
    ledger,     \* history: ledger[t], receipts whose advance committed
    delivered,  \* history: receipts returned to a caller
    first,      \* history: first[s], value of built[s] when the call began
    since       \* history: since[s], length of the chain when the call began

vars == <<backend, row, holder, pc, job, loaded, draft, attempt, result, built,
          calls, ledger, delivered, first, since>>

fixed == <<backend, first, since>>   \* what no step of a call changes
-----------------------------------------------------------------------------
PCs == {"idle", "loading", "loaded", "updating", "committing", "acked", "rereading"}

(* The state `load` returns: the stored row, or the genesis state.         *)
HeadOf(t) == IF row[t] = NoRow THEN [height |-> 0, hash |-> Genesis] ELSE row[t]

(* Mutants, here and below: the definition that follows with a bug a change*)
(* to the code could introduce; a run's property must notice it.           *)
(* Mutant: the receipt takes the height of its predecessor.                *)
SignedAtPrevHeight(s, prev) ==
    [id |-> <<s, built[s] + 1>>, tenant |-> job[s],
     height |-> prev.height, prev |-> prev.hash]

(* buildSignedReceipt: the receipt that follows state `prev`.              *)
SignedAfter(s, prev) ==
    [id |-> <<s, built[s] + 1>>, tenant |-> job[s],
     height |-> prev.height + 1, prev |-> prev.hash]

(* The row an advance writes for receipt r.                                *)
NextState(r) == [height |-> r.height, hash |-> r.id]

(* Mutant: UPDATE without AND chain_height = $5.                           *)
CasWithoutHeight(s) ==
    IF loaded[s].height = 0 THEN row[job[s]] = NoRow ELSE row[job[s]] # NoRow

(* The predicate of the advance statement: INSERT ... ON CONFLICT DO       *)
(* NOTHING for a genesis state, UPDATE ... WHERE chain_height = prev       *)
(* otherwise.  Only the height is compared, never the hash.                *)
CasMatches(s) ==
    IF loaded[s].height = 0
    THEN row[job[s]] = NoRow
    ELSE row[job[s]] # NoRow /\ row[job[s]].height = loaded[s].height

(* MemoryChainStateStore.advance: a missing entry matches any state.       *)
MemoryMatches(s) ==
    row[job[s]] # NoRow => row[job[s]].height = loaded[s].height

Init ==
    /\ backend \in Backends
    /\ row       = [t \in Tenants |-> NoRow]
    /\ holder    = [t \in Tenants |-> NoSigner]
    /\ pc        = [s \in Signers |-> "idle"]
    /\ job       = [s \in Signers |-> CHOOSE t \in Tenants : TRUE]
    /\ loaded    = [s \in Signers |-> [height |-> 0, hash |-> Genesis]]
    /\ draft     = [s \in Signers |-> [id |-> <<s, 1>>, tenant |-> job[s],
                                        height |-> 1, prev |-> Genesis]]
    /\ attempt   = [s \in Signers |-> 0]
    /\ result    = [s \in Signers |-> "none"]
    /\ built     = [s \in Signers |-> 0]
    /\ calls     = [s \in Signers |-> 0]
    /\ ledger    = [t \in Tenants |-> <<>>]
    /\ delivered = {}
    /\ first     = [s \in Signers |-> 0]
    /\ since     = [s \in Signers |-> 0]
-----------------------------------------------------------------------------
(* signReceiptWithStore is called for an event of tenant t.                *)
Call(s, t) ==
    /\ pc[s] = "idle"
    /\ calls[s] < MaxCalls
    /\ calls'   = [calls EXCEPT ![s] = @ + 1]
    /\ pc'      = [pc EXCEPT ![s] = "loading"]
    /\ job'     = [job EXCEPT ![s] = t]
    /\ attempt' = [attempt EXCEPT ![s] = 0]
    /\ result'  = [result EXCEPT ![s] = "none"]
    /\ first'   = [first EXCEPT ![s] = built[s]]
    /\ since'   = [since EXCEPT ![s] = Len(ledger[t])]
    /\ UNCHANGED <<backend, row, holder, loaded, draft, built, ledger, delivered>>

(* `await store.load(tenantId)` reads the committed head.                  *)
Load(s) ==
    /\ pc[s] = "loading"
    /\ loaded' = [loaded EXCEPT ![s] = HeadOf(job[s])]
    /\ pc'     = [pc EXCEPT ![s] = "loaded"]
    /\ UNCHANGED <<row, holder, job, draft, attempt, result, built, calls,
                   ledger, delivered, fixed>>

(* After the await: buildSignedReceipt, and the advance call is under way. *)
Build(s) ==
    /\ pc[s] = "loaded"
    /\ draft' = [draft EXCEPT ![s] = SignedAfter(s, loaded[s])]
    /\ built' = [built EXCEPT ![s] = @ + 1]
    /\ pc'    = [pc EXCEPT ![s] = "updating"]
    /\ UNCHANGED <<row, holder, job, loaded, attempt, result, calls,
                   ledger, delivered, fixed>>

(* Mutant: any error, not only a ConcurrentChainWriteError, is retried.    *)
ThrowsRetried(s) ==
    /\ pc'     = [pc EXCEPT ![s] = "loading"]
    /\ result' = [result EXCEPT ![s] = "none"]

(* The call ends with an error that is not a ConcurrentChainWriteError.    *)
Throws(s) ==
    /\ pc'     = [pc EXCEPT ![s] = "idle"]
    /\ result' = [result EXCEPT ![s] = "error"]

(* validateEvent, validateKeyPair or assertSafeNumbers rejects the input.  *)
Refuse(s) ==
    /\ pc[s] = "loaded"
    /\ Throws(s)
    /\ UNCHANGED <<row, holder, job, loaded, draft, attempt, built, calls,
                   ledger, delivered, fixed>>

(* Postgres: the statement matches and takes the row.  A concurrent open   *)
(* transaction on the same row makes it wait.                              *)
CasWon(s) ==
    /\ backend = "postgres"
    /\ pc[s] = "updating"
    /\ holder[job[s]] = NoSigner
    /\ CasMatches(s)
    /\ holder' = [holder EXCEPT ![job[s]] = s]
    /\ pc'     = [pc EXCEPT ![s] = "committing"]
    /\ UNCHANGED <<row, job, loaded, draft, attempt, result, built, calls,
                   ledger, delivered, fixed>>

(* Mutant: rowCount is not looked at.                                      *)
CasLostUnnoticed(s) ==
    /\ backend = "postgres"
    /\ pc[s] = "updating"
    /\ ~CasMatches(s)
    /\ pc' = [pc EXCEPT ![s] = "acked"]
    /\ UNCHANGED <<row, holder, job, loaded, draft, attempt, result, built,
                   calls, ledger, delivered, fixed>>

(* Postgres: rowCount = 0.  The empty transaction commits and the head is  *)
(* read again for the error's observedHeight.                              *)
CasLost(s) ==
    /\ backend = "postgres"
    /\ pc[s] = "updating"
    /\ ~CasMatches(s)
    /\ pc' = [pc EXCEPT ![s] = "rereading"]
    /\ UNCHANGED <<row, holder, job, loaded, draft, attempt, result, built,
                   calls, ledger, delivered, fixed>>

(* The row and the history change together when an advance takes effect.   *)
TakesEffect(s) ==
    /\ row'    = [row EXCEPT ![job[s]] = NextState(draft[s])]
    /\ ledger' = [ledger EXCEPT ![job[s]] = Append(@, draft[s])]

(* Postgres: COMMIT is executed and its acknowledgement arrives.           *)
Commit(s) ==
    /\ pc[s] = "committing"
    /\ TakesEffect(s)
    /\ holder' = [holder EXCEPT ![job[s]] = NoSigner]
    /\ pc'     = [pc EXCEPT ![s] = "acked"]
    /\ UNCHANGED <<job, loaded, draft, attempt, result, built, calls,
                   delivered, fixed>>

(* Postgres: COMMIT is executed but its acknowledgement is lost: the query *)
(* rejects, ROLLBACK does nothing and the error is rethrown.               *)
CommitAckLost(s) ==
    /\ pc[s] = "committing"
    /\ TakesEffect(s)
    /\ holder' = [holder EXCEPT ![job[s]] = NoSigner]
    /\ Throws(s)
    /\ UNCHANGED <<job, loaded, draft, attempt, built, calls, delivered, fixed>>

(* Mutant: a failed transaction is neither rolled back nor released.       *)
AbortWithoutRollback(s) ==
    /\ backend = "postgres"
    /\ pc[s] \in {"loading", "updating", "committing", "rereading"}
    /\ Throws(s)
    /\ UNCHANGED <<row, holder, job, loaded, draft, attempt, built, calls,
                   ledger, delivered, fixed>>

(* Postgres: a statement of a transaction, or the connection, fails before *)
(* COMMIT took effect: rolled back, the error is rethrown, no retry.       *)
Abort(s) ==
    /\ backend = "postgres"
    /\ pc[s] \in {"loading", "updating", "committing", "rereading"}
    /\ holder' = [holder EXCEPT ![job[s]] = IF @ = s THEN NoSigner ELSE @]
    /\ Throws(s)
    /\ UNCHANGED <<row, job, loaded, draft, attempt, built, calls, ledger,
                   delivered, fixed>>

(* Mutant: the retry re-signs on the head it loaded before.                *)
RetryWithoutReload(s) ==
    \/ /\ attempt[s] < MaxRetries
       /\ attempt' = [attempt EXCEPT ![s] = @ + 1]
       /\ pc'      = [pc EXCEPT ![s] = "loaded"]
       /\ UNCHANGED result
    \/ /\ attempt[s] >= MaxRetries
       /\ pc'     = [pc EXCEPT ![s] = "idle"]
       /\ result' = [result EXCEPT ![s] = "conflict"]
       /\ UNCHANGED attempt

(* The catch block on a ConcurrentChainWriteError: next attempt or rethrow.*)
RetryOrThrow(s) ==
    \/ /\ attempt[s] < MaxRetries
       /\ attempt' = [attempt EXCEPT ![s] = @ + 1]
       /\ pc'      = [pc EXCEPT ![s] = "loading"]
       /\ UNCHANGED result
    \/ /\ attempt[s] >= MaxRetries
       /\ pc'     = [pc EXCEPT ![s] = "idle"]
       /\ result' = [result EXCEPT ![s] = "conflict"]
       /\ UNCHANGED attempt

(* Postgres: the re-read of the head returns, the CAS error is thrown.     *)
ReRead(s) ==
    /\ pc[s] = "rereading"
    /\ RetryOrThrow(s)
    /\ UNCHANGED <<row, holder, job, loaded, draft, built, calls, ledger,
                   delivered, fixed>>

(* Mutant: the entry is set first and compared afterwards.                 *)
MemorySetThenCompare(s) ==
    /\ backend = "memory"
    /\ pc[s] = "updating"
    /\ MemoryMatches(s)
    /\ TakesEffect(s)
    /\ RetryOrThrow(s)
    /\ UNCHANGED <<holder, job, loaded, draft, built, calls, delivered, fixed>>

(* MemoryChainStateStore.advance runs without interruption.                *)
MemoryWon(s) ==
    /\ backend = "memory"
    /\ pc[s] = "updating"
    /\ MemoryMatches(s)
    /\ TakesEffect(s)
    /\ pc' = [pc EXCEPT ![s] = "acked"]
    /\ UNCHANGED <<holder, job, loaded, draft, attempt, result, built, calls,
                   delivered, fixed>>

(* ... and throws a ConcurrentChainWriteError if another call advanced.    *)
MemoryLost(s) ==
    /\ backend = "memory"
    /\ pc[s] = "updating"
    /\ ~MemoryMatches(s)
    /\ RetryOrThrow(s)
    /\ UNCHANGED <<row, holder, job, loaded, draft, built, calls, ledger,
                   delivered, fixed>>

(* The signed receipt is returned to the caller.                           *)
Return(s) ==
    /\ pc[s] = "acked"
    /\ delivered' = delivered \cup {draft[s]}
    /\ result'    = [result EXCEPT ![s] = "signed"]
    /\ pc'        = [pc EXCEPT ![s] = "idle"]
    /\ UNCHANGED <<row, holder, job, loaded, draft, attempt, built, calls,
                   ledger, fixed>>

(* The signer's process dies; the server rolls an open transaction back.   *)
Crash(s) ==
    /\ backend = "postgres"
    /\ pc[s] # "idle"
    /\ holder' = [holder EXCEPT ![job[s]] = IF @ = s THEN NoSigner ELSE @]
    /\ pc'     = [pc EXCEPT ![s] = "idle"]
    /\ result' = [result EXCEPT ![s] = "crashed"]
    /\ UNCHANGED <<row, job, loaded, draft, attempt, built, calls, ledger,
                   delivered, fixed>>

(* Every call has ended and no further one is made: the system may rest.   *)
Done ==
    /\ \A s \in Signers : pc[s] = "idle" /\ calls[s] = MaxCalls
    /\ UNCHANGED vars
-----------------------------------------------------------------------------
Step(s) == \/ Load(s) \/ Build(s) \/ CasWon(s) \/ CasLost(s) \/ Commit(s)
           \/ ReRead(s) \/ MemoryWon(s) \/ MemoryLost(s) \/ Return(s)

Fault(s) == Refuse(s) \/ CommitAckLost(s) \/ Abort(s) \/ Crash(s)

Next == \/ \E s \in Signers : \/ \E t \in Tenants : Call(s, t)
                              \/ Step(s)
                              \/ Fault(s)
        \/ Done

Spec == Init /\ [][Next]_vars

(* An await that can resume resumes; the database queues lock waiters.     *)
FairSpec == Spec /\ \A s \in Signers : SF_vars(Step(s))
-----------------------------------------------------------------------------
TypeOK ==
    /\ backend   \in {"postgres", "memory"}
    /\ row       \in [Tenants -> ChainState \cup {NoRow}]
    /\ holder    \in [Tenants -> Signers \cup {NoSigner}]
    /\ pc        \in [Signers -> PCs]
    /\ job       \in [Signers -> Tenants]
    /\ loaded    \in [Signers -> ChainState]
    /\ draft     \in [Signers -> Receipt]
    /\ attempt   \in [Signers -> 0..MaxRetries]
    /\ result    \in [Signers -> {"none", "signed", "conflict", "error", "crashed"}]
    /\ built     \in [Signers -> Nat]
    /\ calls     \in [Signers -> 0..MaxCalls]
    /\ ledger    \in [Tenants -> Seq(Receipt)]
    /\ delivered \subseteq Receipt
    /\ first     \in [Signers -> Nat]
    /\ since     \in [Signers -> Nat]

(* A tenant's committed receipts are one unforked chain: exactly one per   *)
(* height, each carrying the hash of the one below it, the first carrying  *)
(* GENESIS_HASH, none of another tenant - although the stores compare only *)
(* the height of the head they replace.  (receipt.ts:151-152,              *)
(* PL-RFC-003 section 4.)                                                  *)
WellLinked ==
    \A t \in Tenants : \A i \in 1..Len(ledger[t]) :
        /\ ledger[t][i].tenant = t
        /\ ledger[t][i].height = i
        /\ ledger[t][i].prev = IF i = 1 THEN Genesis ELSE ledger[t][i-1].id

(* Receipt r was built in signer s's current (or last) call.               *)
OfCall(s, r) == r.id[1] = s /\ r.id[2] > first[s]

(* One call of signReceiptWithStore commits at most one receipt, however   *)
(* often it retries: it retries only when the store has told it for certain*)
(* that its last attempt did not take effect (receipt.ts:173-178).         *)
OneCommitPerCall ==
    \A s \in Signers : \A t, u \in Tenants :
        \A i \in 1..Len(ledger[t]), j \in 1..Len(ledger[u]) :
            OfCall(s, ledger[t][i]) /\ OfCall(s, ledger[u][j]) => t = u /\ i = j

(* What the caller is told agrees with the chain: a returned receipt is in *)
(* the chain, a ConcurrentChainWriteError means no receipt of the call is. *)
OutcomeMatchesLedger ==
    \A s \in Signers :
        /\ result[s] = "conflict" =>
              \A t \in Tenants : \A i \in 1..Len(ledger[t]) : ~OfCall(s, ledger[t][i])
        /\ result[s] = "signed" =>
              /\ OfCall(s, draft[s])
              /\ \E i \in 1..Len(ledger[job[s]]) : ledger[job[s]][i] = draft[s]

(* Durable writes (chain-store.ts:16-17): every receipt a caller holds is  *)
(* committed, at its own height in its own tenant's chain.                 *)
DeliveredAreCommitted ==
    \A r \in delivered : /\ r.height \in 1..Len(ledger[r.tenant])
                         /\ ledger[r.tenant][r.height] = r

(* A call gives up with a ConcurrentChainWriteError only if at least       *)
(* MaxRetries + 1 other receipts were committed to the tenant's chain while*)
(* it ran: losing is always another writer's progress.                     *)
GiveUpNeedsContention ==
    \A s \in Signers :
        result[s] = "conflict" => Len(ledger[job[s]]) - since[s] > MaxRetries

(* The row is always the tip of the committed chain.                       *)
HeadIsTip ==
    \A t \in Tenants :
        IF ledger[t] = <<>>
        THEN row[t] = NoRow
        ELSE row[t] = NextState(ledger[t][Len(ledger[t])])

-----------------------------------------------------------------------------
(* The inductive invariant of StoreSignerProofs.                           *)

(* The state a signer works from was the head of its tenant's chain.       *)
LoadedWasHead ==
    \A s \in Signers : pc[s] \in {"loaded", "updating", "committing"} =>
        /\ loaded[s].height <= Len(ledger[job[s]])
        /\ loaded[s].hash = IF loaded[s].height = 0 THEN Genesis
                            ELSE ledger[job[s]][loaded[s].height].id

(* The receipt under way is the one just built, on the state loaded.       *)
DraftFollowsLoaded ==
    \A s \in Signers : pc[s] \in {"updating", "committing"} =>
        /\ draft[s] = [id |-> <<s, built[s]>>, tenant |-> job[s],
                       height |-> loaded[s].height + 1, prev |-> loaded[s].hash]
        /\ OfCall(s, draft[s])

(* While a transaction holds the row, its predicate stays true.            *)
HolderStillMatches ==
    \A s \in Signers : pc[s] = "committing" =>
        backend = "postgres" /\ holder[job[s]] = s /\ CasMatches(s)

(* No receipt is in a chain before it was built.                           *)
LedgerIsBuilt ==
    /\ \A s \in Signers : first[s] <= built[s]
    /\ \A t \in Tenants : \A i \in 1..Len(ledger[t]) :
          ledger[t][i].id[2] <= built[ledger[t][i].id[1]]

(* Until its advance takes effect, a call has no receipt in any chain.     *)
NothingLandedYet ==
    \A s \in Signers :
        pc[s] \in {"loading", "loaded", "updating", "committing", "rereading"} =>
            \A t \in Tenants : \A i \in 1..Len(ledger[t]) : ~OfCall(s, ledger[t][i])

(* What is about to be returned is committed.                              *)
AckedIsCommitted ==
    \A s \in Signers : pc[s] = "acked" =>
        /\ OfCall(s, draft[s])
        /\ draft[s].tenant = job[s]
        /\ draft[s].height \in 1..Len(ledger[job[s]])
        /\ ledger[job[s]][draft[s].height] = draft[s]

(* A call under way has no outcome yet.                                    *)
NoOutcomeYet == \A s \in Signers : pc[s] # "idle" => result[s] = "none"

(* Every lost attempt is a receipt of somebody else since the call began.  *)
LossIsProgress ==
    \A s \in Signers :
        /\ pc[s] = "loading" => since[s] + attempt[s] <= Len(ledger[job[s]])
        /\ pc[s] \in {"loaded", "updating"} => since[s] + attempt[s] <= loaded[s].height
        /\ pc[s] = "rereading" => since[s] + attempt[s] < Len(ledger[job[s]])

ChainInv   == HeadIsTip /\ WellLinked /\ LoadedWasHead /\ DraftFollowsLoaded /\ HolderStillMatches
CallInv    == LedgerIsBuilt /\ NothingLandedYet /\ NoOutcomeYet /\ OneCommitPerCall
OutcomeInv == AckedIsCommitted /\ OutcomeMatchesLedger /\ DeliveredAreCommitted
EffortInv  == LossIsProgress /\ GiveUpNeedsContention

(* The chain, the calls, their outcomes and their effort are consistent    *)
(* with each other in every state; the invariants above follow.            *)
IInv == TypeOK /\ ChainInv /\ CallInv /\ OutcomeInv /\ EffortInv
-----------------------------------------------------------------------------
(* Every call ends, with a receipt or an error: the retry loop and the row *)
(* lock never keep a signer forever.                                       *)
CallEnds == \A s \in Signers : pc[s] = "loading" ~> pc[s] = "idle"

(* PL-RFC-003 section 3: the new head and the persisted receipt are one    *)
(* atomic step.  Once no call is under way, the receipt the head names has *)
(* been handed to somebody who can keep it.                                *)
HeadReceiptIsHeld ==
    (\A s \in Signers : pc[s] = "idle") =>
        \A t \in Tenants : row[t] # NoRow =>
            \E r \in delivered : r.tenant = t /\ r.id = row[t].hash

(* StoreSigner implements the abstract chain: the ledger is the chain.     *)
HC == INSTANCE HashChain WITH chain <- ledger
ImplementsHashChain == HC!Spec
=============================================================================
