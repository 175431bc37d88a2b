------------------------------ MODULE FileSigner ------------------------------
(***************************************************************************)
(* Signing against the file store (src/chain.ts): the synchronous          *)
(* signReceipt and signReceiptWithStore over FileChainStateStore, in one or*)
(* several Node processes sharing .ledger/chains.                          *)
(*                                                                         *)
(* JavaScript between two awaits runs without interruption in its process, *)
(* so the tasks of one process exclude each other there; the file          *)
(* operations of different processes interleave.  writeFileSync truncates  *)
(* the file and then writes it: in between, and after a crash or a failure *)
(* (a full disk) in between, a reader finds a file that is not JSON.       *)
(***************************************************************************)
EXTENDS Integers, FiniteSets

CONSTANTS Tenants,     \* tenants whose ids sanitize to one legacy file name
          Tasks,       \* signing tasks
          Procs,       \* Node processes
          ProcOf,      \* ProcOf[k]: the process task k runs in
          Genesis, NoFile, Torn,
          LegacyId,    \* the last receipt of a chain written before 0.12.6
          MaxRetries,
          MaxCalls     \* bound: calls per task

ReceiptIds == (Tasks \X Nat \X Nat) \cup {LegacyId}
Hash       == ReceiptIds \cup {Genesis}
ChainState == [tenant_id : Tenants, height : Nat, hash : Hash]
Receipt    == [id : ReceiptIds, tenant : Tenants, height : Nat, prev : Hash]

FileAssumption ==
    /\ ProcOf \in [Tasks -> Procs]
    /\ MaxRetries \in Nat /\ MaxCalls \in Nat
    /\ NoFile \notin ChainState /\ Torn \notin ChainState /\ NoFile # Torn
    /\ Tenants # {}

VARIABLES
    file,       \* file[t]: the state file of tenant t, NoFile, or Torn
    legacy,     \* the file under the pre-0.12.6 name the tenants share
    pc, job, loaded, draft, attempt, calls,   \* per task, as in StoreSigner
    saved,      \* history: receipts whose successor state was written
    crashed,    \* history: some process died
    failed,     \* history: some call threw a JSON error
    raced,      \* history: a task went on to save while another process did
    spoiled     \* history: tenants whose file a save did not finish writing

vars == <<file, legacy, pc, job, loaded, draft, attempt, calls, saved, crashed,
          failed, raced, spoiled>>
-----------------------------------------------------------------------------
GenesisState(t) == [tenant_id |-> t, height |-> 0, hash |-> Genesis]

(* Mutant: legacy state is adopted without comparing its tenant_id.        *)
LoadAnyLegacy(t) ==
    IF file[t] # NoFile THEN file[t]
    ELSE IF legacy # NoFile THEN [legacy EXCEPT !.tenant_id = t]
    ELSE GenesisState(t)

(* loadChainState; Torn stands for the SyntaxError of JSON.parse.          *)
LoadChainState(t) ==
    IF file[t] # NoFile THEN file[t]
    ELSE IF legacy # NoFile /\ legacy.tenant_id = t THEN legacy
    ELSE GenesisState(t)

(* advanceChain                                                            *)
AdvanceChain(prev, r) ==
    [tenant_id |-> prev.tenant_id, height |-> prev.height + 1, hash |-> r.id]

(* buildSignedReceipt in attempt `try` of task k's call number `call`.     *)
SignedAfter(k, call, try, t, prev) ==
    [id |-> <<k, call, try>>, tenant |-> t,
     height |-> prev.height + 1, prev |-> prev.hash]

(* Mutant: saveChainState awaits its file operations.                      *)
NeverBusy(k) == FALSE

(* Another task of k's process is inside saveChainState.                   *)
Busy(k) == \E j \in Tasks \ {k} :
              ProcOf[j] = ProcOf[k] /\ pc[j] \in {"saving", "writing"}

Init ==
    /\ file    = [t \in Tenants |-> NoFile]
    /\ legacy  \in {NoFile} \cup [tenant_id : Tenants, height : {1}, hash : {LegacyId}]
    /\ pc      = [k \in Tasks |-> "idle"]
    /\ job     = [k \in Tasks |-> CHOOSE t \in Tenants : TRUE]
    /\ loaded  = [k \in Tasks |-> GenesisState(job[k])]
    /\ draft   = [k \in Tasks |-> [id |-> <<k, 0, 0>>, tenant |-> job[k],
                                   height |-> 1, prev |-> Genesis]]
    /\ attempt = [k \in Tasks |-> 0]
    /\ calls   = [k \in Tasks |-> 0]
    /\ saved   = IF legacy = NoFile THEN {}
                 ELSE {[id |-> LegacyId, tenant |-> legacy.tenant_id,
                        height |-> 1, prev |-> Genesis]}
    /\ crashed = FALSE
    /\ failed  = FALSE
    /\ raced   = FALSE
    /\ spoiled = {}
-----------------------------------------------------------------------------
Fails(k) == /\ pc' = [pc EXCEPT ![k] = "idle"]
            /\ failed' = TRUE

(* Task k, of tenant t, is past the last look at the state file.           *)
GoesOnToSave(k, t) ==
    /\ pc' = [pc EXCEPT ![k] = "saving"]
    /\ raced' = (raced \/ \E j \in Tasks : /\ ProcOf[j] # ProcOf[k] /\ job[j] = t
                                           /\ pc[j] \in {"saving", "writing"})

(* signReceipt: load, build and start saving without giving up the thread. *)
SignSync(k, t) ==
    /\ pc[k] = "idle" /\ calls[k] < MaxCalls /\ ~Busy(k)
    /\ calls'   = [calls EXCEPT ![k] = @ + 1]
    /\ job'     = [job EXCEPT ![k] = t]
    /\ attempt' = [attempt EXCEPT ![k] = 0]
    /\ LET prev == LoadChainState(t)
       IN  IF prev = Torn
           THEN Fails(k) /\ UNCHANGED <<loaded, draft, raced>>
           ELSE /\ loaded' = [loaded EXCEPT ![k] = prev]
                /\ draft'  = [draft EXCEPT ![k] = SignedAfter(k, calls[k] + 1, 0, t, prev)]
                /\ GoesOnToSave(k, t)
                /\ UNCHANGED failed
    /\ UNCHANGED <<file, legacy, saved, crashed, spoiled>>

(* signReceiptWithStore is called; its first step is store.load.           *)
CallStore(k, t) ==
    /\ pc[k] = "idle" /\ calls[k] < MaxCalls /\ ~Busy(k)
    /\ calls'   = [calls EXCEPT ![k] = @ + 1]
    /\ job'     = [job EXCEPT ![k] = t]
    /\ attempt' = [attempt EXCEPT ![k] = 0]
    /\ pc'      = [pc EXCEPT ![k] = "loading"]
    /\ UNCHANGED <<file, legacy, loaded, draft, saved, crashed, failed, raced, spoiled>>

(* FileChainStateStore.load                                                *)
Load(k) ==
    /\ pc[k] = "loading" /\ ~Busy(k)
    /\ LET prev == LoadChainState(job[k])
       IN  IF prev = Torn
           THEN Fails(k) /\ UNCHANGED loaded
           ELSE /\ loaded' = [loaded EXCEPT ![k] = prev]
                /\ pc'     = [pc EXCEPT ![k] = "loaded"]
                /\ UNCHANGED failed
    /\ UNCHANGED <<file, legacy, job, draft, attempt, calls, saved, crashed, raced, spoiled>>

(* A ConcurrentChainWriteError: next attempt or rethrow.                   *)
RetryOrThrow(k) ==
    IF attempt[k] < MaxRetries
    THEN pc' = [pc EXCEPT ![k] = "loading"] /\ attempt' = [attempt EXCEPT ![k] = @ + 1]
    ELSE pc' = [pc EXCEPT ![k] = "idle"] /\ UNCHANGED attempt

(* Mutant: advance without the re-read.                                    *)
AdvanceUnchecked(k) ==
    /\ pc[k] = "loaded" /\ ~Busy(k)
    /\ draft' = [draft EXCEPT ![k] = SignedAfter(k, calls[k], attempt[k], job[k], loaded[k])]
    /\ GoesOnToSave(k, job[k])
    /\ UNCHANGED <<file, legacy, job, loaded, attempt, calls, saved, crashed, failed, spoiled>>

(* The receipt is built and FileChainStateStore.advance re-reads the head: *)
(* an unreadable file throws, a moved head is a ConcurrentChainWriteError  *)
(* (next attempt or rethrow), the same height goes on to save.             *)
Advance(k) ==
    /\ pc[k] = "loaded" /\ ~Busy(k)
    /\ draft' = [draft EXCEPT ![k] = SignedAfter(k, calls[k], attempt[k], job[k], loaded[k])]
    /\ LET current == LoadChainState(job[k])
       IN  \/ /\ current = Torn
              /\ Fails(k)
              /\ UNCHANGED <<attempt, raced>>
           \/ /\ current # Torn
              /\ current.height # loaded[k].height
              /\ RetryOrThrow(k)
              /\ UNCHANGED <<failed, raced>>
           \/ /\ current # Torn
              /\ current.height = loaded[k].height
              /\ GoesOnToSave(k, job[k])
              /\ UNCHANGED <<attempt, failed>>
    /\ UNCHANGED <<file, legacy, job, loaded, calls, saved, crashed, spoiled>>

(* saveChainState: writeFileSync truncates the file ...                    *)
Truncate(k) ==
    /\ pc[k] = "saving"
    /\ file' = [file EXCEPT ![job[k]] = Torn]
    /\ pc'   = [pc EXCEPT ![k] = "writing"]
    /\ UNCHANGED <<legacy, job, loaded, draft, attempt, calls, saved, crashed, failed, raced,
                   spoiled>>

(* ... and writes the new state; the signed receipt is returned.           *)
Write(k) ==
    /\ pc[k] = "writing"
    /\ file'  = [file EXCEPT ![job[k]] = AdvanceChain(loaded[k], draft[k])]
    /\ saved' = saved \cup {draft[k]}
    /\ pc'    = [pc EXCEPT ![k] = "idle"]
    /\ UNCHANGED <<legacy, job, loaded, draft, attempt, calls, crashed, failed, raced, spoiled>>

(* The directory or the file cannot be opened: the call throws, and the    *)
(* file is as it was.                                                      *)
SaveFails(k) ==
    /\ pc[k] = "saving"
    /\ pc' = [pc EXCEPT ![k] = "idle"]
    /\ UNCHANGED <<file, legacy, job, loaded, draft, attempt, calls, saved, crashed, failed,
                   raced, spoiled>>

(* The write fails, having written nothing or a part: the call throws, and *)
(* nothing repairs the file.                                               *)
WriteFails(k) ==
    /\ pc[k] = "writing"
    /\ file' \in {file, [file EXCEPT ![job[k]] = Torn]}
    /\ pc' = [pc EXCEPT ![k] = "idle"]
    /\ spoiled' = spoiled \cup {job[k]}
    /\ UNCHANGED <<legacy, job, loaded, draft, attempt, calls, saved, crashed, failed, raced>>

(* A process dies with all its tasks; it is restarted later.               *)
Crash(p) ==
    /\ ~crashed
    /\ pc' = [k \in Tasks |-> IF ProcOf[k] = p THEN "idle" ELSE pc[k]]
    /\ crashed' = TRUE
    /\ spoiled' = spoiled \cup {job[k] : k \in {j \in Tasks : ProcOf[j] = p /\ pc[j] = "writing"}}
    /\ UNCHANGED <<file, legacy, job, loaded, draft, attempt, calls, saved, failed, raced>>

Next == \/ \E k \in Tasks : \/ \E t \in Tenants : SignSync(k, t) \/ CallStore(k, t)
                            \/ Load(k) \/ Advance(k) \/ Truncate(k) \/ Write(k)
                            \/ SaveFails(k) \/ WriteFails(k)
        \/ \E p \in Procs : Crash(p)

Spec == Init /\ [][Next]_vars
-----------------------------------------------------------------------------
TypeOK ==
    /\ file    \in [Tenants -> ChainState \cup {NoFile, Torn}]
    /\ legacy  \in ChainState \cup {NoFile}
    /\ pc      \in [Tasks -> {"idle", "loading", "loaded", "saving", "writing"}]
    /\ job     \in [Tasks -> Tenants]
    /\ loaded  \in [Tasks -> ChainState]
    /\ draft   \in [Tasks -> Receipt]
    /\ attempt \in [Tasks -> 0..MaxRetries]
    /\ calls   \in [Tasks -> 0..MaxCalls]
    /\ saved   \subseteq Receipt
    /\ crashed \in BOOLEAN /\ failed \in BOOLEAN /\ raced \in BOOLEAN
    /\ spoiled \subseteq Tenants

(* Two receipts never share a height of a tenant's chain, in one process   *)
(* (the single-writer comment of receipt.ts:118-122) or in several (the    *)
(* re-read of chain-store.ts:67-76) - unless two processes are between     *)
(* their last look at the state file and its write at the same time.       *)
NoFork ==
    ~raced => \A r, q \in saved : r.tenant = q.tenant /\ r.height = q.height => r = q

(* Every saved receipt above the first names its tenant's own receipt one  *)
(* height below: no gap and nothing inherited from a tenant whose id only  *)
(* sanitizes to the same legacy file name (chain.ts:48-51).                *)
LinkedWithinTenant ==
    \A r \in saved :
        IF r.height = 1
        THEN r.prev = Genesis
        ELSE \E q \in saved : /\ q.tenant = r.tenant
                              /\ q.height = r.height - 1
                              /\ r.prev = q.id

(* The file chains stay chains of their tenants (chain.ts:25-92).          *)
FileChainsHold == NoFork /\ LinkedWithinTenant

(* A call meets an unreadable state file only while another process writes *)
(* that very file, or after a crash or a failed write left it half written.*)
UnreadableIsExplained ==
    [][~failed /\ failed' =>
          \E k \in Tasks :
              /\ <<pc'[k], calls'[k]>> # <<pc[k], calls[k]>>
              /\ \/ job'[k] \in spoiled
                 \/ \E j \in Tasks : /\ ProcOf[j] # ProcOf[k] /\ job[j] = job'[k]
                                     /\ pc[j] = "writing"]_vars
=============================================================================
