--------------------------- MODULE LocalChainsProofs ---------------------------
(***************************************************************************)
(* Proofs about the chains kept on a user's machine, for any number of     *)
(* signers, calls, retries and interruptions.  The file store: the chains  *)
(* neither fork nor leave their tenant, and an unreadable state file has an*)
(* explanation.  The other SDKs' files: their forks are explained, and each*)
(* language verifies what every other returns.  The browser extension: its *)
(* key, chain and list fail only by overlaps of their own.                 *)
(***************************************************************************)
EXTENDS MCLocalChains, FiniteSetTheorems, TLAPS

Saving == {"saving", "writing"}

(* A state of tenant t's chain that some saved receipt (or none) is the    *)
(* head of.                                                                *)
HeadIn(t, st, rs) ==
    /\ st.tenant_id = t
    /\ \/ st.height = 0 /\ st.hash = Genesis
       \/ \E q \in rs : q.tenant = t /\ q.height = st.height /\ q.id = st.hash

(* Whatever is on disk or was loaded is such a state, and what a task is   *)
(* about to save follows the state it loaded.                              *)
StatesAreHeads ==
    /\ \A r \in saved : r.height >= 1
    /\ \A t \in Tenants : file[t] \in ChainState => HeadIn(t, file[t], saved)
    /\ legacy # NoFile => HeadIn(legacy.tenant_id, legacy, saved)
    /\ \A k \in Tasks : pc[k] \in {"loaded"} \cup Saving => HeadIn(job[k], loaded[k], saved)
    /\ \A k \in Tasks : pc[k] \in Saving =>
          /\ draft[k].tenant = job[k]
          /\ draft[k].height = loaded[k].height + 1
          /\ draft[k].prev = loaded[k].hash

(* loadChainState, of given files.                                         *)
OnDisk(files, old, t) ==
    IF files[t] # NoFile THEN files[t]
    ELSE IF old # NoFile /\ old.tenant_id = t THEN old
    ELSE GenesisState(t)

(* No receipt of tenant t is saved above height h.                         *)
TopIs(t, h, rs) == \A r \in rs : r.tenant = t => r.height <= h

(* Without a race, one task at a time saves a tenant's state, to a height  *)
(* above all that is saved; and the height on disk is the chain's.         *)
OneWriter ==
    /\ NoFork
    /\ ~raced =>
        /\ \A j, k \in Tasks : pc[j] \in Saving /\ pc[k] \in Saving /\ job[j] = job[k] => j = k
        /\ \A t \in Tenants : file[t] # Torn => TopIs(t, OnDisk(file, legacy, t).height, saved)
        /\ \A k \in Tasks : pc[k] = "saving" =>
              file[job[k]] # Torn /\ OnDisk(file, legacy, job[k]).height = loaded[k].height
        /\ \A k \in Tasks : pc[k] = "writing" => TopIs(job[k], loaded[k].height, saved)

(* An unreadable file is being written, or a write of it did not finish.   *)
TornHasWriter ==
    \A t \in Tenants : file[t] = Torn =>
        t \in spoiled \/ \E j \in Tasks : pc[j] = "writing" /\ job[j] = t

IInv == TypeOK /\ StatesAreHeads /\ OneWriter /\ TornHasWriter
-----------------------------------------------------------------------------
(* What loading and signing return.                                        *)

LEMMA LoadType ==
    ASSUME FileAssumption, TypeOK, NEW t \in Tenants
    PROVE  /\ LoadChainState(t) \in ChainState \cup {Torn}
           /\ LoadChainState(t) = Torn <=> file[t] = Torn
<1>1. GenesisState(t) \in ChainState
  BY DEF GenesisState, ChainState, Hash
<1>2. file[t] \in ChainState \cup {NoFile, Torn} /\ legacy \in ChainState \cup {NoFile}
  BY DEF TypeOK
<1> QED
  BY <1>1, <1>2 DEF FileAssumption, LoadChainState

LEMMA LoadIsOnDisk == \A t \in Tenants : LoadChainState(t) = OnDisk(file, legacy, t)
BY DEF LoadChainState, OnDisk

LEMMA LoadIsHead ==
    ASSUME FileAssumption, TypeOK, StatesAreHeads, NEW t \in Tenants, LoadChainState(t) # Torn
    PROVE  HeadIn(t, LoadChainState(t), saved)
<1>1. file[t] \in ChainState \cup {NoFile, Torn} /\ legacy \in ChainState \cup {NoFile}
  BY DEF TypeOK
<1>2. CASE file[t] # NoFile
  BY <1>1, <1>2 DEF LoadChainState, StatesAreHeads
<1>3. CASE file[t] = NoFile /\ legacy # NoFile /\ legacy.tenant_id = t
  BY <1>3 DEF LoadChainState, StatesAreHeads
<1>4. CASE file[t] = NoFile /\ ~(legacy # NoFile /\ legacy.tenant_id = t)
  BY <1>4 DEF LoadChainState, GenesisState, HeadIn
<1> QED
  BY <1>2, <1>3, <1>4

LEMMA SignedAfterType ==
    ASSUME NEW k \in Tasks, NEW call \in Nat, NEW try \in Nat, NEW t \in Tenants,
           NEW last \in ChainState
    PROVE  /\ SignedAfter(k, call, try, t, last) \in Receipt
           /\ SignedAfter(k, call, try, t, last).tenant = t
           /\ SignedAfter(k, call, try, t, last).height = last.height + 1
           /\ SignedAfter(k, call, try, t, last).prev = last.hash
<1>1. <<k, call, try>> \in ReceiptIds
  BY DEF ReceiptIds
<1> QED
  BY <1>1 DEF SignedAfter, Receipt, ChainState, Hash

(* A head of some receipts is a head of more.                              *)
LEMMA HeadStays ==
    ASSUME NEW t, NEW st, NEW rs, NEW more, HeadIn(t, st, rs), rs \subseteq more
    PROVE  HeadIn(t, st, more)
BY DEF HeadIn
-----------------------------------------------------------------------------
LEMMA InitIInv == FileAssumption /\ Init => IInv
<1> SUFFICES ASSUME FileAssumption, Init PROVE IInv
  OBVIOUS
<1>1. legacy \in {NoFile} \cup [tenant_id : Tenants, height : {1}, hash : {LegacyId}]
  BY DEF Init
<1>2. legacy = NoFile \/ (/\ legacy \in ChainState /\ legacy # NoFile /\ legacy.tenant_id \in Tenants
                          /\ legacy.height = 1 /\ legacy.hash = LegacyId)
  BY <1>1 DEF FileAssumption, ChainState, Hash, ReceiptIds
<1>3. /\ legacy = NoFile => saved = {}
      /\ legacy # NoFile => saved = {[id |-> LegacyId, tenant |-> legacy.tenant_id,
                                      height |-> 1, prev |-> Genesis]}
  BY DEF Init
<1>4. /\ saved \subseteq Receipt
      /\ \A r \in saved : r.height = 1 /\ r.id = LegacyId
      /\ \A r \in saved : legacy # NoFile /\ r.tenant = legacy.tenant_id
  BY <1>2, <1>3 DEF Receipt, ReceiptIds, Hash
<1>5. TypeOK
  <2>1. job \in [Tasks -> Tenants]
    BY DEF Init, FileAssumption
  <2>2. loaded \in [Tasks -> ChainState]
    BY <2>1 DEF Init, GenesisState, ChainState, Hash
  <2>3. draft \in [Tasks -> Receipt]
    <3>1. ASSUME NEW k \in Tasks
          PROVE  [id |-> <<k, 0, 0>>, tenant |-> job[k], height |-> 1, prev |-> Genesis] \in Receipt
      BY <2>1, <3>1 DEF Receipt, ReceiptIds, Hash
    <3> QED
      BY <3>1 DEF Init
  <2>4. /\ file \in [Tenants -> ChainState \cup {NoFile, Torn}]
        /\ pc \in [Tasks -> {"idle", "loading", "loaded", "saving", "writing"}]
        /\ crashed = FALSE /\ failed = FALSE /\ raced = FALSE /\ spoiled = {}
    BY DEF Init
  <2>5. attempt \in [Tasks -> 0..MaxRetries] /\ calls \in [Tasks -> 0..MaxCalls]
    BY DEF Init, FileAssumption
  <2>6. saved \subseteq Receipt /\ legacy \in ChainState \cup {NoFile}
    BY <1>2, <1>4
  <2> QED
    BY <2>1, <2>2, <2>3, <2>4, <2>5, <2>6 DEF TypeOK
<1>6. StatesAreHeads
  <2>1. ASSUME legacy # NoFile PROVE HeadIn(legacy.tenant_id, legacy, saved)
    <3> DEFINE first == [id |-> LegacyId, tenant |-> legacy.tenant_id,
                         height |-> 1, prev |-> Genesis]
    <3>1. first \in saved
      BY <1>3, <2>1
    <3>2. first.tenant = legacy.tenant_id /\ first.height = legacy.height /\ first.id = legacy.hash
      BY <1>2, <2>1
    <3> QED
      BY <3>1, <3>2 DEF HeadIn
  <2>2. \A t \in Tenants : file[t] \notin ChainState
    BY DEF Init, FileAssumption
  <2>3. \A k \in Tasks : pc[k] = "idle"
    BY DEF Init
  <2> QED
    BY <1>4, <2>1, <2>2, <2>3 DEF StatesAreHeads, Saving
<1>7. OneWriter
  <2>1. NoFork
    BY <1>2, <1>3 DEF NoFork
  <2>2. \A t \in Tenants : TopIs(t, OnDisk(file, legacy, t).height, saved)
    <3> SUFFICES ASSUME NEW t \in Tenants, NEW r \in saved, r.tenant = t
                 PROVE  r.height <= OnDisk(file, legacy, t).height
      BY DEF TopIs
    <3>1. file[t] = NoFile /\ legacy # NoFile /\ legacy.tenant_id = t /\ legacy.height = 1
      BY <1>2, <1>4 DEF Init
    <3> QED
      BY <3>1, <1>4 DEF OnDisk
  <2>3. \A k \in Tasks : pc[k] = "idle"
    BY DEF Init
  <2> QED
    BY <2>1, <2>2, <2>3 DEF OneWriter, Saving
<1>8. TornHasWriter
  BY DEF Init, TornHasWriter, FileAssumption
<1> QED
  BY <1>5, <1>6, <1>7, <1>8 DEF IInv
-----------------------------------------------------------------------------
(* A task that leaves the disk alone and does not go on to save, or fails, *)
(* keeps the invariant as long as what it has loaded is a head.            *)
LEMMA QuietStep ==
    ASSUME FileAssumption, IInv, TypeOK', NEW k \in Tasks,
           UNCHANGED <<file, legacy, saved, crashed, raced, spoiled>>,
           pc[k] \notin Saving, pc'[k] \notin Saving,
           \A j \in Tasks \ {k} : /\ pc'[j] = pc[j] /\ job'[j] = job[j]
                                  /\ loaded'[j] = loaded[j] /\ draft'[j] = draft[j],
           pc'[k] = "loaded" => HeadIn(job'[k], loaded'[k], saved)
    PROVE  IInv'
<1>1. StatesAreHeads'
  <2>1. ASSUME NEW j \in Tasks, pc'[j] \in {"loaded"} \cup Saving
        PROVE  HeadIn(job'[j], loaded'[j], saved)
    <3>1. CASE j = k
      BY <2>1, <3>1 DEF Saving
    <3>2. CASE j # k
      BY <2>1, <3>2 DEF IInv, StatesAreHeads
    <3> QED
      BY <3>1, <3>2
  <2>2. ASSUME NEW j \in Tasks, pc'[j] \in Saving
        PROVE  /\ draft'[j].tenant = job'[j]
               /\ draft'[j].height = loaded'[j].height + 1
               /\ draft'[j].prev = loaded'[j].hash
    BY <2>2 DEF IInv, StatesAreHeads
  <2> QED
    BY <2>1, <2>2 DEF IInv, StatesAreHeads
<1>2. OneWriter'
  <2>2. \A j \in Tasks : pc'[j] \in Saving => j # k
    OBVIOUS
  <2>3. NoFork'
    BY DEF IInv, OneWriter, NoFork
  <2>4. \A j \in Tasks : job[j] \in Tenants
    BY DEF IInv, TypeOK
  <2> QED
    BY <2>2, <2>3, <2>4 DEF IInv, OneWriter, TopIs, Saving
<1>3. TornHasWriter'
  <2>1. \A j \in Tasks : pc[j] = "writing" => j # k
    BY DEF Saving
  <2> QED
    BY <2>1 DEF IInv, TornHasWriter
<1> QED
  BY <1>1, <1>2, <1>3 DEF IInv

(* A task goes on to save what follows the state on disk.                  *)
LEMMA SaveBegins ==
    ASSUME FileAssumption, IInv, TypeOK', NEW k \in Tasks, NEW t \in Tenants,
           UNCHANGED <<file, legacy, saved, crashed, spoiled>>,
           pc[k] \notin Saving, ~Busy(k), GoesOnToSave(k, t), job' = [job EXCEPT ![k] = t],
           \A j \in Tasks \ {k} : loaded'[j] = loaded[j] /\ draft'[j] = draft[j],
           file[t] # Torn, LoadChainState(t).height = loaded'[k].height,
           HeadIn(t, loaded'[k], saved),
           draft'[k].tenant = t, draft'[k].height = loaded'[k].height + 1,
           draft'[k].prev = loaded'[k].hash
    PROVE  IInv'
<1>1. /\ job'[k] = t /\ pc'[k] = "saving"
      /\ \A j \in Tasks \ {k} : job'[j] = job[j] /\ pc'[j] = pc[j]
  BY DEF IInv, TypeOK, GoesOnToSave
<1>2. StatesAreHeads'
  <2>1. ASSUME NEW j \in Tasks, pc'[j] \in {"loaded"} \cup Saving
        PROVE  HeadIn(job'[j], loaded'[j], saved)
    <3>1. CASE j = k
      BY <1>1, <2>1, <3>1 DEF Saving
    <3>2. CASE j # k
      BY <1>1, <2>1, <3>2 DEF IInv, StatesAreHeads
    <3> QED
      BY <3>1, <3>2
  <2>2. ASSUME NEW j \in Tasks, pc'[j] \in Saving
        PROVE  /\ draft'[j].tenant = job'[j]
               /\ draft'[j].height = loaded'[j].height + 1
               /\ draft'[j].prev = loaded'[j].hash
    <3>1. CASE j = k
      BY <1>1, <3>1
    <3>2. CASE j # k
      BY <1>1, <2>2, <3>2 DEF IInv, StatesAreHeads
    <3> QED
      BY <3>1, <3>2
  <2> QED
    BY <2>1, <2>2 DEF IInv, StatesAreHeads
<1>3. OneWriter'
  <2>1. OnDisk(file, legacy, t).height = loaded'[k].height
    BY LoadIsOnDisk
  <2>2. ~raced' => ~raced /\ \A j \in Tasks \ {k} : pc[j] \in Saving => job[j] # t
    <3> SUFFICES ASSUME ~raced' PROVE ~raced /\ \A j \in Tasks \ {k} : pc[j] \in Saving => job[j] # t
      OBVIOUS
    <3>1. ~raced /\ \A j \in Tasks : ~(ProcOf[j] # ProcOf[k] /\ job[j] = t /\ pc[j] \in Saving)
      BY DEF GoesOnToSave, Saving, IInv, TypeOK
    <3>2. \A j \in Tasks \ {k} : ~(ProcOf[j] = ProcOf[k] /\ pc[j] \in Saving)
      BY DEF Busy, Saving
    <3> QED
      BY <3>1, <3>2
  <2>3. NoFork'
    BY <2>2 DEF IInv, OneWriter, NoFork
  <2>4. ASSUME ~raced', NEW i \in Tasks, NEW j \in Tasks, pc'[i] \in Saving, pc'[j] \in Saving,
               job'[i] = job'[j]
        PROVE  i = j
    <3>1. CASE i # k /\ j # k
      BY <1>1, <2>2, <2>4, <3>1 DEF IInv, OneWriter
    <3>2. CASE i = k \/ j = k
      BY <1>1, <2>2, <2>4, <3>2
    <3> QED
      BY <3>1, <3>2
  <2>5. ASSUME ~raced', NEW j \in Tasks, pc'[j] = "saving"
        PROVE  file'[job'[j]] # Torn /\ OnDisk(file', legacy', job'[j]).height = loaded'[j].height
    <3>1. CASE j = k
      BY <1>1, <2>1, <3>1
    <3>2. CASE j # k
      <4>1. job[j] \in Tenants
        BY DEF IInv, TypeOK
      <4> QED
        BY <1>1, <2>2, <2>5, <3>2, <4>1 DEF IInv, OneWriter
    <3> QED
      BY <3>1, <3>2
  <2>6. ASSUME ~raced', NEW j \in Tasks, pc'[j] = "writing"
        PROVE  TopIs(job'[j], loaded'[j].height, saved')
    <3>1. j # k
      BY <1>1, <2>6
    <3> QED
      BY <1>1, <2>2, <2>6, <3>1 DEF IInv, OneWriter
  <2>7. ASSUME ~raced', NEW u \in Tenants, file'[u] # Torn
        PROVE  TopIs(u, OnDisk(file', legacy', u).height, saved')
    BY <2>2, <2>7 DEF IInv, OneWriter
  <2> QED
    BY <2>3, <2>4, <2>5, <2>6, <2>7 DEF OneWriter
<1>4. TornHasWriter'
  <2>1. \A j \in Tasks : pc[j] = "writing" => j # k
    BY DEF Saving
  <2> QED
    BY <1>1, <2>1 DEF IInv, TornHasWriter
<1> QED
  BY <1>2, <1>3, <1>4 DEF IInv
-----------------------------------------------------------------------------
(* Every variable keeps its type.                                          *)
LEMMA NextTypeOK == FileAssumption /\ TypeOK /\ [Next]_vars => TypeOK'
<1> SUFFICES ASSUME FileAssumption, TypeOK, [Next]_vars PROVE TypeOK'
  OBVIOUS
<1>0. MaxRetries \in Nat /\ MaxCalls \in Nat
  BY DEF FileAssumption
<1>1. ASSUME NEW k \in Tasks, NEW t \in Tenants, SignSync(k, t) PROVE TypeOK'
  <2> DEFINE last == LoadChainState(t)
  <2>1. /\ calls' = [calls EXCEPT ![k] = calls[k] + 1] /\ job' = [job EXCEPT ![k] = t]
        /\ attempt' = [attempt EXCEPT ![k] = 0]
        /\ UNCHANGED <<file, legacy, saved, crashed, spoiled>>
        /\ calls[k] \in Nat /\ calls[k] < MaxCalls
    BY <1>0, <1>1 DEF SignSync, TypeOK
  <2>2. calls' \in [Tasks -> 0..MaxCalls] /\ job' \in [Tasks -> Tenants]
        /\ attempt' \in [Tasks -> 0..MaxRetries]
    BY <1>0, <2>1 DEF TypeOK
  <2>3. CASE last = Torn
    <3>1. Fails(k) /\ UNCHANGED <<loaded, draft, raced>>
      BY <1>1, <2>3 DEF SignSync
    <3> QED
      BY <2>1, <2>2, <3>1 DEF TypeOK, Fails
  <2>4. CASE last # Torn
    <3>1. /\ loaded' = [loaded EXCEPT ![k] = last]
          /\ draft' = [draft EXCEPT ![k] = SignedAfter(k, calls[k] + 1, 0, t, last)]
          /\ GoesOnToSave(k, t) /\ UNCHANGED failed
      BY <1>1, <2>4 DEF SignSync
    <3>2. last \in ChainState
      BY <2>4, LoadType
    <3>3. SignedAfter(k, calls[k] + 1, 0, t, last) \in Receipt
      BY <2>1, <3>2, SignedAfterType
    <3>4. loaded' \in [Tasks -> ChainState] /\ draft' \in [Tasks -> Receipt]
      BY <3>1, <3>2, <3>3 DEF TypeOK
    <3> QED
      BY <2>1, <2>2, <3>1, <3>4 DEF TypeOK, GoesOnToSave
  <2> QED
    BY <2>3, <2>4
<1>2. ASSUME NEW k \in Tasks, NEW t \in Tenants, CallStore(k, t) PROVE TypeOK'
  BY <1>0, <1>2 DEF CallStore, TypeOK
<1>3. ASSUME NEW k \in Tasks, Load(k) PROVE TypeOK'
  <2>1. job[k] \in Tenants
    BY DEF TypeOK
  <2>2. CASE LoadChainState(job[k]) = Torn
    BY <1>3, <2>2 DEF Load, Fails, TypeOK
  <2>3. CASE LoadChainState(job[k]) # Torn
    <3>1. LoadChainState(job[k]) \in ChainState
      BY <2>1, <2>3, LoadType
    <3> QED
      BY <1>3, <2>3, <3>1 DEF Load, TypeOK
  <2> QED
    BY <2>2, <2>3
<1>4. ASSUME NEW k \in Tasks, Advance(k) PROVE TypeOK'
  <2>1. /\ draft' = [draft EXCEPT ![k] = SignedAfter(k, calls[k], attempt[k], job[k], loaded[k])]
        /\ UNCHANGED <<file, legacy, job, loaded, calls, saved, crashed, spoiled>>
    BY <1>4 DEF Advance
  <2>2. calls[k] \in Nat /\ attempt[k] \in Nat /\ job[k] \in Tenants /\ loaded[k] \in ChainState
    BY <1>0 DEF TypeOK
  <2>3. SignedAfter(k, calls[k], attempt[k], job[k], loaded[k]) \in Receipt
    BY <2>2, SignedAfterType
  <2>4. draft' \in [Tasks -> Receipt]
    BY <2>1, <2>3 DEF TypeOK
  <2>5. /\ pc' \in [Tasks -> {"idle", "loading", "loaded", "saving", "writing"}]
        /\ attempt' \in [Tasks -> 0..MaxRetries]
        /\ failed' \in BOOLEAN /\ raced' \in BOOLEAN
    <3>1. CASE Fails(k) /\ UNCHANGED <<attempt, raced>>
      BY <3>1 DEF Fails, TypeOK
    <3>2. CASE RetryOrThrow(k) /\ UNCHANGED <<failed, raced>>
      BY <1>0, <3>2 DEF RetryOrThrow, TypeOK
    <3>3. CASE GoesOnToSave(k, job[k]) /\ UNCHANGED <<attempt, failed>>
      BY <3>3 DEF GoesOnToSave, TypeOK
    <3> QED
      BY <1>4, <3>1, <3>2, <3>3 DEF Advance
  <2> QED
    BY <2>1, <2>4, <2>5 DEF TypeOK
<1>5. ASSUME NEW k \in Tasks, Truncate(k) PROVE TypeOK'
  BY <1>5 DEF Truncate, TypeOK
<1>6. ASSUME NEW k \in Tasks, Write(k) PROVE TypeOK'
  <2>1. AdvanceChain(loaded[k], draft[k]) \in ChainState /\ draft[k] \in Receipt
    BY DEF TypeOK, AdvanceChain, ChainState, Receipt, Hash
  <2> QED
    BY <1>6, <2>1 DEF Write, TypeOK
<1>7. ASSUME NEW p \in Procs, Crash(p) PROVE TypeOK'
  BY <1>7 DEF Crash, TypeOK
<1>9. ASSUME NEW k \in Tasks, SaveFails(k) PROVE TypeOK'
  BY <1>9 DEF SaveFails, TypeOK
<1>10. ASSUME NEW k \in Tasks, WriteFails(k) PROVE TypeOK'
  BY <1>10 DEF WriteFails, TypeOK
<1>8. CASE UNCHANGED vars
  BY <1>8 DEF vars, TypeOK
<1> QED
  BY <1>1, <1>2, <1>3, <1>4, <1>5, <1>6, <1>7, <1>8, <1>9, <1>10 DEF Next
-----------------------------------------------------------------------------
(* Each step keeps the invariant.                                          *)

LEMMA SignSyncKeepsIInv ==
    ASSUME FileAssumption, IInv, TypeOK', NEW k \in Tasks, NEW t \in Tenants, SignSync(k, t)
    PROVE  IInv'
<1> DEFINE last == LoadChainState(t)
<1>1. TypeOK /\ StatesAreHeads /\ pc[k] = "idle" /\ ~Busy(k)
  BY DEF IInv, SignSync
<1>2. /\ job' = [job EXCEPT ![k] = t] /\ UNCHANGED <<file, legacy, saved, crashed, spoiled>>
  BY DEF SignSync
<1>3. CASE last = Torn
  <2>1. Fails(k) /\ UNCHANGED <<loaded, draft, raced>>
    BY <1>3 DEF SignSync
  <2>2. pc'[k] = "idle" /\ \A j \in Tasks \ {k} : pc'[j] = pc[j] /\ job'[j] = job[j]
    BY <1>1, <1>2, <2>1 DEF Fails, TypeOK
  <2> QED
    BY <1>1, <1>2, <2>1, <2>2, QuietStep DEF Saving
<1>4. CASE last # Torn
  <2>1. /\ loaded' = [loaded EXCEPT ![k] = last]
        /\ draft' = [draft EXCEPT ![k] = SignedAfter(k, calls[k] + 1, 0, t, last)]
        /\ GoesOnToSave(k, t)
    BY <1>4 DEF SignSync
  <2>2. /\ last \in ChainState /\ file[t] # Torn /\ HeadIn(t, last, saved)
    BY <1>1, <1>4, LoadType, LoadIsHead
  <2>3. /\ loaded'[k] = last /\ draft'[k] = SignedAfter(k, calls[k] + 1, 0, t, last)
        /\ \A j \in Tasks \ {k} : loaded'[j] = loaded[j] /\ draft'[j] = draft[j]
    BY <1>1, <2>1 DEF TypeOK
  <2>4. /\ draft'[k].tenant = t /\ draft'[k].height = loaded'[k].height + 1
        /\ draft'[k].prev = loaded'[k].hash
    BY <2>3 DEF SignedAfter
  <2> HIDE DEF last
  <2>5. LoadChainState(t).height = loaded'[k].height
    BY <2>3 DEF last
  <2> QED
    BY <1>1, <1>2, <2>1, <2>2, <2>3, <2>4, <2>5, SaveBegins DEF Saving
<1> QED
  BY <1>3, <1>4

LEMMA CallStoreKeepsIInv ==
    ASSUME FileAssumption, IInv, TypeOK', NEW k \in Tasks, NEW t \in Tenants, CallStore(k, t)
    PROVE  IInv'
<1>1. /\ pc[k] = "idle" /\ pc'[k] = "loading"
      /\ \A j \in Tasks \ {k} : pc'[j] = pc[j] /\ job'[j] = job[j]
      /\ UNCHANGED <<file, legacy, loaded, draft, saved, crashed, raced, spoiled>>
  BY DEF CallStore, IInv, TypeOK
<1> QED
  BY <1>1, QuietStep DEF Saving

LEMMA LoadKeepsIInv ==
    ASSUME FileAssumption, IInv, TypeOK', NEW k \in Tasks, Load(k)
    PROVE  IInv'
<1>1. /\ TypeOK /\ StatesAreHeads /\ job[k] \in Tenants
      /\ pc[k] = "loading" /\ UNCHANGED <<file, legacy, job, draft, saved, crashed, raced, spoiled>>
  BY DEF Load, IInv, TypeOK
<1>2. CASE LoadChainState(job[k]) = Torn
  <2>1. pc'[k] = "idle" /\ loaded' = loaded /\ \A j \in Tasks \ {k} : pc'[j] = pc[j]
    BY <1>1, <1>2 DEF Load, Fails, TypeOK
  <2> QED
    BY <1>1, <2>1, QuietStep DEF Saving
<1>3. CASE LoadChainState(job[k]) # Torn
  <2>1. /\ pc'[k] = "loaded" /\ loaded'[k] = LoadChainState(job[k])
        /\ \A j \in Tasks \ {k} : pc'[j] = pc[j] /\ loaded'[j] = loaded[j]
    BY <1>1, <1>3 DEF Load, TypeOK
  <2>2. HeadIn(job'[k], loaded'[k], saved)
    BY <1>1, <1>3, <2>1, LoadIsHead
  <2> QED
    BY <1>1, <2>1, <2>2, QuietStep DEF Saving
<1> QED
  BY <1>2, <1>3

LEMMA AdvanceKeepsIInv ==
    ASSUME FileAssumption, IInv, TypeOK', NEW k \in Tasks, Advance(k)
    PROVE  IInv'
<1> DEFINE t == job[k]
<1>1. /\ TypeOK /\ StatesAreHeads /\ t \in Tenants /\ loaded[k] \in ChainState
      /\ pc[k] = "loaded" /\ ~Busy(k)
      /\ UNCHANGED <<file, legacy, job, loaded, saved, crashed, spoiled>>
      /\ draft' = [draft EXCEPT ![k] = SignedAfter(k, calls[k], attempt[k], t, loaded[k])]
  BY DEF Advance, IInv, TypeOK
<1>2. /\ draft'[k] = SignedAfter(k, calls[k], attempt[k], t, loaded[k])
      /\ \A j \in Tasks \ {k} : draft'[j] = draft[j]
  BY <1>1 DEF TypeOK
<1>3. CASE Fails(k) /\ UNCHANGED raced
  <2>1. pc'[k] = "idle" /\ \A j \in Tasks \ {k} : pc'[j] = pc[j]
    BY <1>1, <1>3 DEF Fails, TypeOK
  <2> QED
    BY <1>1, <1>2, <1>3, <2>1, QuietStep DEF Saving
<1>4. CASE RetryOrThrow(k) /\ UNCHANGED raced
  <2>1. pc'[k] \in {"idle", "loading"} /\ \A j \in Tasks \ {k} : pc'[j] = pc[j]
    BY <1>1, <1>4 DEF RetryOrThrow, TypeOK
  <2> QED
    BY <1>1, <1>2, <1>4, <2>1, QuietStep DEF Saving
<1>5. CASE /\ LoadChainState(t) # Torn /\ LoadChainState(t).height = loaded[k].height
           /\ GoesOnToSave(k, t)
  <2>1. file[t] # Torn /\ HeadIn(t, loaded[k], saved)
    BY <1>1, <1>5, LoadType DEF StatesAreHeads
  <2>2. /\ draft'[k].tenant = t /\ draft'[k].height = loaded'[k].height + 1
        /\ draft'[k].prev = loaded'[k].hash
    BY <1>1, <1>2 DEF SignedAfter
  <2>3. job' = [job EXCEPT ![k] = t]
    BY <1>1 DEF TypeOK
  <2> QED
    BY <1>1, <1>2, <1>5, <2>1, <2>2, <2>3, SaveBegins DEF Saving
<1> QED
  BY <1>3, <1>4, <1>5 DEF Advance

LEMMA TruncateKeepsIInv ==
    ASSUME FileAssumption, IInv, TypeOK', NEW k \in Tasks, Truncate(k)
    PROVE  IInv'
<1> DEFINE t == job[k]
<1>1. /\ t \in Tenants /\ pc[k] = "saving" /\ file' = [file EXCEPT ![t] = Torn]
      /\ pc' = [pc EXCEPT ![k] = "writing"]
      /\ UNCHANGED <<legacy, job, loaded, draft, attempt, calls, saved, crashed, failed, raced,
                     spoiled>>
  BY DEF Truncate, IInv, TypeOK
<1>2. /\ file'[t] = Torn /\ \A u \in Tenants \ {t} : file'[u] = file[u]
      /\ pc'[k] = "writing" /\ \A j \in Tasks \ {k} : pc'[j] = pc[j]
  BY <1>1 DEF IInv, TypeOK
<1>3. StatesAreHeads'
  <2>1. \A u \in Tenants : file'[u] \in ChainState => u # t
    BY <1>2 DEF FileAssumption
  <2>2. \A j \in Tasks : pc'[j] \in {"loaded"} \cup Saving => pc[j] \in {"loaded"} \cup Saving
    BY <1>1, <1>2 DEF Saving
  <2>3. \A j \in Tasks : pc'[j] \in Saving => pc[j] \in Saving
    BY <1>1, <1>2 DEF Saving
  <2> QED
    BY <1>1, <1>2, <2>1, <2>2, <2>3 DEF IInv, StatesAreHeads
<1>4. OneWriter'
  <2>1. NoFork'
    BY <1>1 DEF IInv, OneWriter, NoFork
  <2>2. ASSUME ~raced, NEW i \in Tasks, NEW j \in Tasks, pc'[i] \in Saving, pc'[j] \in Saving,
               job'[i] = job'[j]
        PROVE  i = j
    <3>1. pc[i] \in Saving /\ pc[j] \in Saving
      BY <1>1, <1>2, <2>2 DEF Saving
    <3> QED
      BY <1>1, <2>2, <3>1 DEF IInv, OneWriter
  <2>3. ASSUME ~raced, NEW u \in Tenants, file'[u] # Torn
        PROVE  TopIs(u, OnDisk(file', legacy', u).height, saved')
    <3>1. u # t /\ file'[u] = file[u]
      BY <1>2, <2>3
    <3>2. OnDisk(file', legacy', u) = OnDisk(file, legacy, u)
      BY <1>1, <3>1 DEF OnDisk
    <3> QED
      BY <1>1, <2>3, <3>1, <3>2 DEF IInv, OneWriter
  <2>4. ASSUME ~raced, NEW j \in Tasks, pc'[j] = "saving"
        PROVE  file'[job'[j]] # Torn /\ OnDisk(file', legacy', job'[j]).height = loaded'[j].height
    <3>1. j # k /\ pc[j] = "saving" /\ job[j] \in Tenants
      BY <1>2, <2>4 DEF IInv, TypeOK
    <3>2. job[j] # t
      BY <1>1, <2>4, <3>1 DEF IInv, OneWriter, Saving
    <3>3. OnDisk(file', legacy', job[j]) = OnDisk(file, legacy, job[j])
      BY <1>1, <1>2, <3>1, <3>2 DEF OnDisk
    <3> QED
      BY <1>1, <1>2, <2>4, <3>1, <3>2, <3>3 DEF IInv, OneWriter
  <2>5. ASSUME ~raced, NEW j \in Tasks, pc'[j] = "writing"
        PROVE  TopIs(job'[j], loaded'[j].height, saved')
    <3>1. CASE j = k
      BY <1>1, <2>5, <3>1 DEF IInv, OneWriter
    <3>2. CASE j # k
      BY <1>1, <1>2, <2>5, <3>2 DEF IInv, OneWriter
    <3> QED
      BY <3>1, <3>2
  <2> QED
    BY <1>1, <2>1, <2>2, <2>3, <2>4, <2>5 DEF OneWriter
<1>5. TornHasWriter'
  <2>1. ASSUME NEW u \in Tenants, file'[u] = Torn, u \notin spoiled
        PROVE  \E j \in Tasks : pc'[j] = "writing" /\ job'[j] = u
    <3>1. CASE u = t
      BY <1>1, <1>2, <3>1
    <3>2. CASE u # t
      <4>1. PICK j \in Tasks : pc[j] = "writing" /\ job[j] = u
        BY <1>2, <2>1, <3>2 DEF IInv, TornHasWriter
      <4> QED
        BY <1>1, <1>2, <4>1
    <3> QED
      BY <3>1, <3>2
  <2> QED
    BY <1>1, <2>1 DEF TornHasWriter
<1> QED
  BY <1>3, <1>4, <1>5 DEF IInv

(* What a write saves follows the chain of its tenant.                     *)
LEMMA WhatIsWritten ==
    ASSUME IInv, NEW k \in Tasks, pc[k] \in Saving
    PROVE  /\ loaded[k] \in ChainState /\ draft[k] \in Receipt /\ job[k] \in Tenants
           /\ HeadIn(job[k], loaded[k], saved)
           /\ draft[k].tenant = job[k] /\ draft[k].height = loaded[k].height + 1
           /\ draft[k].prev = loaded[k].hash
           /\ loaded[k].height \in Nat
<1>1. loaded[k] \in ChainState /\ draft[k] \in Receipt /\ job[k] \in Tenants
  BY DEF IInv, TypeOK
<1>2. loaded[k].height \in Nat
  BY <1>1 DEF ChainState
<1> QED
  BY <1>1, <1>2 DEF IInv, StatesAreHeads

LEMMA WriteKeepsIInv ==
    ASSUME FileAssumption, IInv, TypeOK', NEW k \in Tasks, Write(k)
    PROVE  IInv'
<1> DEFINE t == job[k]
           d == draft[k]
           h == loaded[k].height
           next == AdvanceChain(loaded[k], d)
<1>1. /\ pc[k] = "writing" /\ file' = [file EXCEPT ![t] = next] /\ saved' = saved \cup {d}
      /\ pc' = [pc EXCEPT ![k] = "idle"]
      /\ UNCHANGED <<legacy, job, loaded, draft, attempt, calls, crashed, failed, raced, spoiled>>
  BY DEF Write
<1>2. /\ t \in Tenants /\ d.tenant = t /\ d.height = h + 1 /\ d \in Receipt /\ h \in Nat
      /\ loaded[k].tenant_id = t
  BY <1>1, WhatIsWritten DEF Saving, HeadIn
<1>3. next \in ChainState /\ next.tenant_id = t /\ next.height = h + 1 /\ next.hash = d.id
  <2>1. next = [tenant_id |-> t, height |-> h + 1, hash |-> d.id]
    BY <1>2 DEF AdvanceChain
  <2>2. d.id \in Hash
    BY <1>2 DEF Receipt, Hash
  <2> QED
    BY <1>2, <2>1, <2>2 DEF ChainState
<1>4. /\ file'[t] = next /\ \A u \in Tenants \ {t} : file'[u] = file[u]
      /\ pc'[k] = "idle" /\ \A j \in Tasks \ {k} : pc'[j] = pc[j]
  BY <1>1, <1>2 DEF IInv, TypeOK
<1> HIDE DEF next, d, h, t
<1>5. StatesAreHeads'
  <2>1. \A u, st : HeadIn(u, st, saved) => HeadIn(u, st, saved')
    BY <1>1, HeadStays
  <2>2. \A r \in saved' : r.height >= 1
    BY <1>1, <1>2 DEF IInv, StatesAreHeads
  <2>3. ASSUME NEW u \in Tenants, file'[u] \in ChainState PROVE HeadIn(u, file'[u], saved')
    <3>1. CASE u = t
      <4>1. HeadIn(t, next, saved')
        BY <1>1, <1>2, <1>3 DEF HeadIn
      <4> QED
        BY <1>4, <3>1, <4>1
    <3>2. CASE u # t
      BY <1>4, <2>1, <2>3, <3>2 DEF IInv, StatesAreHeads
    <3> QED
      BY <3>1, <3>2
  <2>4. legacy' # NoFile => HeadIn(legacy'.tenant_id, legacy', saved')
    BY <1>1, <2>1 DEF IInv, StatesAreHeads
  <2>5. ASSUME NEW j \in Tasks, pc'[j] \in {"loaded"} \cup Saving
        PROVE  HeadIn(job'[j], loaded'[j], saved')
    <3>1. j # k
      BY <1>4, <2>5 DEF Saving
    <3>2. HeadIn(job[j], loaded[j], saved)
      BY <1>4, <2>5, <3>1 DEF IInv, StatesAreHeads
    <3> QED
      BY <1>1, <2>1, <3>2
  <2>6. ASSUME NEW j \in Tasks, pc'[j] \in Saving
        PROVE  /\ draft'[j].tenant = job'[j]
               /\ draft'[j].height = loaded'[j].height + 1
               /\ draft'[j].prev = loaded'[j].hash
    <3>1. j # k
      BY <1>4, <2>6 DEF Saving
    <3> QED
      BY <1>1, <1>4, <2>6, <3>1 DEF IInv, StatesAreHeads
  <2> QED
    BY <2>2, <2>3, <2>4, <2>5, <2>6 DEF StatesAreHeads
<1>6. OneWriter'
  <2>1. ~raced => TopIs(t, h, saved)
    BY <1>1 DEF IInv, OneWriter, t, h
  <2>2. ~raced => \A j \in Tasks \ {k} : pc[j] \in Saving => job[j] # t
    BY <1>1 DEF IInv, OneWriter, t, Saving
  <2>3. \A r \in saved : r.height \in Nat
    BY DEF IInv, TypeOK, Receipt
  <2>4. \A j \in Tasks : pc'[j] \in Saving => j # k /\ pc[j] \in Saving
    BY <1>4 DEF Saving
  <2>5. NoFork'
    <3> SUFFICES ASSUME ~raced, NEW r \in saved', NEW q \in saved',
                        r.tenant = q.tenant, r.height = q.height
                 PROVE  r = q
      BY <1>1 DEF NoFork
    <3>1. CASE r \in saved /\ q \in saved
      BY <3>1 DEF IInv, OneWriter, NoFork
    <3>2. \A x \in saved : ~(x.tenant = d.tenant /\ x.height = d.height)
      BY <1>2, <2>1, <2>3 DEF TopIs
    <3> QED
      BY <1>1, <3>1, <3>2
  <2>6. ASSUME ~raced, NEW u \in Tenants, file'[u] # Torn
        PROVE  TopIs(u, OnDisk(file', legacy', u).height, saved')
    <3>1. CASE u = t
      <4>1. OnDisk(file', legacy', u).height = h + 1
        BY <1>3, <1>4, <3>1 DEF OnDisk, FileAssumption
      <4>2. \A r \in saved' : r.tenant = t => r.height <= h + 1
        BY <1>1, <1>2, <2>1, <2>3, <2>6 DEF TopIs
      <4> QED
        BY <3>1, <4>1, <4>2 DEF TopIs
    <3>2. CASE u # t
      <4>1. OnDisk(file', legacy', u) = OnDisk(file, legacy, u) /\ file[u] # Torn
        BY <1>1, <1>4, <2>6, <3>2 DEF OnDisk
      <4>2. TopIs(u, OnDisk(file, legacy, u).height, saved)
        BY <2>6, <4>1 DEF IInv, OneWriter
      <4> QED
        BY <1>1, <1>2, <3>2, <4>1, <4>2 DEF TopIs
    <3> QED
      BY <3>1, <3>2
  <2>7. ASSUME ~raced, NEW j \in Tasks, pc'[j] = "saving"
        PROVE  file'[job'[j]] # Torn /\ OnDisk(file', legacy', job'[j]).height = loaded'[j].height
    <3>1. j # k /\ pc[j] = "saving" /\ job[j] \in Tenants
      BY <1>4, <2>7 DEF IInv, TypeOK
    <3>2. job[j] # t /\ file'[job[j]] = file[job[j]]
      BY <1>4, <2>2, <2>7, <3>1 DEF Saving
    <3>3. OnDisk(file', legacy', job[j]) = OnDisk(file, legacy, job[j])
      BY <1>1, <3>2 DEF OnDisk
    <3> QED
      BY <1>1, <2>7, <3>1, <3>2, <3>3 DEF IInv, OneWriter
  <2>8. ASSUME ~raced, NEW j \in Tasks, pc'[j] = "writing"
        PROVE  TopIs(job'[j], loaded'[j].height, saved')
    <3>1. j # k /\ pc[j] = "writing" /\ job[j] # t
      BY <1>4, <2>2, <2>8 DEF Saving
    <3>2. TopIs(job[j], loaded[j].height, saved)
      BY <2>8, <3>1 DEF IInv, OneWriter
    <3> QED
      BY <1>1, <1>2, <3>1, <3>2 DEF TopIs
  <2>9. ASSUME ~raced, NEW i \in Tasks, NEW j \in Tasks, pc'[i] \in Saving, pc'[j] \in Saving,
               job'[i] = job'[j]
        PROVE  i = j
    BY <1>1, <2>4, <2>9 DEF IInv, OneWriter
  <2> QED
    BY <1>1, <2>5, <2>6, <2>7, <2>8, <2>9 DEF OneWriter
<1>7. TornHasWriter'
  <2>1. ASSUME NEW u \in Tenants, file'[u] = Torn, u \notin spoiled
        PROVE  \E j \in Tasks : pc'[j] = "writing" /\ job'[j] = u
    <3>1. u # t /\ file[u] = Torn
      BY <1>3, <1>4, <2>1 DEF FileAssumption
    <3>2. PICK j \in Tasks : pc[j] = "writing" /\ job[j] = u
      BY <2>1, <3>1 DEF IInv, TornHasWriter
    <3>3. j # k
      BY <3>1, <3>2 DEF t
    <3> QED
      BY <1>1, <1>4, <3>2, <3>3
  <2> QED
    BY <1>1, <2>1 DEF TornHasWriter
<1> QED
  BY <1>5, <1>6, <1>7 DEF IInv

LEMMA CrashKeepsIInv ==
    ASSUME FileAssumption, IInv, TypeOK', NEW p \in Procs, Crash(p)
    PROVE  IInv'
<1>1. /\ crashed' = TRUE
      /\ UNCHANGED <<file, legacy, job, loaded, draft, attempt, calls, saved, failed, raced>>
      /\ \A k \in Tasks : pc'[k] \in {"idle", pc[k]}
      /\ \A k \in Tasks : pc[k] = "writing" => pc'[k] = pc[k] \/ job[k] \in spoiled'
      /\ spoiled \subseteq spoiled'
  BY DEF Crash
<1>2. \A k \in Tasks : pc'[k] # "idle" => pc'[k] = pc[k]
  BY <1>1
<1>3. StatesAreHeads'
  <2>1. \A k \in Tasks : pc'[k] \in {"loaded"} \cup Saving => pc'[k] = pc[k]
    BY <1>2 DEF Saving
  <2> QED
    BY <1>1, <2>1 DEF IInv, StatesAreHeads
<1>4. OneWriter'
  <2>1. \A k \in Tasks : pc'[k] \in Saving => pc'[k] = pc[k]
    BY <1>2 DEF Saving
  <2>2. NoFork'
    BY <1>1 DEF IInv, OneWriter, NoFork
  <2> QED
    BY <1>1, <1>2, <2>1, <2>2 DEF IInv, OneWriter
<1>5. TornHasWriter'
  BY <1>1 DEF IInv, TornHasWriter
<1> QED
  BY <1>3, <1>4, <1>5 DEF IInv

(* A task gives up saving and leaves the file as it was, or unreadable and *)
(* counted among the spoiled ones.                                         *)
LEMMA FailKeepsIInv ==
    ASSUME FileAssumption, IInv, TypeOK', NEW k \in Tasks, SaveFails(k) \/ WriteFails(k)
    PROVE  IInv'
<1> DEFINE t == job[k]
<1>1. /\ pc' = [pc EXCEPT ![k] = "idle"] /\ pc[k] \in Saving
      /\ UNCHANGED <<legacy, job, loaded, draft, attempt, calls, saved, crashed, failed, raced>>
  BY DEF SaveFails, WriteFails, Saving
<1>2. /\ t \in Tenants /\ pc'[k] = "idle" /\ \A j \in Tasks \ {k} : pc'[j] = pc[j]
      /\ \A u \in Tenants : file'[u] = file[u] \/ (u = t /\ pc[k] = "writing" /\ file'[u] = Torn)
      /\ spoiled \subseteq spoiled' /\ (pc[k] = "writing" => t \in spoiled')
  BY <1>1 DEF SaveFails, WriteFails, IInv, TypeOK
<1>3. \A j \in Tasks : pc'[j] \in {"loaded"} \cup Saving => j # k /\ pc'[j] = pc[j]
  BY <1>2 DEF Saving
<1>4. StatesAreHeads'
  <2>1. \A u \in Tenants : file'[u] \in ChainState => file'[u] = file[u]
    BY <1>2 DEF FileAssumption
  <2> QED
    BY <1>1, <1>3, <2>1 DEF IInv, StatesAreHeads, Saving
<1>5. OneWriter'
  <2>1. NoFork'
    BY <1>1 DEF IInv, OneWriter, NoFork
  <2>2. ASSUME ~raced, NEW i \in Tasks, NEW j \in Tasks, pc'[i] \in Saving, pc'[j] \in Saving,
               job'[i] = job'[j]
        PROVE  i = j
    BY <1>1, <1>3, <2>2 DEF IInv, OneWriter
  <2>3. ASSUME ~raced, NEW u \in Tenants, file'[u] # Torn
        PROVE  TopIs(u, OnDisk(file', legacy', u).height, saved')
    <3>1. file'[u] = file[u] /\ OnDisk(file', legacy', u) = OnDisk(file, legacy, u)
      BY <1>1, <1>2, <2>3 DEF OnDisk
    <3> QED
      BY <1>1, <2>3, <3>1 DEF IInv, OneWriter
  <2>4. ASSUME ~raced, NEW j \in Tasks, pc'[j] = "saving"
        PROVE  file'[job'[j]] # Torn /\ OnDisk(file', legacy', job'[j]).height = loaded'[j].height
    <3>1. j # k /\ pc[j] = "saving" /\ job[j] \in Tenants
      BY <1>3, <2>4 DEF IInv, TypeOK, Saving
    <3>2. job[j] # t
      BY <1>1, <2>4, <3>1 DEF IInv, OneWriter, Saving
    <3>3. file'[job[j]] = file[job[j]] /\ OnDisk(file', legacy', job[j]) = OnDisk(file, legacy, job[j])
      BY <1>1, <1>2, <3>1, <3>2 DEF OnDisk
    <3> QED
      BY <1>1, <2>4, <3>1, <3>3 DEF IInv, OneWriter
  <2>5. ASSUME ~raced, NEW j \in Tasks, pc'[j] = "writing"
        PROVE  TopIs(job'[j], loaded'[j].height, saved')
    <3>1. pc[j] = "writing"
      BY <1>3, <2>5 DEF Saving
    <3> QED
      BY <1>1, <2>5, <3>1 DEF IInv, OneWriter
  <2> QED
    BY <1>1, <2>1, <2>2, <2>3, <2>4, <2>5 DEF OneWriter
<1>6. TornHasWriter'
  <2>1. ASSUME NEW u \in Tenants, file'[u] = Torn, u \notin spoiled'
        PROVE  \E j \in Tasks : pc'[j] = "writing" /\ job'[j] = u
    <3>0. u \notin spoiled /\ (u = t => pc[k] # "writing")
      BY <1>2, <2>1
    <3>1. file[u] = Torn
      BY <1>2, <2>1, <3>0
    <3>2. PICK j \in Tasks : pc[j] = "writing" /\ job[j] = u
      BY <3>0, <3>1, <2>1 DEF IInv, TornHasWriter
    <3>3. j # k
      BY <3>0, <3>2
    <3> QED
      BY <1>1, <1>2, <3>2, <3>3
  <2> QED
    BY <2>1 DEF TornHasWriter
<1> QED
  BY <1>4, <1>5, <1>6 DEF IInv

(* The invariant is inductive.                                             *)
LEMMA NextKeepsIInv == FileAssumption /\ IInv /\ [Next]_vars => IInv'
<1> SUFFICES ASSUME FileAssumption, IInv, [Next]_vars PROVE IInv'
  OBVIOUS
<1>1. TypeOK'
  BY NextTypeOK DEF IInv
<1>2. CASE UNCHANGED vars
  <2>1. StatesAreHeads'
    BY <1>2 DEF vars, IInv, StatesAreHeads
  <2>2. OneWriter'
    BY <1>2 DEF vars, IInv, OneWriter, NoFork
  <2>3. TornHasWriter'
    BY <1>2 DEF vars, IInv, TornHasWriter
  <2> QED
    BY <1>1, <2>1, <2>2, <2>3 DEF IInv
<1>3. CASE \E k \in Tasks, t \in Tenants : SignSync(k, t) \/ CallStore(k, t)
  BY <1>1, <1>3, SignSyncKeepsIInv, CallStoreKeepsIInv
<1>4. CASE \E k \in Tasks : Load(k) \/ Advance(k) \/ Truncate(k) \/ Write(k)
  BY <1>1, <1>4, LoadKeepsIInv, AdvanceKeepsIInv, TruncateKeepsIInv, WriteKeepsIInv
<1>5. CASE \E p \in Procs : Crash(p)
  BY <1>1, <1>5, CrashKeepsIInv
<1>6. CASE \E k \in Tasks : SaveFails(k) \/ WriteFails(k)
  BY <1>1, <1>6, FailKeepsIInv
<1> QED
  BY <1>2, <1>3, <1>4, <1>5, <1>6 DEF Next

(* Saving is the only step that touches the chain, and what it saves is    *)
(* linked to the receipt below it.                                         *)
LEMMA NextKeepsLinked == IInv /\ LinkedWithinTenant /\ [Next]_vars => LinkedWithinTenant'
<1> SUFFICES ASSUME IInv, LinkedWithinTenant, [Next]_vars PROVE LinkedWithinTenant'
  OBVIOUS
<1>1. CASE saved' = saved
  BY <1>1 DEF LinkedWithinTenant
<1>2. ASSUME NEW k \in Tasks, Write(k) PROVE LinkedWithinTenant'
  <2> DEFINE d == draft[k]
             h == loaded[k].height
  <2>1. saved' = saved \cup {d}
    BY <1>2 DEF Write
  <2>2. /\ HeadIn(d.tenant, loaded[k], saved) /\ d.height = h + 1 /\ d.prev = loaded[k].hash
        /\ h \in Nat
    BY <1>2, WhatIsWritten DEF Write, Saving
  <2>3. \A r \in saved : r.height >= 1 /\ r.height \in Nat
    BY DEF IInv, StatesAreHeads, TypeOK, Receipt
  <2> HIDE DEF d, h
  <2>4. IF d.height = 1 THEN d.prev = Genesis
        ELSE \E q \in saved : q.tenant = d.tenant /\ q.height = d.height - 1 /\ d.prev = q.id
    <3>1. CASE h = 0
      BY <2>2, <2>3, <3>1 DEF HeadIn, h
    <3>2. CASE h # 0
      BY <2>2, <3>2 DEF HeadIn, h
    <3> QED
      BY <3>1, <3>2
  <2> QED
    BY <2>1, <2>4 DEF LinkedWithinTenant
<1> QED
  BY <1>1, <1>2 DEF Next, vars, SignSync, CallStore, Load, Advance, Truncate, Crash,
               SaveFails, WriteFails
-----------------------------------------------------------------------------
(* The state files keep their type through every interleaving of signing,  *)
(* saving and crashing (chain.ts:25-92, chain-store.ts:58-78).             *)
THEOREM FileTypesHold ==
    ASSUME FileAssumption
    PROVE  Spec => []TypeOK
<1>1. IInv => TypeOK
  BY DEF IInv
<1> QED
  BY <1>1, InitIInv, NextKeepsIInv, PTL DEF Spec

(* The file chains never fork without two processes saving at once, and    *)
(* every receipt follows its own tenant's (chain.ts:25-92).                *)
THEOREM FileChainsAlwaysHold ==
    ASSUME FileAssumption
    PROVE  Spec => []FileChainsHold
<1>1. Init => LinkedWithinTenant
  BY DEF Init, LinkedWithinTenant
<1>2. IInv /\ LinkedWithinTenant => FileChainsHold
  BY DEF IInv, OneWriter, FileChainsHold
<1> QED
  BY <1>1, <1>2, InitIInv, NextKeepsIInv, NextKeepsLinked, PTL DEF Spec

(* A call fails on an unreadable file only while another process writes    *)
(* that file, or after a crash or a failed write left it half written      *)
(* (chain.ts:71-74, receipt.ts:131-137).                                   *)
THEOREM UnreadableIsAlwaysExplained ==
    ASSUME FileAssumption
    PROVE  Spec => UnreadableIsExplained
<1> DEFINE Explained == ~failed /\ failed' =>
          \E k \in Tasks :
              /\ <<pc'[k], calls'[k]>> # <<pc[k], calls[k]>>
              /\ \/ job'[k] \in spoiled
                 \/ \E j \in Tasks : /\ ProcOf[j] # ProcOf[k] /\ job[j] = job'[k]
                                     /\ pc[j] = "writing"
<1>1. ASSUME IInv, NEW k \in Tasks, NEW t \in Tenants, ~Busy(k), job'[k] = t,
             LoadChainState(t) = Torn, <<pc'[k], calls'[k]>> # <<pc[k], calls[k]>>,
             pc[k] # "writing"
      PROVE  Explained
  <2>1. file[t] = Torn
    BY <1>1, LoadType DEF IInv
  <2>2. CASE t \notin spoiled
    <3>1. PICK j \in Tasks : pc[j] = "writing" /\ job[j] = t
      BY <1>1, <2>1, <2>2 DEF IInv, TornHasWriter
    <3>2. ProcOf[j] # ProcOf[k]
      BY <1>1, <3>1 DEF Busy
    <3> QED
      BY <1>1, <3>1, <3>2
  <2>3. CASE t \in spoiled
    BY <1>1, <2>3
  <2> QED
    BY <2>2, <2>3
<1>2. ASSUME IInv, [Next]_vars PROVE [Explained]_vars
  <2> SUFFICES ASSUME ~failed, failed' PROVE Explained
    OBVIOUS
  <2>0. failed' # failed
    OBVIOUS
  <2>1. ASSUME NEW k \in Tasks, NEW t \in Tenants, SignSync(k, t) PROVE Explained
    <3>1. /\ LoadChainState(t) = Torn /\ ~Busy(k) /\ pc[k] = "idle"
          /\ job' = [job EXCEPT ![k] = t] /\ calls' = [calls EXCEPT ![k] = calls[k] + 1]
      BY <2>0, <2>1 DEF SignSync
    <3>2. job'[k] = t /\ calls'[k] = calls[k] + 1 /\ calls[k] \in Nat
      BY <1>2, <3>1 DEF IInv, TypeOK, FileAssumption
    <3>3. calls'[k] # calls[k]
      BY <3>2
    <3> QED
      BY <1>1, <1>2, <3>1, <3>2, <3>3
  <2>2. ASSUME NEW k \in Tasks, Load(k) PROVE Explained
    <3>1. /\ LoadChainState(job[k]) = Torn /\ ~Busy(k) /\ pc[k] = "loading"
          /\ job' = job /\ pc' = [pc EXCEPT ![k] = "idle"] /\ job[k] \in Tenants
      BY <1>2, <2>0, <2>2 DEF Load, Fails, IInv, TypeOK
    <3>2. pc'[k] = "idle"
      BY <1>2, <3>1 DEF IInv, TypeOK
    <3> QED
      BY <1>1, <1>2, <3>1, <3>2
  <2>3. ASSUME NEW k \in Tasks, Advance(k) PROVE Explained
    <3>1. /\ LoadChainState(job[k]) = Torn /\ ~Busy(k) /\ pc[k] = "loaded"
          /\ job' = job /\ pc' = [pc EXCEPT ![k] = "idle"] /\ job[k] \in Tenants
      BY <1>2, <2>0, <2>3 DEF Advance, Fails, RetryOrThrow, GoesOnToSave, IInv, TypeOK
    <3>2. pc'[k] = "idle"
      BY <1>2, <3>1 DEF IInv, TypeOK
    <3> QED
      BY <1>1, <1>2, <3>1, <3>2
  <2> QED
    BY <1>2, <2>1, <2>2, <2>3
       DEF Next, vars, CallStore, Truncate, Write, SaveFails, WriteFails, Crash
<1>3. Init /\ [][Next]_vars => [][Explained]_vars
  BY <1>2, InitIInv, NextKeepsIInv, PTL
<1> QED
  BY <1>3 DEF Spec, UnreadableIsExplained
-----------------------------------------------------------------------------
(* The other SDKs' files.  A signer at work on a file nobody disturbed is  *)
(* alone there, and what it loaded is the head of that file's receipts.    *)
AtWork(p) == at[p] \in {"signed", "writing"}

(* p loaded a state, and keeps it.                                         *)
Loaded(p) == at[p] \in {"signed", "writing", "done", "dead"}

PortTypes ==
    /\ disk   \in [Ports!Names -> Ports!ChainFile \cup {NoChainFile, Vacant, Partial}]
    /\ at     \in [Signers -> {"idle", "signed", "writing", "done", "threw", "dead"}]
    /\ tenant \in [Signers -> PortTenants]
    /\ state  \in [Signers -> Ports!ChainFile]
    /\ unsaved \subseteq Signers /\ restarts \subseteq Signers

(* Every signer signs once, and what it signed is its draft.               *)
DraftsAreSigned ==
    /\ returned \subseteq signed
    /\ \A r \in signed : /\ r.by \in Signers /\ at[r.by] \in {"done", "dead"}
                         /\ r = Ports!Draft(r.by)

HistoriesAreSettled ==
    /\ \A p \in restarts : at[p] # "idle"
    /\ \A pair \in overlaps : \A p \in pair : p \in Signers /\ at[p] # "idle"
    /\ \A p, q \in Signers : p # q /\ AtWork(p) /\ AtWork(q) /\ Ports!Name(p) = Ports!Name(q)
                               => {p, q} \in overlaps

(* A state of file n is that of a new chain or of a receipt of the file.   *)
StateOf(n, st) ==
    \/ st.height = 0 /\ st.hash \in {Genesis, Empty}
    \/ \E q \in signed : q.by = st.hash /\ q.height = st.height /\ q.name = n

PortStatesAreHeads ==
    /\ \A n \in Ports!Names : disk[n] \in Ports!ChainFile => StateOf(n, disk[n]) /\ disk[n].height > 0
    /\ \A p \in Signers : Loaded(p) => StateOf(Ports!Name(p), state[p])
    /\ \A p \in Signers : Loaded(p) /\ state[p].hash = Empty => LangOf[p] = "go" /\ p \in restarts

Tops(n, h) == \A r \in signed : r.name = n => r.height <= h

(* What holds of a file that is not troubled.                              *)
Chained(n) ==
    /\ disk[n] = NoChainFile => \A r \in signed : r.name # n
    /\ disk[n] \in Ports!ChainFile => Tops(n, disk[n].height)
    /\ \A p \in Signers : AtWork(p) /\ Ports!Name(p) = n => Tops(n, state[p].height)
    /\ \A r, q \in signed : r.name = n /\ q.name = n /\ r.height = q.height => r = q

PortInv == /\ PortTypes /\ DraftsAreSigned /\ HistoriesAreSettled /\ PortStatesAreHeads
           /\ \A n \in Ports!Names : ~Ports!Troubled(n) => Chained(n)

PortPlaces == {"idle", "signed", "writing", "done", "threw", "dead"}

LEMMA PortConstants ==
    /\ LangOf \in [Signers -> {"go", "java", "rust", "python"}]
    /\ PortTenants # {} /\ PortTenants \subseteq Seq(STRING)
    /\ "_" \notin AsciiLetters \cup OtherLetters
    /\ Genesis \notin Signers /\ Empty \notin Signers /\ Genesis # Empty
    /\ NoChainFile \notin Ports!ChainFile /\ Vacant \notin Ports!ChainFile
    /\ Partial \notin Ports!ChainFile /\ Throws \notin Ports!ChainFile
    /\ NoChainFile # Vacant /\ NoChainFile # Partial /\ NoChainFile # Throws
    /\ Throws # Vacant /\ Throws # Partial
  BY LocalAssumption DEF Ports!PortAssumption

(* Go and Rust give a tenant one name, Java and Python another.            *)
LEMMA NamesCover ==
    ASSUME NEW lang \in {"go", "java", "rust", "python"}, NEW t \in PortTenants
    PROVE  Ports!SafeTenant(lang, t) \in Ports!Names
<1>1. \/ Ports!SafeTenant(lang, t) = Ports!SafeTenant("go", t)
      \/ Ports!SafeTenant(lang, t) = Ports!SafeTenant("java", t)
  BY DEF Ports!SafeTenant
<1> QED
  BY <1>1 DEF Ports!Names

LEMMA NameIsName == PortTypes => \A p \in Signers : Ports!Name(p) \in Ports!Names
  BY NamesCover, PortConstants DEF PortTypes, Ports!Name

(* What a language makes of a file: it throws, takes it for a new chain -  *)
(* in Go also one of a zero state - or takes its state.                    *)
LEMMA WhatIsLoaded ==
    ASSUME NEW lang \in {"go", "java", "rust", "python"}, NEW unreadable \in BOOLEAN,
           NEW content \in Ports!ChainFile \cup {NoChainFile, Vacant, Partial}
    PROVE  LET found == Ports!LoadAs(lang, content, unreadable)
           IN  \/ found = Throws
               \/ found = Ports!Fresh
               \/ found = [height |-> 0, hash |-> Empty] /\ lang = "go" /\ content \in {Vacant, Partial}
               \/ found = content /\ content \in Ports!ChainFile
<1>1. CASE lang = "go"
  BY <1>1 DEF Ports!LoadAs, Ports!LoadGo
<1>2. CASE lang = "java"
  BY <1>2 DEF Ports!LoadAs, Ports!LoadJava
<1>3. CASE lang = "rust"
  BY <1>3 DEF Ports!LoadAs, Ports!LoadRust
<1>4. CASE lang = "python"
  BY <1>4 DEF Ports!LoadAs, Ports!LoadPython
<1> QED
  BY <1>1, <1>2, <1>3, <1>4

(* A disturbed file stays disturbed.                                       *)
LEMMA TroubleStays ==
    ASSUME HistoriesAreSettled, NEW n, Ports!Troubled(n),
           signed \subseteq signed', unsaved \subseteq unsaved',
           restarts \subseteq restarts', overlaps \subseteq overlaps',
           \A q : at[q] # "idle" => tenant'[q] = tenant[q]
    PROVE  Ports!Troubled(n)'
<1>1. ASSUME NEW q, at[q] # "idle" PROVE Ports!Name(q)' = Ports!Name(q)
  BY <1>1 DEF Ports!Name
<1>2. CASE \E r \in signed : r.by \in unsaved /\ r.name = n
  BY <1>2 DEF Ports!Troubled
<1>3. ASSUME NEW p \in restarts, Ports!Name(p) = n PROVE Ports!Troubled(n)'
  BY <1>1, <1>3 DEF Ports!Troubled, HistoriesAreSettled
<1>4. ASSUME NEW pair \in overlaps, NEW p \in pair, Ports!Name(p) = n PROVE Ports!Troubled(n)'
  BY <1>1, <1>4 DEF Ports!Troubled, HistoriesAreSettled
<1> QED
  BY <1>2, <1>3, <1>4 DEF Ports!Troubled

(* A signer loads a file.                                                  *)
LEMMA BeginKeepsPorts ==
    ASSUME PortInv, NEW p \in Signers, NEW t \in PortTenants, NEW unreadable \in BOOLEAN,
           Ports!Begin(p, t, unreadable)
    PROVE  PortInv'
<1> DEFINE name    == Ports!SafeTenant(LangOf[p], t)
<1> DEFINE content == disk[name]
<1> DEFINE found == Ports!LoadAs(LangOf[p], content, unreadable)
<1> DEFINE others  == {q \in Signers \ {p} : AtWork(q) /\ Ports!Name(q) = name}
<1>1. /\ at[p] = "idle" /\ tenant' = [tenant EXCEPT ![p] = t]
      /\ UNCHANGED <<disk, returned, signed, unsaved>>
      /\ overlaps' = overlaps \cup {{p, q} : q \in others}
  BY DEF Ports!Begin, AtWork
<1>2. \/ /\ found = Throws /\ at' = [at EXCEPT ![p] = "threw"]
         /\ UNCHANGED <<state, restarts>>
      \/ /\ found # Throws /\ at' = [at EXCEPT ![p] = "signed"]
         /\ state' = [state EXCEPT ![p] = found]
         /\ restarts' = IF content # NoChainFile /\ found # content
                        THEN restarts \cup {p} ELSE restarts
  BY DEF Ports!Begin, Ports!Goes
<1>3. /\ name \in Ports!Names /\ LangOf[p] \in {"go", "java", "rust", "python"}
      /\ content \in Ports!ChainFile \cup {NoChainFile, Vacant, Partial}
  BY NamesCover, PortConstants DEF PortInv, PortTypes
<1>4. \/ found = Throws
      \/ found = Ports!Fresh
      \/ found = [height |-> 0, hash |-> Empty] /\ LangOf[p] = "go" /\ content \in {Vacant, Partial}
      \/ found = content /\ content \in Ports!ChainFile
  BY <1>3, WhatIsLoaded
<1>5. /\ at' \in [Signers -> PortPlaces] /\ at'[p] \in {"threw", "signed"}
      /\ \A q \in Signers \ {p} : at'[q] = at[q]
      /\ tenant' \in [Signers -> PortTenants] /\ tenant'[p] = t
      /\ \A q \in Signers \ {p} : tenant'[q] = tenant[q]
  BY <1>1, <1>2 DEF PortInv, PortTypes, PortPlaces
<1>6. /\ Ports!Name(p)' = name
      /\ \A q \in Signers \ {p} : Ports!Name(q)' = Ports!Name(q)
      /\ \A q \in Signers \ {p} : AtWork(q)' = AtWork(q) /\ Loaded(q)' = Loaded(q)
  BY <1>5 DEF Ports!Name, AtWork, Loaded
<1>7. Throws \notin Ports!ChainFile /\ Ports!Fresh \in Ports!ChainFile
      /\ [height |-> 0, hash |-> Empty] \in Ports!ChainFile
  BY PortConstants DEF Ports!Fresh, Ports!ChainFile
<1> HIDE DEF content, found, others, name
<1>8. /\ state' \in [Signers -> Ports!ChainFile] /\ restarts' \subseteq Signers
      /\ restarts \subseteq restarts' /\ restarts' \subseteq restarts \cup {p}
      /\ \A q \in Signers \ {p} : state'[q] = state[q]
      /\ at'[p] = "signed" => state'[p] = found /\ found # Throws
  BY <1>2, <1>4, <1>7, <1>1 DEF PortInv, PortTypes
<1>9. PortTypes'
  BY <1>1, <1>5, <1>8 DEF PortInv, PortTypes, PortPlaces
<1>10. DraftsAreSigned'
  <2>1. ASSUME NEW r \in signed
        PROVE  r.by \in Signers /\ at'[r.by] \in {"done", "dead"} /\ r = Ports!Draft(r.by)'
    <3>1. r.by \in Signers \ {p} /\ at[r.by] \in {"done", "dead"} /\ r = Ports!Draft(r.by)
      BY <1>1 DEF PortInv, DraftsAreSigned
    <3>2. Ports!Draft(r.by)' = Ports!Draft(r.by)
      BY <3>1, <1>5, <1>6, <1>8 DEF Ports!Draft
    <3> QED
      BY <3>1, <3>2, <1>5
  <2> QED
    BY <2>1, <1>1 DEF PortInv, DraftsAreSigned
<1>11. HistoriesAreSettled'
  <2>1. \A q \in restarts' : at'[q] # "idle"
    BY <1>5, <1>8 DEF PortInv, HistoriesAreSettled, PortTypes
  <2>2. ASSUME NEW pair \in overlaps', NEW q \in pair PROVE q \in Signers /\ at'[q] # "idle"
    <3>1. q \in Signers /\ (q = p \/ at[q] # "idle")
      BY <1>1, <2>2 DEF PortInv, HistoriesAreSettled, others, AtWork
    <3> QED
      BY <3>1, <1>5
  <2>3. ASSUME NEW q \in Signers, NEW r \in Signers, q # r, AtWork(q)', AtWork(r)',
               Ports!Name(q)' = Ports!Name(r)'
        PROVE  {q, r} \in overlaps'
    <3>1. CASE q # p /\ r # p
      BY <1>1, <1>6, <2>3, <3>1 DEF PortInv, HistoriesAreSettled
    <3>2. CASE q = p
      <4>1. r \in others
        BY <1>6, <2>3, <3>2 DEF others
      <4> QED
        BY <1>1, <3>2, <4>1
    <3>3. CASE r = p
      <4>1. q \in others
        BY <1>6, <2>3, <3>3 DEF others
      <4>2. {p, q} \in overlaps' /\ {p, q} = {q, r}
        BY <1>1, <3>3, <4>1
      <4> QED
        BY <4>2
    <3> QED
      BY <3>1, <3>2, <3>3
  <2>4. (\A q, r \in Signers : q # r /\ AtWork(q) /\ AtWork(r) /\ Ports!Name(q) = Ports!Name(r)
                                 => {q, r} \in overlaps)'
    BY <2>3
  <2>5. (\A pair \in overlaps : \A q \in pair : q \in Signers /\ at[q] # "idle")'
    BY <2>2
  <2> QED
    BY <2>1, <2>4, <2>5 DEF HistoriesAreSettled
<1>12. \A n, st : StateOf(n, st)' <=> StateOf(n, st)
  BY <1>1 DEF StateOf
<1>13. ASSUME Loaded(p)'
       PROVE  /\ found \in Ports!ChainFile /\ StateOf(name, found)
              /\ found.hash = Empty => LangOf[p] = "go" /\ p \in restarts'
  <2>1. at'[p] = "signed" /\ found # Throws
    BY <1>5, <1>8, <1>13 DEF Loaded
  <2>2. CASE found = Ports!Fresh
    BY <2>2, <1>7, PortConstants DEF Ports!Fresh, StateOf
  <2>3. CASE /\ found = [height |-> 0, hash |-> Empty] /\ LangOf[p] = "go"
             /\ content \in {Vacant, Partial}
    <3>1. content # NoChainFile /\ found # content
      BY <2>3, <1>7, PortConstants
    <3>2. p \in restarts'
      BY <1>2, <2>1, <3>1
    <3> QED
      BY <2>3, <3>2, <1>7 DEF StateOf
  <2>4. CASE found = content /\ content \in Ports!ChainFile
    <3>1. StateOf(name, content) /\ content.height > 0
      BY <2>4, <1>3 DEF PortInv, PortStatesAreHeads, content
    <3>2. content.hash # Empty
      <4>1. PICK q \in signed : q.by = content.hash
        BY <3>1 DEF StateOf
      <4>2. q.by \in Signers
        BY DEF PortInv, DraftsAreSigned
      <4> QED
        BY <4>1, <4>2, PortConstants
    <3> QED
      BY <2>4, <3>1, <3>2
  <2> QED
    BY <2>1, <2>2, <2>3, <2>4, <1>4
<1>14. PortStatesAreHeads'
  <2>1. \A n \in Ports!Names :
           disk[n] \in Ports!ChainFile => StateOf(n, disk[n]) /\ disk[n].height > 0
    BY DEF PortInv, PortStatesAreHeads
  <2>2. (\A n \in Ports!Names :
           disk[n] \in Ports!ChainFile => StateOf(n, disk[n]) /\ disk[n].height > 0)'
    BY <2>1, <1>1, <1>12
  <2>3. ASSUME NEW q \in Signers, Loaded(q)'
        PROVE  /\ StateOf(Ports!Name(q)', state'[q])
               /\ state'[q].hash = Empty => LangOf[q] = "go" /\ q \in restarts'
    <3>1. CASE q = p
      <4>1. at'[p] = "signed"
        BY <1>5, <2>3, <3>1 DEF Loaded
      <4> QED
        BY <2>3, <3>1, <4>1, <1>6, <1>8, <1>13
    <3>2. CASE q # p
      BY <2>3, <3>2, <1>6, <1>8 DEF PortInv, PortStatesAreHeads
    <3> QED
      BY <3>1, <3>2
  <2>4. (\A q \in Signers : Loaded(q) => StateOf(Ports!Name(q), state[q]))'
    BY <2>3, <1>12
  <2>5. (\A q \in Signers : Loaded(q) /\ state[q].hash = Empty => LangOf[q] = "go" /\ q \in restarts)'
    BY <2>3
  <2> QED
    BY <2>2, <2>4, <2>5 DEF PortStatesAreHeads
<1>15. ASSUME NEW n \in Ports!Names, ~Ports!Troubled(n)' PROVE Chained(n)'
  <2>1. ~Ports!Troubled(n)
    <3>1. \A q : at[q] # "idle" => tenant'[q] = tenant[q]
      BY <1>1 DEF PortInv, PortTypes
    <3> QED
      BY <1>1, <1>8, <1>15, <3>1, TroubleStays DEF PortInv
  <2>2. Chained(n)
    BY <2>1 DEF PortInv
  <2>3. ASSUME AtWork(p)', name = n PROVE Tops(n, found.height)
    <3>1. at'[p] = "signed" /\ found # Throws
      BY <1>5, <1>8, <2>3 DEF AtWork
    <3>2. p \notin restarts'
      BY <1>15, <1>6, <2>3 DEF Ports!Troubled
    <3>3. content = NoChainFile \/ found = content
      BY <1>2, <3>1, <3>2
    <3>4. CASE content = NoChainFile
      BY <3>4, <2>2, <2>3 DEF Chained, Tops, content
    <3>5. CASE content # NoChainFile
      <4>1. found = content /\ content \in Ports!ChainFile
        BY <3>1, <3>3, <3>5, <1>4, <1>7, <1>13 DEF Loaded
      <4> QED
        BY <4>1, <2>2, <2>3 DEF Chained, content
    <3> QED
      BY <3>4, <3>5
  <2>4. \A h : Tops(n, h)' <=> Tops(n, h)
    BY <1>1 DEF Tops
  <2>5. ASSUME NEW q \in Signers, AtWork(q)', Ports!Name(q)' = n PROVE Tops(n, state'[q].height)
    <3>1. CASE q = p
      <4>1. at'[p] = "signed"
        BY <1>5, <2>5, <3>1 DEF AtWork
      <4> QED
        BY <2>3, <2>5, <3>1, <4>1, <1>6, <1>8
    <3>2. CASE q # p
      BY <2>2, <2>5, <3>2, <1>6, <1>8 DEF Chained
    <3> QED
      BY <3>1, <3>2
  <2>6. (\A q \in Signers : AtWork(q) /\ Ports!Name(q) = n => Tops(n, state[q].height))'
    BY <2>4, <2>5
  <2> QED
    BY <2>2, <2>4, <2>6, <1>1 DEF Chained
<1>16. (\A n \in Ports!Names : ~Ports!Troubled(n) => Chained(n))'
  BY <1>15 DEF Ports!Names
<1> QED
  BY <1>9, <1>10, <1>11, <1>14, <1>16 DEF PortInv

(* Steps of a signer at work: it opens the file, writes it, fails to or    *)
(* dies.  It signs its draft or not, and leaves its file as it was,        *)
(* truncated, or advanced; a receipt whose state is not written is noted.  *)
LEMMA WorkKeepsPorts ==
    ASSUME PortInv, NEW p \in Signers, AtWork(p),
           UNCHANGED <<tenant, state, restarts, overlaps>>,
           NEW to \in {"writing", "done", "threw", "dead"}, at' = [at EXCEPT ![p] = to],
           \/ disk' = disk
           \/ \E left \in {Vacant, Partial} : disk' = [disk EXCEPT ![Ports!Name(p)] = left]
           \/ /\ disk' = [disk EXCEPT ![Ports!Name(p)] = Ports!Advanced(p)]
              /\ signed' = signed \cup {Ports!Draft(p)},
           \/ signed' = signed
           \/ /\ signed' = signed \cup {Ports!Draft(p)} /\ to \in {"done", "dead"}
              /\ \/ disk' = [disk EXCEPT ![Ports!Name(p)] = Ports!Advanced(p)]
                 \/ p \in unsaved',
           returned' \subseteq signed', unsaved \subseteq unsaved', unsaved' \subseteq unsaved \cup {p}
    PROVE  PortInv'
<1> DEFINE name  == Ports!Name(p)
<1> DEFINE mine == Ports!Draft(p)
<1>1. /\ name \in Ports!Names /\ state[p] \in Ports!ChainFile /\ state[p].height \in Nat
      /\ StateOf(name, state[p])
  BY NameIsName DEF PortInv, PortTypes, PortStatesAreHeads, AtWork, Loaded, Ports!ChainFile
<1>2. /\ mine.by = p /\ mine.height = state[p].height + 1 /\ mine.name = name
      /\ mine.prev = state[p].hash
  BY DEF Ports!Draft
<1>3. /\ Ports!Advanced(p) \in Ports!ChainFile
      /\ Ports!Advanced(p).height = state[p].height + 1 /\ Ports!Advanced(p).hash = p
  BY <1>1 DEF Ports!Advanced, Ports!ChainFile
<1>4. /\ at' \in [Signers -> PortPlaces] /\ at'[p] = to
      /\ \A q \in Signers \ {p} : at'[q] = at[q]
  BY DEF PortInv, PortTypes, PortPlaces
<1>5. \A q : Ports!Name(q)' = Ports!Name(q) /\ Ports!Draft(q)' = Ports!Draft(q)
  BY DEF Ports!Name, Ports!Draft
<1>6. signed \subseteq signed' /\ signed' \subseteq signed \cup {mine}
  OBVIOUS
<1>7. /\ disk' \in [Ports!Names -> Ports!ChainFile \cup {NoChainFile, Vacant, Partial}]
      /\ \A n \in Ports!Names \ {name} : disk'[n] = disk[n]
      /\ \/ disk'[name] = disk[name]
         \/ disk'[name] \in {Vacant, Partial}
         \/ disk'[name] = Ports!Advanced(p) /\ mine \in signed'
      /\ mine \in signed' \ signed =>
            disk'[name] = Ports!Advanced(p) \/ p \in unsaved'
  BY <1>1, <1>3 DEF PortInv, PortTypes
<1>8. \A q \in Signers : /\ AtWork(q)' => AtWork(q)
                         /\ Loaded(q)' => Loaded(q)
  BY <1>4 DEF AtWork, Loaded
<1> HIDE DEF name, mine
<1>9. PortTypes'
  BY <1>4, <1>7 DEF PortInv, PortTypes, PortPlaces
<1>10. DraftsAreSigned'
  <2>1. ASSUME NEW r \in signed'
        PROVE  r.by \in Signers /\ at'[r.by] \in {"done", "dead"} /\ r = Ports!Draft(r.by)'
    <3>1. CASE r \in signed
      <4>1. r.by \in Signers /\ at[r.by] \in {"done", "dead"} /\ r = Ports!Draft(r.by)
        BY <3>1 DEF PortInv, DraftsAreSigned
      <4>2. r.by # p
        BY <4>1 DEF AtWork
      <4> QED
        BY <4>1, <4>2, <1>4, <1>5
    <3>2. CASE r \notin signed
      <4>1. r = mine /\ to \in {"done", "dead"}
        BY <2>1, <3>2, <1>6
      <4> QED
        BY <4>1, <1>2, <1>4, <1>5 DEF mine
    <3> QED
      BY <3>1, <3>2
  <2> QED
    BY <2>1 DEF DraftsAreSigned
<1>11. HistoriesAreSettled'
  <2>1. \A q \in restarts' : at'[q] # "idle"
    BY <1>4 DEF PortInv, PortTypes, HistoriesAreSettled
  <2>2. (\A pair \in overlaps : \A q \in pair : q \in Signers /\ at[q] # "idle")'
    BY <1>4 DEF PortInv, HistoriesAreSettled
  <2>3. (\A q, r \in Signers : q # r /\ AtWork(q) /\ AtWork(r) /\ Ports!Name(q) = Ports!Name(r)
                                 => {q, r} \in overlaps)'
    BY <1>5, <1>8 DEF PortInv, HistoriesAreSettled
  <2> QED
    BY <2>1, <2>2, <2>3 DEF HistoriesAreSettled
<1>12. \A n, st : StateOf(n, st) => StateOf(n, st)'
  BY <1>6 DEF StateOf
<1>13. PortStatesAreHeads'
  <2>1. ASSUME NEW n \in Ports!Names, disk'[n] \in Ports!ChainFile
        PROVE  StateOf(n, disk[n])' /\ disk'[n].height > 0
    <3>1. CASE disk'[n] = disk[n]
      BY <2>1, <3>1, <1>12 DEF PortInv, PortStatesAreHeads
    <3>2. CASE n = name /\ disk'[n] = Ports!Advanced(p) /\ mine \in signed'
      BY <3>2, <1>1, <1>2, <1>3 DEF StateOf
    <3>3. CASE disk'[n] \in {Vacant, Partial}
      BY <2>1, <3>3, PortConstants
    <3> QED
      BY <3>1, <3>2, <3>3, <1>7
  <2>2. (\A n \in Ports!Names :
            disk[n] \in Ports!ChainFile => StateOf(n, disk[n]) /\ disk[n].height > 0)'
    BY <2>1 DEF Ports!Names
  <2>3. (\A q \in Signers : Loaded(q) => StateOf(Ports!Name(q), state[q]))'
    BY <1>5, <1>8, <1>12 DEF PortInv, PortStatesAreHeads
  <2>4. (\A q \in Signers : Loaded(q) /\ state[q].hash = Empty => LangOf[q] = "go" /\ q \in restarts)'
    BY <1>8 DEF PortInv, PortStatesAreHeads
  <2> QED
    BY <2>2, <2>3, <2>4 DEF PortStatesAreHeads
<1>14. ASSUME NEW n \in Ports!Names, ~Ports!Troubled(n)' PROVE Chained(n)'
  <2>1. Chained(n)
    <3>1. ~Ports!Troubled(n)
      BY <1>6, <1>14, TroubleStays DEF PortInv
    <3> QED
      BY <3>1 DEF PortInv
  <2>2. CASE n # name
    <3>1. \A r \in signed' : r.name = n => r \in signed
      BY <2>2, <1>2, <1>6
    <3>2. \A h : Tops(n, h) => Tops(n, h)'
      BY <3>1 DEF Tops
    <3>3. disk'[n] = disk[n]
      BY <2>2, <1>7
    <3>4. (disk[n] = NoChainFile => \A r \in signed : r.name # n)'
      BY <2>1, <3>1, <3>3 DEF Chained
    <3>5. (disk[n] \in Ports!ChainFile => Tops(n, disk[n].height))'
      BY <2>1, <3>2, <3>3 DEF Chained
    <3>6. (\A q \in Signers : AtWork(q) /\ Ports!Name(q) = n => Tops(n, state[q].height))'
      BY <2>1, <3>2, <1>5, <1>8 DEF Chained
    <3>7. (\A r, q \in signed : r.name = n /\ q.name = n /\ r.height = q.height => r = q)'
      BY <2>1, <3>1 DEF Chained
    <3> QED
      BY <3>4, <3>5, <3>6, <3>7 DEF Chained
  <2>3. CASE n = name
    <3>1. Tops(n, state[p].height)
      BY <2>1, <2>3 DEF Chained, name
    <3>2. \A r \in signed : r.name = n => r.height \in Nat /\ r.height < state[p].height + 1
      <4>1. ASSUME NEW r \in signed, r.name = n PROVE r.height \in Nat
        <5>1. r.by \in Signers /\ r = Ports!Draft(r.by)
          BY DEF PortInv, DraftsAreSigned
        <5>2. state[r.by].height \in Nat
          BY <5>1 DEF PortInv, PortTypes, Ports!ChainFile
        <5>3. r.height = state[r.by].height + 1
          BY <5>1 DEF Ports!Draft
        <5> QED
          BY <5>2, <5>3
      <4> QED
        BY <3>1, <4>1, <1>1 DEF Tops
    <3>3. ASSUME NEW q \in Signers \ {p}, AtWork(q), Ports!Name(q) = n PROVE FALSE
      <4>1. {p, q} \in overlaps'
        BY <2>3, <3>3 DEF PortInv, HistoriesAreSettled, name
      <4>2. p \in {p, q} /\ Ports!Name(p)' = n
        BY <2>3, <1>5 DEF name
      <4> QED
        BY <4>1, <4>2, <1>14 DEF Ports!Troubled
    <3>4. CASE mine \notin signed' \ signed
      <4>1. signed' = signed
        BY <3>4, <1>6
      <4>2. \A h : Tops(n, h)' <=> Tops(n, h)
        BY <4>1 DEF Tops
      <4>3. disk'[n] = disk[n] \/ disk'[n] \in {Vacant, Partial}
        <5>1. CASE mine \in signed
          <6>1. at[p] \in {"done", "dead"}
            BY <5>1, <1>2 DEF PortInv, DraftsAreSigned
          <6> QED
            BY <6>1 DEF AtWork
        <5>2. CASE mine \notin signed'
          BY <5>2, <2>3, <1>7
        <5> QED
          BY <3>4, <5>1, <5>2
      <4>4. (disk[n] = NoChainFile => \A r \in signed : r.name # n)'
        BY <2>1, <4>1, <4>3, PortConstants DEF Chained
      <4>5. (disk[n] \in Ports!ChainFile => Tops(n, disk[n].height))'
        BY <2>1, <4>2, <4>3, PortConstants DEF Chained
      <4>6. (\A q \in Signers : AtWork(q) /\ Ports!Name(q) = n => Tops(n, state[q].height))'
        BY <2>1, <4>2, <1>5, <1>8 DEF Chained
      <4>7. (\A r, q \in signed : r.name = n /\ q.name = n /\ r.height = q.height => r = q)'
        BY <2>1, <4>1 DEF Chained
      <4> QED
        BY <4>4, <4>5, <4>6, <4>7 DEF Chained
    <3>5. CASE mine \in signed' \ signed
      <4>1. disk'[n] = Ports!Advanced(p)
        <5>1. p \notin unsaved'
          BY <1>2, <1>14, <2>3, <3>5 DEF Ports!Troubled
        <5> QED
          BY <5>1, <2>3, <3>5, <1>7
      <4>2. \A r \in signed' : r.name = n => r.height <= state[p].height + 1
        BY <3>2, <1>1, <1>2, <1>6
      <4>3. (disk[n] = NoChainFile => \A r \in signed : r.name # n)'
        BY <4>1, <1>3, PortConstants
      <4>4. (disk[n] \in Ports!ChainFile => Tops(n, disk[n].height))'
        BY <4>1, <4>2, <1>3 DEF Tops
      <4>5. (\A q \in Signers : AtWork(q) /\ Ports!Name(q) = n => Tops(n, state[q].height))'
        <5>1. ASSUME NEW q \in Signers, AtWork(q)', Ports!Name(q)' = n PROVE FALSE
          <6>1. AtWork(q) /\ Ports!Name(q) = n
            BY <5>1, <1>5, <1>8
          <6>2. q = p
            BY <6>1, <3>3
          <6>3. to \in {"done", "dead"}
            BY <3>5
          <6> QED
            BY <5>1, <6>2, <6>3, <1>4 DEF AtWork
        <5> QED
          BY <5>1
      <4>6. ASSUME NEW r \in signed', NEW q \in signed', r.name = n, q.name = n,
                   r.height = q.height
            PROVE  r = q
        <5>1. CASE r \in signed /\ q \in signed
          BY <2>1, <4>6, <5>1 DEF Chained
        <5>2. CASE r = mine /\ q \in signed
          BY <3>2, <4>6, <5>2, <1>1, <1>2
        <5>3. CASE q = mine /\ r \in signed
          BY <3>2, <4>6, <5>3, <1>1, <1>2
        <5> QED
          BY <5>1, <5>2, <5>3, <1>6
      <4>7. (\A r, q \in signed : r.name = n /\ q.name = n /\ r.height = q.height => r = q)'
        BY <4>6
      <4> QED
        BY <4>3, <4>4, <4>5, <4>7 DEF Chained
    <3> QED
      BY <3>4, <3>5
  <2> QED
    BY <2>2, <2>3
<1>15. (\A n \in Ports!Names : ~Ports!Troubled(n) => Chained(n))'
  BY <1>14 DEF Ports!Names
<1> QED
  BY <1>9, <1>10, <1>11, <1>13, <1>15 DEF PortInv

LEMMA PortsStart == Ports!Init => PortInv
<1> SUFFICES ASSUME Ports!Init PROVE PortInv
  OBVIOUS
<1>1. (CHOOSE t \in PortTenants : TRUE) \in PortTenants
  BY PortConstants
<1>2. Ports!Fresh \in Ports!ChainFile
  BY DEF Ports!Fresh, Ports!ChainFile
<1>3. PortTypes
  BY <1>1, <1>2 DEF Ports!Init, PortTypes
<1>4. DraftsAreSigned /\ HistoriesAreSettled
  BY DEF Ports!Init, DraftsAreSigned, HistoriesAreSettled, AtWork
<1>5. PortStatesAreHeads
  BY PortConstants DEF Ports!Init, PortStatesAreHeads, Loaded
<1>6. \A n \in Ports!Names : Chained(n)
  BY PortConstants DEF Ports!Init, Chained, AtWork
<1> QED
  BY <1>3, <1>4, <1>5, <1>6 DEF PortInv

LEMMA PortsStay == PortInv /\ UNCHANGED portVars => PortInv'
<1> SUFFICES ASSUME PortInv, UNCHANGED portVars PROVE PortInv'
  OBVIOUS
<1>1. UNCHANGED <<disk, at, tenant, state, returned, signed, unsaved, restarts, overlaps>>
  BY DEF portVars
<1>2. /\ \A n : Chained(n)' <=> Chained(n)
      /\ \A n : Ports!Troubled(n)' <=> Ports!Troubled(n)
  BY <1>1 DEF Chained, Tops, AtWork, Ports!Name, Ports!Troubled
<1>3. PortTypes' /\ DraftsAreSigned' /\ HistoriesAreSettled'
  BY <1>1 DEF PortInv, PortTypes, DraftsAreSigned, HistoriesAreSettled, AtWork, Ports!Name, Ports!Draft
<1>4. PortStatesAreHeads'
  BY <1>1 DEF PortInv, PortStatesAreHeads, StateOf, Loaded, Ports!Name
<1>5. (\A n \in Ports!Names : ~Ports!Troubled(n) => Chained(n))'
  BY <1>2 DEF PortInv, Ports!Names
<1> QED
  BY <1>3, <1>4, <1>5 DEF PortInv

LEMMA PortsKeep == PortInv /\ [LocalNext]_localVars => PortInv'
<1> SUFFICES ASSUME PortInv, [LocalNext]_localVars PROVE PortInv'
  OBVIOUS
<1>1. ASSUME NEW p \in Signers, Ports!OpenFile(p) PROVE PortInv'
  BY <1>1, WorkKeepsPorts DEF Ports!OpenFile, Ports!Goes, AtWork, PortInv, DraftsAreSigned
<1>2. ASSUME NEW p \in Signers, Ports!WriteFile(p) PROVE PortInv'
  <2>1. returned' \subseteq signed'
    BY <1>2 DEF Ports!WriteFile, PortInv, DraftsAreSigned
  <2> QED
    BY <1>2, <2>1, WorkKeepsPorts DEF Ports!WriteFile, Ports!Goes, AtWork
<1>3. ASSUME NEW p \in Signers, Ports!SaveFails(p) PROVE PortInv'
  <2>1. /\ AtWork(p) /\ UNCHANGED <<tenant, state, restarts, overlaps>>
        /\ \/ disk' = disk
           \/ \E left \in {Vacant, Partial} : disk' = [disk EXCEPT ![Ports!Name(p)] = left]
    BY <1>3 DEF Ports!SaveFails, AtWork
  <2>2. CASE LangOf[p] = "python"
    <3>1. at' = [at EXCEPT ![p] = "threw"] /\ UNCHANGED <<returned, signed, unsaved>>
      BY <1>3, <2>2 DEF Ports!SaveFails, Ports!Goes
    <3> QED
      BY <2>1, <3>1, WorkKeepsPorts DEF PortInv, DraftsAreSigned
  <2>3. CASE LangOf[p] # "python"
    <3>1. /\ at' = [at EXCEPT ![p] = "done"] /\ unsaved' = unsaved \cup {p}
          /\ returned' = returned \cup {Ports!Draft(p)} /\ signed' = signed \cup {Ports!Draft(p)}
      BY <1>3, <2>3 DEF Ports!SaveFails, Ports!Goes
    <3>2. returned' \subseteq signed' /\ p \in unsaved'
      BY <3>1 DEF PortInv, DraftsAreSigned
    <3> QED
      BY <2>1, <3>1, <3>2, WorkKeepsPorts
  <2> QED
    BY <2>2, <2>3
<1>4. ASSUME NEW p \in Signers, Ports!Crash(p) PROVE PortInv'
  <2>1. /\ AtWork(p) /\ at' = [at EXCEPT ![p] = "dead"]
        /\ UNCHANGED <<tenant, state, returned, unsaved, restarts, overlaps>>
        /\ \/ disk' = disk /\ signed' = signed
           \/ disk' = [disk EXCEPT ![Ports!Name(p)] = Partial] /\ signed' = signed
           \/ /\ disk' = [disk EXCEPT ![Ports!Name(p)] = Ports!Advanced(p)]
              /\ signed' = signed \cup {Ports!Draft(p)}
    BY <1>4 DEF Ports!Crash, Ports!Goes, AtWork
  <2>2. returned' \subseteq signed'
    BY <2>1 DEF PortInv, DraftsAreSigned
  <2> QED
    BY <2>1, <2>2, WorkKeepsPorts
<1>5. CASE Ports!Next
  BY <1>1, <1>2, <1>3, <1>4, <1>5, BeginKeepsPorts DEF Ports!Next
<1>6. CASE UNCHANGED portVars
  BY <1>6, PortsStay
<1> QED
  BY <1>5, <1>6 DEF LocalNext, localVars

(* A name one tenant id keeps whole is that of no other id: what would have*)
(* to be replaced in the other is an underscore, which is no letter.       *)
LEMMA PlainNamesDiffer ==
    ASSUME NEW a \in {"go", "java", "rust", "python"}, NEW b \in {"go", "java", "rust", "python"},
           NEW t \in PortTenants, NEW u \in PortTenants,
           \A i \in DOMAIN t : t[i] \in AsciiLetters \cup {"-"},
           Ports!SafeTenant(a, t) = Ports!SafeTenant(b, u)
    PROVE  t = u
<1> DEFINE kept == AsciiLetters \cup {"-"} \cup (IF b \in {"java", "python"} THEN OtherLetters ELSE {})
<1>1. Ports!SafeTenant(a, t) = [i \in DOMAIN t |-> t[i]]
  BY DEF Ports!SafeTenant
<1>2. Ports!SafeTenant(b, u) = [i \in DOMAIN u |-> IF u[i] \in kept THEN u[i] ELSE "_"]
  BY DEF Ports!SafeTenant
<1> HIDE DEF kept
<1>3. DOMAIN t = DOMAIN u
  BY <1>1, <1>2
<1>4. ASSUME NEW i \in DOMAIN t PROVE t[i] = u[i]
  <2>1. t[i] = IF u[i] \in kept THEN u[i] ELSE "_"
    <3>1. [j \in DOMAIN t |-> t[j]] = [j \in DOMAIN u |-> IF u[j] \in kept THEN u[j] ELSE "_"]
      BY <1>1, <1>2
    <3> QED
      BY <3>1, <1>3
  <2>2. t[i] # "_"
    BY PortConstants
  <2> QED
    BY <2>1, <2>2
<1>5. t \in Seq(STRING) /\ u \in Seq(STRING)
  BY PortConstants
<1> QED
  BY <1>3, <1>4, <1>5

(* The receipts of an undisturbed file are one chain; a tenant's receipts  *)
(* fork only with a disturbed file or over two names, and a receipt follows*)
(* another tenant's only if its own id was not kept whole (receipt.go,     *)
(* Receipts.java, receipt.rs, receipt.py).                                 *)
THEOREM LocalForksAreExplained == LocalSpec => []ForkIsExplained
<1>1. PortInv => ForkIsExplained
  <2> SUFFICES ASSUME PortInv PROVE ForkIsExplained
    OBVIOUS
  <2>1. ASSUME NEW r \in signed
        PROVE  /\ r.by \in Signers /\ r = Ports!Draft(r.by) /\ r.name \in Ports!Names
               /\ r.name = Ports!Name(r.by) /\ r.tenant = tenant[r.by]
               /\ r.height = state[r.by].height + 1 /\ r.prev = state[r.by].hash
               /\ StateOf(r.name, state[r.by])
               /\ state[r.by].hash = Empty => r.by \in restarts
    <3>1. r.by \in Signers /\ r = Ports!Draft(r.by) /\ Loaded(r.by)
      BY DEF PortInv, DraftsAreSigned, Loaded
    <3>2. /\ r.name = Ports!Name(r.by) /\ r.tenant = tenant[r.by]
          /\ r.height = state[r.by].height + 1 /\ r.prev = state[r.by].hash
      BY <3>1 DEF Ports!Draft
    <3> QED
      BY <3>1, <3>2, NameIsName DEF PortInv, PortStatesAreHeads
  <2>2. ASSUME NEW r \in signed, r.prev \notin {Genesis, Empty}
        PROVE  \E b \in signed : b.name = r.name /\ b.by = r.prev /\ b.height = r.height - 1
    <3>1. PICK b \in signed : b.by = r.prev /\ b.height = state[r.by].height /\ b.name = r.name
      BY <2>1, <2>2 DEF StateOf
    <3>2. state[r.by].height \in Nat
      BY <2>1 DEF PortInv, PortTypes, Ports!ChainFile
    <3> QED
      BY <2>1, <3>1, <3>2
  <2>3. ASSUME NEW r \in signed, NEW q \in signed, r.name = q.name, ~Ports!Troubled(r.name)
        PROVE  /\ r.height = q.height => r = q
               /\ r.prev = Genesis \/ \E b \in signed : b.name = r.name /\ b.by = r.prev
                                                        /\ b.height = r.height - 1
    <3>1. Chained(r.name)
      BY <2>1, <2>3 DEF PortInv
    <3>2. r.prev # Empty
      BY <2>1, <2>3 DEF Ports!Troubled
    <3> QED
      BY <2>2, <2>3, <3>1, <3>2 DEF Chained
  <2>4. ASSUME NEW r \in signed, NEW q \in signed, r.prev = q.by, r.tenant # q.tenant
        PROVE  \E i \in DOMAIN r.tenant : r.tenant[i] \notin AsciiLetters \cup {"-"}
    <3>1. r.prev \notin {Genesis, Empty}
      BY <2>1, <2>4, PortConstants
    <3>2. PICK b \in signed : b.name = r.name /\ b.by = r.prev
      BY <2>2, <3>1
    <3>3. b = q
      BY <2>1, <2>4, <3>2
    <3>4. Ports!SafeTenant(LangOf[r.by], r.tenant) = Ports!SafeTenant(LangOf[q.by], q.tenant)
      BY <2>1, <3>2, <3>3 DEF Ports!Name
    <3>5. /\ LangOf[r.by] \in {"go", "java", "rust", "python"} /\ r.tenant \in PortTenants
          /\ LangOf[q.by] \in {"go", "java", "rust", "python"} /\ q.tenant \in PortTenants
      BY <2>1, PortConstants DEF PortInv, PortTypes
    <3> QED
      BY <2>4, <3>4, <3>5, PlainNamesDiffer
  <2>5. Ports!UntroubledFilesAreChains
    BY <2>3 DEF Ports!UntroubledFilesAreChains
  <2>6. Ports!ForkIsExplained
    BY <2>3, <2>4 DEF Ports!ForkIsExplained
  <2> QED
    BY <2>5, <2>6 DEF ForkIsExplained
<1> QED
  BY <1>1, PortsStart, PortsKeep, PTL DEF LocalSpec, LocalInit

(* What the verifiers find in a returned receipt of height h that names the*)
(* receipt `before`: right hash, good signature, and an integer height.    *)
LEMMA EnvelopeReads ==
    ASSUME NEW r, r.height \in Int, r.prev \in Signers \cup {Genesis, Empty}
    PROVE  LET e == Ports!Envelope(r)
           IN  /\ ~Port!Broken(e) /\ e.hash = "right" /\ e.hash # Absent /\ e.imprint # "mismatch"
               /\ e.prev = r.prev /\ Port!Text(e.prev) = r.prev
               /\ Port!Integral(e.height) = r.height /\ Port!IntOnly(e.height) = r.height
               /\ r.height # NoHeight
               /\ Port!AnySignature(e, Port!TsTakes) /\ Port!AnySignature(e, Port!GoTakes)
               /\ Port!AnySignature(e, Port!JavaTakes) /\ Port!AnySignature(e, Port!RustTakes)
               /\ Port!AnySignature(e, Port!PythonTakes)
<1> DEFINE e == Ports!Envelope(r)
<1> DEFINE sig == [alg |-> "EdDSA", kid |-> "k", good |-> TRUE, text |-> "standard"]
<1>1. /\ e.hash = "right" /\ e.height = <<"int", r.height>> /\ e.prev = r.prev
      /\ e.imprint = "none" /\ e.sigs = <<sig>>
  BY DEF Ports!Envelope
<1>2. e \in Envelopes /\ e.height \in Heights
  <2>1. sig \in [alg : {"EdDSA"}, kid : {"k"}, good : {TRUE}, text : {"standard"}]
    OBVIOUS
  <2> HIDE DEF sig
  <2>2. \A S : \A x \in S : <<x>> \in Seq(S)
    OBVIOUS
  <2>3. <<sig>> \in Seq([alg : {"EdDSA"}, kid : {"k"}, good : {TRUE}, text : {"standard"}])
    BY <2>1, <2>2
  <2>4. <<"int", r.height>> \in Heights
    BY DEF Heights
  <2>5. e = [hash |-> "right", height |-> <<"int", r.height>>, prev |-> r.prev,
             imprint |-> "none", sigs |-> <<sig>>]
    BY DEF Ports!Envelope, sig
  <2> HIDE DEF e
  <2>6. e \in Envelopes
    BY <2>3, <2>4, <2>5 DEF Envelopes
  <2> QED
    BY <2>4, <2>5, <2>6
<1>3. /\ e \notin {NoReceipt, NoIntegrity, NoSignatures} /\ e.height # Absent
      /\ Absent # "right" /\ Absent # r.prev /\ NoHeight # r.height
  BY <1>2, LocalAssumption DEF Markers
<1> HIDE DEF e
<1>4. Port!AnySignature(e, {"standard"}) /\ \A S : "standard" \in S => Port!AnySignature(e, S)
  BY <1>1 DEF Port!AnySignature
<1>5. /\ Port!Integral(e.height) = r.height /\ Port!IntOnly(e.height) = r.height
      /\ Port!Text(e.prev) = r.prev
  BY <1>1, <1>3 DEF Port!Integral, Port!IntOnly, Port!Text
<1>6. /\ Port!AnySignature(e, Port!TsTakes) /\ Port!AnySignature(e, Port!GoTakes)
      /\ Port!AnySignature(e, Port!JavaTakes) /\ Port!AnySignature(e, Port!RustTakes)
      /\ Port!AnySignature(e, Port!PythonTakes)
  BY <1>4 DEF Port!TsTakes, Port!GoTakes, Port!JavaTakes, Port!RustTakes, Port!PythonTakes
<1>7. ~Port!Broken(e)
  BY <1>3 DEF Port!Broken
<1> QED
  BY <1>1, <1>3, <1>5, <1>6, <1>7 DEF e

(* Alone, a receipt is valid for everybody if its height is 1 just when it *)
(* names the genesis hash, and for nobody otherwise.                       *)
LEMMA ValidAlone ==
    ASSUME NEW r, r.height \in Int, r.prev \in Signers \cup {Genesis, Empty}, NEW l \in Port!Languages
    PROVE  Port!Verify(l, Ports!Envelope(r), NoPredecessor) = "valid"
              <=> r.height >= 1 /\ (r.height = 1 <=> r.prev = Genesis)
<1> DEFINE e == Ports!Envelope(r)
<1> DEFINE right == r.height >= 1 /\ (r.height = 1 <=> r.prev = Genesis)
<1>1. /\ ~Port!Broken(e) /\ e.hash = "right" /\ e.hash # Absent /\ e.imprint # "mismatch"
      /\ e.prev = r.prev /\ Port!Text(e.prev) = r.prev
      /\ Port!Integral(e.height) = r.height /\ Port!IntOnly(e.height) = r.height
      /\ r.height # NoHeight
      /\ Port!AnySignature(e, Port!TsTakes) /\ Port!AnySignature(e, Port!GoTakes)
      /\ Port!AnySignature(e, Port!JavaTakes) /\ Port!AnySignature(e, Port!RustTakes)
      /\ Port!AnySignature(e, Port!PythonTakes)
  BY EnvelopeReads
<1>2. NoPredecessor # Malformed
  BY LocalAssumption
<1> HIDE DEF e
<1>3. Port!LinkHolds(r.height, r.prev, FALSE, Absent, NoHeight) <=> right
  BY <1>1 DEF Port!LinkHolds
<1>4. Port!Answer(TRUE) = "valid" /\ Port!Answer(FALSE) = "invalid"
  BY DEF Port!Answer
<1>5. ASSUME l = "ts" PROVE Port!Verify(l, e, NoPredecessor) = "valid" <=> right
  BY <1>1, <1>2, <1>3, <1>4, <1>5 DEF Port!Verify, Port!VerifyTS, Port!Answer
<1>6. ASSUME l = "go" PROVE Port!Verify(l, e, NoPredecessor) = "valid" <=> right
  BY <1>1, <1>2, <1>3, <1>4, <1>6 DEF Port!Verify, Port!VerifyGo, Port!Answer
<1>7. ASSUME l = "java" PROVE Port!Verify(l, e, NoPredecessor) = "valid" <=> right
  BY <1>1, <1>2, <1>3, <1>4, <1>7 DEF Port!Verify, Port!VerifyJava, Port!Answer
<1>8. ASSUME l = "rust" PROVE Port!Verify(l, e, NoPredecessor) = "valid" <=> right
  BY <1>1, <1>2, <1>3, <1>4, <1>8 DEF Port!Verify, Port!VerifyRust, Port!Answer
<1>9. ASSUME l = "python" PROVE Port!Verify(l, e, NoPredecessor) = "valid" <=> right
  BY <1>1, <1>2, <1>3, <1>4, <1>9 DEF Port!Verify, Port!VerifyPython, Port!Answer
<1> QED
  BY <1>5, <1>6, <1>7, <1>8, <1>9 DEF Port!Languages, e

(* Behind a receipt of the height below whose hash it names, a receipt is  *)
(* valid for everybody.                                                    *)
LEMMA ValidBehind ==
    ASSUME NEW r, r.height \in Int, r.prev \in Signers, r.height >= 1, NEW l \in Port!Languages
    PROVE  Port!Verify(l, Ports!Envelope(r),
                       [hash |-> r.prev, height |-> <<"int", r.height - 1>>]) = "valid"
<1> DEFINE e == Ports!Envelope(r)
<1> DEFINE pred == [hash |-> r.prev, height |-> <<"int", r.height - 1>>]
<1>1. /\ ~Port!Broken(e) /\ e.hash = "right" /\ e.hash # Absent /\ e.imprint # "mismatch"
      /\ e.prev = r.prev /\ Port!Text(e.prev) = r.prev
      /\ Port!Integral(e.height) = r.height /\ Port!IntOnly(e.height) = r.height
      /\ r.height # NoHeight
      /\ Port!AnySignature(e, Port!TsTakes) /\ Port!AnySignature(e, Port!GoTakes)
      /\ Port!AnySignature(e, Port!JavaTakes) /\ Port!AnySignature(e, Port!RustTakes)
      /\ Port!AnySignature(e, Port!PythonTakes)
  BY EnvelopeReads
<1>2. /\ pred.hash = r.prev /\ pred.height = <<"int", r.height - 1>>
      /\ pred \in Heads /\ pred.height \in Heights /\ r.height - 1 \in Int
  BY DEF Heads, Heights
<1>3. /\ pred \notin {NoPredecessor, Malformed} /\ Absent \notin {pred.hash, pred.height}
      /\ NoHeight # r.height - 1
  BY <1>2, LocalAssumption DEF Markers
<1> HIDE DEF e, pred
<1>4. /\ Port!Integral(pred.height) = r.height - 1 /\ Port!IntOnly(pred.height) = r.height - 1
      /\ Port!Floored(pred.height) = r.height - 1 /\ Port!OrZero(r.height - 1) = r.height - 1
      /\ Port!Text(pred.hash) = r.prev
  BY <1>2, <1>3 DEF Port!Integral, Port!IntOnly, Port!Floored, Port!OrZero, Port!Text
<1>5. Port!LinkHolds(r.height, r.prev, TRUE, r.prev, r.height - 1)
  BY <1>1, <1>3 DEF Port!LinkHolds
<1>6. ASSUME l = "ts" PROVE Port!Verify(l, e, pred) = "valid"
  BY <1>1, <1>2, <1>3, <1>4, <1>5, <1>6 DEF Port!Verify, Port!VerifyTS, Port!Answer
<1>7. ASSUME l = "go" PROVE Port!Verify(l, e, pred) = "valid"
  BY <1>1, <1>2, <1>3, <1>4, <1>5, <1>7 DEF Port!Verify, Port!VerifyGo, Port!Answer
<1>8. ASSUME l = "java" PROVE Port!Verify(l, e, pred) = "valid"
  BY <1>1, <1>2, <1>3, <1>4, <1>5, <1>8 DEF Port!Verify, Port!VerifyJava, Port!Answer
<1>9. ASSUME l = "rust" PROVE Port!Verify(l, e, pred) = "valid"
  BY <1>1, <1>2, <1>3, <1>4, <1>5, <1>9 DEF Port!Verify, Port!VerifyRust, Port!Answer
<1>10. ASSUME l = "python" PROVE Port!Verify(l, e, pred) = "valid"
  BY <1>1, <1>2, <1>3, <1>4, <1>5, <1>10 DEF Port!Verify, Port!VerifyPython, Port!Answer
<1> QED
  BY <1>6, <1>7, <1>8, <1>9, <1>10 DEF Port!Languages, e, pred

(* Whatever an SDK returns is accepted by every SDK's verifier, alone and  *)
(* behind the receipt it names - except what Go builds on a file that does *)
(* not parse, which no SDK accepts (verify.ts, receipt.go, verify.rs,      *)
(* Receipts.java, verify.py).                                              *)
THEOREM LocalReceiptsVerify == LocalSpec => []ReturnedVerifies
<1>1. PortInv => ReturnedVerifies
  <2> SUFFICES ASSUME PortInv, NEW r \in returned, NEW l \in Port!Languages
               PROVE  IF r.prev = Empty
                      THEN /\ LangOf[r.by] = "go"
                           /\ Port!Verify(l, Ports!Envelope(r), NoPredecessor) # "valid"
                      ELSE /\ Port!Verify(l, Ports!Envelope(r), NoPredecessor) = "valid"
                           /\ \A q \in returned : r.prev = q.by =>
                                 Port!Verify(l, Ports!Envelope(r),
                                    [hash |-> q.by, height |-> <<"int", q.height>>]) = "valid"
    BY DEF ReturnedVerifies
  <2>1. ASSUME NEW d \in signed
        PROVE  /\ d.by \in Signers /\ d = Ports!Draft(d.by) /\ Loaded(d.by)
               /\ d.height = state[d.by].height + 1 /\ d.prev = state[d.by].hash
               /\ state[d.by].height \in Nat
    BY DEF PortInv, PortTypes, DraftsAreSigned, Loaded, Ports!Draft, Ports!ChainFile
  <2>2. returned \subseteq signed
    BY DEF PortInv, DraftsAreSigned
  <2>3. /\ r.height \in Int /\ r.height >= 1 /\ r.prev \in Signers \cup {Genesis, Empty}
        /\ StateOf(Ports!Name(r.by), state[r.by])
        /\ r.prev = Empty => LangOf[r.by] = "go"
    BY <2>1, <2>2 DEF PortInv, PortTypes, PortStatesAreHeads, Ports!ChainFile
  <2>4. CASE r.prev \in {Genesis, Empty}
    <3>1. r.height = 1
      <4>1. ASSUME NEW q \in signed, q.by = state[r.by].hash PROVE FALSE
        BY <2>1, <2>2, <2>4, <4>1, PortConstants
      <4>2. state[r.by].height = 0
        BY <2>3, <4>1 DEF StateOf
      <4> QED
        BY <4>2, <2>1, <2>2
    <3>2. \A q \in returned : r.prev # q.by
      BY <2>1, <2>2, <2>4, PortConstants
    <3>3. Port!Verify(l, Ports!Envelope(r), NoPredecessor) = "valid" <=> r.prev = Genesis
      BY <2>3, <3>1, ValidAlone
    <3> QED
      BY <2>3, <2>4, <3>2, <3>3, PortConstants
  <2>5. CASE r.prev \in Signers
    <3>1. r.prev \notin {Genesis, Empty}
      BY <2>5, PortConstants
    <3>2. PICK b \in signed : b.by = r.prev /\ b.height = state[r.by].height
      BY <2>1, <2>2, <2>3, <3>1 DEF StateOf
    <3>3. b.height = r.height - 1 /\ b.height >= 1 /\ b.height \in Int
      BY <2>1, <2>2, <3>2
    <3>4. Port!Verify(l, Ports!Envelope(r), NoPredecessor) = "valid"
      BY <2>3, <3>1, <3>3, ValidAlone
    <3>5. ASSUME NEW q \in returned, r.prev = q.by
          PROVE  Port!Verify(l, Ports!Envelope(r),
                             [hash |-> q.by, height |-> <<"int", q.height>>]) = "valid"
      <4>1. q = b
        BY <2>1, <2>2, <3>2, <3>5
      <4>2. q.by = r.prev /\ q.height = r.height - 1
        BY <4>1, <3>2, <3>3
      <4>3. Port!Verify(l, Ports!Envelope(r),
                        [hash |-> r.prev, height |-> <<"int", r.height - 1>>]) = "valid"
        BY <2>3, <2>5, ValidBehind
      <4> QED
        BY <4>2, <4>3
    <3> QED
      BY <3>1, <3>4, <3>5
  <2> QED
    BY <2>3, <2>4, <2>5
<1> QED
  BY <1>1, PortsStart, PortsKeep, PTL DEF LocalSpec, LocalInit
-----------------------------------------------------------------------------
(* The browser extension, with any number of handlers at once.             *)

(* The receipts the extension makes, and the awaits a message is at after  *)
(* its key is known, and after it saved the chain.                         *)
ExtReceipts == [id : Messages, height : Nat, prev : Messages \cup {Genesis},
                key : Messages \cup KeyCalls \cup {NoKey}]
KeyKnown    == {"load", "savechain", "readlist", "writelist"}
Appending   == {"readlist", "writelist"}
ExtPlaces   == {"new", "storekey", "done", "stopped"} \cup KeyKnown

ExtTypes ==
    /\ storedKey \in Extension!Handlers \cup {NoKey}
    /\ chain \in [height : Nat, hash : Messages \cup {Genesis}]
    /\ receipts \in Seq(ExtReceipts) /\ sent \in Seq(ExtReceipts)
    /\ worker \in [Extension!Handlers -> ExtPlaces]
    /\ priv \in [Extension!Handlers -> Extension!Handlers \cup {NoKey}]
    /\ prev \in [Messages -> [height : Nat, hash : Messages \cup {Genesis}]]
    /\ list \in [Messages -> Seq(ExtReceipts)]

(* Unless two handlers generate a key at once: until a key is stored nobody*)
(* has used one, and from then on it is the key of all that was signed or  *)
(* handed out.                                                             *)
KeyIsStored ==
    "key" \notin overlapped =>
        /\ \A m, n \in Extension!Handlers :
              worker[m] = "storekey" /\ worker[n] = "storekey" => m = n
        /\ \A m \in Extension!Handlers :
              /\ worker[m] = "storekey" => storedKey = NoKey /\ priv[m] = m
              /\ (worker[m] \in KeyKnown \/ (m \in KeyCalls /\ worker[m] = "done")) =>
                    storedKey # NoKey /\ priv[m] = storedKey
        /\ storedKey = NoKey => sent = <<>>
        /\ \A i \in 1..Len(sent) : sent[i].key = storedKey

(* Unless two handlers load the chain before either saves it: what a       *)
(* handler loaded is still what is stored, and every receipt has a position*)
(* of its own that is not above the stored one.                            *)
LoadedIsStored ==
    overlapped \cap {"chain", "clear"} = {} =>
        /\ \A m, n \in Messages : worker[m] = "savechain" /\ worker[n] = "savechain" => m = n
        /\ \A m \in Messages : worker[m] = "savechain" => prev[m] = chain
        /\ \A m \in Messages : worker[m] \in Appending =>
              /\ prev[m].height + 1 <= chain.height
              /\ \A n \in Messages : n # m /\ worker[n] \in Appending =>
                                         prev[n].height # prev[m].height
              /\ \A i \in 1..Len(sent) : sent[i].height # prev[m].height + 1
        /\ \A i \in 1..Len(sent) : sent[i].height <= chain.height
        /\ Extension!OnePerPosition

(* Unless two handlers read the list before either writes it: what a       *)
(* handler read is still what is stored, the newest of what was returned.  *)
ListIsReturned ==
    overlapped \cap {"list", "clear"} = {} =>
        /\ \A m, n \in Messages : worker[m] = "writelist" /\ worker[n] = "writelist" => m = n
        /\ \A m \in Messages : worker[m] = "writelist" => list[m] = receipts
        /\ Extension!ReturnedAreKept

(* Unless a handler overtakes another that has saved the chain before it:  *)
(* receipts are returned along the chain.                                  *)
OneAppends ==
    /\ "list" \in overlapped => "append" \in overlapped
    /\ "append" \notin overlapped =>
          \A m, n \in Extension!Handlers :
              worker[m] \in Appending /\ worker[n] \in Appending => m = n

SentFollowsChain ==
    overlapped \cap {"chain", "append", "clear"} = {} =>
        /\ \A m \in Messages : worker[m] \in Appending =>
              \A i \in 1..Len(sent) : sent[i].height <= prev[m].height
        /\ \A i, j \in 1..Len(sent) : i < j => sent[i].height < sent[j].height

ExtInv == /\ ExtTypes /\ KeyIsStored /\ LoadedIsStored /\ ListIsReturned
          /\ OneAppends /\ SentFollowsChain
-----------------------------------------------------------------------------
LEMMA ExtConstants ==
    /\ Cap \in Nat \ {0} /\ NoKey \notin Extension!Handlers
    /\ Messages \subseteq Extension!Handlers
    /\ KeyCalls \subseteq Extension!Handlers
    /\ Extension!Handlers = Messages \cup KeyCalls
BY LocalAssumption DEF Extension!ExtensionAssumption, Extension!Handlers

LEMMA ExtStart == Extension!Init => ExtInv
<1> SUFFICES ASSUME Extension!Init PROVE ExtInv
  OBVIOUS
<1>1. sent = <<>> /\ receipts = <<>> /\ chain = [height |-> 0, hash |-> Genesis] /\ overlapped = {}
  BY DEF Extension!Init, Extension!GenesisChain
<1>2. \A m \in Extension!Handlers : worker[m] = "new"
  BY DEF Extension!Init
<1>3. ExtTypes
  <2>1. receipts \in Seq(ExtReceipts) /\ sent \in Seq(ExtReceipts) /\ list \in [Messages -> Seq(ExtReceipts)]
    BY <1>1 DEF Extension!Init
  <2>2. /\ chain \in [height : Nat, hash : Messages \cup {Genesis}]
        /\ prev \in [Messages -> [height : Nat, hash : Messages \cup {Genesis}]]
    BY <1>1 DEF Extension!Init, Extension!GenesisChain
  <2>3. /\ worker \in [Extension!Handlers -> ExtPlaces]
        /\ priv \in [Extension!Handlers -> Extension!Handlers \cup {NoKey}]
        /\ storedKey \in Extension!Handlers \cup {NoKey}
    BY DEF Extension!Init, ExtPlaces
  <2> QED
    BY <2>1, <2>2, <2>3 DEF ExtTypes
<1>4. KeyIsStored
  BY <1>1, <1>2, ExtConstants DEF KeyIsStored, KeyKnown
<1>5. LoadedIsStored
  BY <1>1, <1>2, ExtConstants DEF LoadedIsStored, Appending, Extension!OnePerPosition
<1>6. ListIsReturned
  BY <1>1, <1>2, ExtConstants DEF ListIsReturned, Extension!ReturnedAreKept
<1>7. OneAppends
  BY <1>1, <1>2, ExtConstants DEF OneAppends, Appending
<1>8. SentFollowsChain
  BY <1>1, <1>2, ExtConstants DEF SentFollowsChain, Appending
<1> QED
  BY <1>3, <1>4, <1>5, <1>6, <1>7, <1>8 DEF ExtInv

(* A step of m's leaves the other handlers where they are ...              *)
LEMMA OthersRest ==
    ASSUME ExtTypes, NEW m \in Extension!Handlers, NEW to \in ExtPlaces,
           worker' = [worker EXCEPT ![m] = to]
    PROVE  /\ worker' \in [Extension!Handlers -> ExtPlaces] /\ worker'[m] = to
           /\ \A x \in Extension!Handlers : x # m => worker'[x] = worker[x]
BY DEF ExtTypes

(* ... and notes it when it enters a window that another one is in.        *)
LEMMA Entering ==
    ASSUME NEW m \in Extension!Handlers, NEW window, NEW places,
           Extension!Enters(m, window, places)
    PROVE  /\ overlapped \subseteq overlapped' /\ overlapped' \subseteq overlapped \cup {window}
           /\ window \notin overlapped' =>
                 \A x \in Extension!Handlers : x # m => worker[x] \notin places
BY DEF Extension!Enters, Extension!Handlers
-----------------------------------------------------------------------------
(* Reading the key, or generating and storing one.                         *)
LEMMA KeyKeeps ==
    ASSUME ExtInv, NEW m \in Extension!Handlers, Extension!EnsureKey(m) \/ Extension!StoreKey(m)
    PROVE  ExtInv'
<1>1. UNCHANGED <<chain, receipts, prev, list, sent>>
  BY DEF Extension!EnsureKey, Extension!StoreKey
<1>2. Extension!WithKey(m) \in {"done", "load"}
  BY DEF Extension!WithKey
<1>3. PICK to \in {"done", "load", "storekey"} : worker' = [worker EXCEPT ![m] = to]
  BY <1>2 DEF Extension!EnsureKey, Extension!StoreKey, Extension!Goes
<1>4. /\ worker' \in [Extension!Handlers -> ExtPlaces] /\ worker'[m] = to
      /\ \A x \in Extension!Handlers : x # m => worker'[x] = worker[x]
  <2>1. to \in ExtPlaces
    BY DEF ExtPlaces, KeyKnown
  <2> QED
    BY <1>3, <2>1, OthersRest DEF ExtInv
<1>5. /\ overlapped \subseteq overlapped' /\ overlapped' \subseteq overlapped \cup {"key"}
      /\ to = "storekey" /\ "key" \notin overlapped' =>
            \A x \in Extension!Handlers : x # m => worker[x] # "storekey"
  <2>1. CASE Extension!EnsureKey(m) /\ storedKey = NoKey
    <3>1. Extension!Enters(m, "key", {"storekey"})
      BY <2>1 DEF Extension!EnsureKey
    <3> QED
      BY <3>1, Entering
  <2>2. CASE Extension!EnsureKey(m) /\ storedKey # NoKey
    <3>1. overlapped' = overlapped /\ worker' = [worker EXCEPT ![m] = Extension!WithKey(m)]
      BY <2>2 DEF Extension!EnsureKey, Extension!Goes
    <3>2. to # "storekey"
      BY <3>1, <1>2, <1>4 DEF ExtInv, ExtTypes
    <3> QED
      BY <3>1, <3>2
  <2>3. CASE Extension!StoreKey(m)
    <3>1. overlapped' = overlapped /\ worker' = [worker EXCEPT ![m] = Extension!WithKey(m)]
      BY <2>3 DEF Extension!StoreKey, Extension!Goes
    <3>2. to # "storekey"
      BY <3>1, <1>2, <1>4 DEF ExtInv, ExtTypes
    <3> QED
      BY <3>1, <3>2
  <2> QED
    BY <2>1, <2>2, <2>3
<1>6. /\ storedKey' \in Extension!Handlers \cup {NoKey}
      /\ priv' \in [Extension!Handlers -> Extension!Handlers \cup {NoKey}]
      /\ \A x \in Extension!Handlers : x # m => priv'[x] = priv[x]
      /\ to = "storekey" => storedKey' = NoKey /\ storedKey = NoKey /\ priv'[m] = m
      /\ to # "storekey" /\ storedKey # NoKey /\ worker[m] # "storekey" =>
            storedKey' = storedKey /\ priv'[m] = storedKey'
      /\ worker[m] = "storekey" => to # "storekey" /\ storedKey' = priv[m] /\ priv'[m] = priv[m]
      /\ to # "storekey" => storedKey # NoKey \/ worker[m] = "storekey"
  <2>1. CASE Extension!EnsureKey(m)
    <3>1. storedKey' = storedKey /\ worker[m] = "new"
      BY <2>1 DEF Extension!EnsureKey
    <3>2. CASE storedKey # NoKey
      <4>1. priv' = [priv EXCEPT ![m] = storedKey] /\ worker' = [worker EXCEPT ![m] = Extension!WithKey(m)]
        BY <2>1, <3>2 DEF Extension!EnsureKey, Extension!Goes
      <4>2. to \in {"done", "load"}
        BY <4>1, <1>2, <1>4 DEF ExtInv, ExtTypes
      <4> QED
        BY <3>1, <3>2, <4>1, <4>2 DEF ExtInv, ExtTypes
    <3>3. CASE storedKey = NoKey
      <4>1. priv' = [priv EXCEPT ![m] = m] /\ worker' = [worker EXCEPT ![m] = "storekey"]
        BY <2>1, <3>3 DEF Extension!EnsureKey, Extension!Goes
      <4>2. to = "storekey"
        BY <4>1, <1>4 DEF ExtInv, ExtTypes
      <4> QED
        BY <3>1, <3>3, <4>1, <4>2 DEF ExtInv, ExtTypes
    <3> QED
      BY <3>2, <3>3
  <2>2. CASE Extension!StoreKey(m)
    <3>1. /\ worker[m] = "storekey" /\ storedKey' = priv[m] /\ priv' = priv
          /\ worker' = [worker EXCEPT ![m] = Extension!WithKey(m)]
      BY <2>2 DEF Extension!StoreKey, Extension!Goes
    <3>2. to \in {"done", "load"}
      BY <3>1, <1>2, <1>4 DEF ExtInv, ExtTypes
    <3> QED
      BY <3>1, <3>2 DEF ExtInv, ExtTypes
  <2> QED
    BY <2>1, <2>2
<1>7. ExtTypes'
  BY <1>1, <1>4, <1>6 DEF ExtInv, ExtTypes, Extension!Handlers
<1>8. KeyIsStored'
  <2> SUFFICES ASSUME "key" \notin overlapped' PROVE KeyIsStored'
    BY DEF KeyIsStored
  <2>1. "key" \notin overlapped
    BY <1>5
  <2>2. ASSUME NEW x \in Extension!Handlers, NEW y \in Extension!Handlers,
               worker'[x] = "storekey", worker'[y] = "storekey"
        PROVE  x = y
    BY <1>4, <1>5, <2>1, <2>2 DEF ExtInv, KeyIsStored
  <2>3. CASE worker[m] = "storekey"
    <3>1. /\ storedKey = NoKey /\ priv[m] = m /\ m # NoKey
          /\ \A x \in Extension!Handlers : x # m =>
                worker[x] \notin KeyKnown \cup {"storekey"} /\ ~(x \in KeyCalls /\ worker[x] = "done")
      BY <2>1, <2>3, ExtConstants DEF ExtInv, KeyIsStored
    <3>2. storedKey' # NoKey /\ priv'[m] = storedKey' /\ to # "storekey" /\ sent = <<>>
      BY <1>6, <2>1, <2>3, <3>1 DEF ExtInv, KeyIsStored
    <3>3. ASSUME NEW x \in Extension!Handlers
          PROVE  /\ worker'[x] = "storekey" => storedKey' = NoKey /\ priv'[x] = x
                 /\ (worker'[x] \in KeyKnown \/ (x \in KeyCalls /\ worker'[x] = "done")) =>
                       storedKey' # NoKey /\ priv'[x] = storedKey'
      BY <1>4, <3>1, <3>2
    <3> QED
      BY <1>1, <2>2, <3>2, <3>3 DEF KeyIsStored, Extension!Handlers
  <2>4. CASE worker[m] # "storekey"
    <3>1. storedKey' = storedKey
      BY <1>6, <2>4
    <3>2. ASSUME NEW x \in Extension!Handlers
          PROVE  /\ worker'[x] = "storekey" => storedKey' = NoKey /\ priv'[x] = x
                 /\ (worker'[x] \in KeyKnown \/ (x \in KeyCalls /\ worker'[x] = "done")) =>
                       storedKey' # NoKey /\ priv'[x] = storedKey'
      <4>1. CASE x = m
        BY <4>1, <1>4, <1>6, <2>4, <3>1 DEF KeyKnown
      <4>2. CASE x # m
        BY <4>2, <1>4, <1>6, <2>1, <3>1 DEF ExtInv, KeyIsStored
      <4> QED
        BY <4>1, <4>2
    <3> QED
      BY <1>1, <2>1, <2>2, <3>1, <3>2 DEF ExtInv, KeyIsStored, Extension!Handlers
  <2> QED
    BY <2>3, <2>4
<1>9. /\ \A x \in Extension!Handlers : worker'[x] \in {"savechain"} \cup Appending => worker'[x] = worker[x]
      /\ \A w \in {"chain", "clear", "list", "append"} : w \in overlapped' <=> w \in overlapped
  BY <1>4, <1>5 DEF Appending
<1>10. LoadedIsStored'
  BY <1>1, <1>9, ExtConstants DEF ExtInv, LoadedIsStored, Extension!OnePerPosition, Appending
<1>11. ListIsReturned'
  BY <1>1, <1>9, ExtConstants DEF ExtInv, ListIsReturned, Extension!ReturnedAreKept, Appending
<1>12. OneAppends'
  BY <1>1, <1>9 DEF ExtInv, OneAppends, Appending, Extension!Handlers
<1>13. SentFollowsChain'
  BY <1>1, <1>9, ExtConstants DEF ExtInv, SentFollowsChain, Appending
<1> QED
  BY <1>7, <1>8, <1>10, <1>11, <1>12, <1>13 DEF ExtInv

(* A list with a new first element, cut after n.                           *)
LEMMA PushedFirst ==
    ASSUME NEW S, NEW x \in S, NEW s \in Seq(S), NEW n \in 1..(Len(s) + 1)
    PROVE  LET t == SubSeq(<<x>> \o s, 1, n)
           IN  /\ t \in Seq(S) /\ Len(t) = n /\ t[1] = x
               /\ \A i \in 2..n : t[i] = s[i - 1]
<1> DEFINE u == <<x>> \o s
<1>1. u \in Seq(S) /\ Len(u) = Len(s) + 1
  OBVIOUS
<1>2. u[1] = x /\ \A i \in 2..Len(u) : u[i] = s[i - 1]
  OBVIOUS
<1> HIDE DEF u
<1>3. /\ SubSeq(u, 1, n) \in Seq(S) /\ Len(SubSeq(u, 1, n)) = n
      /\ \A i \in 1..n : SubSeq(u, 1, n)[i] = u[i]
  BY <1>1
<1> QED
  BY <1>1, <1>2, <1>3 DEF u

(* Loading the chain.                                                      *)
LEMMA LoadChainKeeps ==
    ASSUME ExtInv, NEW m \in Messages, Extension!LoadChain(m)
    PROVE  ExtInv'
<1>1. /\ UNCHANGED <<storedKey, chain, receipts, priv, list, sent>> /\ worker[m] = "load"
      /\ worker' = [worker EXCEPT ![m] = "savechain"] /\ prev' = [prev EXCEPT ![m] = chain]
      /\ Extension!Enters(m, "chain", {"savechain"}) /\ m \in Extension!Handlers
  BY ExtConstants DEF Extension!LoadChain, Extension!Goes
<1>2. /\ worker' \in [Extension!Handlers -> ExtPlaces] /\ worker'[m] = "savechain"
      /\ \A x \in Extension!Handlers : x # m => worker'[x] = worker[x]
      /\ prev'[m] = chain /\ \A x \in Messages : x # m => prev'[x] = prev[x]
  <2>1. "savechain" \in ExtPlaces
    BY DEF ExtPlaces, KeyKnown
  <2> QED
    BY <1>1, <2>1, OthersRest DEF ExtInv, ExtTypes
<1>3. /\ overlapped \subseteq overlapped' /\ overlapped' \subseteq overlapped \cup {"chain"}
      /\ "chain" \notin overlapped' => \A x \in Extension!Handlers : x # m => worker[x] # "savechain"
  BY <1>1, Entering
<1>4. \A x \in Extension!Handlers : /\ worker'[x] \in Appending => x # m /\ worker[x] \in Appending
                                    /\ worker'[x] = "writelist" => worker[x] = "writelist"
  BY <1>1, <1>2 DEF Appending
<1>5. ExtTypes'
  BY <1>1, <1>2 DEF ExtInv, ExtTypes, Extension!Handlers
<1>6. KeyIsStored'
  BY <1>1, <1>2, <1>3 DEF ExtInv, KeyIsStored, KeyKnown, Extension!Handlers
<1>7. LoadedIsStored'
  <2> SUFFICES ASSUME overlapped' \cap {"chain", "clear"} = {} PROVE LoadedIsStored'
    BY DEF LoadedIsStored
  <2>1. overlapped \cap {"chain", "clear"} = {}
    BY <1>3
  <2>2. \A x \in Messages : worker'[x] = "savechain" => x = m
    BY <1>2, <1>3, ExtConstants
  <2>3. ASSUME NEW x \in Messages, worker'[x] \in Appending
        PROVE  /\ prev'[x].height + 1 <= chain.height
               /\ \A n \in Messages : n # x /\ worker'[n] \in Appending =>
                                          prev'[n].height # prev'[x].height
               /\ \A i \in 1..Len(sent) : sent[i].height # prev'[x].height + 1
    BY <1>2, <1>4, <2>1, <2>3, ExtConstants DEF ExtInv, LoadedIsStored
  <2>4. (\A i \in 1..Len(sent) : sent[i].height <= chain.height)' /\ Extension!OnePerPosition'
    BY <1>1, <2>1 DEF ExtInv, LoadedIsStored, Extension!OnePerPosition
  <2> QED
    BY <1>1, <1>2, <2>2, <2>3, <2>4 DEF LoadedIsStored
<1>8. ListIsReturned'
  BY <1>1, <1>3, <1>4, ExtConstants DEF ExtInv, ListIsReturned, Extension!ReturnedAreKept
<1>9. OneAppends'
  BY <1>3, <1>4 DEF ExtInv, OneAppends, Extension!Handlers
<1>10. SentFollowsChain'
  <2>1. overlapped' \cap {"chain", "append", "clear"} = {} => overlapped \cap {"chain", "append", "clear"} = {}
    BY <1>3
  <2> QED
    BY <1>1, <1>2, <1>4, <2>1, ExtConstants DEF ExtInv, SentFollowsChain
<1> QED
  BY <1>5, <1>6, <1>7, <1>8, <1>9, <1>10 DEF ExtInv

(* Saving the chain.                                                       *)
LEMMA SaveChainKeeps ==
    ASSUME ExtInv, NEW m \in Messages, Extension!SaveChain(m)
    PROVE  ExtInv'
<1>1. /\ UNCHANGED <<storedKey, receipts, priv, prev, list, sent>> /\ worker[m] = "savechain"
      /\ worker' = [worker EXCEPT ![m] = "readlist"]
      /\ chain' = [height |-> prev[m].height + 1, hash |-> m]
      /\ Extension!Enters(m, "append", {"readlist", "writelist"}) /\ m \in Extension!Handlers
  BY ExtConstants DEF Extension!SaveChain, Extension!Goes
<1>2. /\ worker' \in [Extension!Handlers -> ExtPlaces] /\ worker'[m] = "readlist"
      /\ \A x \in Extension!Handlers : x # m => worker'[x] = worker[x]
  <2>1. "readlist" \in ExtPlaces
    BY DEF ExtPlaces, KeyKnown
  <2> QED
    BY <1>1, <2>1, OthersRest DEF ExtInv
<1>3. /\ overlapped \subseteq overlapped' /\ overlapped' \subseteq overlapped \cup {"append"}
      /\ "append" \notin overlapped' =>
            \A x \in Extension!Handlers : x # m => worker[x] \notin Appending
  BY <1>1, Entering DEF Appending
<1>4. \A x \in Extension!Handlers : /\ worker'[x] \in Appending /\ x # m => worker[x] \in Appending
                                    /\ worker'[x] = "writelist" => worker[x] = "writelist"
                                    /\ worker'[x] = "savechain" => worker[x] = "savechain" /\ x # m
  BY <1>1, <1>2
<1>5. /\ prev[m].height \in Nat /\ chain'.height = prev[m].height + 1
      /\ \A x \in Messages : prev[x].height \in Nat
      /\ \A i \in 1..Len(sent) : sent[i].height \in Nat
      /\ chain' \in [height : Nat, hash : Messages \cup {Genesis}]
  <2>1. \A x \in Messages : prev[x].height \in Nat
    BY DEF ExtInv, ExtTypes
  <2>2. \A i \in 1..Len(sent) : sent[i] \in ExtReceipts
    BY DEF ExtInv, ExtTypes
  <2> QED
    BY <1>1, <2>1, <2>2 DEF ExtReceipts
<1>6. ExtTypes'
  BY <1>1, <1>2, <1>5 DEF ExtInv, ExtTypes, Extension!Handlers
<1>7. KeyIsStored'
  BY <1>1, <1>2, <1>3 DEF ExtInv, KeyIsStored, KeyKnown, Extension!Handlers
<1>8. LoadedIsStored'
  <2> SUFFICES ASSUME overlapped' \cap {"chain", "clear"} = {} PROVE LoadedIsStored'
    BY DEF LoadedIsStored
  <2>1. overlapped \cap {"chain", "clear"} = {}
    BY <1>3
  <2>2. /\ \A x \in Messages : worker'[x] # "savechain"
        /\ prev[m] = chain /\ chain'.height = chain.height + 1 /\ chain.height \in Nat
    BY <1>1, <1>4, <1>5, <2>1, ExtConstants DEF ExtInv, LoadedIsStored
  <2>3. /\ \A i \in 1..Len(sent) : sent[i].height <= chain.height
        /\ \A x \in Messages : worker'[x] \in Appending /\ x # m => prev[x].height + 1 <= chain.height
    BY <1>4, <2>1, ExtConstants DEF ExtInv, LoadedIsStored
  <2>4. ASSUME NEW x \in Messages, worker'[x] \in Appending
        PROVE  /\ prev[x].height + 1 <= chain'.height
               /\ \A n \in Messages : n # x /\ worker'[n] \in Appending =>
                                          prev[n].height # prev[x].height
               /\ \A i \in 1..Len(sent) : sent[i].height # prev[x].height + 1
    <3>1. CASE x = m
      <4>1. ASSUME NEW n \in Messages, n # x, worker'[n] \in Appending PROVE prev[n].height # prev[x].height
        BY <4>1, <3>1, <1>4, <1>5, <2>2, <2>3
      <4> QED
        BY <4>1, <3>1, <1>5, <2>2, <2>3
    <3>2. CASE x # m
      <4>1. /\ worker[x] \in Appending /\ prev[x].height + 1 <= chain.height
            /\ \A i \in 1..Len(sent) : sent[i].height # prev[x].height + 1
            /\ \A n \in Messages : n # x /\ worker[n] \in Appending => prev[n].height # prev[x].height
        BY <1>4, <2>1, <2>4, <3>2, ExtConstants DEF ExtInv, LoadedIsStored
      <4>2. prev[m].height # prev[x].height
        BY <4>1, <1>5, <2>2
      <4>3. \A n \in Messages : n # x /\ worker'[n] \in Appending => prev[n].height # prev[x].height
        BY <4>1, <4>2, <1>4, ExtConstants
      <4> QED
        BY <4>1, <4>3, <1>5, <2>2
    <3> QED
      BY <3>1, <3>2
  <2>5. \A i \in 1..Len(sent) : sent[i].height <= chain'.height
    BY <1>5, <2>2, <2>3
  <2>6. Extension!OnePerPosition'
    BY <1>1, <2>1 DEF ExtInv, LoadedIsStored, Extension!OnePerPosition
  <2> QED
    BY <1>1, <2>2, <2>4, <2>5, <2>6 DEF LoadedIsStored
<1>9. ListIsReturned'
  BY <1>1, <1>3, <1>4, ExtConstants DEF ExtInv, ListIsReturned, Extension!ReturnedAreKept
<1>10. OneAppends'
  <2>1. "list" \in overlapped' => "append" \in overlapped'
    BY <1>3 DEF ExtInv, OneAppends
  <2>2. ASSUME "append" \notin overlapped', NEW x \in Extension!Handlers, worker'[x] \in Appending PROVE x = m
    BY <1>3, <1>4, <2>2
  <2> QED
    BY <2>1, <2>2 DEF OneAppends, Extension!Handlers
<1>11. SentFollowsChain'
  <2> SUFFICES ASSUME overlapped' \cap {"chain", "append", "clear"} = {} PROVE SentFollowsChain'
    BY DEF SentFollowsChain
  <2>1. overlapped \cap {"chain", "append", "clear"} = {} /\ overlapped \cap {"chain", "clear"} = {}
    BY <1>3
  <2>2. prev[m] = chain /\ \A i \in 1..Len(sent) : sent[i].height <= chain.height
    BY <1>1, <2>1 DEF ExtInv, LoadedIsStored
  <2>3. \A x \in Messages : worker'[x] \in Appending => x = m
    BY <1>3, <1>4, ExtConstants
  <2> QED
    BY <1>1, <2>1, <2>2, <2>3 DEF ExtInv, SentFollowsChain
<1> QED
  BY <1>6, <1>7, <1>8, <1>9, <1>10, <1>11 DEF ExtInv

(* Reading the list.                                                       *)
LEMMA ReadListKeeps ==
    ASSUME ExtInv, NEW m \in Messages, Extension!ReadList(m)
    PROVE  ExtInv'
<1>1. /\ UNCHANGED <<storedKey, chain, receipts, priv, prev, sent>> /\ worker[m] = "readlist"
      /\ worker' = [worker EXCEPT ![m] = "writelist"] /\ list' = [list EXCEPT ![m] = receipts]
      /\ Extension!Enters(m, "list", {"writelist"}) /\ m \in Extension!Handlers
  BY ExtConstants DEF Extension!ReadList, Extension!Goes
<1>2. /\ worker' \in [Extension!Handlers -> ExtPlaces] /\ worker'[m] = "writelist"
      /\ \A x \in Extension!Handlers : x # m => worker'[x] = worker[x]
      /\ list'[m] = receipts
  <2>1. "writelist" \in ExtPlaces
    BY DEF ExtPlaces, KeyKnown
  <2> QED
    BY <1>1, <2>1, OthersRest DEF ExtInv, ExtTypes
<1>3. /\ overlapped \subseteq overlapped' /\ overlapped' \subseteq overlapped \cup {"list"}
      /\ "list" \notin overlapped' => \A x \in Extension!Handlers : x # m => worker[x] # "writelist"
      /\ "list" \in overlapped' =>
            "list" \in overlapped \/ \E x \in Extension!Handlers \ {m} : worker[x] = "writelist"
  BY <1>1, Entering DEF Extension!Enters, Extension!Handlers
<1>4. /\ \A x \in Extension!Handlers : /\ worker'[x] \in Appending <=> worker[x] \in Appending
                                       /\ worker'[x] = "savechain" <=> worker[x] = "savechain"
      /\ worker[m] \in Appending
  BY <1>1, <1>2 DEF Appending
<1>5. ExtTypes'
  BY <1>1, <1>2 DEF ExtInv, ExtTypes, Extension!Handlers
<1>6. KeyIsStored'
  BY <1>1, <1>2, <1>3 DEF ExtInv, KeyIsStored, KeyKnown, Extension!Handlers
<1>7. LoadedIsStored'
  <2>1. overlapped' \cap {"chain", "clear"} = overlapped \cap {"chain", "clear"}
    BY <1>3
  <2> QED
    BY <1>1, <1>4, <2>1, ExtConstants DEF ExtInv, LoadedIsStored, Extension!OnePerPosition
<1>8. ListIsReturned'
  <2> SUFFICES ASSUME overlapped' \cap {"list", "clear"} = {} PROVE ListIsReturned'
    BY DEF ListIsReturned
  <2>1. overlapped \cap {"list", "clear"} = {} /\ "list" \notin overlapped'
    BY <1>3
  <2>2. \A x \in Messages : worker'[x] = "writelist" => x = m
    BY <1>2, <1>3, <2>1, ExtConstants
  <2>3. Extension!ReturnedAreKept'
    BY <1>1, <2>1 DEF ExtInv, ListIsReturned, Extension!ReturnedAreKept
  <2> QED
    BY <1>1, <1>2, <2>2, <2>3 DEF ListIsReturned
<1>9. OneAppends'
  <2>1. ASSUME NEW x \in Extension!Handlers, x # m, worker[x] = "writelist" PROVE "append" \in overlapped
    BY <1>1, <2>1 DEF ExtInv, OneAppends, Appending
  <2>2. "append" \in overlapped' <=> "append" \in overlapped
    BY <1>3
  <2>3. "list" \in overlapped' => "append" \in overlapped'
    BY <1>3, <2>1, <2>2 DEF ExtInv, OneAppends
  <2> QED
    BY <1>4, <2>2, <2>3 DEF ExtInv, OneAppends, Extension!Handlers
<1>10. SentFollowsChain'
  <2>1. overlapped' \cap {"chain", "append", "clear"} = overlapped \cap {"chain", "append", "clear"}
    BY <1>3
  <2> QED
    BY <1>1, <1>4, <2>1, ExtConstants DEF ExtInv, SentFollowsChain
<1> QED
  BY <1>5, <1>6, <1>7, <1>8, <1>9, <1>10 DEF ExtInv

(* Writing the list; the receipt is returned.                              *)
LEMMA WriteListKeeps ==
    ASSUME ExtInv, NEW m \in Messages, Extension!WriteList(m)
    PROVE  ExtInv'
<1> DEFINE new == Extension!Receipt(m)
<1>1. /\ UNCHANGED <<storedKey, chain, priv, prev, list, overlapped>> /\ worker[m] = "writelist"
      /\ worker' = [worker EXCEPT ![m] = "done"] /\ m \in Extension!Handlers
      /\ sent' = Append(sent, new) /\ receipts' = Extension!Unshifted(m)
  BY ExtConstants DEF Extension!WriteList, Extension!Goes
<1>2. /\ worker' \in [Extension!Handlers -> ExtPlaces] /\ worker'[m] = "done"
      /\ \A x \in Extension!Handlers : x # m => worker'[x] = worker[x]
  <2>1. "done" \in ExtPlaces
    BY DEF ExtPlaces
  <2> QED
    BY <1>1, <2>1, OthersRest DEF ExtInv
<1>3. new = [id |-> m, height |-> prev[m].height + 1, prev |-> prev[m].hash, key |-> priv[m]]
  BY DEF Extension!Receipt
<1>4. /\ new \in ExtReceipts /\ new.height = prev[m].height + 1 /\ new.key = priv[m]
      /\ prev[m].height \in Nat
  <2>1. /\ prev[m].height \in Nat /\ prev[m].hash \in Messages \cup {Genesis}
        /\ priv[m] \in Messages \cup KeyCalls \cup {NoKey}
    BY <1>1, ExtConstants DEF ExtInv, ExtTypes
  <2> HIDE DEF new
  <2> QED
    BY <1>3, <2>1 DEF ExtReceipts
<1> HIDE DEF new
<1>5. /\ sent \in Seq(ExtReceipts) /\ sent' \in Seq(ExtReceipts) /\ Len(sent') = Len(sent) + 1
      /\ sent'[Len(sent) + 1] = new /\ \A i \in 1..Len(sent) : sent'[i] = sent[i]
      /\ Len(sent) \in Nat
  BY <1>1, <1>4 DEF ExtInv, ExtTypes
<1>6. \A i \in 1..Len(sent) : sent[i].height \in Nat
  <2>1. \A i \in 1..Len(sent) : sent[i] \in ExtReceipts
    BY <1>5
  <2> QED
    BY <2>1 DEF ExtReceipts
<1>7. /\ list[m] \in Seq(ExtReceipts) /\ Len(list[m]) \in Nat /\ Cap \in Nat \ {0}
  BY ExtConstants DEF ExtInv, ExtTypes
<1> DEFINE n == IF Len(list[m]) + 1 > Cap THEN Cap ELSE Len(list[m]) + 1
<1>8. /\ n \in 1..(Len(list[m]) + 1) /\ n \in Nat
      /\ n = IF Len(list[m]) + 1 > Cap THEN Cap ELSE Len(list[m]) + 1
      /\ receipts' = SubSeq(<<new>> \o list[m], 1, n)
  <2>1. n \in 1..(Len(list[m]) + 1) /\ n \in Nat
    BY <1>7
  <2>2. receipts' = SubSeq(<<new>> \o list[m], 1, n)
    BY <1>1 DEF Extension!Unshifted, new
  <2> QED
    BY <2>1, <2>2
<1> HIDE DEF n
<1>9. /\ receipts' \in Seq(ExtReceipts) /\ Len(receipts') = n /\ receipts'[1] = new
      /\ \A i \in 2..n : receipts'[i] = list[m][i - 1]
  BY <1>4, <1>7, <1>8, PushedFirst
<1>10. \A x \in Extension!Handlers : /\ worker'[x] \in {"savechain"} \cup Appending \cup KeyKnown =>
                                            x # m /\ worker'[x] = worker[x]
  BY <1>2 DEF Appending, KeyKnown
<1>11. ExtTypes'
  BY <1>1, <1>2, <1>5, <1>9 DEF ExtInv, ExtTypes, Extension!Handlers
<1>12. KeyIsStored'
  <2> SUFFICES ASSUME "key" \notin overlapped PROVE KeyIsStored'
    BY <1>1 DEF KeyIsStored
  <2>1. priv[m] = storedKey /\ storedKey # NoKey
    BY <1>1 DEF ExtInv, KeyIsStored, KeyKnown
  <2>2. \A i \in 1..Len(sent) : sent[i].key = storedKey
    BY DEF ExtInv, KeyIsStored
  <2>3. \A i \in 1..Len(sent') : i = Len(sent) + 1 \/ i \in 1..Len(sent)
    BY <1>5
  <2>4. \A i \in 1..Len(sent') : sent'[i].key = storedKey
    BY <1>4, <1>5, <2>1, <2>2, <2>3
  <2>5. ASSUME NEW x \in Extension!Handlers
        PROVE  /\ worker'[x] = "storekey" => storedKey = NoKey /\ priv[x] = x
               /\ (worker'[x] \in KeyKnown \/ (x \in KeyCalls /\ worker'[x] = "done")) =>
                     storedKey # NoKey /\ priv[x] = storedKey
    BY <1>2, <2>1 DEF ExtInv, KeyIsStored, KeyKnown
  <2>6. \A x, y \in Extension!Handlers :
           worker'[x] = "storekey" /\ worker'[y] = "storekey" => x = y
    BY <1>2 DEF ExtInv, KeyIsStored
  <2> QED
    BY <1>1, <2>1, <2>4, <2>5, <2>6 DEF KeyIsStored, Extension!Handlers
<1>13. LoadedIsStored'
  <2> SUFFICES ASSUME overlapped \cap {"chain", "clear"} = {} PROVE LoadedIsStored'
    BY <1>1 DEF LoadedIsStored
  <2>1. /\ worker[m] \in Appending /\ prev[m].height + 1 <= chain.height
        /\ \A i \in 1..Len(sent) : sent[i].height # new.height /\ sent[i].height <= chain.height
        /\ \A x \in Messages : x # m /\ worker[x] \in Appending => prev[x].height # prev[m].height
    BY <1>1, <1>4 DEF ExtInv, LoadedIsStored, Appending
  <2>2. \A i \in 1..Len(sent') : i = Len(sent) + 1 \/ i \in 1..Len(sent)
    BY <1>5
  <2>3. \A i \in 1..Len(sent') : sent'[i].height <= chain.height
    BY <1>4, <1>5, <2>1, <2>2
  <2>4. \A i, j \in 1..Len(sent) : sent[i].height = sent[j].height => i = j
    BY DEF ExtInv, LoadedIsStored, Extension!OnePerPosition
  <2>5. \A i, j \in 1..Len(sent') : sent'[i].height = sent'[j].height => i = j
    BY <1>5, <2>1, <2>2, <2>4
  <2>6. ASSUME NEW x \in Messages, worker'[x] \in Appending
        PROVE  /\ prev[x].height + 1 <= chain.height
               /\ \A n1 \in Messages : n1 # x /\ worker'[n1] \in Appending =>
                                           prev[n1].height # prev[x].height
               /\ \A i \in 1..Len(sent') : sent'[i].height # prev[x].height + 1
    <3>1. x # m /\ worker[x] \in Appending /\ prev[x].height \in Nat
      BY <1>10, <2>6, ExtConstants DEF ExtInv, ExtTypes
    <3>2. /\ prev[x].height + 1 <= chain.height
          /\ \A n1 \in Messages : n1 # x /\ worker[n1] \in Appending =>
                                      prev[n1].height # prev[x].height
          /\ \A i \in 1..Len(sent) : sent[i].height # prev[x].height + 1
      BY <3>1 DEF ExtInv, LoadedIsStored
    <3>3. new.height # prev[x].height + 1
      BY <1>4, <2>1, <3>1
    <3> QED
      BY <1>5, <1>10, <2>2, <3>2, <3>3, ExtConstants
  <2>7. /\ \A x, y \in Messages : worker'[x] = "savechain" /\ worker'[y] = "savechain" => x = y
        /\ \A x \in Messages : worker'[x] = "savechain" => prev[x] = chain
    BY <1>10, ExtConstants DEF ExtInv, LoadedIsStored
  <2> QED
    BY <1>1, <2>3, <2>5, <2>6, <2>7 DEF LoadedIsStored, Extension!OnePerPosition
<1>14. ListIsReturned'
  <2> SUFFICES ASSUME overlapped \cap {"list", "clear"} = {} PROVE ListIsReturned'
    BY <1>1 DEF ListIsReturned
  <2>1. /\ list[m] = receipts
        /\ \A x \in Messages : worker[x] = "writelist" => x = m
        /\ Len(receipts) = IF Len(sent) > Cap THEN Cap ELSE Len(sent)
        /\ \A i \in 1..Len(receipts) : receipts[i] = sent[Len(sent) + 1 - i]
    BY <1>1 DEF ExtInv, ListIsReturned, Extension!ReturnedAreKept
  <2>2. \A x \in Messages : worker'[x] # "writelist"
    BY <1>2, <2>1, ExtConstants
  <2>3. Len(receipts') = IF Len(sent') > Cap THEN Cap ELSE Len(sent')
    BY <1>5, <1>7, <1>8, <1>9, <2>1
  <2>4. ASSUME NEW i \in 1..Len(receipts') PROVE receipts'[i] = sent'[Len(sent') + 1 - i]
    <3>1. CASE i = 1
      <4>1. Len(sent') + 1 - i = Len(sent) + 1
        BY <3>1, <1>5
      <4> QED
        BY <3>1, <4>1, <1>5, <1>9
    <3>2. CASE i # 1
      <4>1. i \in 2..n /\ i - 1 \in 1..Len(receipts) /\ i - 1 \in Nat
        BY <3>2, <1>7, <1>8, <1>9, <2>1
      <4>2. receipts'[i] = sent[Len(sent) + 1 - (i - 1)]
        BY <4>1, <1>9, <2>1
      <4>3. Len(sent) + 1 - (i - 1) \in 1..Len(sent) /\ Len(sent') + 1 - i = Len(sent) + 1 - (i - 1)
        BY <4>1, <1>5, <1>7, <2>1
      <4> QED
        BY <4>2, <4>3, <1>5
    <3> QED
      BY <3>1, <3>2
  <2>5. Extension!ReturnedAreKept'
    BY <2>3, <2>4 DEF Extension!ReturnedAreKept
  <2> QED
    BY <2>2, <2>5 DEF ListIsReturned
<1>15. OneAppends'
  BY <1>1, <1>10 DEF ExtInv, OneAppends, Extension!Handlers
<1>16. SentFollowsChain'
  <2> SUFFICES ASSUME overlapped \cap {"chain", "append", "clear"} = {} PROVE SentFollowsChain'
    BY <1>1 DEF SentFollowsChain
  <2>1. \A i \in 1..Len(sent) : sent[i].height < new.height
    BY <1>1, <1>4, <1>6 DEF ExtInv, SentFollowsChain, Appending
  <2>2. \A x \in Messages : worker'[x] \notin Appending
    <3>1. \A x \in Extension!Handlers : worker[x] \in Appending => x = m
      BY <1>1 DEF ExtInv, OneAppends, Appending
    <3> QED
      BY <1>10, <3>1, ExtConstants
  <2>3. \A i \in 1..Len(sent') : i = Len(sent) + 1 \/ i \in 1..Len(sent)
    BY <1>5
  <2>4. \A i, j \in 1..Len(sent) : i < j => sent[i].height < sent[j].height
    BY DEF ExtInv, SentFollowsChain
  <2>5. \A i, j \in 1..Len(sent') : i < j => sent'[i].height < sent'[j].height
    BY <1>5, <2>1, <2>3, <2>4
  <2> QED
    BY <2>2, <2>5 DEF SentFollowsChain
<1> QED
  BY <1>11, <1>12, <1>13, <1>14, <1>15, <1>16 DEF ExtInv

(* List and chain are cleared.                                             *)
LEMMA ClearKeeps ==
    ASSUME ExtInv, Extension!Clear
    PROVE  ExtInv'
<1>1. /\ receipts' = <<>> /\ chain' = [height |-> 0, hash |-> Genesis] /\ sent' = <<>>
      /\ UNCHANGED <<storedKey, worker, priv, prev, list>>
  BY DEF Extension!Clear, Extension!GenesisChain
<1>2. /\ "key" \in overlapped' <=> "key" \in overlapped
      /\ \/ "clear" \in overlapped' /\ overlapped \subseteq overlapped'
            /\ overlapped' \subseteq overlapped \cup {"clear"}
         \/ /\ overlapped' \subseteq {"key"}
            /\ \A m \in Extension!Handlers : worker[m] # "savechain" /\ worker[m] \notin Appending
  BY DEF Extension!Clear, Extension!UnderWay, Extension!Handlers, Appending
<1>3. ExtTypes'
  <2>1. receipts' \in Seq(ExtReceipts) /\ sent' \in Seq(ExtReceipts)
    BY <1>1
  <2>2. chain' \in [height : Nat, hash : Messages \cup {Genesis}]
    BY <1>1
  <2> QED
    BY <1>1, <2>1, <2>2 DEF ExtInv, ExtTypes, Extension!Handlers
<1>4. KeyIsStored'
  BY <1>1, <1>2 DEF ExtInv, KeyIsStored, Extension!Handlers
<1>5. LoadedIsStored'
  BY <1>1, <1>2, ExtConstants DEF LoadedIsStored, Extension!OnePerPosition
<1>6. ListIsReturned'
  <2>1. Extension!ReturnedAreKept'
    BY <1>1, ExtConstants DEF Extension!ReturnedAreKept
  <2> QED
    BY <1>1, <1>2, <2>1, ExtConstants DEF ListIsReturned, Appending
<1>7. OneAppends'
  <2>1. CASE overlapped' \subseteq {"key"} /\ \A m \in Extension!Handlers : worker[m] \notin Appending
    BY <1>1, <2>1 DEF OneAppends, Extension!Handlers
  <2>2. CASE overlapped' \subseteq overlapped \cup {"clear"} /\ overlapped \subseteq overlapped'
    BY <1>1, <2>2 DEF ExtInv, OneAppends, Extension!Handlers
  <2> QED
    BY <1>2, <2>1, <2>2
<1>8. SentFollowsChain'
  BY <1>1, <1>2 DEF SentFollowsChain
<1> QED
  BY <1>3, <1>4, <1>5, <1>6, <1>7, <1>8 DEF ExtInv

(* Handlers end early: the worker is stopped, or a call of one fails.      *)
LEMMA StopKeeps ==
    ASSUME ExtInv, Extension!Stop \/ \E m \in Extension!Handlers : Extension!CallFails(m)
    PROVE  ExtInv'
<1>1. UNCHANGED <<storedKey, chain, receipts, priv, prev, list, sent, overlapped>>
  BY DEF Extension!Stop, Extension!CallFails
<1>2. /\ worker' \in [Extension!Handlers -> ExtPlaces]
      /\ \A m \in Extension!Handlers : worker'[m] # "stopped" => worker'[m] = worker[m]
  <2>1. CASE Extension!Stop
    BY <2>1 DEF ExtInv, ExtTypes, ExtPlaces, Extension!Stop, Extension!InFlight
  <2>2. ASSUME NEW m \in Extension!Handlers, Extension!CallFails(m)
        PROVE  /\ worker' \in [Extension!Handlers -> ExtPlaces]
               /\ \A x \in Extension!Handlers : worker'[x] # "stopped" => worker'[x] = worker[x]
    BY <2>2 DEF ExtInv, ExtTypes, ExtPlaces, Extension!CallFails, Extension!Goes
  <2> QED
    BY <2>1, <2>2
<1>3. ExtTypes'
  BY <1>1, <1>2 DEF ExtInv, ExtTypes, Extension!Handlers
<1>4. KeyIsStored'
  BY <1>1, <1>2 DEF ExtInv, KeyIsStored, KeyKnown, Extension!Handlers
<1>5. \A m \in Extension!Handlers :
         /\ worker'[m] \in Appending => worker[m] \in Appending
         /\ worker'[m] \in {"savechain", "writelist"} => worker'[m] = worker[m]
  BY <1>2 DEF Appending
<1>6. LoadedIsStored'
  BY <1>1, <1>5, ExtConstants DEF ExtInv, LoadedIsStored, Extension!OnePerPosition
<1>7. ListIsReturned'
  BY <1>1, <1>5, ExtConstants DEF ExtInv, ListIsReturned, Extension!ReturnedAreKept
<1>8. OneAppends'
  BY <1>1, <1>5 DEF ExtInv, OneAppends, Extension!Handlers
<1>9. SentFollowsChain'
  BY <1>1, <1>5, ExtConstants DEF ExtInv, SentFollowsChain
<1> QED
  BY <1>3, <1>4, <1>6, <1>7, <1>8, <1>9 DEF ExtInv

LEMMA ExtensionKeeps == ExtInv /\ [LocalNext]_localVars => ExtInv'
<1> SUFFICES ASSUME ExtInv, [LocalNext]_localVars PROVE ExtInv'
  OBVIOUS
<1>1. CASE UNCHANGED extensionVars
  <2>1. UNCHANGED <<storedKey, chain, receipts, worker, priv, prev, list, sent, overlapped>>
    BY <1>1 DEF extensionVars
  <2> QED
    BY <2>1 DEF ExtInv, ExtTypes, KeyIsStored, LoadedIsStored, ListIsReturned, OneAppends,
                SentFollowsChain, Extension!OnePerPosition, Extension!ReturnedAreKept,
                Extension!Handlers
<1>2. CASE Extension!Next
  <2>1. \/ \E m \in Extension!Handlers : Extension!EnsureKey(m) \/ Extension!StoreKey(m)
        \/ \E m \in Messages : \/ Extension!LoadChain(m) \/ Extension!SaveChain(m)
                               \/ Extension!ReadList(m) \/ Extension!WriteList(m)
        \/ Extension!Clear
        \/ Extension!Stop \/ \E m \in Extension!Handlers : Extension!CallFails(m)
    BY <1>2 DEF Extension!Next
  <2> QED
    BY <2>1, KeyKeeps, LoadChainKeeps, SaveChainKeeps, ReadListKeeps, WriteListKeeps, ClearKeeps,
       StopKeeps
<1> QED
  BY <1>1, <1>2 DEF LocalNext, localVars

(* However many handlers the extension has under way, and whenever a call  *)
(* fails or the worker is stopped: positions collide only after two of them*)
(* loaded the chain before either saved it, returned receipts are missing  *)
(* from the list only after two read it before either wrote it, the list   *)
(* leaves the order of the chain only after one overtook another, or after *)
(* a clear met one under way - and receipts or answers carry another key   *)
(* than the stored one only after two generated a key at once.             *)
THEOREM LocalListKeepsChain == LocalSpec => []ListKeepsChain
<1>1. ASSUME ExtInv PROVE ListKeepsChain
  <2>1. overlapped \cap {"chain", "clear"} = {} => Extension!OnePerPosition
    BY <1>1 DEF ExtInv, LoadedIsStored
  <2>2. overlapped \cap {"list", "clear"} = {} => Extension!ReturnedAreKept
    BY <1>1 DEF ExtInv, ListIsReturned
  <2>3. ASSUME overlapped \cap {"chain", "append", "clear"} = {} PROVE Extension!ListFollowsChain
    <3>1. overlapped \cap {"list", "clear"} = {} /\ overlapped \cap {"chain", "clear"} = {}
      BY <1>1, <2>3 DEF ExtInv, OneAppends
    <3>2. /\ receipts \in Seq(ExtReceipts) /\ sent \in Seq(ExtReceipts)
          /\ Len(receipts) \in Nat /\ Len(sent) \in Nat /\ Len(receipts) <= Len(sent)
          /\ \A i \in 1..Len(receipts) : receipts[i] = sent[Len(sent) + 1 - i]
      BY <1>1, <3>1, <2>2, ExtConstants DEF ExtInv, ExtTypes, Extension!ReturnedAreKept
    <3>3. /\ \A i, j \in 1..Len(sent) : i < j => sent[i].height < sent[j].height
          /\ \A i \in 1..Len(sent) : sent[i].height <= chain.height
      BY <1>1, <2>3, <3>1 DEF ExtInv, SentFollowsChain, LoadedIsStored
    <3>4. ASSUME NEW i \in 1..(Len(receipts) - 1) PROVE receipts[i].height > receipts[i + 1].height
      <4>1. /\ i \in 1..Len(receipts) /\ i + 1 \in 1..Len(receipts)
            /\ Len(sent) + 1 - i \in 1..Len(sent) /\ Len(sent) + 1 - (i + 1) \in 1..Len(sent)
            /\ Len(sent) + 1 - (i + 1) < Len(sent) + 1 - i
        BY <3>2
      <4>2. sent[Len(sent) + 1 - (i + 1)].height < sent[Len(sent) + 1 - i].height
        BY <3>3, <4>1
      <4>3. /\ sent[Len(sent) + 1 - (i + 1)] \in ExtReceipts /\ sent[Len(sent) + 1 - i] \in ExtReceipts
        BY <3>2, <4>1
      <4>4. /\ sent[Len(sent) + 1 - (i + 1)].height \in Nat
            /\ sent[Len(sent) + 1 - i].height \in Nat
        BY <4>3 DEF ExtReceipts
      <4>5. receipts[i] = sent[Len(sent) + 1 - i] /\ receipts[i + 1] = sent[Len(sent) + 1 - (i + 1)]
        BY <3>2, <4>1
      <4> QED
        BY <4>2, <4>4, <4>5
    <3>5. receipts # <<>> => receipts[1].height <= chain.height
      <4>1. receipts # <<>> => 1 \in 1..Len(receipts) /\ Len(sent) + 1 - 1 \in 1..Len(sent)
        BY <3>2
      <4> QED
        BY <3>2, <3>3, <4>1
    <3> QED
      BY <3>4, <3>5 DEF Extension!ListFollowsChain
  <2>4. "key" \notin overlapped => Extension!OneSigningKey
    BY <1>1, ExtConstants DEF ExtInv, KeyIsStored, Extension!OneSigningKey
  <2> QED
    BY <2>1, <2>2, <2>3, <2>4 DEF ListKeepsChain, Extension!ListKeepsChain
<1> QED
  BY <1>1, ExtStart, ExtensionKeeps, PTL DEF LocalSpec, LocalInit

(* The steps of a sign-in, and those that have an answer to verify.        *)
SignInSteps == {"new", "personal", "loaded", "failed", "authorize", "redeem", "jwks",
                "verify", "store", "done"}

Answered == {"jwks", "verify", "store"}

IdentityTypes ==
    /\ step \in [SignIns -> SignInSteps]
    /\ policy \in [SignIns -> Policies \cup {NoPolicy}] /\ managed \in Policies \cup {NoPolicy}
    /\ answer = [s \in SignIns |-> answer[s]]
    /\ claimed = [s \in SignIns |-> claimed[s]]
    /\ expected = [s \in SignIns |-> expected[s]]
    /\ consented \subseteq SignIns
    /\ time \in Nat

(* A response was made for the sign-in its nonce and its access token name.*)
ResponsesAreOwn == \A a \in issued : a.access = a.nonce /\ a.sub \in Users

(* An identity as the issuer vouched for it to sign-in s in response a,    *)
(* under the name it has in the discovery document.                        *)
Vouched(s, a, who) ==
    /\ who \in [sub : Users, tenant : STRING, issuer : Issuers, at : Nat]
    /\ policy[s].tenant = who.tenant /\ policy[s].issuer = who.issuer
    /\ a.nonce = s /\ a.access = s /\ a.sub = who.sub /\ a.aud = "us"
    /\ a.iss = expected[s] /\ expected[s] \in {who.issuer, Alias} /\ a.by = who.issuer
    /\ who.at < a.exp /\ a.nbf <= who.at + Leeway

(* What a sign-in under way has: the policy, the consent, the answer, and  *)
(* once it is verified the identity.                                       *)
SignInsFit ==
    \A s \in SignIns :
        /\ step[s] = "loaded" => policy[s] \in Policies
        /\ step[s] \in {"authorize", "redeem"} \cup Answered =>
              policy[s] \in Policies /\ policy[s].issuer \in Issuers
        /\ step[s] \in {"redeem", "done"} \cup Answered => s \in consented
        /\ step[s] \in Answered => answer[s] \in issued /\ answer[s].by = policy[s].issuer
        /\ step[s] = "verify" => expected[s] \in {policy[s].issuer, Alias}
        /\ step[s] = "store" => Vouched(s, answer[s], claimed[s])

(* What is stored is of a sign-in that is done.                            *)
StoredIsVouched ==
    /\ corporate = NoIdentity <=> token = NoToken
    /\ corporate # NoIdentity =>
          \E s \in SignIns, a \in issued :
             step[s] = "done" /\ token = [access |-> s] /\ Vouched(s, a, corporate)

IdentityInv == IdentityTypes /\ ResponsesAreOwn /\ SignInsFit /\ StoredIsVouched

LEMMA IdentityConstants ==
    /\ \A p \in Policies : p.tenant \in STRING /\ p.issuer \in Issuers \cup {NoIssuer}
    /\ NoPolicy \notin Policies /\ NoIssuer \notin Issuers
    /\ NoIdentity \notin [sub : Users, tenant : STRING, issuer : Issuers, at : Nat]
    /\ \A s \in SignIns : NoToken # [access |-> s]
    /\ Users # {} /\ Ttl \in Nat /\ Leeway \in Nat
BY LocalAssumption DEF LocalAssumption, Identity!IdentityAssumption

LEMMA IdentityStarts == Identity!Init => IdentityInv
BY IdentityConstants
DEF Identity!Init, IdentityInv, IdentityTypes, ResponsesAreOwn, SignInsFit, StoredIsVouched,
    SignInSteps, Answered

(* A step that changes only one sign-in, one that is not done.             *)
LEMMA SignInKeeps ==
    ASSUME IdentityInv, NEW s \in SignIns, step[s] # "done",
           NEW to \in SignInSteps, step' = [step EXCEPT ![s] = to],
           IdentityTypes', ResponsesAreOwn', issued \subseteq issued',
           consented \subseteq consented',
           \A r \in SignIns \ {s} : /\ policy'[r] = policy[r] /\ answer'[r] = answer[r]
                                    /\ claimed'[r] = claimed[r] /\ expected'[r] = expected[r],
           to = "loaded" => policy'[s] \in Policies,
           to \in {"authorize", "redeem"} \cup Answered =>
               policy'[s] \in Policies /\ policy'[s].issuer \in Issuers,
           to \in {"redeem", "done"} \cup Answered => s \in consented',
           to \in Answered => answer'[s] \in issued' /\ answer'[s].by = policy'[s].issuer,
           to = "verify" => expected'[s] \in {policy'[s].issuer, Alias},
           to = "store" => Vouched(s, answer[s], claimed[s])'
    PROVE  SignInsFit' /\ (UNCHANGED <<corporate, token>> => StoredIsVouched')
<1>1. \A r \in SignIns : step'[r] = IF r = s THEN to ELSE step[r]
  BY DEF IdentityInv, IdentityTypes
<1>2. \A r \in SignIns \ {s} : \A a, who : Vouched(r, a, who) => Vouched(r, a, who)'
  BY DEF Vouched
<1>3. SignInsFit'
  <2>1. ASSUME NEW r \in SignIns \ {s}
        PROVE  /\ step'[r] = "loaded" => policy'[r] \in Policies
               /\ step'[r] \in {"authorize", "redeem"} \cup Answered =>
                     policy'[r] \in Policies /\ policy'[r].issuer \in Issuers
               /\ step'[r] \in {"redeem", "done"} \cup Answered => r \in consented'
               /\ step'[r] \in Answered => answer'[r] \in issued' /\ answer'[r].by = policy'[r].issuer
               /\ step'[r] = "verify" => expected'[r] \in {policy'[r].issuer, Alias}
               /\ step'[r] = "store" => Vouched(r, answer[r], claimed[r])'
    BY <1>1, <1>2 DEF IdentityInv, SignInsFit, Vouched
  <2> QED
    BY <1>1, <2>1 DEF SignInsFit
<1>4. UNCHANGED <<corporate, token>> => StoredIsVouched'
  BY <1>1, <1>2 DEF IdentityInv, StoredIsVouched, Vouched
<1> QED
  BY <1>3, <1>4

(* The endpoint answers a sign-in, itself or with an answer of before.     *)
LEMMA AnswersAreOwn ==
    ASSUME IdentityInv, NEW s \in SignIns, NEW a, step[s] = "redeem",
           a \in Identity!Responses(s) \cup {x \in issued : x.by = policy[s].issuer}
    PROVE  a.access = a.nonce /\ a.sub \in Users /\ a.by = policy[s].issuer
<1> DEFINE anyone == CHOOSE u \in Users : TRUE
<1>1. anyone \in Users
  BY IdentityConstants
<1> HIDE DEF anyone
<1>2. a \in Identity!Responses(s) =>
        \E u \in Users : a.access = s /\ a.nonce = s /\ a.by = policy[s].issuer /\ a.sub = u
  BY <1>1 DEF Identity!Responses, anyone
<1> QED
  BY <1>2 DEF IdentityInv, ResponsesAreOwn

LEMMA SignInStepKeeps ==
    ASSUME IdentityInv, NEW s \in SignIns,
           \/ Identity!LoadManagedPolicy(s) \/ Identity!Authorize(s) \/ Identity!Redirected(s)
           \/ Identity!TokenAnswers(s) \/ Identity!FetchKeys(s) \/ Identity!VerifyIdToken(s)
           \/ Identity!StoreIdentity(s) \/ Identity!SignInFails(s)
    PROVE  IdentityInv'
<1> USE DEF Answered, SignInSteps
<1>1. CASE Identity!LoadManagedPolicy(s)
  <2>1. /\ step[s] = "new" /\ policy' = [policy EXCEPT ![s] = managed]
        /\ step' = [step EXCEPT ![s] = IF managed = NoPolicy THEN "personal" ELSE "loaded"]
        /\ UNCHANGED <<managed, corporate, token, answer, expected, claimed, time, consented, issued>>
    BY <1>1 DEF Identity!LoadManagedPolicy, Identity!Goes
  <2>2. IdentityTypes' /\ ResponsesAreOwn'
    BY <2>1 DEF IdentityInv, IdentityTypes, ResponsesAreOwn
  <2>3. policy'[s] = managed /\ \A r \in SignIns \ {s} : policy'[r] = policy[r]
    BY <2>1 DEF IdentityInv, IdentityTypes
  <2>4. managed # NoPolicy => managed \in Policies
    BY DEF IdentityInv, IdentityTypes
  <2>5. CASE managed = NoPolicy
    BY <2>1, <2>2, <2>3, <2>5, SignInKeeps DEF IdentityInv
  <2>6. CASE managed # NoPolicy
    BY <2>1, <2>2, <2>3, <2>4, <2>6, SignInKeeps DEF IdentityInv
  <2> QED
    BY <2>5, <2>6
<1>2. CASE Identity!Authorize(s)
  <2>1. /\ step[s] = "loaded"
        /\ step' = [step EXCEPT ![s] = IF policy[s].issuer = NoIssuer THEN "failed" ELSE "authorize"]
        /\ UNCHANGED <<managed, corporate, token, policy, answer, expected, claimed, time,
                       consented, issued>>
    BY <1>2 DEF Identity!Authorize, Identity!Goes
  <2>2. IdentityTypes' /\ ResponsesAreOwn'
    BY <2>1 DEF IdentityInv, IdentityTypes, ResponsesAreOwn
  <2>3. policy[s] \in Policies /\ policy[s].issuer \in Issuers \cup {NoIssuer}
    BY <2>1, IdentityConstants DEF IdentityInv, SignInsFit
  <2> QED
    BY <2>1, <2>2, <2>3, SignInKeeps DEF IdentityInv
<1>3. CASE Identity!Redirected(s)
  <2>1. /\ step[s] = "authorize" /\ consented' = consented \cup {s}
        /\ step' = [step EXCEPT ![s] = "redeem"]
        /\ UNCHANGED <<managed, corporate, token, policy, answer, expected, claimed, time, issued>>
    BY <1>3 DEF Identity!Redirected, Identity!Goes
  <2>2. IdentityTypes' /\ ResponsesAreOwn'
    BY <2>1 DEF IdentityInv, IdentityTypes, ResponsesAreOwn
  <2>3. policy[s] \in Policies /\ policy[s].issuer \in Issuers
    BY <2>1 DEF IdentityInv, SignInsFit
  <2> QED
    BY <2>1, <2>2, <2>3, SignInKeeps DEF IdentityInv
<1>4. CASE Identity!TokenAnswers(s)
  <2>1. PICK a \in Identity!Responses(s) \cup {x \in issued : x.by = policy[s].issuer} :
            answer' = [answer EXCEPT ![s] = a] /\ issued' = issued \cup {a}
    BY <1>4 DEF Identity!TokenAnswers
  <2>2. /\ step[s] = "redeem" /\ step' = [step EXCEPT ![s] = "jwks"]
        /\ UNCHANGED <<managed, corporate, token, policy, expected, claimed, time, consented>>
    BY <1>4 DEF Identity!TokenAnswers, Identity!Goes
  <2>3. a.access = a.nonce /\ a.sub \in Users /\ a.by = policy[s].issuer
    BY <2>1, <2>2, AnswersAreOwn
  <2>4. answer'[s] = a /\ \A r \in SignIns \ {s} : answer'[r] = answer[r]
    BY <2>1 DEF IdentityInv, IdentityTypes
  <2>5. IdentityTypes' /\ ResponsesAreOwn'
    BY <2>1, <2>2, <2>3 DEF IdentityInv, IdentityTypes, ResponsesAreOwn
  <2>6. policy[s] \in Policies /\ policy[s].issuer \in Issuers /\ s \in consented
    BY <2>2 DEF IdentityInv, SignInsFit
  <2>7. answer'[s] \in issued' /\ answer'[s].by = policy[s].issuer
    BY <2>1, <2>3, <2>4
  <2>8. issued \subseteq issued' /\ step[s] # "done"
    BY <2>1, <2>2
  <2> QED
    BY <2>2, <2>4, <2>5, <2>6, <2>7, <2>8, SignInKeeps DEF IdentityInv
<1>5. CASE Identity!FetchKeys(s)
  <2>1. /\ step[s] = "jwks" /\ step' = [step EXCEPT ![s] = "verify"]
        /\ UNCHANGED <<managed, corporate, token, policy, answer, claimed, time, consented, issued>>
    BY <1>5 DEF Identity!FetchKeys, Identity!Goes
  <2>4. PICK name \in {policy[s].issuer, Alias} : expected' = [expected EXCEPT ![s] = name]
    BY <1>5 DEF Identity!FetchKeys
  <2>5. expected'[s] = name /\ \A r \in SignIns \ {s} : expected'[r] = expected[r]
    BY <2>4 DEF IdentityInv, IdentityTypes
  <2>2. IdentityTypes' /\ ResponsesAreOwn'
    BY <2>1, <2>4 DEF IdentityInv, IdentityTypes, ResponsesAreOwn
  <2>3. /\ policy[s] \in Policies /\ policy[s].issuer \in Issuers /\ s \in consented
        /\ answer[s] \in issued /\ answer[s].by = policy[s].issuer
    BY <2>1 DEF IdentityInv, SignInsFit
  <2> QED
    BY <2>1, <2>2, <2>3, <2>4, <2>5, SignInKeeps DEF IdentityInv
<1>6. ASSUME Identity!Ends(s, "failed"), step[s] # "done",
             UNCHANGED <<managed, corporate, token, policy, time, consented, issued>>
      PROVE  IdentityInv'
  <2>1. /\ step' = [step EXCEPT ![s] = "failed"]
        /\ answer' = [answer EXCEPT ![s] = NoToken] /\ claimed' = [claimed EXCEPT ![s] = NoIdentity]
        /\ expected' = [expected EXCEPT ![s] = NoIssuer]
    BY <1>6 DEF Identity!Ends, Identity!Goes
  <2>2. IdentityTypes' /\ ResponsesAreOwn'
    BY <1>6, <2>1 DEF IdentityInv, IdentityTypes, ResponsesAreOwn
  <2> QED
    BY <1>6, <2>1, <2>2, SignInKeeps DEF IdentityInv, IdentityTypes
<1>7. CASE Identity!VerifyIdToken(s) /\ Identity!Accepts(s)
  <2>1. /\ step[s] = "verify" /\ step' = [step EXCEPT ![s] = "store"]
        /\ claimed' = [claimed EXCEPT ![s] = [sub |-> answer[s].sub, tenant |-> policy[s].tenant,
                                              issuer |-> policy[s].issuer, at |-> time]]
        /\ UNCHANGED <<managed, corporate, token, policy, answer, expected, time, consented, issued>>
    BY <1>7 DEF Identity!VerifyIdToken, Identity!Goes
  <2>2. /\ answer[s].iss = expected[s] /\ answer[s].aud = "us" /\ answer[s].nonce = s
        /\ time < answer[s].exp /\ answer[s].nbf <= time + Leeway
    BY <1>7 DEF Identity!Accepts
  <2>3. /\ policy[s] \in Policies /\ policy[s].issuer \in Issuers /\ s \in consented
        /\ answer[s] \in issued /\ answer[s].by = policy[s].issuer
        /\ expected[s] \in {policy[s].issuer, Alias}
    BY <2>1 DEF IdentityInv, SignInsFit
  <2>4. answer[s].access = s /\ answer[s].sub \in Users /\ policy[s].tenant \in STRING /\ time \in Nat
    BY <2>2, <2>3, IdentityConstants DEF IdentityInv, ResponsesAreOwn, IdentityTypes
  <2>5. IdentityTypes' /\ ResponsesAreOwn'
    BY <2>1 DEF IdentityInv, IdentityTypes, ResponsesAreOwn
  <2>6. claimed'[s] = [sub |-> answer[s].sub, tenant |-> policy[s].tenant,
                       issuer |-> policy[s].issuer, at |-> time]
    BY <2>1 DEF IdentityInv, IdentityTypes
  <2>7. Vouched(s, answer[s], claimed[s])'
    BY <2>1, <2>2, <2>3, <2>4, <2>6 DEF Vouched
  <2> QED
    BY <2>1, <2>3, <2>5, <2>7, SignInKeeps DEF IdentityInv, IdentityTypes
<1>8. CASE Identity!StoreIdentity(s)
  <2>1. /\ step[s] = "store" /\ corporate' = claimed[s] /\ token' = [access |-> answer[s].access]
        /\ UNCHANGED <<managed, policy, expected, time, consented, issued>>
        /\ step' = [step EXCEPT ![s] = "done"]
        /\ answer' = [answer EXCEPT ![s] = NoToken] /\ claimed' = [claimed EXCEPT ![s] = NoIdentity]
    BY <1>8 DEF Identity!StoreIdentity, Identity!Ends, Identity!Goes
  <2>2. /\ Vouched(s, answer[s], claimed[s]) /\ answer[s] \in issued /\ s \in consented
        /\ policy[s] \in Policies /\ policy[s].issuer \in Issuers
    BY <2>1 DEF IdentityInv, SignInsFit
  <2>3. IdentityTypes' /\ ResponsesAreOwn'
    BY <2>1 DEF IdentityInv, IdentityTypes, ResponsesAreOwn
  <2>4. SignInsFit'
    BY <2>1, <2>2, <2>3, SignInKeeps DEF IdentityInv, IdentityTypes
  <2>5. corporate' # NoIdentity /\ token' = [access |-> s] /\ token' # NoToken
    BY <2>1, <2>2, IdentityConstants DEF Vouched
  <2>6. step'[s] = "done"
    BY <2>1 DEF IdentityInv, IdentityTypes
  <2>7. PICK a \in issued : a = answer[s]
    BY <2>2
  <2>8. Vouched(s, a, claimed[s])
    BY <2>2, <2>7
  <2>9. policy' = policy /\ expected' = expected /\ corporate' = claimed[s] /\ issued' = issued
    BY <2>1
  <2>10. Vouched(s, a, corporate)'
    BY <2>8, <2>9 DEF Vouched
  <2>11. StoredIsVouched'
    BY <2>5, <2>6, <2>9, <2>10 DEF StoredIsVouched
  <2> QED
    BY <2>3, <2>4, <2>11 DEF IdentityInv
<1>9. CASE Identity!VerifyIdToken(s) /\ ~Identity!Accepts(s)
  BY <1>6, <1>9 DEF Identity!VerifyIdToken
<1>10. CASE Identity!SignInFails(s)
  BY <1>6, <1>10 DEF Identity!SignInFails
<1> QED
  BY <1>1, <1>2, <1>3, <1>4, <1>5, <1>7, <1>8, <1>9, <1>10

LEMMA IdentityKeeps == IdentityInv /\ [LocalNext]_localVars => IdentityInv'
<1> SUFFICES ASSUME IdentityInv, [LocalNext]_localVars PROVE IdentityInv'
  OBVIOUS
<1>1. ASSUME UNCHANGED <<managed, corporate, token, step, policy, answer, expected, claimed, consented,
                        issued>>,
             time' \in Nat
      PROVE  IdentityInv'
  BY <1>1 DEF IdentityInv, IdentityTypes, ResponsesAreOwn, SignInsFit, StoredIsVouched, Vouched
<1>2. CASE UNCHANGED identityVars
  BY <1>1, <1>2 DEF identityVars, IdentityInv, IdentityTypes
<1>3. CASE Identity!Push
  BY <1>3 DEF Identity!Push, Identity!pending, IdentityInv, IdentityTypes, ResponsesAreOwn,
              SignInsFit, StoredIsVouched, Vouched
<1>4. CASE Identity!SignOut
  BY <1>4 DEF Identity!SignOut, Identity!pending, IdentityInv, IdentityTypes, ResponsesAreOwn,
              SignInsFit, StoredIsVouched, Vouched
<1>5. ASSUME NEW i \in Issuers, Identity!RotateKey(i) PROVE IdentityInv'
  BY <1>1, <1>5 DEF Identity!RotateKey, Identity!pending, IdentityInv, IdentityTypes
<1>6. CASE Identity!Tick
  BY <1>1, <1>6 DEF Identity!Tick, Identity!pending, IdentityInv, IdentityTypes
<1>7. CASE Identity!Next
  BY <1>3, <1>4, <1>5, <1>6, <1>7, SignInStepKeeps DEF Identity!Next
<1> QED
  BY <1>2, <1>7 DEF LocalNext, localVars

(* The identity that identity.js hands out for receipts was vouched for in *)
(* a sign-in of its own, by the issuer its policy names, under the name the*)
(* discovery document gave, with the access token stored beside it, for any*)
(* policies, users, keys, times and number of sign-ins.                    *)
THEOREM LocalIdentityIsVouched == LocalSpec => []IdentityIsVouched
<1>1. ASSUME IdentityInv PROVE IdentityIsVouched
  <2>1. /\ Identity!Context.environment = "production" <=> corporate # NoIdentity
        /\ corporate # NoIdentity => /\ Identity!Context.user = corporate.sub
                                     /\ Identity!Context.since = corporate.at
    BY DEF Identity!Context, Identity!BoundIdentity
  <2>2. corporate # NoIdentity =>
          \E s \in SignIns, a \in issued :
             s \in consented /\ token.access = s /\ Vouched(s, a, corporate)
    BY <1>1 DEF IdentityInv, StoredIsVouched, SignInsFit
  <2> QED
    BY <1>1, <2>1, <2>2 DEF IdentityIsVouched, Identity!IdentityIsVouched, IdentityInv,
                            StoredIsVouched, Vouched
<1> QED
  BY <1>1, IdentityStarts, IdentityKeeps, PTL DEF LocalSpec, LocalInit
=============================================================================
