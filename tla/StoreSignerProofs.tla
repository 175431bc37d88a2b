-------------------------- MODULE StoreSignerProofs --------------------------
(***************************************************************************)
(* Proofs about StoreSigner, for any number of tenants, signers, calls and *)
(* retries and for both backends: type correctness, the inductive invariant*)
(* IInv with the safety properties that follow from it, that StoreSigner   *)
(* implements the abstract chain, and what the verifier of src/verify.ts   *)
(* says of any selection of its receipts.                                  *)
(***************************************************************************)
EXTENDS MCStoreSigner, FiniteSetTheorems, NaturalsInduction, TLAPS

-----------------------------------------------------------------------------
(* What the operators of the model return.                                 *)

LEMMA SignedAfterType ==
    ASSUME TypeOK, NEW s \in Signers
    PROVE  SignedAfter(s, loaded[s]) \in Receipt
<1>1. job[s] \in Tenants /\ loaded[s] \in ChainState /\ built[s] \in Nat
  BY DEF TypeOK
<1>2. <<s, built[s] + 1>> \in ReceiptIds
  BY <1>1 DEF ReceiptIds
<1> QED
  BY <1>1, <1>2 DEF SignedAfter, Receipt, ChainState, Hash

LEMMA HeadOfType ==
    ASSUME TypeOK, NEW t \in Tenants
    PROVE  HeadOf(t) \in ChainState
BY DEF TypeOK, HeadOf, ChainState, Hash

LEMMA NextStateType ==
    ASSUME NEW r \in Receipt
    PROVE  NextState(r) \in ChainState
BY DEF Receipt, NextState, ChainState, Hash

-----------------------------------------------------------------------------
(* Type correctness.                                                       *)

LEMMA InitTypeOK == Init => TypeOK
<1> SUFFICES ASSUME Init PROVE TypeOK
  OBVIOUS
<1>1. job \in [Signers -> Tenants]
  BY StoreAssumption DEF Init
<1>2. loaded \in [Signers -> ChainState]
  BY DEF Init, ChainState, Hash
<1>3. draft \in [Signers -> Receipt]
  <2>1. ASSUME NEW s \in Signers
        PROVE  [id |-> <<s, 1>>, tenant |-> job[s], height |-> 1, prev |-> Genesis] \in Receipt
    BY <1>1 DEF Receipt, ReceiptIds, Hash
  <2> QED
    BY <2>1 DEF Init
<1>4. ledger \in [Tenants -> Seq(Receipt)]
  BY DEF Init
<1> QED
  BY <1>1, <1>2, <1>3, <1>4, StoreAssumption DEF Init, TypeOK, PCs

LEMMA NextTypeOK == TypeOK /\ [Next]_vars => TypeOK'
<1> SUFFICES ASSUME TypeOK, [Next]_vars PROVE TypeOK'
  OBVIOUS
<1> USE DEF PCs
<1>1. ASSUME NEW s \in Signers, NEW t \in Tenants, Call(s, t) PROVE TypeOK'
  <2>1. Len(ledger[t]) \in Nat
    BY DEF TypeOK
  <2>2. calls[s] \in 0..MaxCalls /\ calls[s] < MaxCalls /\ built[s] \in Nat
    BY <1>1 DEF TypeOK, Call
  <2>3. calls[s] + 1 \in 0..MaxCalls /\ 0 \in 0..MaxRetries
    BY <2>2, StoreAssumption
  <2>4. calls' \in [Signers -> 0..MaxCalls] /\ attempt' \in [Signers -> 0..MaxRetries]
    BY <1>1, <2>3 DEF TypeOK, Call
  <2>5. pc' \in [Signers -> PCs] /\ job' \in [Signers -> Tenants]
    BY <1>1 DEF TypeOK, Call
  <2>6. result' \in [Signers -> {"none", "signed", "conflict", "error", "crashed"}]
    BY <1>1 DEF TypeOK, Call
  <2>7. first' \in [Signers -> Nat] /\ since' \in [Signers -> Nat]
    BY <1>1, <2>1, <2>2 DEF TypeOK, Call
  <2> QED
    BY <1>1, <2>4, <2>5, <2>6, <2>7 DEF TypeOK, Call
<1>2. ASSUME NEW s \in Signers, Load(s) PROVE TypeOK'
  <2>1. HeadOf(job[s]) \in ChainState
    BY HeadOfType DEF TypeOK
  <2>2. loaded' \in [Signers -> ChainState] /\ pc' \in [Signers -> PCs]
    BY <1>2, <2>1 DEF TypeOK, Load
  <2> QED
    BY <1>2, <2>2 DEF TypeOK, Load, fixed
<1>3. ASSUME NEW s \in Signers, Build(s) PROVE TypeOK'
  <2>0. built[s] + 1 \in Nat
    BY DEF TypeOK
  <2>1. SignedAfter(s, loaded[s]) \in Receipt /\ built[s] + 1 \in Nat
    BY <2>0, SignedAfterType
  <2>2. draft' \in [Signers -> Receipt] /\ built' \in [Signers -> Nat]
    BY <1>3, <2>1 DEF TypeOK, Build
  <2>3. pc' \in [Signers -> PCs]
    BY <1>3 DEF TypeOK, Build
  <2> QED
    BY <1>3, <2>2, <2>3 DEF TypeOK, Build, fixed
<1>4. ASSUME NEW s \in Signers, Refuse(s) PROVE TypeOK'
  BY <1>4 DEF TypeOK, Refuse, Throws, fixed
<1>5. ASSUME NEW s \in Signers, CasWon(s) PROVE TypeOK'
  BY <1>5 DEF TypeOK, CasWon, fixed
<1>6. ASSUME NEW s \in Signers, CasLost(s) PROVE TypeOK'
  BY <1>6 DEF TypeOK, CasLost, fixed
<1>7. ASSUME NEW s \in Signers, TakesEffect(s)
      PROVE  row' \in [Tenants -> ChainState \cup {NoRow}] /\ ledger' \in [Tenants -> Seq(Receipt)]
  <2>1. draft[s] \in Receipt /\ job[s] \in Tenants
    BY DEF TypeOK
  <2>2. Append(ledger[job[s]], draft[s]) \in Seq(Receipt)
    BY <2>1 DEF TypeOK
  <2> QED
    BY <1>7, <2>1, <2>2, NextStateType DEF TypeOK, TakesEffect
<1>8. ASSUME NEW s \in Signers, Commit(s) PROVE TypeOK'
  BY <1>8, <1>7 DEF TypeOK, Commit, fixed
<1>9. ASSUME NEW s \in Signers, CommitAckLost(s) PROVE TypeOK'
  BY <1>9, <1>7 DEF TypeOK, CommitAckLost, Throws, fixed
<1>10. ASSUME NEW s \in Signers, Abort(s) PROVE TypeOK'
  BY <1>10 DEF TypeOK, Abort, Throws, fixed
<1>11. ASSUME NEW s \in Signers, RetryOrThrow(s)
       PROVE  /\ pc' \in [Signers -> PCs]
              /\ attempt' \in [Signers -> 0..MaxRetries]
              /\ result' \in [Signers -> {"none", "signed", "conflict", "error", "crashed"}]
  <2>1. attempt[s] \in 0..MaxRetries /\ MaxRetries \in Nat
    BY StoreAssumption DEF TypeOK
  <2>2. attempt[s] < MaxRetries => attempt[s] + 1 \in 0..MaxRetries
    BY <2>1
  <2>3. CASE attempt[s] < MaxRetries
    <3>1. /\ attempt' = [attempt EXCEPT ![s] = @ + 1]
          /\ pc' = [pc EXCEPT ![s] = "loading"]
          /\ result' = result
      BY <1>11, <2>1, <2>3 DEF RetryOrThrow
    <3> QED
      BY <2>2, <2>3, <3>1 DEF TypeOK
  <2>4. CASE attempt[s] >= MaxRetries
    <3>1. /\ attempt' = attempt
          /\ pc' = [pc EXCEPT ![s] = "idle"]
          /\ result' = [result EXCEPT ![s] = "conflict"]
      BY <1>11, <2>1, <2>4 DEF RetryOrThrow
    <3> QED
      BY <3>1 DEF TypeOK
  <2> QED
    BY <2>1, <2>3, <2>4
<1>12. ASSUME NEW s \in Signers, ReRead(s) PROVE TypeOK'
  BY <1>12, <1>11 DEF TypeOK, ReRead, fixed
<1>13. ASSUME NEW s \in Signers, MemoryWon(s) PROVE TypeOK'
  BY <1>13, <1>7 DEF TypeOK, MemoryWon, fixed
<1>14. ASSUME NEW s \in Signers, MemoryLost(s) PROVE TypeOK'
  BY <1>14, <1>11 DEF TypeOK, MemoryLost, fixed
<1>15. ASSUME NEW s \in Signers, Return(s) PROVE TypeOK'
  BY <1>15 DEF TypeOK, Return, fixed
<1>16. ASSUME NEW s \in Signers, Crash(s) PROVE TypeOK'
  BY <1>16 DEF TypeOK, Crash, fixed
<1>17. CASE UNCHANGED vars
  BY <1>17 DEF TypeOK, vars
<1> QED
  BY <1>1, <1>2, <1>3, <1>4, <1>5, <1>6, <1>8, <1>9, <1>10, <1>12, <1>13, <1>14,
     <1>15, <1>16, <1>17 DEF Next, Step, Fault, Done

(* Every variable keeps its type, for every value of the constants.        *)
THEOREM TypeCorrect == Spec => []TypeOK
<1> QED
  BY InitTypeOK, NextTypeOK, PTL DEF Spec
-----------------------------------------------------------------------------
(* What an advance that takes effect does to the chains.                   *)

(* The chain grows at its end only.                                        *)
LEMMA EffectOnLedger ==
    ASSUME TypeOK, NEW s \in Signers, TakesEffect(s)
    PROVE  /\ Len(ledger'[job[s]]) = Len(ledger[job[s]]) + 1
           /\ ledger'[job[s]][Len(ledger[job[s]]) + 1] = draft[s]
           /\ \A t \in Tenants : t # job[s] => ledger'[t] = ledger[t]
           /\ \A t \in Tenants : Len(ledger[t]) \in Nat
           /\ \A t \in Tenants : Len(ledger'[t]) \in Nat
           /\ \A t \in Tenants : Len(ledger[t]) <= Len(ledger'[t])
           /\ \A t \in Tenants : \A i \in 1..Len(ledger[t]) : ledger'[t][i] = ledger[t][i]
<1>1. job[s] \in Tenants /\ draft[s] \in Receipt /\ \A t \in Tenants : ledger[t] \in Seq(Receipt)
  BY DEF TypeOK
<1>2. /\ ledger'[job[s]] = Append(ledger[job[s]], draft[s])
      /\ \A t \in Tenants : t # job[s] => ledger'[t] = ledger[t]
  BY <1>1 DEF TypeOK, TakesEffect
<1>3. /\ Len(ledger'[job[s]]) = Len(ledger[job[s]]) + 1
      /\ ledger'[job[s]][Len(ledger[job[s]]) + 1] = draft[s]
      /\ \A i \in 1..Len(ledger[job[s]]) : ledger'[job[s]][i] = ledger[job[s]][i]
  BY <1>1, <1>2
<1>4. \A t \in Tenants : Len(ledger[t]) \in Nat
  BY <1>1
<1>5. ASSUME NEW t \in Tenants
      PROVE  /\ Len(ledger'[t]) \in Nat /\ Len(ledger[t]) <= Len(ledger'[t])
             /\ \A i \in 1..Len(ledger[t]) : ledger'[t][i] = ledger[t][i]
  <2>1. CASE t = job[s]
    BY <1>3, <1>4, <2>1
  <2>2. CASE t # job[s]
    BY <1>2, <1>4, <2>2
  <2> QED
    BY <2>1, <2>2
<1> QED
  BY <1>2, <1>3, <1>4, <1>5

(* The committed row is the height and hash of the last receipt.           *)
LEMMA RowIsTip ==
    ASSUME TypeOK, ChainInv, NEW t \in Tenants
    PROVE  /\ Len(ledger[t]) \in Nat
           /\ row[t] = NoRow <=> Len(ledger[t]) = 0
           /\ Len(ledger[t]) > 0 => row[t].height = Len(ledger[t])
           /\ HeadOf(t).height = Len(ledger[t])
           /\ HeadOf(t).hash = IF Len(ledger[t]) = 0 THEN Genesis
                               ELSE ledger[t][Len(ledger[t])].id
<1>1. ledger[t] \in Seq(Receipt)
  BY DEF TypeOK
<1>2. Len(ledger[t]) \in Nat /\ (ledger[t] = <<>> <=> Len(ledger[t]) = 0)
  BY <1>1
<1>3. CASE ledger[t] = <<>>
  BY <1>2, <1>3 DEF ChainInv, HeadIsTip, HeadOf
<1>4. CASE ledger[t] # <<>>
  <2>1. Len(ledger[t]) \in 1..Len(ledger[t])
    BY <1>2, <1>4
  <2>2. ledger[t][Len(ledger[t])].height = Len(ledger[t])
    BY <2>1 DEF ChainInv, WellLinked
  <2>3. row[t] = NextState(ledger[t][Len(ledger[t])])
    BY <1>4 DEF ChainInv, HeadIsTip
  <2>4. ledger[t][Len(ledger[t])] \in Receipt
    BY <1>1, <2>1
  <2>5. row[t] # NoRow
    BY <2>3, <2>4, NextStateType, StoreAssumption
  <2> QED
    BY <1>2, <1>4, <2>2, <2>3, <2>5 DEF HeadOf, NextState
<1> QED
  BY <1>3, <1>4

(* A signer whose compare-and-set succeeds has loaded the current head, so *)
(* its receipt is the successor of the tip.                                *)
LEMMA WinnerFollowsTip ==
    ASSUME TypeOK, ChainInv, NEW s \in Signers,
           \/ pc[s] = "committing"
           \/ pc[s] = "updating" /\ (CasMatches(s) \/ MemoryMatches(s))
    PROVE  /\ draft[s].id = <<s, built[s]>>
           /\ draft[s].tenant = job[s]
           /\ draft[s].height = Len(ledger[job[s]]) + 1
           /\ draft[s].prev = IF Len(ledger[job[s]]) = 0 THEN Genesis
                              ELSE ledger[job[s]][Len(ledger[job[s]])].id
<1>1. job[s] \in Tenants /\ loaded[s].height \in Nat
  BY DEF TypeOK, ChainState
<1>2. /\ draft[s] = [id |-> <<s, built[s]>>, tenant |-> job[s],
                     height |-> loaded[s].height + 1, prev |-> loaded[s].hash]
      /\ loaded[s].height <= Len(ledger[job[s]])
      /\ loaded[s].hash = IF loaded[s].height = 0 THEN Genesis
                          ELSE ledger[job[s]][loaded[s].height].id
  BY DEF ChainInv, DraftFollowsLoaded, LoadedWasHead
<1>3. CasMatches(s) \/ MemoryMatches(s)
  BY DEF ChainInv, HolderStillMatches
<1>4. loaded[s].height = Len(ledger[job[s]])
  BY <1>1, <1>2, <1>3, RowIsTip DEF CasMatches, MemoryMatches
<1> QED
  BY <1>2, <1>4

(* After it took effect the row is again the tip of a well linked chain.   *)
LEMMA EffectKeepsChain ==
    ASSUME TypeOK, TypeOK', ChainInv, NEW s \in Signers, TakesEffect(s),
           \/ pc[s] = "committing"
           \/ pc[s] = "updating" /\ (CasMatches(s) \/ MemoryMatches(s))
    PROVE  HeadIsTip' /\ WellLinked'
<1>1. job[s] \in Tenants /\ \A t \in Tenants : Len(ledger[t]) \in Nat
  BY EffectOnLedger DEF TypeOK
<1>2. HeadIsTip'
  <2> SUFFICES ASSUME NEW t \in Tenants
               PROVE  IF ledger'[t] = <<>> THEN row'[t] = NoRow
                      ELSE row'[t] = NextState(ledger'[t][Len(ledger'[t])])
    BY DEF HeadIsTip, NextState
  <2>1. CASE t = job[s]
    <3>1. row'[t] = NextState(draft[s])
      BY <2>1 DEF TypeOK, TakesEffect
    <3>2. ledger'[t] # <<>> /\ ledger'[t][Len(ledger'[t])] = draft[s]
      BY <1>1, <2>1, EffectOnLedger
    <3> QED
      BY <3>1, <3>2
  <2>2. CASE t # job[s]
    BY <2>2, EffectOnLedger DEF TypeOK, TakesEffect, ChainInv, HeadIsTip
  <2> QED
    BY <2>1, <2>2
<1>3. WellLinked'
  <2> SUFFICES ASSUME NEW t \in Tenants, NEW i \in 1..Len(ledger'[t])
               PROVE  /\ ledger'[t][i].tenant = t
                      /\ ledger'[t][i].height = i
                      /\ ledger'[t][i].prev = IF i = 1 THEN Genesis ELSE ledger'[t][i-1].id
    BY DEF WellLinked
  <2>1. CASE i \in 1..Len(ledger[t])
    <3>1. ledger'[t][i] = ledger[t][i]
      BY <2>1, EffectOnLedger
    <3>2. i # 1 => i - 1 \in 1..Len(ledger[t])
      BY <1>1, <2>1
    <3>3. i # 1 => ledger'[t][i-1] = ledger[t][i-1]
      BY <3>2, EffectOnLedger
    <3> QED
      BY <2>1, <3>1, <3>3 DEF ChainInv, WellLinked
  <2>2. CASE i \notin 1..Len(ledger[t])
    <3>1. t = job[s] /\ i = Len(ledger[t]) + 1
      BY <1>1, <2>2, EffectOnLedger
    <3>2. ledger'[t][i] = draft[s]
      BY <3>1, EffectOnLedger
    <3>3. i # 1 => ledger'[t][i-1] = ledger[t][i-1] /\ i - 1 = Len(ledger[t])
      BY <1>1, <3>1, EffectOnLedger
    <3> QED
      BY <1>1, <3>1, <3>2, <3>3, WinnerFollowsTip
  <2> QED
    BY <2>1, <2>2
<1> QED
  BY <1>2, <1>3
-----------------------------------------------------------------------------
(* Every step keeps the chains linked and the signers' view of them true.  *)

(* A step that leaves the chains and the signers' progress on them alone.  *)
LEMMA ChainSame ==
    ASSUME ChainInv, UNCHANGED <<row, ledger>>
    PROVE  HeadIsTip' /\ WellLinked'
BY DEF ChainInv, HeadIsTip, WellLinked, NextState

(* A step in which signer s commits its receipt.                           *)
LEMMA EffectKeepsChainInv ==
    ASSUME TypeOK, TypeOK', ChainInv, NEW s \in Signers, TakesEffect(s),
           \/ pc[s] = "committing" /\ holder' = [holder EXCEPT ![job[s]] = NoSigner]
           \/ /\ pc[s] = "updating" /\ (CasMatches(s) \/ MemoryMatches(s))
              /\ backend = "memory" /\ UNCHANGED holder,
           \E p \in {"acked", "idle"} : pc' = [pc EXCEPT ![s] = p],
           UNCHANGED <<backend, job, loaded, draft, built, first>>
    PROVE  ChainInv'
<1>1. HeadIsTip' /\ WellLinked'
  BY EffectKeepsChain
<1>2. \A q \in Signers : pc'[q] \in {"loaded", "updating", "committing"} =>
                              q # s /\ pc'[q] = pc[q]
  BY DEF TypeOK
<1>3. LoadedWasHead'
  <2> SUFFICES ASSUME NEW q \in Signers, pc'[q] \in {"loaded", "updating", "committing"}
               PROVE  /\ loaded'[q].height <= Len(ledger'[job'[q]])
                      /\ loaded'[q].hash = IF loaded'[q].height = 0 THEN Genesis
                                           ELSE ledger'[job'[q]][loaded'[q].height].id
    BY DEF LoadedWasHead
  <2>1. /\ loaded[q].height <= Len(ledger[job[q]])
        /\ loaded[q].hash = IF loaded[q].height = 0 THEN Genesis
                            ELSE ledger[job[q]][loaded[q].height].id
    BY <1>2 DEF ChainInv, LoadedWasHead
  <2>2. job[q] \in Tenants /\ loaded[q].height \in Nat
    BY DEF TypeOK, ChainState
  <2>3. /\ Len(ledger[job[q]]) \in Nat /\ Len(ledger'[job[q]]) \in Nat
        /\ Len(ledger[job[q]]) <= Len(ledger'[job[q]])
    BY <2>2, EffectOnLedger
  <2>4. loaded[q].height # 0 => ledger'[job[q]][loaded[q].height] = ledger[job[q]][loaded[q].height]
    BY <2>1, <2>2, <2>3, EffectOnLedger
  <2> QED
    BY <2>1, <2>2, <2>3, <2>4
<1>4. DraftFollowsLoaded'
  BY <1>2 DEF ChainInv, DraftFollowsLoaded, OfCall
<1>5. HolderStillMatches'
  <2> SUFFICES ASSUME NEW q \in Signers, pc'[q] = "committing"
               PROVE  backend' = "postgres" /\ holder'[job'[q]] = q /\ CasMatches(q)'
    BY DEF HolderStillMatches
  <2>1. q # s /\ pc[q] = "committing"
    BY <1>2
  <2>2. backend = "postgres" /\ holder[job[q]] = q /\ CasMatches(q)
    BY <2>1 DEF ChainInv, HolderStillMatches
  <2>3. pc[s] = "committing" /\ holder[job[s]] = s
    BY <2>2 DEF ChainInv, HolderStillMatches
  <2>4. job[q] # job[s] /\ job[q] \in Tenants
    BY <2>1, <2>2, <2>3 DEF TypeOK
  <2>5. row'[job[q]] = row[job[q]]
    BY <2>4 DEF TypeOK, TakesEffect
  <2>6. holder'[job[q]] = q
    BY <2>2, <2>3, <2>4 DEF TypeOK
  <2> QED
    BY <2>2, <2>5, <2>6 DEF CasMatches
<1> QED
  BY <1>1, <1>3, <1>4, <1>5 DEF ChainInv

LEMMA ChainStep ==
    ASSUME TypeOK, TypeOK', ChainInv, LedgerIsBuilt, [Next]_vars
    PROVE  ChainInv'
<1>1. ASSUME NEW s \in Signers, NEW t \in Tenants, Call(s, t) PROVE ChainInv'
  <2>1. HeadIsTip' /\ WellLinked'
    BY <1>1, ChainSame DEF Call
  <2>2. /\ UNCHANGED <<backend, row, holder, loaded, draft, built, ledger>>
        /\ pc'[s] = "loading"
        /\ \A q \in Signers : q # s => pc'[q] = pc[q] /\ job'[q] = job[q] /\ first'[q] = first[q]
    BY <1>1 DEF TypeOK, Call
  <2>3. LoadedWasHead' /\ DraftFollowsLoaded'
    BY <2>2 DEF ChainInv, LoadedWasHead, DraftFollowsLoaded, OfCall
  <2>4. HolderStillMatches'
    BY <2>2 DEF ChainInv, HolderStillMatches, CasMatches
  <2> QED
    BY <2>1, <2>3, <2>4 DEF ChainInv
<1>2. ASSUME NEW s \in Signers, Load(s) PROVE ChainInv'
  <2>1. HeadIsTip' /\ WellLinked'
    BY <1>2, ChainSame DEF Load
  <2>2. job[s] \in Tenants
    BY DEF TypeOK
  <2>3. LoadedWasHead'
    <3> SUFFICES ASSUME NEW q \in Signers, pc'[q] \in {"loaded", "updating", "committing"}
                 PROVE  /\ loaded'[q].height <= Len(ledger[job[q]])
                        /\ loaded'[q].hash = IF loaded'[q].height = 0 THEN Genesis
                                             ELSE ledger[job[q]][loaded'[q].height].id
      BY <1>2 DEF Load, LoadedWasHead
    <3>1. CASE q = s
      <4>1. loaded'[q] = HeadOf(job[q])
        BY <1>2, <3>1 DEF TypeOK, Load
      <4> QED
        BY <2>2, <3>1, <4>1, RowIsTip
    <3>2. CASE q # s
      BY <1>2, <3>2 DEF TypeOK, Load, ChainInv, LoadedWasHead
    <3> QED
      BY <3>1, <3>2
  <2>4. /\ UNCHANGED <<backend, row, holder, job, draft, built, first>>
        /\ pc'[s] = "loaded"
        /\ \A q \in Signers : q # s => pc'[q] = pc[q] /\ loaded'[q] = loaded[q]
    BY <1>2 DEF TypeOK, Load, fixed
  <2>5. DraftFollowsLoaded'
    BY <2>4 DEF ChainInv, DraftFollowsLoaded, OfCall
  <2>6. HolderStillMatches'
    BY <2>4 DEF ChainInv, HolderStillMatches, CasMatches
  <2> QED
    BY <2>1, <2>3, <2>5, <2>6 DEF ChainInv
<1>3. ASSUME NEW s \in Signers, Build(s) PROVE ChainInv'
  <2>1. HeadIsTip' /\ WellLinked'
    BY <1>3, ChainSame DEF Build
  <2>2. LoadedWasHead' /\ HolderStillMatches'
    BY <1>3 DEF TypeOK, Build, fixed, ChainInv, LoadedWasHead, HolderStillMatches, CasMatches
  <2>3. first[s] <= built[s] /\ first[s] \in Nat /\ built[s] \in Nat
    BY DEF TypeOK, LedgerIsBuilt
  <2>4. DraftFollowsLoaded'
    <3> SUFFICES ASSUME NEW q \in Signers, pc'[q] \in {"updating", "committing"}
                 PROVE  /\ draft'[q] = [id |-> <<q, built'[q]>>, tenant |-> job[q],
                                       height |-> loaded[q].height + 1, prev |-> loaded[q].hash]
                        /\ draft'[q].id[1] = q /\ draft'[q].id[2] > first[q]
      BY <1>3 DEF Build, DraftFollowsLoaded, OfCall, fixed
    <3>1. CASE q = s
      <4>1. built'[q] = built[q] + 1 /\ draft'[q] = SignedAfter(q, loaded[q])
        BY <1>3, <3>1 DEF TypeOK, Build
      <4>2. draft'[q] = [id |-> <<q, built'[q]>>, tenant |-> job[q],
                         height |-> loaded[q].height + 1, prev |-> loaded[q].hash]
        BY <4>1 DEF SignedAfter
      <4>3. draft'[q].id[1] = q /\ draft'[q].id[2] = built[q] + 1
        BY <4>1, <4>2
      <4> QED
        BY <2>3, <3>1, <4>2, <4>3
    <3>2. CASE q # s
      BY <1>3, <3>2 DEF TypeOK, Build, ChainInv, DraftFollowsLoaded, OfCall
    <3> QED
      BY <3>1, <3>2
  <2> QED
    BY <2>1, <2>2, <2>4 DEF ChainInv
<1>4. ASSUME NEW s \in Signers, CasWon(s) PROVE ChainInv'
  <2>1. HeadIsTip' /\ WellLinked'
    BY <1>4, ChainSame DEF CasWon
  <2>2. LoadedWasHead' /\ DraftFollowsLoaded'
    BY <1>4 DEF TypeOK, CasWon, ChainInv, LoadedWasHead, DraftFollowsLoaded, OfCall, fixed
  <2>3. HolderStillMatches'
    BY <1>4, StoreAssumption DEF TypeOK, CasWon, fixed, ChainInv, HolderStillMatches, CasMatches
  <2> QED
    BY <2>1, <2>2, <2>3 DEF ChainInv
<1>5. ASSUME NEW s \in Signers,
             UNCHANGED <<backend, row, ledger, job, loaded, draft, built, first>>,
             pc' \in [Signers -> PCs],
             pc'[s] \notin {"loaded", "updating", "committing"},
             \A q \in Signers : q # s => pc'[q] = pc[q],
             \A t \in Tenants : holder'[t] = holder[t] \/ holder[t] = s
      PROVE  ChainInv'
  <2>1. HeadIsTip' /\ WellLinked'
    BY <1>5, ChainSame
  <2>2. LoadedWasHead' /\ DraftFollowsLoaded'
    BY <1>5 DEF ChainInv, LoadedWasHead, DraftFollowsLoaded, OfCall
  <2>3. HolderStillMatches'
    BY <1>5 DEF TypeOK, ChainInv, HolderStillMatches, CasMatches
  <2> QED
    BY <2>1, <2>2, <2>3 DEF ChainInv
<1>6. ASSUME NEW s \in Signers,
             Refuse(s) \/ CasLost(s) \/ ReRead(s) \/ MemoryLost(s) \/ Return(s)
      PROVE  ChainInv'
  BY <1>5, <1>6 DEF TypeOK, Refuse, Throws, CasLost, ReRead, MemoryLost, RetryOrThrow,
                    Return, fixed
<1>7. ASSUME NEW s \in Signers, Abort(s) \/ Crash(s) PROVE ChainInv'
  <2>1. /\ UNCHANGED <<backend, row, ledger, job, loaded, draft, built, first>>
        /\ pc' = [pc EXCEPT ![s] = "idle"]
        /\ holder' = [holder EXCEPT ![job[s]] = IF @ = s THEN NoSigner ELSE @]
    BY <1>7 DEF Abort, Throws, Crash, fixed
  <2>2. \A t \in Tenants : holder'[t] = holder[t] \/ holder[t] = s
    BY <2>1 DEF TypeOK
  <2>3. pc'[s] = "idle" /\ \A q \in Signers : q # s => pc'[q] = pc[q]
    BY <2>1 DEF TypeOK
  <2>4. pc' \in [Signers -> PCs]
    BY DEF TypeOK
  <2> QED
    BY <1>5, <2>1, <2>2, <2>3, <2>4
<1>8. ASSUME NEW s \in Signers, Commit(s) PROVE ChainInv'
  BY <1>8, EffectKeepsChainInv DEF Commit, fixed
<1>9. ASSUME NEW s \in Signers, CommitAckLost(s) PROVE ChainInv'
  BY <1>9, EffectKeepsChainInv DEF CommitAckLost, Throws, fixed
<1>10. ASSUME NEW s \in Signers, MemoryWon(s) PROVE ChainInv'
  BY <1>10, EffectKeepsChainInv DEF MemoryWon, fixed
<1>11. CASE UNCHANGED vars
  BY <1>11, ChainSame DEF vars, ChainInv, LoadedWasHead, DraftFollowsLoaded,
                          HolderStillMatches, CasMatches, OfCall
<1> QED
  BY <1>1, <1>2, <1>3, <1>4, <1>6, <1>7, <1>8, <1>9, <1>10, <1>11 DEF Next, Step, Fault, Done
-----------------------------------------------------------------------------
(* Every step keeps what is known of the calls' receipts in the chains.    *)

Active == {"loading", "loaded", "updating", "committing", "rereading"}

LEMMA LedgerIds ==
    ASSUME TypeOK, NEW t \in Tenants, NEW i \in 1..Len(ledger[t])
    PROVE  /\ ledger[t][i] \in Receipt
           /\ ledger[t][i].id[1] \in Signers
           /\ ledger[t][i].id[2] \in Nat
<1>1. ledger[t] \in Seq(Receipt)
  BY DEF TypeOK
<1>2. ledger[t][i] \in Receipt
  BY <1>1
<1> QED
  BY <1>2 DEF Receipt, ReceiptIds

(* In a step without a commit the receipts of a call stay what they are.   *)
LEMMA CallsSame ==
    ASSUME CallInv, NEW s \in Signers,
           UNCHANGED <<ledger, built, first>>,
           \A q \in Signers : q # s => pc'[q] = pc[q] /\ result'[q] = result[q],
           pc'[s] \in Active => pc[s] \in Active,
           pc'[s] # "idle" => result'[s] = "none"
    PROVE  CallInv'
<1>1. LedgerIsBuilt' /\ OneCommitPerCall'
  BY DEF CallInv, LedgerIsBuilt, OneCommitPerCall, OfCall
<1>2. NothingLandedYet'
  BY DEF CallInv, NothingLandedYet, OfCall, Active
<1>3. NoOutcomeYet'
  BY DEF CallInv, NoOutcomeYet
<1> QED
  BY <1>1, <1>2, <1>3 DEF CallInv

(* A call that commits had nothing in the chains, and has one receipt now. *)
LEMMA EffectKeepsCallInv ==
    ASSUME TypeOK, ChainInv, CallInv, NEW s \in Signers, TakesEffect(s),
           \/ pc[s] = "committing"
           \/ pc[s] = "updating" /\ (CasMatches(s) \/ MemoryMatches(s)),
           \/ pc' = [pc EXCEPT ![s] = "acked"] /\ UNCHANGED result
           \/ Throws(s),
           UNCHANGED <<built, first>>
    PROVE  CallInv'
<1> DEFINE New(t, i) == t = job[s] /\ i = Len(ledger[t]) + 1
<1>1. \A t \in Tenants : \A i \in 1..Len(ledger'[t]) :
         \/ i \in 1..Len(ledger[t]) /\ ledger'[t][i] = ledger[t][i]
         \/ New(t, i) /\ ledger'[t][i] = draft[s]
  BY EffectOnLedger
<1>2. draft[s].id = <<s, built[s]>> /\ built[s] \in Nat
  BY WinnerFollowsTip DEF TypeOK
<1>3. \A q \in Signers : q # s => pc'[q] = pc[q] /\ result'[q] = result[q]
  BY DEF TypeOK, Throws
<1>4. pc'[s] \in {"acked", "idle"}
  BY DEF TypeOK, Throws
<1>5. \A t \in Tenants : \A i \in 1..Len(ledger[t]) : ~OfCall(s, ledger[t][i])
  BY DEF CallInv, NothingLandedYet
<1>6. \A q \in Signers : q # s => ~OfCall(q, draft[s])
  BY <1>2 DEF OfCall
<1>7. LedgerIsBuilt'
  <2>1. \A q \in Signers : first'[q] <= built'[q]
    BY DEF CallInv, LedgerIsBuilt
  <2>2. ASSUME NEW t \in Tenants, NEW i \in 1..Len(ledger'[t])
        PROVE  ledger'[t][i].id[2] <= built[ledger'[t][i].id[1]]
    <3>1. CASE i \in 1..Len(ledger[t]) /\ ledger'[t][i] = ledger[t][i]
      BY <3>1 DEF CallInv, LedgerIsBuilt
    <3>2. CASE ledger'[t][i] = draft[s]
      BY <1>2, <3>2
    <3> QED
      BY <1>1, <3>1, <3>2
  <2> QED
    BY <2>1, <2>2 DEF LedgerIsBuilt
<1>8. NothingLandedYet'
  <2> SUFFICES ASSUME NEW q \in Signers,
                      pc'[q] \in {"loading", "loaded", "updating", "committing", "rereading"},
                      NEW t \in Tenants, NEW i \in 1..Len(ledger'[t])
               PROVE  ~OfCall(q, ledger'[t][i])
    BY DEF NothingLandedYet, OfCall
  <2>1. q # s /\ pc'[q] = pc[q]
    BY <1>3, <1>4
  <2>2. CASE i \in 1..Len(ledger[t]) /\ ledger'[t][i] = ledger[t][i]
    BY <2>1, <2>2 DEF CallInv, NothingLandedYet
  <2>3. CASE ledger'[t][i] = draft[s]
    BY <1>6, <2>1, <2>3
  <2> QED
    BY <1>1, <2>2, <2>3
<1>9. NoOutcomeYet'
  BY <1>3, <1>4 DEF CallInv, NoOutcomeYet, Throws, TypeOK
<1>10. OneCommitPerCall'
  <2> SUFFICES ASSUME NEW q \in Signers, NEW t \in Tenants, NEW u \in Tenants,
                      NEW i \in 1..Len(ledger'[t]), NEW j \in 1..Len(ledger'[u]),
                      OfCall(q, ledger'[t][i]), OfCall(q, ledger'[u][j])
               PROVE  t = u /\ i = j
    BY DEF OneCommitPerCall, OfCall
  <2>1. CASE q = s
    <3>1. New(t, i) /\ New(u, j)
      BY <1>1, <1>5, <2>1
    <3> QED
      BY <3>1
  <2>2. CASE q # s
    <3>1. /\ i \in 1..Len(ledger[t]) /\ ledger'[t][i] = ledger[t][i]
          /\ j \in 1..Len(ledger[u]) /\ ledger'[u][j] = ledger[u][j]
      BY <1>1, <1>6, <2>2
    <3> QED
      BY <3>1 DEF CallInv, OneCommitPerCall
  <2> QED
    BY <2>1, <2>2
<1> QED
  BY <1>7, <1>8, <1>9, <1>10 DEF CallInv

LEMMA CallStep ==
    ASSUME TypeOK, TypeOK', ChainInv, CallInv, [Next]_vars
    PROVE  CallInv'
<1>1. ASSUME NEW s \in Signers, NEW t \in Tenants, Call(s, t) PROVE CallInv'
  <2>1. \A u \in Tenants : \A i \in 1..Len(ledger[u]) :
           ledger[u][i].id[1] = s => ~(ledger[u][i].id[2] > built[s])
    <3> SUFFICES ASSUME NEW u \in Tenants, NEW i \in 1..Len(ledger[u]), ledger[u][i].id[1] = s
                 PROVE  ~(ledger[u][i].id[2] > built[s])
      OBVIOUS
    <3>1. ledger[u][i].id[2] <= built[s]
      BY DEF CallInv, LedgerIsBuilt
    <3>2. ledger[u][i].id[2] \in Nat /\ built[s] \in Nat
      BY LedgerIds DEF TypeOK
    <3> QED
      BY <3>1, <3>2
  <2>2. /\ UNCHANGED <<ledger, built>>
        /\ \A q \in Signers : q # s => /\ pc'[q] = pc[q] /\ result'[q] = result[q]
                                      /\ first'[q] = first[q]
        /\ first'[s] = built[s] /\ result'[s] = "none"
    BY <1>1 DEF Call, TypeOK
  <2>3. LedgerIsBuilt'
    <3>1. \A q \in Signers : first'[q] <= built'[q]
      <4>1. first'[s] <= built'[s]
        BY <2>2 DEF TypeOK
      <4>2. \A q \in Signers : q # s => first'[q] <= built'[q]
        BY <2>2 DEF CallInv, LedgerIsBuilt
      <4> QED
        BY <4>1, <4>2
    <3>2. ledger' = ledger /\ built' = built
      BY <2>2
    <3> QED
      BY <3>1, <3>2 DEF CallInv, LedgerIsBuilt
  <2>4. NothingLandedYet'
    <3>1. ledger' = ledger /\ \A q \in Signers : q # s => pc'[q] = pc[q] /\ first'[q] = first[q]
      BY <2>2
    <3> SUFFICES ASSUME NEW q \in Signers, q # s,
                        pc[q] \in {"loading", "loaded", "updating", "committing", "rereading"},
                        NEW u \in Tenants, NEW i \in 1..Len(ledger[u])
                 PROVE  ~(ledger[u][i].id[1] = q /\ ledger[u][i].id[2] > first[q])
      <4>1. first'[s] = built[s]
        BY <2>2
      <4> QED
        BY <2>1, <3>1, <4>1 DEF NothingLandedYet, OfCall
    <3> QED
      BY DEF CallInv, NothingLandedYet, OfCall
  <2>5. NoOutcomeYet'
    BY <2>2 DEF CallInv, NoOutcomeYet
  <2>6. OneCommitPerCall'
    BY <2>1, <2>2 DEF CallInv, OneCommitPerCall, OfCall
  <2> QED
    BY <2>3, <2>4, <2>5, <2>6 DEF CallInv
<1>2. ASSUME NEW s \in Signers, Build(s) PROVE CallInv'
  <2>1. LedgerIsBuilt'
    <3>1. \A q \in Signers : built[q] <= built'[q] /\ built[q] \in Nat /\ built'[q] \in Nat
                             /\ first[q] \in Nat
      <4>1. first \in [Signers -> Nat] /\ built \in [Signers -> Nat]
        BY DEF TypeOK
      <4>2. built' = [built EXCEPT ![s] = built[s] + 1]
        BY <1>2 DEF Build
      <4> QED
        BY <4>1, <4>2
    <3>2. ledger' = ledger /\ first' = first
      BY <1>2 DEF Build, fixed
    <3>3. \A q \in Signers : first'[q] <= built'[q]
      <4>1. \A q \in Signers : first[q] <= built[q]
        BY DEF CallInv, LedgerIsBuilt
      <4> QED
        BY <3>1, <3>2, <4>1
    <3>4. ASSUME NEW t \in Tenants, NEW i \in 1..Len(ledger[t])
          PROVE  ledger[t][i].id[2] <= built'[ledger[t][i].id[1]]
      <4>1. ledger[t][i].id[1] \in Signers /\ ledger[t][i].id[2] \in Nat
        BY LedgerIds
      <4>2. ledger[t][i].id[2] <= built[ledger[t][i].id[1]]
        BY DEF CallInv, LedgerIsBuilt
      <4> QED
        BY <3>1, <4>1, <4>2
    <3> QED
      BY <3>2, <3>3, <3>4 DEF LedgerIsBuilt
  <2>2. NothingLandedYet' /\ NoOutcomeYet' /\ OneCommitPerCall'
    <3>1. /\ UNCHANGED <<ledger, first, result>>
          /\ pc[s] = "loaded"
          /\ \A q \in Signers : q # s => pc'[q] = pc[q]
      BY <1>2 DEF Build, TypeOK, fixed
    <3>2. OneCommitPerCall'
      BY <3>1 DEF CallInv, OneCommitPerCall, OfCall
    <3>3. NoOutcomeYet'
      BY <3>1 DEF CallInv, NoOutcomeYet
    <3>4. NothingLandedYet'
      BY <3>1 DEF CallInv, NothingLandedYet, OfCall
    <3> QED
      BY <3>2, <3>3, <3>4
  <2> QED
    BY <2>1, <2>2 DEF CallInv
<1>3. ASSUME NEW s \in Signers, Load(s) \/ CasWon(s) \/ CasLost(s) PROVE CallInv'
  BY <1>3, CallsSame DEF Load, CasWon, CasLost, fixed, TypeOK, Active, CallInv, NoOutcomeYet
<1>4. ASSUME NEW s \in Signers, Refuse(s) \/ Abort(s) \/ Crash(s) \/ Return(s)
      PROVE  CallInv'
  BY <1>4, CallsSame DEF Refuse, Abort, Crash, Return, Throws, fixed, TypeOK, Active
<1>5. ASSUME NEW s \in Signers, ReRead(s) \/ MemoryLost(s) PROVE CallInv'
  BY <1>5, CallsSame DEF ReRead, MemoryLost, RetryOrThrow, fixed, TypeOK, Active,
                         CallInv, NoOutcomeYet
<1>6. ASSUME NEW s \in Signers, Commit(s) \/ CommitAckLost(s) \/ MemoryWon(s)
      PROVE  CallInv'
  BY <1>6, EffectKeepsCallInv DEF Commit, CommitAckLost, MemoryWon, fixed
<1>7. CASE UNCHANGED vars
  BY <1>7 DEF vars, CallInv, LedgerIsBuilt, NothingLandedYet, NoOutcomeYet,
              OneCommitPerCall, OfCall
<1> QED
  BY <1>1, <1>2, <1>3, <1>4, <1>5, <1>6, <1>7 DEF Next, Step, Fault, Done
-----------------------------------------------------------------------------
(* Every step keeps what callers are told in agreement with the chains.    *)

(* Only signer s moves, it commits nothing, and if it is told of a conflict*)
(* it has nothing in the chains.                                           *)
LEMMA OutcomesSame ==
    ASSUME CallInv, OutcomeInv, NEW s \in Signers,
           UNCHANGED <<ledger, delivered>>,
           \A q \in Signers : q # s =>
               /\ pc'[q] = pc[q] /\ result'[q] = result[q] /\ draft'[q] = draft[q]
               /\ first'[q] = first[q] /\ job'[q] = job[q],
           pc'[s] # "acked",
           \/ result'[s] \in {"none", "error", "crashed"}
           \/ result'[s] = "conflict" /\ pc[s] \in Active /\ first'[s] = first[s]
    PROVE  OutcomeInv'
<1>1. AckedIsCommitted'
  BY DEF OutcomeInv, AckedIsCommitted, OfCall
<1>2. OutcomeMatchesLedger'
  BY DEF OutcomeInv, OutcomeMatchesLedger, CallInv, NothingLandedYet, OfCall, Active
<1>3. DeliveredAreCommitted'
  BY DEF OutcomeInv, DeliveredAreCommitted
<1> QED
  BY <1>1, <1>2, <1>3 DEF OutcomeInv

LEMMA EffectKeepsOutcomes ==
    ASSUME TypeOK, ChainInv, CallInv, OutcomeInv, NEW s \in Signers, TakesEffect(s),
           \/ pc[s] = "committing"
           \/ pc[s] = "updating" /\ (CasMatches(s) \/ MemoryMatches(s)),
           \/ pc' = [pc EXCEPT ![s] = "acked"] /\ UNCHANGED result
           \/ Throws(s),
           UNCHANGED <<job, draft, built, first, delivered>>
    PROVE  OutcomeInv'
<1>1. /\ draft[s].id = <<s, built[s]>> /\ draft[s].tenant = job[s]
      /\ draft[s].height = Len(ledger[job[s]]) + 1
  BY WinnerFollowsTip
<1>2. OfCall(s, draft[s])
  BY DEF ChainInv, DraftFollowsLoaded
<1>3. \A q \in Signers : q # s => pc'[q] = pc[q] /\ result'[q] = result[q]
  BY DEF TypeOK, Throws
<1>4. result'[s] \in {"none", "error"}
  BY DEF TypeOK, Throws, CallInv, NoOutcomeYet
<1>5. job \in [Signers -> Tenants] /\ \A t \in Tenants : Len(ledger[t]) \in Nat
  BY EffectOnLedger DEF TypeOK
<1>6. \A t \in Tenants : \A i \in 1..Len(ledger[t]) :
         i \in 1..Len(ledger'[t]) /\ ledger'[t][i] = ledger[t][i]
  BY EffectOnLedger
<1>7. AckedIsCommitted'
  <2> SUFFICES ASSUME NEW q \in Signers, pc'[q] = "acked"
               PROVE  /\ OfCall(q, draft[q]) /\ draft[q].tenant = job[q]
                      /\ draft[q].height \in 1..Len(ledger'[job[q]])
                      /\ ledger'[job[q]][draft[q].height] = draft[q]
    BY DEF AckedIsCommitted, OfCall
  <2>1. CASE q = s
    BY <1>1, <1>2, <1>5, <2>1, EffectOnLedger
  <2>2. CASE q # s
    BY <1>3, <1>5, <1>6, <2>2 DEF OutcomeInv, AckedIsCommitted
  <2> QED
    BY <2>1, <2>2
<1>8. OutcomeMatchesLedger'
  <2> SUFFICES ASSUME NEW q \in Signers
               PROVE  /\ result'[q] = "conflict" =>
                            \A t \in Tenants : \A i \in 1..Len(ledger'[t]) :
                                ~OfCall(q, ledger'[t][i])
                      /\ result'[q] = "signed" =>
                            /\ OfCall(q, draft[q])
                            /\ \E i \in 1..Len(ledger'[job[q]]) : ledger'[job[q]][i] = draft[q]
    BY DEF OutcomeMatchesLedger, OfCall
  <2>1. CASE q = s
    BY <1>4, <2>1
  <2>2. CASE q # s
    <3>1. ~OfCall(q, draft[s])
      BY <1>1, <2>2 DEF OfCall
    <3>2. \A t \in Tenants : \A i \in 1..Len(ledger'[t]) :
             \/ i \in 1..Len(ledger[t]) /\ ledger'[t][i] = ledger[t][i]
             \/ ledger'[t][i] = draft[s]
      BY EffectOnLedger
    <3>3. result'[q] = "conflict" =>
             \A t \in Tenants : \A i \in 1..Len(ledger'[t]) : ~OfCall(q, ledger'[t][i])
      BY <1>3, <2>2, <3>1, <3>2 DEF OutcomeInv, OutcomeMatchesLedger
    <3>4. result'[q] = "signed" =>
             /\ OfCall(q, draft[q])
             /\ \E i \in 1..Len(ledger'[job[q]]) : ledger'[job[q]][i] = draft[q]
      <4> SUFFICES ASSUME result'[q] = "signed"
                   PROVE  /\ OfCall(q, draft[q])
                          /\ \E i \in 1..Len(ledger'[job[q]]) : ledger'[job[q]][i] = draft[q]
        OBVIOUS
      <4>1. OfCall(q, draft[q])
        BY <1>3, <2>2 DEF OutcomeInv, OutcomeMatchesLedger
      <4>2. PICK i \in 1..Len(ledger[job[q]]) : ledger[job[q]][i] = draft[q]
        BY <1>3, <2>2 DEF OutcomeInv, OutcomeMatchesLedger
      <4>3. job[q] \in Tenants
        BY DEF TypeOK
      <4>4. i \in 1..Len(ledger'[job[q]]) /\ ledger'[job[q]][i] = ledger[job[q]][i]
        BY <1>5, <1>6, <4>2, <4>3
      <4> QED
        BY <4>1, <4>2, <4>4
    <3> QED
      BY <3>3, <3>4
  <2> QED
    BY <2>1, <2>2
<1>9. DeliveredAreCommitted'
  <2>1. \A r \in delivered : r.tenant \in Tenants
    BY DEF TypeOK, Receipt
  <2> QED
    BY <1>6, <2>1 DEF OutcomeInv, DeliveredAreCommitted
<1> QED
  BY <1>7, <1>8, <1>9 DEF OutcomeInv

LEMMA OutcomeStep ==
    ASSUME TypeOK, ChainInv, CallInv, OutcomeInv, [Next]_vars
    PROVE  OutcomeInv'
<1>1. ASSUME NEW s \in Signers, NEW t \in Tenants, Call(s, t) PROVE OutcomeInv'
  BY <1>1, OutcomesSame DEF Call, TypeOK
<1>2. ASSUME NEW s \in Signers, Load(s) \/ Build(s) \/ CasWon(s) \/ CasLost(s)
      PROVE  OutcomeInv'
  <2>1. result[s] = "none"
    BY <1>2 DEF Load, Build, CasWon, CasLost, CallInv, NoOutcomeYet
  <2>2. UNCHANGED <<ledger, delivered, job, result, first>>
    BY <1>2 DEF Load, Build, CasWon, CasLost, fixed
  <2>3. pc'[s] # "acked" /\ \A q \in Signers : q # s => pc'[q] = pc[q]
    BY <1>2 DEF Load, Build, CasWon, CasLost, TypeOK
  <2>4. \A q \in Signers : q # s => draft'[q] = draft[q]
    BY <1>2 DEF Load, Build, CasWon, CasLost, TypeOK
  <2> QED
    BY <2>1, <2>2, <2>3, <2>4, OutcomesSame
<1>3. ASSUME NEW s \in Signers, Refuse(s) \/ Abort(s) \/ Crash(s) PROVE OutcomeInv'
  BY <1>3, OutcomesSame DEF Refuse, Abort, Crash, Throws, fixed, TypeOK
<1>4. ASSUME NEW s \in Signers, ReRead(s) \/ MemoryLost(s) PROVE OutcomeInv'
  <2>1. pc[s] \in Active /\ result[s] = "none"
    BY <1>4 DEF ReRead, MemoryLost, Active, CallInv, NoOutcomeYet
  <2>2. UNCHANGED <<ledger, delivered, job, draft, first>> /\ RetryOrThrow(s)
    BY <1>4 DEF ReRead, MemoryLost, fixed
  <2>3. /\ pc'[s] # "acked" /\ result'[s] \in {"none", "conflict"}
        /\ \A q \in Signers : q # s => pc'[q] = pc[q] /\ result'[q] = result[q]
    BY <2>1, <2>2 DEF RetryOrThrow, TypeOK
  <2> QED
    BY <2>1, <2>2, <2>3, OutcomesSame
<1>5. ASSUME NEW s \in Signers, Commit(s) \/ CommitAckLost(s) \/ MemoryWon(s)
      PROVE  OutcomeInv'
  BY <1>5, EffectKeepsOutcomes DEF Commit, CommitAckLost, MemoryWon, fixed
<1>6. ASSUME NEW s \in Signers, Return(s) PROVE OutcomeInv'
  <2>1. /\ OfCall(s, draft[s]) /\ draft[s].tenant = job[s]
        /\ draft[s].height \in 1..Len(ledger[job[s]])
        /\ ledger[job[s]][draft[s].height] = draft[s]
    BY <1>6 DEF Return, OutcomeInv, AckedIsCommitted
  <2>2. /\ UNCHANGED <<ledger, job, draft, first>>
        /\ pc'[s] = "idle" /\ result'[s] = "signed" /\ delivered' = delivered \cup {draft[s]}
        /\ \A q \in Signers : q # s => pc'[q] = pc[q] /\ result'[q] = result[q]
    BY <1>6 DEF Return, fixed, TypeOK
  <2>3. AckedIsCommitted'
    BY <2>2 DEF OutcomeInv, AckedIsCommitted, OfCall
  <2>4. OutcomeMatchesLedger'
    BY <2>1, <2>2 DEF OutcomeInv, OutcomeMatchesLedger, OfCall
  <2>5. DeliveredAreCommitted'
    BY <2>1, <2>2 DEF OutcomeInv, DeliveredAreCommitted
  <2> QED
    BY <2>3, <2>4, <2>5 DEF OutcomeInv
<1>7. CASE UNCHANGED vars
  <2>1. UNCHANGED <<ledger, delivered, pc, result, job, draft, first>>
    BY <1>7 DEF vars
  <2>2. AckedIsCommitted'
    BY <2>1 DEF OutcomeInv, AckedIsCommitted, OfCall
  <2>3. OutcomeMatchesLedger'
    BY <2>1 DEF OutcomeInv, OutcomeMatchesLedger, OfCall
  <2>4. DeliveredAreCommitted'
    BY <2>1 DEF OutcomeInv, DeliveredAreCommitted
  <2> QED
    BY <2>2, <2>3, <2>4 DEF OutcomeInv
<1> QED
  BY <1>1, <1>2, <1>3, <1>4, <1>5, <1>6, <1>7 DEF Next, Step, Fault, Done
-----------------------------------------------------------------------------
(* Every step keeps the account of lost attempts.                          *)

LEMMA LedgerGrows ==
    ASSUME TypeOK, [Next]_vars, NEW t \in Tenants
    PROVE  Len(ledger[t]) \in Nat /\ Len(ledger'[t]) \in Nat /\ Len(ledger[t]) <= Len(ledger'[t])
<1>1. Len(ledger[t]) \in Nat
  BY DEF TypeOK
<1>2. CASE UNCHANGED ledger
  BY <1>1, <1>2
<1>3. CASE \E s \in Signers : TakesEffect(s)
  BY <1>3, EffectOnLedger
<1> QED
  BY <1>2, <1>3 DEF Next, Step, Fault, Done, Call, Load, Build, Refuse, CasWon, CasLost,
                    Commit, CommitAckLost, Abort, ReRead, MemoryWon, MemoryLost, Return,
                    Crash, vars

(* Only signer s moves, and what the step leaves of s is accounted for.    *)
LEMMA EffortKept ==
    ASSUME TypeOK, [Next]_vars, EffortInv, NEW s \in Signers,
           \A q \in Signers : q # s =>
               /\ pc'[q] = pc[q] /\ result'[q] = result[q] /\ job'[q] = job[q]
               /\ loaded'[q] = loaded[q] /\ attempt'[q] = attempt[q] /\ since'[q] = since[q],
           pc'[s] = "loading" => since'[s] + attempt'[s] <= Len(ledger'[job'[s]]),
           pc'[s] \in {"loaded", "updating"} => since'[s] + attempt'[s] <= loaded'[s].height,
           pc'[s] = "rereading" => since'[s] + attempt'[s] < Len(ledger'[job'[s]]),
           result'[s] = "conflict" => Len(ledger'[job'[s]]) - since'[s] > MaxRetries
    PROVE  EffortInv'
<1>1. \A q \in Signers : /\ job[q] \in Tenants
                         /\ since[q] \in Nat /\ attempt[q] \in Nat
  BY StoreAssumption DEF TypeOK
<1>2. \A t \in Tenants : /\ Len(ledger[t]) \in Nat /\ Len(ledger'[t]) \in Nat
                         /\ Len(ledger[t]) <= Len(ledger'[t])
  BY LedgerGrows
<1>3. LossIsProgress'
  <2> SUFFICES ASSUME NEW q \in Signers
               PROVE  /\ pc'[q] = "loading" => since'[q] + attempt'[q] <= Len(ledger'[job'[q]])
                      /\ pc'[q] \in {"loaded", "updating"} =>
                            since'[q] + attempt'[q] <= loaded'[q].height
                      /\ pc'[q] = "rereading" => since'[q] + attempt'[q] < Len(ledger'[job'[q]])
    BY DEF LossIsProgress
  <2>1. CASE q = s
    BY <2>1
  <2>2. CASE q # s
    <3>1. /\ pc[q] = "loading" => since[q] + attempt[q] <= Len(ledger[job[q]])
          /\ pc[q] \in {"loaded", "updating"} => since[q] + attempt[q] <= loaded[q].height
          /\ pc[q] = "rereading" => since[q] + attempt[q] < Len(ledger[job[q]])
      BY DEF EffortInv, LossIsProgress
    <3> QED
      BY <1>1, <1>2, <2>2, <3>1
  <2> QED
    BY <2>1, <2>2
<1>4. GiveUpNeedsContention'
  <2> SUFFICES ASSUME NEW q \in Signers, result'[q] = "conflict"
               PROVE  Len(ledger'[job'[q]]) - since'[q] > MaxRetries
    BY DEF GiveUpNeedsContention
  <2>1. CASE q = s
    BY <2>1
  <2>2. CASE q # s
    <3>1. Len(ledger[job[q]]) - since[q] > MaxRetries
      BY <2>2 DEF EffortInv, GiveUpNeedsContention
    <3> QED
      BY <1>1, <1>2, <2>2, <3>1, StoreAssumption
  <2> QED
    BY <2>1, <2>2
<1> QED
  BY <1>3, <1>4 DEF EffortInv

(* A lost compare-and-set or comparison means the chain has grown since.   *)
LEMMA LoserIsBehind ==
    ASSUME TypeOK, ChainInv, EffortInv, NEW s \in Signers, pc[s] = "updating",
           ~CasMatches(s) \/ ~MemoryMatches(s)
    PROVE  since[s] + attempt[s] < Len(ledger[job[s]])
<1>1. /\ job[s] \in Tenants /\ loaded[s].height \in Nat
      /\ since[s] \in Nat /\ attempt[s] \in Nat
  BY StoreAssumption DEF TypeOK, ChainState
<1>2. loaded[s].height <= Len(ledger[job[s]])
  BY DEF ChainInv, LoadedWasHead
<1>3. loaded[s].height # Len(ledger[job[s]])
  BY <1>1, RowIsTip DEF CasMatches, MemoryMatches
<1>4. since[s] + attempt[s] <= loaded[s].height
  BY DEF EffortInv, LossIsProgress
<1>5. Len(ledger[job[s]]) \in Nat
  BY <1>1, RowIsTip
<1> QED
  BY <1>1, <1>2, <1>3, <1>4, <1>5

(* So the call may start over, or give up, with the loss accounted for.    *)
LEMMA RetryKeepsEffort ==
    ASSUME TypeOK, [Next]_vars, CallInv, EffortInv, NEW s \in Signers, RetryOrThrow(s),
           pc[s] # "idle",
           since[s] + attempt[s] < Len(ledger[job[s]]),
           UNCHANGED <<job, loaded, ledger, since>>
    PROVE  EffortInv'
<1>1. /\ attempt[s] \in Nat /\ since[s] \in Nat /\ MaxRetries \in Nat
      /\ Len(ledger[job[s]]) \in Nat
  BY StoreAssumption DEF TypeOK
<1>2. result[s] = "none"
  BY DEF CallInv, NoOutcomeYet
<1>3. CASE attempt[s] < MaxRetries
  <2>1. /\ attempt' = [attempt EXCEPT ![s] = @ + 1]
        /\ pc' = [pc EXCEPT ![s] = "loading"] /\ UNCHANGED result
    BY <1>1, <1>3 DEF RetryOrThrow
  <2>2. /\ attempt'[s] = attempt[s] + 1 /\ pc'[s] = "loading" /\ result'[s] = "none"
        /\ \A q \in Signers : q # s => attempt'[q] = attempt[q] /\ pc'[q] = pc[q]
    BY <1>2, <2>1 DEF TypeOK
  <2>3. since'[s] + attempt'[s] <= Len(ledger'[job'[s]])
    BY <1>1, <2>2
  <2> QED
    BY <2>1, <2>2, <2>3, EffortKept
<1>4. CASE ~(attempt[s] < MaxRetries)
  <2>1. /\ UNCHANGED attempt
        /\ pc' = [pc EXCEPT ![s] = "idle"] /\ result' = [result EXCEPT ![s] = "conflict"]
    BY <1>1, <1>4 DEF RetryOrThrow
  <2>2. /\ pc'[s] = "idle"
        /\ \A q \in Signers : q # s => result'[q] = result[q] /\ pc'[q] = pc[q]
    BY <2>1 DEF TypeOK
  <2>3. Len(ledger'[job'[s]]) - since'[s] > MaxRetries
    BY <1>1, <1>4
  <2> QED
    BY <2>1, <2>2, <2>3, EffortKept
<1> QED
  BY <1>3, <1>4

LEMMA EffortStep ==
    ASSUME TypeOK, ChainInv, CallInv, EffortInv, [Next]_vars
    PROVE  EffortInv'
<1>0. \A s \in Signers : pc[s] # "idle" => result[s] = "none"
  BY DEF CallInv, NoOutcomeYet
<1>1. ASSUME NEW s \in Signers, NEW t \in Tenants, Call(s, t) PROVE EffortInv'
  <2>1. Len(ledger[t]) \in Nat
    BY DEF TypeOK
  <2>2. /\ pc'[s] = "loading" /\ result'[s] = "none" /\ job'[s] = t
        /\ since'[s] = Len(ledger[t]) /\ attempt'[s] = 0 /\ ledger' = ledger
        /\ \A q \in Signers : q # s =>
               /\ pc'[q] = pc[q] /\ result'[q] = result[q] /\ job'[q] = job[q]
               /\ loaded'[q] = loaded[q] /\ attempt'[q] = attempt[q] /\ since'[q] = since[q]
    BY <1>1 DEF Call, TypeOK
  <2>3. since'[s] + attempt'[s] <= Len(ledger'[job'[s]])
    BY <2>1, <2>2
  <2> QED
    BY <2>2, <2>3, EffortKept
<1>2. ASSUME NEW s \in Signers, Load(s) PROVE EffortInv'
  <2>1. HeadOf(job[s]).height = Len(ledger[job[s]])
    BY RowIsTip DEF TypeOK
  <2>2. since[s] + attempt[s] <= Len(ledger[job[s]])
    BY <1>2 DEF Load, EffortInv, LossIsProgress
  <2>3. /\ pc'[s] = "loaded" /\ result'[s] = "none" /\ UNCHANGED <<since, attempt, job, result>>
        /\ loaded'[s] = HeadOf(job[s])
        /\ \A q \in Signers : q # s => pc'[q] = pc[q] /\ loaded'[q] = loaded[q]
    BY <1>0, <1>2 DEF Load, TypeOK, fixed
  <2> QED
    BY <2>1, <2>2, <2>3, EffortKept
<1>3. ASSUME NEW s \in Signers, Build(s) PROVE EffortInv'
  <2>1. since[s] + attempt[s] <= loaded[s].height
    BY <1>3 DEF Build, EffortInv, LossIsProgress
  <2>2. /\ pc'[s] = "updating" /\ result'[s] = "none"
        /\ UNCHANGED <<since, attempt, job, result, loaded>>
        /\ \A q \in Signers : q # s => pc'[q] = pc[q]
    BY <1>0, <1>3 DEF Build, TypeOK, fixed
  <2> QED
    BY <2>1, <2>2, EffortKept
<1>4. ASSUME NEW s \in Signers, CasLost(s) PROVE EffortInv'
  <2>1. since[s] + attempt[s] < Len(ledger[job[s]])
    BY <1>4, LoserIsBehind DEF CasLost
  <2>2. /\ pc'[s] = "rereading" /\ result'[s] = "none"
        /\ UNCHANGED <<since, attempt, job, result, loaded, ledger>>
        /\ \A q \in Signers : q # s => pc'[q] = pc[q]
    BY <1>0, <1>4 DEF CasLost, TypeOK, fixed
  <2> QED
    BY <2>1, <2>2, EffortKept
<1>5. ASSUME NEW s \in Signers, ReRead(s) PROVE EffortInv'
  <2>1. since[s] + attempt[s] < Len(ledger[job[s]])
    BY <1>5 DEF ReRead, EffortInv, LossIsProgress
  <2> QED
    BY <1>5, <2>1, RetryKeepsEffort DEF ReRead, fixed
<1>6. ASSUME NEW s \in Signers, MemoryLost(s) PROVE EffortInv'
  <2>1. since[s] + attempt[s] < Len(ledger[job[s]])
    BY <1>6, LoserIsBehind DEF MemoryLost
  <2> QED
    BY <1>6, <2>1, RetryKeepsEffort DEF MemoryLost, fixed
<1>7. ASSUME NEW s \in Signers,
             \/ CasWon(s) \/ Commit(s) \/ MemoryWon(s) \/ CommitAckLost(s)
             \/ Refuse(s) \/ Abort(s) \/ Crash(s) \/ Return(s)
      PROVE  EffortInv'
  <2>1. /\ UNCHANGED <<since, attempt, job, loaded>>
        /\ pc'[s] \in {"idle", "committing", "acked"}
        /\ result'[s] # "conflict"
        /\ \A q \in Signers : q # s => pc'[q] = pc[q] /\ result'[q] = result[q]
    BY <1>0, <1>7 DEF CasWon, Commit, MemoryWon, CommitAckLost, Refuse, Abort, Crash, Return,
                      Throws, TypeOK, fixed
  <2> QED
    BY <2>1, EffortKept
<1>8. CASE UNCHANGED vars
  BY <1>8 DEF vars, EffortInv, LossIsProgress, GiveUpNeedsContention
<1> QED
  BY <1>1, <1>2, <1>3, <1>4, <1>5, <1>6, <1>7, <1>8 DEF Next, Step, Fault, Done
-----------------------------------------------------------------------------
(* The inductive invariant and the safety properties it implies.           *)

LEMMA InitIInv == Init => IInv
<1> SUFFICES ASSUME Init PROVE IInv
  OBVIOUS
<1>1. TypeOK
  BY InitTypeOK
<1>2. \A t \in Tenants : ledger[t] = <<>> /\ Len(ledger[t]) = 0 /\ 1..Len(ledger[t]) = {}
  BY DEF Init
<1>3. \A s \in Signers : pc[s] = "idle" /\ result[s] = "none" /\ first[s] = 0 /\ built[s] = 0
  BY DEF Init
<1>4. ChainInv
  BY <1>2, <1>3 DEF Init, ChainInv, HeadIsTip, WellLinked, LoadedWasHead,
                    DraftFollowsLoaded, HolderStillMatches
<1>5. CallInv
  BY <1>2, <1>3 DEF CallInv, LedgerIsBuilt, NothingLandedYet, NoOutcomeYet, OneCommitPerCall
<1>6. OutcomeInv
  BY <1>3 DEF Init, OutcomeInv, AckedIsCommitted, OutcomeMatchesLedger, DeliveredAreCommitted
<1>7. EffortInv
  BY <1>3 DEF EffortInv, LossIsProgress, GiveUpNeedsContention
<1> QED
  BY <1>1, <1>4, <1>5, <1>6, <1>7 DEF IInv

LEMMA NextIInv == IInv /\ [Next]_vars => IInv'
<1> SUFFICES ASSUME IInv, [Next]_vars PROVE IInv'
  OBVIOUS
<1>1. TypeOK /\ ChainInv /\ CallInv /\ OutcomeInv /\ EffortInv
  BY DEF IInv
<1>2. TypeOK'
  BY <1>1, NextTypeOK
<1>3. ChainInv'
  BY <1>1, <1>2, ChainStep DEF CallInv
<1>4. CallInv'
  BY <1>1, <1>2, CallStep
<1>5. OutcomeInv'
  BY <1>1, OutcomeStep
<1>6. EffortInv'
  BY <1>1, EffortStep
<1> QED
  BY <1>2, <1>3, <1>4, <1>5, <1>6 DEF IInv

(* The inductive invariant holds in every reachable state.                 *)
THEOREM Invariant == Spec => []IInv
<1> QED
  BY InitIInv, NextIInv, PTL DEF Spec

(* However the signers interleave, fail and crash, each tenant's committed *)
(* receipts form one unforked, gap-free hash chain, although the stores    *)
(* compare heights only.                                                   *)
THEOREM ChainNeverForks == Spec => []WellLinked
<1>1. IInv => WellLinked
  BY DEF IInv, ChainInv
<1> QED
  BY <1>1, Invariant, PTL

(* However often it retries, a call never commits two receipts.            *)
THEOREM CallCommitsOnce == Spec => []OneCommitPerCall
<1>1. IInv => OneCommitPerCall
  BY DEF IInv, CallInv
<1> QED
  BY <1>1, Invariant, PTL

(* A returned receipt is in the chain; after a ConcurrentChainWriteError   *)
(* no receipt of the call is.                                              *)
THEOREM OutcomeIsTrue == Spec => []OutcomeMatchesLedger
<1>1. IInv => OutcomeMatchesLedger
  BY DEF IInv, OutcomeInv
<1> QED
  BY <1>1, Invariant, PTL

(* Every receipt ever returned is committed at its own height.             *)
THEOREM DeliveredStays == Spec => []DeliveredAreCommitted
<1>1. IInv => DeliveredAreCommitted
  BY DEF IInv, OutcomeInv
<1> QED
  BY <1>1, Invariant, PTL

(* A signer gives up only after maxRetries + 1 commits of others.          *)
THEOREM GiveUpIsContention == Spec => []GiveUpNeedsContention
<1>1. IInv => GiveUpNeedsContention
  BY DEF IInv, EffortInv
<1> QED
  BY <1>1, Invariant, PTL
-----------------------------------------------------------------------------
(* Refinement: the committed receipts are an abstract chain.               *)

(* A commit is a step of the abstract chain.                               *)
LEMMA EffectExtends ==
    ASSUME IInv, NEW s \in Signers, TakesEffect(s), UNCHANGED delivered,
           \/ pc[s] = "committing"
           \/ pc[s] = "updating" /\ (CasMatches(s) \/ MemoryMatches(s))
    PROVE  HC!Extend(job[s])
<1>1. TypeOK /\ ChainInv /\ CallInv
  BY DEF IInv
<1>2. job[s] \in Tenants /\ draft[s] \in Receipt
  BY <1>1 DEF TypeOK
<1>3. /\ Len(ledger'[job[s]]) = Len(ledger[job[s]]) + 1
      /\ ledger'[job[s]][Len(ledger[job[s]]) + 1] = draft[s]
  BY <1>1, EffectOnLedger
<1>4. ledger' = [ledger EXCEPT ![job[s]] = Append(@, draft[s])]
  BY DEF TakesEffect
<1>5. /\ draft[s].tenant = job[s]
      /\ draft[s].height = Len(ledger[job[s]]) + 1
      /\ draft[s].prev = IF Len(ledger[job[s]]) = 0 THEN Genesis
                         ELSE ledger[job[s]][Len(ledger[job[s]])].id
  BY <1>1, WinnerFollowsTip
<1>6. HC!Tip(job[s]) = IF Len(ledger[job[s]]) = 0 THEN Genesis
                       ELSE ledger[job[s]][Len(ledger[job[s]])].id
  <2>1. ledger[job[s]] \in Seq(Receipt)
    BY <1>1, <1>2 DEF TypeOK
  <2>2. ledger[job[s]] = <<>> <=> Len(ledger[job[s]]) = 0
    BY <2>1
  <2> QED
    BY <2>2 DEF HC!Tip
<1>7. \A t \in Tenants : \A i \in 1..Len(ledger[t]) : ledger[t][i].id # draft[s].id
  <2>1. OfCall(s, draft[s])
    BY <1>1 DEF ChainInv, DraftFollowsLoaded
  <2>2. \A t \in Tenants : \A i \in 1..Len(ledger[t]) : ~OfCall(s, ledger[t][i])
    BY <1>1 DEF CallInv, NothingLandedYet
  <2> QED
    BY <2>1, <2>2 DEF OfCall
<1>8. draft[s] \in HC!Receipt
  BY <1>2 DEF Receipt, HC!Receipt, Hash
<1>9. HC!Follows(draft[s])
  BY <1>5, <1>6, <1>7, <1>8 DEF HC!Follows
<1> QED
  BY <1>3, <1>4, <1>5, <1>9 DEF HC!Extend

(* Every step is a step of the abstract chain or leaves it alone.          *)
LEMMA StepImplements ==
    ASSUME IInv, [Next]_vars
    PROVE  [HC!Next]_(HC!vars)
<1>1. ASSUME NEW s \in Signers, Commit(s) \/ CommitAckLost(s) \/ MemoryWon(s)
      PROVE  HC!Next
  <2>1. HC!Extend(job[s])
    BY <1>1, EffectExtends DEF Commit, CommitAckLost, MemoryWon
  <2>2. job[s] \in Tenants
    BY DEF IInv, TypeOK
  <2> QED
    BY <2>1, <2>2 DEF HC!Next
<1>2. ASSUME NEW s \in Signers, Return(s) PROVE HC!Next
  <2>1. job[s] \in Tenants
    BY DEF IInv, TypeOK
  <2>2. /\ draft[s].height \in 1..Len(ledger[job[s]])
        /\ ledger[job[s]][draft[s].height] = draft[s]
    BY <1>2 DEF Return, IInv, OutcomeInv, AckedIsCommitted
  <2>3. HC!Deliver(job[s])
    BY <1>2, <2>2 DEF Return, HC!Deliver
  <2> QED
    BY <2>1, <2>3 DEF HC!Next
<1>3. CASE UNCHANGED <<ledger, delivered>>
  BY <1>3 DEF HC!vars
<1> QED
  BY <1>1, <1>2, <1>3 DEF Next, Step, Fault, Done, Call, Load, Build, Refuse, CasWon, CasLost,
                          Abort, ReRead, MemoryLost, Crash, vars

(* signReceiptWithStore implements the abstract chain: seen through the    *)
(* committed receipts and those handed out, each of its steps appends the  *)
(* successor of a tip, hands out a committed receipt, or does nothing.     *)
THEOREM Refinement == Spec => ImplementsHashChain
<1>1. Init => HC!Init
  BY DEF Init, HC!Init
<1>2. IInv /\ [Next]_vars => [HC!Next]_(HC!vars)
  BY StepImplements
<1> QED
  BY <1>1, <1>2, Invariant, PTL DEF Spec, ImplementsHashChain, HC!Spec
-----------------------------------------------------------------------------
(* The audit of committed receipts.                                        *)

(* A set of naturals that is not empty has a least element.                *)
LEMMA LeastNat ==
    ASSUME NEW T \in SUBSET Nat, T # {}
    PROVE  \E m \in T : \A n \in T : m <= n
<1> DEFINE R == OpToRel(<, Nat)
<1>1. IsWellFoundedOn(R, Nat)
  BY NatLessThanWellFounded
<1>2. \A n, m \in Nat : n < m => <<n, m>> \in R
  BY DEF OpToRel
<1> HIDE DEF R
<1>3. PICK m \in T : \A n \in T : <<n, m>> \notin R
  BY <1>1, WFMin
<1>4. ASSUME NEW n \in T PROVE m <= n
  <2>1. m \in Nat /\ n \in Nat
    OBVIOUS
  <2>2. ~(n < m)
    BY <1>2, <1>3, <2>1
  <2> QED
    BY <2>1, <2>2
<1> QED
  BY <1>4

(* seq enumerates S, each member once, in height order.                    *)
Sorted(seq, S) ==
    /\ seq \in [1..Cardinality(S) -> S]
    /\ \A i, j \in 1..Cardinality(S) : i # j => seq[i] # seq[j]
    /\ \A i, j \in 1..Cardinality(S) : i < j => seq[i].height <= seq[j].height

(* A finite set whose members have natural heights.                        *)
HasHeights(S) == IsFiniteSet(S) /\ \A x \in S : x.height \in Nat

(* It can be sorted: take its lowest member, and sort the rest.            *)
LEMMA SortedExists ==
    ASSUME NEW S, HasHeights(S)
    PROVE  \E seq : Sorted(seq, S)
<1> DEFINE P(n) == \A T : HasHeights(T) /\ Cardinality(T) = n => \E seq : Sorted(seq, T)
<1> DEFINE Bad == {n \in Nat : ~P(n)}
<1>1. ASSUME Bad # {} PROVE FALSE
  <2>1. PICK n \in Bad : \A k \in Bad : n <= k
    <3>1. Bad \in SUBSET Nat
      OBVIOUS
    <3> HIDE DEF Bad
    <3> QED
      BY <1>1, <3>1, LeastNat
  <2>2. n \in Nat /\ ~P(n) /\ \A k \in Nat : k < n => P(k)
    BY <2>1
  <2>3. PICK T : HasHeights(T) /\ Cardinality(T) = n /\ ~\E seq : Sorted(seq, T)
    BY <2>2
  <2> HIDE DEF Bad
  <2>4. T # {}
    <3>1. ASSUME T = {} PROVE FALSE
      <4>1. Cardinality(T) = 0
        BY <3>1, FS_EmptySet
      <4>2. Sorted([i \in {} |-> 0], T)
        BY <4>1 DEF Sorted
      <4> QED
        BY <2>3, <4>2
    <3> QED
      BY <3>1
  <2>5. PICK x \in T : \A y \in T : x.height <= y.height
    <3> DEFINE Hs == {y.height : y \in T}
    <3>1. Hs \in SUBSET Nat /\ Hs # {}
      BY <2>3, <2>4 DEF HasHeights
    <3>2. PICK h \in Hs : \A k \in Hs : h <= k
      BY <3>1, LeastNat
    <3> QED
      BY <3>2
  <2> DEFINE Rest == T \ {x}
  <2>6. HasHeights(Rest) /\ Cardinality(Rest) = n - 1 /\ n - 1 \in Nat
    <3>1. IsFiniteSet(T) /\ Cardinality(T) = n /\ x \in T
      BY <2>3 DEF HasHeights
    <3>2. IsFiniteSet(Rest) /\ Cardinality(Rest) = n - 1
      BY <3>1, FS_RemoveElement
    <3>3. Cardinality(Rest) \in Nat
      BY <3>2, FS_CardinalityType
    <3> QED
      BY <2>3, <3>2, <3>3 DEF HasHeights
  <2>7. PICK tail : Sorted(tail, Rest)
    BY <2>2, <2>6
  <2> DEFINE seq == [i \in 1..n |-> IF i = 1 THEN x ELSE tail[i - 1]]
  <2>8. /\ tail \in [1..(n - 1) -> Rest]
        /\ \A i, j \in 1..(n - 1) : i # j => tail[i] # tail[j]
        /\ \A i, j \in 1..(n - 1) : i < j => tail[i].height <= tail[j].height
    BY <2>6, <2>7 DEF Sorted
  <2>9. \A i \in 1..n : i # 1 => i - 1 \in 1..(n - 1) /\ tail[i - 1] \in Rest
    BY <2>2, <2>8
  <2>10. seq \in [1..n -> T]
    BY <2>9
  <2>11. \A i, j \in 1..n : i # j => seq[i] # seq[j]
    BY <2>2, <2>8, <2>9
  <2>12. ASSUME NEW i \in 1..n, NEW j \in 1..n, i < j PROVE seq[i].height <= seq[j].height
    <3>1. j # 1 /\ seq[j] = tail[j - 1] /\ tail[j - 1] \in T
      BY <2>9, <2>12
    <3>2. CASE i = 1
      BY <2>5, <3>1, <3>2
    <3>3. CASE i # 1
      BY <2>2, <2>8, <2>9, <2>12, <3>1, <3>3
    <3> QED
      BY <3>2, <3>3
  <2>13. Sorted(seq, T)
    BY <2>3, <2>10, <2>11, <2>12 DEF Sorted
  <2> QED
    BY <2>3, <2>13
<1>2. Cardinality(S) \in Nat
  BY FS_CardinalityType DEF HasHeights
<1>3. P(Cardinality(S))
  BY <1>1, <1>2
<1> QED
  BY <1>3

(* What verifyChain iterates over.                                         *)
LEMMA OrderedIsSorted ==
    ASSUME NEW S, HasHeights(S)
    PROVE  /\ Sorted(Audit!Ordered(S), S)
           /\ DOMAIN Audit!Ordered(S) = 1..Cardinality(S)
           /\ \A x \in S : \E i \in 1..Cardinality(S) : Audit!Ordered(S)[i] = x
<1>1. \A T : Audit!Cardinality(T) = Cardinality(T)
  BY Zenon DEF Audit!Cardinality, Cardinality
<1>2. PICK seq : Sorted(seq, S)
  BY SortedExists
<1> DEFINE o == Audit!Ordered(S)
<1>3. /\ seq \in Audit!SetToSeqs(S)
      /\ \A i, j \in DOMAIN seq : i < j => seq[i].height <= seq[j].height
  BY <1>1, <1>2 DEF Sorted, Audit!SetToSeqs
<1>4. /\ o \in Audit!SetToSeqs(S)
      /\ \A i, j \in DOMAIN o : i < j => o[i].height <= o[j].height
  BY <1>3 DEF Audit!Ordered
<1> HIDE DEF o
<1>5. Sorted(o, S) /\ DOMAIN o = 1..Cardinality(S)
  BY <1>1, <1>4 DEF Sorted, Audit!SetToSeqs
<1>6. \A x \in S : \E i \in 1..Cardinality(S) : o[i] = x
  <2> DEFINE D == 1..Cardinality(S)
  <2>1. Cardinality(S) \in Nat /\ IsFiniteSet(S)
    BY FS_CardinalityType DEF HasHeights
  <2>2. Cardinality(D) = Cardinality(S)
    BY <2>1, FS_Interval
  <2>3. o \in Injection(D, S)
    BY <1>5 DEF Sorted, Injection, IsInjective
  <2>4. o \in Surjection(D, S)
    BY <2>1, <2>2, <2>3, FS_Injection
  <2> QED
    BY <2>4 DEF Surjection
<1> QED
  BY <1>5, <1>6 DEF o

(* When no two members share a height, the i-th is the i-th lowest.        *)
LEMMA SortedRank ==
    ASSUME NEW S, HasHeights(S), \A x, y \in S : x.height = y.height => x = y,
           NEW i \in 1..Cardinality(S)
    PROVE  LET o == Audit!Ordered(S)
           IN  /\ \A j, k \in 1..Cardinality(S) : j < k => o[j].height < o[k].height
               /\ Cardinality({g \in {x.height : x \in S} : g <= o[i].height}) = i
<1> DEFINE o == Audit!Ordered(S)
<1> DEFINE n == Cardinality(S)
<1> DEFINE Below == {g \in {x.height : x \in S} : g <= o[i].height}
<1> DEFINE f == [k \in 1..i |-> o[k].height]
<1>1. /\ n \in Nat /\ o \in [1..n -> S]
      /\ \A j, k \in 1..n : j # k => o[j] # o[k]
      /\ \A j, k \in 1..n : j < k => o[j].height <= o[k].height
      /\ \A x \in S : x.height \in Nat /\ \E k \in 1..n : o[k] = x
  BY OrderedIsSorted, FS_CardinalityType DEF HasHeights, Sorted
<1> HIDE DEF o
<1>2. \A j, k \in 1..n : j < k => o[j].height < o[k].height
  BY <1>1
<1>3. i \in Nat /\ i >= 1 /\ \A k \in 1..i : k \in 1..n /\ o[k] \in S
  BY <1>1
<1>4. f \in [1..i -> Below]
  BY <1>1, <1>3
<1>5. \A j, k \in 1..i : j # k => f[j] # f[k]
  <2>1. ASSUME NEW j \in 1..i, NEW k \in 1..i, j # k PROVE f[j] # f[k]
    <3>1. o[j].height \in Nat /\ o[k].height \in Nat
      BY <1>1, <1>3
    <3>2. j < k \/ k < j
      BY <2>1
    <3> QED
      BY <1>2, <1>3, <3>1, <3>2
  <2> QED
    BY <2>1
<1>6. ASSUME NEW g \in Below PROVE \E k \in 1..i : f[k] = g
  <2>1. PICK k \in 1..n : o[k].height = g
    BY <1>1
  <2>2. k <= i
    BY <1>1, <1>2, <2>1
  <2> QED
    BY <1>1, <2>1, <2>2
<1> HIDE DEF f, Below
<1>7. f \in Injection(1..i, Below) /\ f \in Surjection(1..i, Below)
  BY <1>4, <1>5, <1>6 DEF Injection, IsInjective, Surjection
<1>8. IsFiniteSet(1..i) /\ Cardinality(1..i) = i
  BY <1>3, FS_Interval
<1>9. Cardinality(Below) = i
  BY <1>7, <1>8, FS_Surjection
<1> QED
  BY <1>2, <1>9 DEF o, Below

(* What a tenant's committed receipts show an auditor.                     *)
LEMMA CommittedShow ==
    ASSUME TypeOK, WellLinked, NEW t \in Tenants
    PROVE  /\ IsFiniteSet(Committed(t)) /\ Len(ledger[t]) \in Nat
           /\ \A r \in Committed(t) :
                 /\ r.height \in 1..Len(ledger[t]) /\ r.tenant = t /\ r.intact = TRUE
                 /\ r = Shown(ledger[t][r.height]) /\ r.id = ledger[t][r.height].id
<1> DEFINE L == Len(ledger[t])
<1> DEFINE f == [i \in 1..L |-> Shown(ledger[t][i])]
<1>1. L \in Nat /\ \A i \in 1..L : ledger[t][i].tenant = t /\ ledger[t][i].height = i
  <2>1. ledger[t] \in Seq(Receipt)
    BY DEF TypeOK
  <2> QED
    BY <2>1 DEF WellLinked
<1>2. IsFiniteSet(Committed(t))
  <2>1. f \in Surjection(1..L, Committed(t))
    BY DEF Surjection, Committed
  <2>2. IsFiniteSet(1..L)
    <3>1. L \in Int /\ 1 \in Int
      BY <1>1
    <3> HIDE DEF L
    <3> QED
      BY <3>1, FS_Interval
  <2> HIDE DEF f
  <2> QED
    BY <2>1, <2>2, FS_Surjection
<1>3. ASSUME NEW r \in Committed(t)
      PROVE  /\ r.height \in 1..L /\ r.tenant = t /\ r.intact = TRUE
             /\ r = Shown(ledger[t][r.height]) /\ r.id = ledger[t][r.height].id
  <2>1. PICK i \in 1..L : r = Shown(ledger[t][i])
    BY DEF Committed
  <2> QED
    BY <1>1, <2>1 DEF Shown
<1> QED
  BY <1>1, <1>2, <1>3

(* The receipt before a committed one is the one it names.                 *)
LEMMA CommittedFollow ==
    ASSUME TypeOK, WellLinked, NEW t \in Tenants, NEW r \in Committed(t)
    PROVE  /\ r.height = 1 <=> r.prev = Genesis
           /\ r.height # 1 => r.prev = ledger[t][r.height - 1].id
<1>1. PICK i \in 1..Len(ledger[t]) : r = Shown(ledger[t][i])
  BY DEF Committed
<1>2. ledger[t] \in Seq(Receipt)
  BY DEF TypeOK
<1>3. r.height = i /\ r.prev = IF i = 1 THEN Genesis ELSE ledger[t][i - 1].id
  BY <1>1 DEF Shown, WellLinked
<1>4. i # 1 => i - 1 \in 1..Len(ledger[t])
  BY <1>2
<1>5. i # 1 => ledger[t][i - 1] \in Receipt
  BY <1>2, <1>4
<1>6. i # 1 => r.prev \in ReceiptIds
  BY <1>3, <1>5 DEF Receipt
<1> QED
  BY <1>3, <1>6, AuditAssumption

(* A committed receipt that was altered; NoRow is neither.                 *)
Altered(r) == [r EXCEPT !.intact = FALSE]

LEMMA CommittedIsReceipt ==
    ASSUME TypeOK, NEW t \in Tenants, NEW r \in Committed(t)
    PROVE  /\ r # NoRow /\ Altered(r) # NoRow
           /\ Altered(r).id = r.id /\ Altered(r).height = r.height
           /\ Altered(r).tenant = r.tenant /\ Altered(r).intact = FALSE
<1>1. PICK i \in 1..Len(ledger[t]) : r = Shown(ledger[t][i])
  BY DEF Committed
<1>2. ledger[t][i] \in Receipt
  <2>1. ledger[t] \in Seq(Receipt)
    BY DEF TypeOK
  <2> QED
    BY <2>1
<1>3. r \in [id : ReceiptIds, tenant : Tenants, height : Nat \ {0}, prev : Hash, intact : BOOLEAN]
  BY <1>1, <1>2 DEF Shown, Receipt
<1>4. Altered(r) \in [id : ReceiptIds, tenant : Tenants, height : Nat \ {0}, prev : Hash,
                      intact : BOOLEAN]
  BY <1>3 DEF Altered
<1>5. /\ Altered(r).id = r.id /\ Altered(r).height = r.height
      /\ Altered(r).tenant = r.tenant /\ Altered(r).intact = FALSE
  BY <1>3 DEF Altered
<1> QED
  BY <1>3, <1>4, <1>5, AuditAssumption

(* A committed receipt links to nothing unseen, and to exactly its         *)
(* predecessor among those below it - shown as it is, or altered.          *)
LEMMA CommittedLinks ==
    ASSUME TypeOK, WellLinked, NEW t \in Tenants, NEW r \in Committed(t)
    PROVE  /\ Audit!LinkValid(r, NoRow)
           /\ \A p \in Committed(t) :
                 /\ Audit!LinkValid(r, p) <=> r.height = p.height + 1
                 /\ Audit!LinkValid(r, Altered(p)) <=> r.height = p.height + 1
<1>1. /\ r.height \in 1..Len(ledger[t]) /\ Len(ledger[t]) \in Nat
      /\ (r.height = 1 <=> r.prev = Genesis)
      /\ r.height # 1 => r.prev = ledger[t][r.height - 1].id
  BY CommittedShow, CommittedFollow
<1>2. Audit!LinkValid(r, NoRow)
  BY <1>1 DEF Audit!LinkValid
<1>3. ASSUME NEW p \in Committed(t)
      PROVE  /\ Audit!LinkValid(r, p) <=> r.height = p.height + 1
             /\ Audit!LinkValid(r, Altered(p)) <=> r.height = p.height + 1
  <2>1. p.height \in 1..Len(ledger[t]) /\ p.id = ledger[t][p.height].id
    BY CommittedShow
  <2>2. p # NoRow /\ Altered(p) # NoRow /\ Altered(p).id = p.id /\ Altered(p).height = p.height
    BY CommittedIsReceipt
  <2>3. r.height = p.height + 1 => p.id = r.prev
    BY <1>1, <2>1
  <2>4. Audit!LinkValid(r, p) <=> r.height = p.height + 1
    BY <1>1, <2>2, <2>3 DEF Audit!LinkValid
  <2>5. Audit!LinkValid(r, Altered(p)) <=> r.height = p.height + 1
    BY <1>1, <2>2, <2>3 DEF Audit!LinkValid
  <2> QED
    BY <2>4, <2>5
<1> QED
  BY <1>2, <1>3

(* verifyChain names the first failing position, and it names one.         *)
LEMMA FirstFailing ==
    ASSUME NEW S, NEW t, NEW n \in Nat, DOMAIN Audit!Ordered(S) = 1..n,
           Audit!Failing(Audit!Ordered(S), t) # {}
    PROVE  LET m == Audit!VerifyChain(S, t).brokenAt
           IN  /\ m \in Audit!Failing(Audit!Ordered(S), t)
               /\ \A k \in Audit!Failing(Audit!Ordered(S), t) : m <= k
<1> DEFINE F == Audit!Failing(Audit!Ordered(S), t)
<1>1. F \in SUBSET Nat /\ F # {}
  BY DEF Audit!Failing
<1>2. Audit!VerifyChain(S, t).brokenAt = Audit!Min(F)
  BY DEF Audit!VerifyChain
<1> HIDE DEF F
<1>3. \E m \in F : \A k \in F : m <= k
  BY <1>1, LeastNat
<1>4. Audit!Min(F) \in F /\ \A k \in F : Audit!Min(F) <= k
  BY <1>3 DEF Audit!Min
<1> QED
  BY <1>2, <1>4 DEF F

(* What the receipts of a slice show: heights of their own, the tenant, and*)
(* that nobody altered them.                                               *)
LEMMA SliceHeights ==
    ASSUME TypeOK, WellLinked, NEW t \in Tenants, NEW held \in SUBSET Committed(t)
    PROVE  /\ HasHeights(held)
           /\ \A x, y \in held : x.height = y.height => x = y
           /\ \A x \in held : x.height \in Nat /\ x.height >= 1 /\ x.tenant = t /\ x.intact = TRUE
<1>1. IsFiniteSet(held)
  BY CommittedShow, FS_Subset
<1>2. ASSUME NEW x \in held
      PROVE  /\ x.height \in 1..Len(ledger[t]) /\ x.tenant = t /\ x.intact = TRUE
             /\ x = Shown(ledger[t][x.height])
  <2>1. x \in Committed(t)
    OBVIOUS
  <2> QED
    BY <2>1, CommittedShow
<1>3. Len(ledger[t]) \in Nat
  BY CommittedShow
<1>4. ASSUME NEW x \in held PROVE x.height \in Nat /\ x.height >= 1
  <2>1. x.height \in 1..Len(ledger[t])
    BY <1>2
  <2> QED
    BY <1>3, <2>1
<1>5. ASSUME NEW x \in held, NEW y \in held, x.height = y.height PROVE x = y
  <2>1. x = Shown(ledger[t][x.height]) /\ y = Shown(ledger[t][y.height])
    BY <1>2
  <2> QED
    BY <1>5, <2>1, Zenon
<1>6. HasHeights(held)
  BY <1>1, <1>4 DEF HasHeights
<1>7. \A x \in held : x.height \in Nat /\ x.height >= 1 /\ x.tenant = t /\ x.intact = TRUE
  BY <1>2, <1>4
<1> QED
  BY <1>5, <1>6, <1>7, Zenon

(* A set of committed receipts fails exactly after its gaps.               *)
LEMMA SliceAudit ==
    ASSUME TypeOK, WellLinked, NEW t \in Tenants, NEW held \in SUBSET Committed(t), held # {}
    PROVE  LET heights == {r.height : r \in held}
               report  == Audit!VerifyChain(held, t)
           IN  /\ report.valid <=> AfterGap(heights) = {}
               /\ ~report.valid =>
                     \E h \in AfterGap(heights) :
                         /\ \A g \in AfterGap(heights) : h <= g
                         /\ report.brokenAt = Rank(h, heights)
               /\ report.completeFromGenesis <=> 1 \in heights
<1> DEFINE heights == {r.height : r \in held}
<1> DEFINE report  == Audit!VerifyChain(held, t)
<1> DEFINE o == Audit!Ordered(held)
<1> DEFINE n == Cardinality(held)
<1> DEFINE F == Audit!Failing(o, t)
<1>1. /\ HasHeights(held)
      /\ \A x, y \in held : x.height = y.height => x = y
      /\ \A x \in held : x.height \in Nat /\ x.height >= 1 /\ x.tenant = t /\ x.intact = TRUE
  BY SliceHeights, Zenon
<1>2. /\ n \in Nat /\ o \in [1..n -> held] /\ DOMAIN o = 1..n
      /\ \A x \in held : \E i \in 1..n : o[i] = x
  BY <1>1, OrderedIsSorted, FS_CardinalityType DEF HasHeights, Sorted
<1>3. /\ \A j, k \in 1..n : j < k => o[j].height < o[k].height
      /\ \A i \in 1..n : Rank(o[i].height, heights) = i
  BY <1>1, SortedRank DEF Rank
<1>4. n >= 1
  BY <1>2
<1>5. report.valid <=> F = {}
  BY DEF Audit!VerifyChain
<1>6. report.completeFromGenesis <=> o[1].height = 1 /\ o[1].prev = Genesis
  BY DEF Audit!VerifyChain
<1>7. F # {} => report.brokenAt \in F /\ \A k \in F : report.brokenAt <= k
  BY <1>2, FirstFailing
<1> HIDE DEF report, o, n
<1>8. \A i \in 1..n : i \in F <=> i # 1 /\ o[i].height # o[i - 1].height + 1
  <2>1. ASSUME NEW i \in 1..n PROVE i \in F <=> i # 1 /\ o[i].height # o[i - 1].height + 1
    <3>1. o[i] \in held /\ o[i].tenant = t /\ o[i].intact = TRUE
      BY <1>1, <1>2
    <3>2. i \in F <=> ~Audit!LinkValid(o[i], IF i = 1 THEN NoRow ELSE o[i - 1])
      BY <1>2, <3>1 DEF Audit!Failing, Audit!VerifyReceipt
    <3>3. CASE i = 1
      BY <3>1, <3>2, <3>3, CommittedLinks
    <3>4. CASE i # 1
      <4>1. i - 1 \in 1..n /\ o[i - 1] \in Committed(t)
        BY <1>2, <3>4
      <4>2. \A x, p \in Committed(t) : Audit!LinkValid(x, p) <=> x.height = p.height + 1
        BY CommittedLinks
      <4>3. Audit!LinkValid(o[i], o[i - 1]) <=> o[i].height = o[i - 1].height + 1
        BY <3>1, <4>1, <4>2
      <4> QED
        BY <3>2, <3>4, <4>3
    <3> QED
      BY <3>3, <3>4
  <2> QED
    BY <2>1
<1>9. F \subseteq 1..n
  BY <1>2 DEF Audit!Failing
<1> HIDE DEF F
<1>10. \A i \in 1..n : o[i] \in held /\ o[i].height \in Nat /\ o[i].height \in heights
  BY <1>1, <1>2
<1>11. \A h \in heights : \E i \in 1..n : o[i].height = h
  BY <1>2
<1>12. heights \subseteq Nat
  BY <1>1
<1> HIDE DEF heights
<1>13. \A i \in F : o[i].height \in AfterGap(heights)
  <2>1. ASSUME NEW i \in F PROVE o[i].height \in AfterGap(heights)
    <3>1. /\ i \in 1..n /\ i - 1 \in 1..n /\ o[i].height # o[i - 1].height + 1
          /\ o[i - 1].height < o[i].height
      BY <1>2, <1>3, <1>8, <1>9
    <3>2. ASSUME o[i].height - 1 \in heights PROVE FALSE
      <4>1. PICK k \in 1..n : o[k].height = o[i].height - 1
        BY <1>11, <3>2
      <4>2. k < i
        <5>1. ~(i < k) /\ i # k
          BY <1>3, <1>10, <3>1, <4>1
        <5> QED
          BY <3>1, <5>1
      <4>3. k = i - 1 \/ k < i - 1
        BY <3>1, <4>2
      <4> QED
        BY <1>3, <1>10, <3>1, <4>1, <4>3
    <3> QED
      BY <1>10, <3>1, <3>2 DEF AfterGap
  <2> QED
    BY <2>1
<1>14. \A h \in AfterGap(heights) : \E i \in F : o[i].height = h
  <2>1. ASSUME NEW h \in AfterGap(heights) PROVE \E i \in F : o[i].height = h
    <3>1. h \in heights /\ h - 1 \notin heights /\ \E g \in heights : g < h
      BY DEF AfterGap
    <3>2. PICK i \in 1..n : o[i].height = h
      BY <1>11, <3>1
    <3>3. i # 1
      <4>1. PICK k \in 1..n : o[k].height < h
        BY <1>11, <3>1
      <4>2. k # i /\ ~(i < k)
        BY <1>3, <1>10, <3>2, <4>1
      <4> QED
        BY <1>2, <3>2, <4>2
    <3>4. i - 1 \in 1..n /\ o[i - 1].height \in heights /\ o[i - 1].height \in Nat
      BY <1>2, <1>10, <3>3
    <3>5. o[i].height # o[i - 1].height + 1
      BY <3>1, <3>2, <3>4
    <3> QED
      BY <1>8, <3>2, <3>3, <3>5
  <2> QED
    BY <2>1
<1>15. report.valid <=> AfterGap(heights) = {}
  BY <1>5, <1>13, <1>14
<1>16. ASSUME ~report.valid
       PROVE  \E h \in AfterGap(heights) :
                  /\ \A g \in AfterGap(heights) : h <= g
                  /\ report.brokenAt = Rank(h, heights)
  <2>1. PICK m \in F : report.brokenAt = m /\ \A k \in F : m <= k
    BY <1>5, <1>7, <1>16
  <2>2. o[m].height \in AfterGap(heights) /\ m = Rank(o[m].height, heights)
    BY <1>3, <1>9, <1>13
  <2>3. ASSUME NEW g \in AfterGap(heights) PROVE o[m].height <= g
    <3>1. PICK k \in F : o[k].height = g
      BY <1>14
    <3>2. m \in 1..n /\ k \in 1..n /\ m <= k
      BY <1>9, <2>1
    <3>3. m = k \/ m < k
      BY <1>2, <3>2
    <3>4. o[m].height \in Nat /\ o[k].height \in Nat /\ o[m].height <= o[k].height
      BY <1>3, <1>10, <3>2, <3>3
    <3> QED
      BY <3>1, <3>4
  <2> QED
    BY <2>1, <2>2, <2>3
<1>17. report.completeFromGenesis <=> 1 \in heights
  <2>1. o[1] \in Committed(t) /\ o[1].height \in heights /\ o[1].height >= 1 /\ o[1].height \in Nat
    BY <1>1, <1>2, <1>4, <1>10
  <2>2. o[1].height = 1 <=> o[1].prev = Genesis
    <3> DEFINE x == o[1]
    <3>1. x \in Committed(t)
      BY <2>1
    <3> HIDE DEF x
    <3>2. x.height = 1 <=> x.prev = Genesis
      BY <3>1, CommittedFollow
    <3> QED
      BY <3>2 DEF x
  <2>3. ASSUME 1 \in heights PROVE o[1].height = 1
    <3>1. PICK k \in 1..n : o[k].height = 1
      BY <1>11, <2>3
    <3>2. k = 1 \/ o[1].height < o[k].height
      BY <1>3, <1>4
    <3> QED
      BY <2>1, <3>1, <3>2
  <2> QED
    BY <1>6, <2>1, <2>2, <2>3
<1> QED
  BY <1>15, <1>16, <1>17 DEF heights, report

(* A slice conforms to section 4 exactly when it has no gap and begins at  *)
(* height 1: without a gap every height down to 1 is there, so the rank of *)
(* a height is the height.                                                 *)
LEMMA UnbrokenConforms ==
    ASSUME TypeOK, WellLinked, NEW t \in Tenants, NEW held \in SUBSET Committed(t), held # {}
    PROVE  LET heights == {r.height : r \in held}
           IN  Conformant(held) <=> AfterGap(heights) = {} /\ 1 \in heights
<1> DEFINE heights == {r.height : r \in held}
<1> DEFINE o == Audit!Ordered(held)
<1> DEFINE n == Cardinality(held)
<1>1. /\ HasHeights(held)
      /\ \A x, y \in held : x.height = y.height => x = y
      /\ \A x \in held : x.height \in Nat /\ x.height >= 1 /\ x.tenant = t /\ x.intact = TRUE
  BY SliceHeights, Zenon
<1>2. /\ n \in Nat /\ o \in [1..n -> held]
      /\ \A x \in held : \E i \in 1..n : o[i] = x
  BY <1>1, OrderedIsSorted, FS_CardinalityType DEF HasHeights, Sorted
<1>3. n >= 1
  BY <1>2
<1>4. \A i \in 1..n : Cardinality({g \in heights : g <= o[i].height}) = i
  BY <1>1, SortedRank
<1>5. /\ \A i \in 1..n : o[i].height \in heights
      /\ \A h \in heights : \E i \in 1..n : o[i].height = h
      /\ \A h \in heights : h \in Nat /\ h >= 1
      /\ \A h \in heights : \E x \in held : x.height = h
      /\ \A x \in held : x.height \in heights
  BY <1>1, <1>2
<1>6. Conformant(held) <=>
        /\ heights = 1..n
        /\ \A r \in held : IF r.height = 1 THEN r.prev = Genesis
                           ELSE \E q \in held : q.height = r.height - 1 /\ q.id = r.prev
  BY DEF Conformant
<1> HIDE DEF heights, o, n
<1>7. ASSUME Conformant(held) PROVE AfterGap(heights) = {} /\ 1 \in heights
  BY <1>2, <1>3, <1>6, <1>7 DEF AfterGap
<1>8. ASSUME AfterGap(heights) = {}, 1 \in heights PROVE Conformant(held)
  <2>1. ASSUME NEW h \in heights, h # 1 PROVE h - 1 \in heights
    <3>1. 1 < h
      BY <1>5, <2>1
    <3> QED
      BY <1>8, <2>1, <3>1 DEF AfterGap
  <2>2. ASSUME NEW h \in heights, NEW g \in 1..h PROVE g \in heights
    <3> DEFINE Above == {j \in heights : g <= j}
    <3>1. Above \in SUBSET Nat /\ h \in Above
      BY <1>5
    <3>2. PICK m \in Above : \A j \in Above : m <= j
      BY <3>1, LeastNat
    <3>3. m \in Nat /\ g \in Nat /\ g >= 1 /\ m >= g /\ m \in heights
      BY <1>5, <3>2
    <3>4. CASE m = g
      BY <3>3, <3>4
    <3>5. CASE m # g
      <4>1. m - 1 \in heights /\ g <= m - 1
        BY <2>1, <3>3, <3>5
      <4> QED
        BY <3>2, <3>3, <4>1
    <3> QED
      BY <3>4, <3>5
  <2>3. ASSUME NEW i \in 1..n PROVE o[i].height = i
    <3>1. o[i].height \in heights /\ o[i].height \in Nat
      BY <1>5
    <3>2. {g \in heights : g <= o[i].height} = 1..o[i].height
      BY <1>5, <2>2, <3>1
    <3>3. ASSUME NEW k \in Nat PROVE Cardinality(1..k) = k
      <4>1. 1 \in Int /\ k \in Int
        OBVIOUS
      <4>2. Cardinality(1..k) = IF 1 > k THEN 0 ELSE k - 1 + 1
        BY <4>1, FS_Interval, Zenon
      <4> QED
        BY <4>2
    <3> QED
      BY <1>4, <3>1, <3>2, <3>3
  <2>4. heights = 1..n
    <3>1. ASSUME NEW h \in heights PROVE h \in 1..n
      <4>1. PICK i \in 1..n : o[i].height = h
        BY <1>5, <3>1
      <4>2. o[i].height = i
        BY <2>3, <4>1
      <4> QED
        BY <4>1, <4>2
    <3>2. ASSUME NEW i \in 1..n PROVE i \in heights
      <4>1. o[i].height \in heights
        BY <1>5, <3>2
      <4> QED
        BY <2>3, <3>2, <4>1, Zenon
    <3> QED
      BY <3>1, <3>2
  <2>5. ASSUME NEW r \in held
        PROVE  IF r.height = 1 THEN r.prev = Genesis
               ELSE \E q \in held : q.height = r.height - 1 /\ q.id = r.prev
    <3>1. /\ r \in Committed(t) /\ r.height \in heights
          /\ r.height = 1 => r.prev = Genesis
          /\ r.height # 1 => r.prev = ledger[t][r.height - 1].id
      BY <1>5, CommittedFollow
    <3>2. ASSUME r.height # 1 PROVE \E q \in held : q.height = r.height - 1 /\ q.id = r.prev
      <4>1. PICK q \in held : q.height = r.height - 1
        BY <1>5, <2>1, <3>1, <3>2
      <4>2. q \in Committed(t) /\ q.id = ledger[t][q.height].id
        BY CommittedShow
      <4> QED
        BY <3>1, <3>2, <4>1, <4>2
    <3> QED
      BY <3>1, <3>2
  <2> QED
    BY <1>6, <2>4, <2>5
<1> QED
  BY <1>7, <1>8 DEF heights

(* Of a whole chain with one receipt altered, it is that one that fails.   *)
LEMMA AlteredAudit ==
    ASSUME TypeOK, WellLinked, NEW t \in Tenants, NEW r \in Committed(t)
    PROVE  Audit!VerifyChain((Committed(t) \ {r}) \cup {[r EXCEPT !.intact = FALSE]}, t).brokenAt
              = r.height
<1> DEFINE bad == Altered(r)
<1> DEFINE S == (Committed(t) \ {r}) \cup {bad}
<1> DEFINE L == Len(ledger[t])
<1> DEFINE o == Audit!Ordered(S)
<1> DEFINE n == Cardinality(S)
<1> DEFINE F == Audit!Failing(o, t)
<1>1. /\ IsFiniteSet(Committed(t)) /\ L \in Nat
      /\ \A x \in Committed(t) : /\ x.height \in 1..L /\ x.tenant = t /\ x.intact = TRUE
                                 /\ x = Shown(ledger[t][x.height])
  BY CommittedShow
<1>2. /\ bad.height = r.height /\ bad.tenant = t /\ bad.intact = FALSE /\ bad.height \in 1..L
      /\ r.height \in 1..L
  <2>1. r.height \in 1..L /\ r.tenant = t
    BY <1>1, Zenon
  <2>2. /\ bad.height = r.height /\ bad.tenant = r.tenant /\ bad.intact = FALSE
    BY CommittedIsReceipt, Zenon
  <2> HIDE DEF bad, L
  <2> QED
    BY <2>1, <2>2
<1> HIDE DEF bad, L
<1>3. /\ HasHeights(S)
      /\ \A x \in S : x.height \in 1..L /\ x.tenant = t
      /\ \A x, y \in S : x.height = y.height => x = y
  <2>1. IsFiniteSet(Committed(t) \ {r})
    BY <1>1, FS_RemoveElement
  <2>2. IsFiniteSet(S)
    BY <2>1, FS_AddElement
  <2>3. \A x \in S : x.height \in 1..L /\ x.tenant = t
    BY <1>1, <1>2
  <2>4. \A x, y \in Committed(t) : x.height = y.height => x = y
    BY <1>1
  <2>5. \A x, y \in S : x.height = y.height => x = y
    BY <1>2, <2>4
  <2> QED
    BY <1>1, <2>2, <2>3, <2>5 DEF HasHeights
<1>4. {x.height : x \in S} = 1..L
  <2>1. ASSUME NEW h \in 1..L PROVE \E x \in S : x.height = h
    <3>1. Shown(ledger[t][h]) \in Committed(t) /\ Shown(ledger[t][h]).height = h
      <4>1. ledger[t][h].height = h
        BY DEF WellLinked, L
      <4> QED
        BY <4>1 DEF Committed, Shown, L
    <3> QED
      BY <1>2, <3>1
  <2> QED
    BY <1>3, <2>1
<1>5. /\ n \in Nat /\ o \in [1..n -> S] /\ DOMAIN o = 1..n
      /\ \A x \in S : \E i \in 1..n : o[i] = x
  BY <1>3, OrderedIsSorted, FS_CardinalityType DEF HasHeights, Sorted
<1>6. \A i \in 1..n : Cardinality({g \in {x.height : x \in S} : g <= o[i].height}) = i
  BY <1>3, SortedRank
<1> HIDE DEF o, n, S
<1>7. \A i \in 1..n : o[i].height = i /\ o[i] \in S
  <2>1. ASSUME NEW i \in 1..n PROVE o[i].height = i
    <3> DEFINE h == o[i].height
    <3>1. h \in 1..L
      BY <1>3, <1>5
    <3> HIDE DEF h
    <3>2. {g \in 1..L : g <= h} = 1..h /\ h \in Nat
      BY <1>1, <3>1
    <3>3. Cardinality(1..h) = h
      BY <3>1, <3>2, FS_Interval
    <3>4. Cardinality({g \in 1..L : g <= h}) = i
      BY <1>4, <1>6 DEF h
    <3> QED
      BY <3>2, <3>3, <3>4 DEF h
  <2> QED
    BY <1>5, <2>1
<1>8. r.height \in 1..n /\ o[r.height] = bad
  <2>1. bad \in S
    BY DEF S
  <2>2. PICK i \in 1..n : o[i] = bad
    BY <1>5, <2>1
  <2> QED
    BY <1>2, <1>7, <2>2
<1>9. \A i \in 1..n : i # r.height => o[i] \in Committed(t)
  BY <1>2, <1>7 DEF S
<1>10. r.height \in F
  BY <1>2, <1>5, <1>8 DEF Audit!Failing, Audit!VerifyReceipt
<1>11. ASSUME NEW i \in F PROVE i = r.height
  <2>1. i \in 1..n
    BY <1>5 DEF Audit!Failing
  <2>2. SUFFICES ASSUME i # r.height PROVE FALSE
    OBVIOUS
  <2>3. o[i] \in Committed(t) /\ o[i].intact = TRUE /\ o[i].tenant = t /\ o[i].height = i
    BY <1>1, <1>7, <1>9, <2>1, <2>2
  <2>4. ~Audit!LinkValid(o[i], IF i = 1 THEN NoRow ELSE o[i - 1])
    BY <1>5, <2>3 DEF Audit!Failing, Audit!VerifyReceipt
  <2>5. CASE i = 1
    BY <2>3, <2>4, <2>5, CommittedLinks
  <2>6. CASE i # 1
    <3>1. i - 1 \in 1..n /\ o[i - 1].height = i - 1
      BY <1>5, <1>7, <2>1, <2>6
    <3>2. PICK p \in Committed(t) : o[i - 1] = p \/ o[i - 1] = Altered(p)
      BY <1>8, <1>9, <3>1 DEF bad
    <3>3. p.height = i - 1
      BY <3>1, <3>2, CommittedIsReceipt
    <3>4. Audit!LinkValid(o[i], p) /\ Audit!LinkValid(o[i], Altered(p))
      <4>1. \A x \in Committed(t) : x.height = p.height + 1 =>
                Audit!LinkValid(x, p) /\ Audit!LinkValid(x, Altered(p))
        BY CommittedLinks
      <4>2. o[i].height = p.height + 1
        BY <1>5, <2>1, <2>3, <3>3
      <4> QED
        BY <2>3, <4>1, <4>2
    <3> QED
      BY <2>4, <2>6, <3>2, <3>4
  <2> QED
    BY <2>5, <2>6
<1>12. Audit!VerifyChain(S, t).brokenAt \in F
  BY <1>5, <1>10, FirstFailing DEF o
<1> QED
  BY <1>11, <1>12 DEF S, bad, Altered

(* Another tenant's receipt fails wherever it is put.                      *)
LEMMA ForeignAudit ==
    ASSUME TypeOK, WellLinked, NEW t \in Tenants, NEW u \in Tenants \ {t}, NEW r \in Committed(u)
    PROVE  ~Audit!VerifyChain(Committed(t) \cup {r}, t).valid
<1> DEFINE S == Committed(t) \cup {r}
<1> DEFINE o == Audit!Ordered(S)
<1>1. r.tenant = u
  BY CommittedShow
<1>2. HasHeights(S)
  <2>1. IsFiniteSet(Committed(t)) /\ \A x \in Committed(t) : x.height \in Nat
    <3>1. IsFiniteSet(Committed(t)) /\ Len(ledger[t]) \in Nat
      BY CommittedShow
    <3>2. \A x \in Committed(t) : x.height \in 1..Len(ledger[t])
      BY CommittedShow
    <3> QED
      BY <3>1, <3>2
  <2>2. r.height \in Nat
    <3>1. r.height \in 1..Len(ledger[u]) /\ Len(ledger[u]) \in Nat
      BY CommittedShow
    <3> QED
      BY <3>1
  <2>3. IsFiniteSet(S)
    BY <2>1, FS_AddElement
  <2> QED
    BY <2>1, <2>2, <2>3 DEF HasHeights
<1>3. PICK i \in 1..Cardinality(S) : o[i] = r
  BY <1>2, OrderedIsSorted
<1>4. DOMAIN o = 1..Cardinality(S)
  BY <1>2, OrderedIsSorted
<1> HIDE DEF o
<1>5. i \in Audit!Failing(o, t)
  BY <1>1, <1>3, <1>4 DEF Audit!Failing
<1> QED
  BY <1>5 DEF Audit!VerifyChain, o

(* Whatever signers race, crash or lose acknowledgements, verifyChain      *)
(* accepts exactly the unbroken slices of one tenant's committed receipts, *)
(* names the first receipt after a gap or the altered one, and says        *)
(* complete only of what begins at genesis.                                *)
THEOREM AuditIsAlwaysExact == Spec => []AuditIsExact
<1>1. ASSUME IInv PROVE AuditIsExact
  <2>1. TypeOK /\ WellLinked
    BY <1>1 DEF IInv, ChainInv
  <2>2. ASSUME NEW t \in Tenants, NEW held \in (SUBSET Committed(t)) \ {{}}
        PROVE  LET heights == {r.height : r \in held}
                   report  == Audit!VerifyChain(held, t)
               IN  /\ report.valid <=> AfterGap(heights) = {}
                   /\ ~report.valid =>
                         \E h \in AfterGap(heights) :
                             /\ \A g \in AfterGap(heights) : h <= g
                             /\ report.brokenAt = Rank(h, heights)
                   /\ report.completeFromGenesis <=> 1 \in heights
                   /\ (report.valid /\ report.completeFromGenesis) <=> Conformant(held)
                   /\ (report.valid /\ ~Conformant(held)) => 1 \notin heights
    <3> DEFINE heights == {r.height : r \in held}
    <3> DEFINE report  == Audit!VerifyChain(held, t)
    <3>1. held \in SUBSET Committed(t) /\ held # {}
      OBVIOUS
    <3>2. /\ report.valid <=> AfterGap(heights) = {}
          /\ ~report.valid =>
                \E h \in AfterGap(heights) :
                    /\ \A g \in AfterGap(heights) : h <= g
                    /\ report.brokenAt = Rank(h, heights)
          /\ report.completeFromGenesis <=> 1 \in heights
      BY <2>1, <3>1, SliceAudit, Zenon
    <3>3. Conformant(held) <=> AfterGap(heights) = {} /\ 1 \in heights
      BY <2>1, <3>1, UnbrokenConforms, Zenon
    <3> HIDE DEF heights, report
    <3>4. /\ (report.valid /\ report.completeFromGenesis) <=> Conformant(held)
          /\ (report.valid /\ ~Conformant(held)) => 1 \notin heights
      BY <3>2, <3>3
    <3> QED
      BY <3>2, <3>4 DEF heights, report
  <2> QED
    BY <2>1, <2>2, AlteredAudit, ForeignAudit DEF AuditIsExact
<1> QED
  BY <1>1, Invariant, PTL
=============================================================================
