---------------------------- MODULE ServicesProofs ---------------------------
(***************************************************************************)
(* Proofs about MCServices, component by component.  The PKCS#11 session   *)
(* it extends, for any number of overlapping calls and sessions: no call   *)
(* signs without key handles, and until close is called every call uses    *)
(* the one open session and the handles found in it.  Then the signing     *)
(* providers, the prompt cache, the guardian, the exporter, the            *)
(* transparency log with its inclusion, consistency and batch proofs, the  *)
(* capture hooks and the registries.                                       *)
(***************************************************************************)
EXTENDS MCServices, FiniteSetTheorems, TLAPS

TypeOK ==
    /\ session \in Nat /\ handles \in Nat /\ opened \in Nat
    /\ cached \in BOOLEAN /\ built \in BOOLEAN /\ closed \in BOOLEAN
    /\ pc \in [Calls -> {"idle", "opening", "finding", "ready", "using", "closing",
                         "done", "failed"}]
    /\ op \in [Calls -> {"none", "build", "sign", "publicKey", "close"}]
    /\ arg \in [Calls -> Nat]
    /\ live \subseteq Nat \ {0}
    /\ used \in [Calls -> [session : Nat, handles : Nat, sound : BOOLEAN]]

(* Until fromKeyLabel has returned, its call is alone, and goes through    *)
(* opening, finding and using in this order.                               *)
WhileBuilding ==
    /\ ~closed
    /\ \A c \in Calls : op[c] \in {"none", "build"} /\ used[c].sound
    /\ \A c \in Calls \ {Builder} : pc[c] = "idle"
    /\ live = {} \/ live = {session}
    /\ pc[Builder] \in {"idle", "opening", "finding", "ready", "using", "failed"}
    /\ pc[Builder] # "idle" => op[Builder] = "build"
    /\ pc[Builder] \in {"idle", "opening"} => session = 0 /\ live = {}
    /\ pc[Builder] = "finding" => arg[Builder] = session /\ live = {session}
    /\ pc[Builder] \in {"ready", "using"} => session = handles /\ live = {session}

(* From then on there are key handles; until a close they are those of the *)
(* one session, and no call opens another.                                 *)
OnceBuilt ==
    /\ handles # 0
    /\ \A c \in Calls : pc[c] \in {"using", "done"} /\ op[c] = "sign" => used[c].handles # 0
    /\ \A c \in Calls : pc[c] = "closing" => op[c] = "close"
    /\ ~closed =>
        /\ session = handles /\ live = {session}
        /\ \A c \in Calls : /\ pc[c] \in {"idle", "ready", "using", "done", "failed"}
                            /\ used[c].sound

IInv == TypeOK /\ (IF built THEN OnceBuilt ELSE WhileBuilding)
-----------------------------------------------------------------------------
LEMMA InitIInv == SessionAssumption /\ Init => IInv
<1> SUFFICES ASSUME SessionAssumption, Init PROVE IInv
  OBVIOUS
<1>1. Unused \in [session : Nat, handles : Nat, sound : BOOLEAN] /\ Unused.sound
  BY DEF Unused
<1>2. TypeOK
  BY <1>1 DEF Init, TypeOK
<1>3. WhileBuilding /\ built = FALSE
  <2>1. \A c \in Calls : pc[c] = "idle" /\ op[c] = "none" /\ used[c].sound
    BY <1>1 DEF Init
  <2>2. pc[Builder] = "idle"
    BY <2>1 DEF SessionAssumption
  <2> QED
    BY <2>1, <2>2 DEF Init, WhileBuilding
<1> QED
  BY <1>2, <1>3 DEF IInv

(* Every variable keeps its type.                                          *)
LEMMA NextTypeOK == TypeOK /\ [Next]_vars => TypeOK'
<1> SUFFICES ASSUME TypeOK, [Next]_vars PROVE TypeOK'
  OBVIOUS
<1>1. ASSUME NEW c \in Calls, Build(c) \/ Sign(c) \/ PublicKey(c) PROVE TypeOK'
  <2>1. /\ UNCHANGED <<session, handles, cached, built, arg, live, opened, used, closed>>
        /\ \E x \in {"build", "sign", "publicKey"} : op' = [op EXCEPT ![c] = x]
        /\ \E x \in {"done", "ready", "opening"} : pc' = [pc EXCEPT ![c] = x]
    BY <1>1 DEF Build, Sign, PublicKey, Ensure, Goes, TokenVars
  <2> QED
    BY <2>1 DEF TypeOK
<1>2. ASSUME NEW c \in Calls, OpenReturns(c) PROVE TypeOK'
  <2>1. opened + 1 \in Nat \ {0}
    BY DEF TypeOK
  <2>2. session' \in Nat /\ opened' \in Nat /\ live' \subseteq Nat \ {0}
    BY <1>2, <2>1 DEF OpenReturns, TypeOK
  <2>3. arg' \in [Calls -> Nat] /\ pc' = [pc EXCEPT ![c] = "finding"]
    BY <1>2, <2>1 DEF OpenReturns, Goes, TypeOK
  <2> QED
    BY <1>2, <2>2, <2>3 DEF OpenReturns, TypeOK
<1>3. ASSUME NEW c \in Calls, FindReturns(c) \/ TokenFails(c) \/ CloseReturns(c) PROVE TypeOK'
  <2>1. CASE FindReturns(c)
    BY <2>1 DEF FindReturns, Goes, TokenVars, TypeOK
  <2>2. CASE TokenFails(c)
    BY <2>2 DEF TokenFails, Goes, TokenVars, TypeOK
  <2>3. CASE CloseReturns(c)
    BY <2>3 DEF CloseReturns, Goes, TokenVars, TypeOK
  <2> QED
    BY <1>3, <2>1, <2>2, <2>3
<1>4. ASSUME NEW c \in Calls, UseToken(c) PROVE TypeOK'
  BY <1>4 DEF UseToken, Goes, TokenVars, TypeOK
<1>5. ASSUME NEW c \in Calls, TokenAnswers(c) PROVE TypeOK'
  BY <1>5 DEF TokenAnswers, Goes, TokenVars, TypeOK
<1>6. ASSUME NEW c \in Calls, Close(c) PROVE TypeOK'
  BY <1>6 DEF Close, Goes, TypeOK
<1>7. CASE UNCHANGED vars
  BY <1>7 DEF vars, TypeOK
<1> QED
  BY <1>1, <1>2, <1>3, <1>4, <1>5, <1>6, <1>7 DEF Next
-----------------------------------------------------------------------------
(* The steps of fromKeyLabel keep the invariant.                           *)
LEMMA BuildingKeeps ==
    ASSUME SessionAssumption, IInv, ~built, TypeOK', NEW c \in Calls,
           \/ Build(c) \/ Sign(c) \/ PublicKey(c) \/ Close(c)
           \/ OpenReturns(c) \/ FindReturns(c) \/ UseToken(c)
           \/ TokenAnswers(c) \/ TokenFails(c) \/ CloseReturns(c)
    PROVE  IInv'
<1>0. TypeOK /\ WhileBuilding /\ Builder \in Calls
  BY DEF IInv, SessionAssumption
<1>1. CASE Build(c)
  <2>1. /\ c = Builder /\ pc[c] = "idle" /\ op' = [op EXCEPT ![c] = "build"]
        /\ pc' = [pc EXCEPT ![c] = IF session # 0 THEN "ready" ELSE "opening"]
        /\ UNCHANGED <<session, handles, cached, built, arg, live, opened, used, closed>>
    BY <1>1 DEF Build, Ensure, Goes, TokenVars
  <2>2. pc' = [pc EXCEPT ![Builder] = "opening"] /\ session = 0 /\ live = {}
    BY <1>0, <2>1 DEF WhileBuilding, TypeOK
  <2>3. /\ \A d \in Calls \ {Builder} : pc'[d] = pc[d]
        /\ \A d \in Calls : op'[d] \in {op[d], "build"}
        /\ pc'[Builder] = "opening" /\ op'[Builder] = "build"
    BY <1>0, <2>1, <2>2 DEF TypeOK
  <2>4. WhileBuilding'
    BY <1>0, <2>1, <2>2, <2>3 DEF WhileBuilding
  <2> QED
    BY <2>1, <2>4 DEF IInv
<1>2. CASE OpenReturns(c)
  <2>0. c = Builder /\ live = {}
    BY <1>0, <1>2 DEF OpenReturns, WhileBuilding
  <2>1. c = Builder /\ live' = {session'} /\ arg'[Builder] = session' /\ pc'[Builder] = "finding"
    BY <1>0, <1>2, <2>0 DEF OpenReturns, Goes, TypeOK
  <2>2. \A d \in Calls \ {Builder} : pc'[d] = pc[d]
    BY <1>0, <1>2, <2>1 DEF OpenReturns, Goes, TypeOK
  <2>3. UNCHANGED <<op, used, closed, built>>
    BY <1>2 DEF OpenReturns
  <2>4. WhileBuilding'
    BY <1>0, <2>1, <2>2, <2>3, <1>2 DEF OpenReturns, WhileBuilding
  <2> QED
    BY <2>3, <2>4 DEF IInv
<1>3. CASE FindReturns(c)
  <2>1. c = Builder /\ pc' = [pc EXCEPT ![c] = "ready"] /\ handles' = session
    BY <1>0, <1>3 DEF FindReturns, Goes, WhileBuilding
  <2>2. pc'[Builder] = "ready" /\ \A d \in Calls \ {Builder} : pc'[d] = pc[d]
    BY <1>0, <2>1 DEF TypeOK
  <2>3. UNCHANGED <<session, op, used, closed, built, live>>
    BY <1>3 DEF FindReturns, TokenVars
  <2>4. WhileBuilding'
    BY <1>0, <2>1, <2>2, <2>3, <1>3 DEF FindReturns, WhileBuilding
  <2> QED
    BY <2>3, <2>4 DEF IInv
<1>4. CASE UseToken(c)
  <2>1. c = Builder /\ session = handles /\ session \in live
    BY <1>0, <1>4 DEF UseToken, WhileBuilding
  <2>2. used'[c].sound /\ \A x \in Calls \ {c} : used'[x] = used[x]
    BY <1>0, <1>4, <2>1 DEF UseToken, TypeOK
  <2> QED
    BY <1>0, <1>4, <2>1, <2>2 DEF UseToken, Goes, TokenVars, IInv, TypeOK, WhileBuilding
<1>5. CASE TokenAnswers(c)
  <2>1. c = Builder /\ session = handles /\ live = {session} /\ handles # 0
    BY <1>0, <1>5 DEF TokenAnswers, WhileBuilding, TypeOK
  <2>2. CASE built'
    <3>1. \A x \in Calls : pc'[x] \in {"idle", "ready", "using", "done", "failed"}
      BY <1>0, <1>5 DEF TokenAnswers, Goes, TypeOK, WhileBuilding
    <3> QED
      BY <1>0, <1>5, <2>1, <2>2, <3>1 DEF TokenAnswers, TokenVars, IInv, OnceBuilt, WhileBuilding
  <2>3. op[c] = "build" => built'
    BY <1>5 DEF TokenAnswers
  <2>4. op[c] = "build"
    BY <1>0, <1>5, <2>1 DEF TokenAnswers, WhileBuilding
  <2> QED
    BY <2>2, <2>3, <2>4
<1>6. CASE TokenFails(c)
  BY <1>0, <1>6 DEF TokenFails, Goes, TokenVars, IInv, TypeOK, WhileBuilding
<1>7. ~(Sign(c) \/ PublicKey(c) \/ Close(c) \/ CloseReturns(c))
  BY <1>0 DEF Sign, PublicKey, Close, CloseReturns, WhileBuilding
<1> QED
  BY <1>1, <1>2, <1>3, <1>4, <1>5, <1>6, <1>7

(* The steps of the calls on the provider it returned keep it too.         *)
LEMMA BuiltKeeps ==
    ASSUME SessionAssumption, IInv, built, TypeOK', NEW c \in Calls,
           \/ Build(c) \/ Sign(c) \/ PublicKey(c) \/ Close(c)
           \/ OpenReturns(c) \/ FindReturns(c) \/ UseToken(c)
           \/ TokenAnswers(c) \/ TokenFails(c) \/ CloseReturns(c)
    PROVE  IInv'
<1>0. TypeOK /\ OnceBuilt
  BY DEF IInv
<1>1. CASE Build(c) \/ Sign(c) \/ PublicKey(c)
  <2>1. UNCHANGED <<session, handles, built, live, used, closed>>
    BY <1>1 DEF Build, Sign, PublicKey, TokenVars
  <2>2. /\ \A x \in Calls \ {c} : pc'[x] = pc[x] /\ op'[x] = op[x]
        /\ (pc'[c] \in {"opening", "ready"} \/ (pc'[c] = "done" /\ op'[c] = "publicKey"))
        /\ session # 0 => pc'[c] # "opening"
    <3>1. CASE Build(c) \/ Sign(c)
      <4>1. /\ \E x \in {"ready", "opening"} : /\ pc' = [pc EXCEPT ![c] = x]
                                               /\ session # 0 => x = "ready"
            /\ \E x \in {"build", "sign"} : op' = [op EXCEPT ![c] = x]
        BY <3>1 DEF Build, Sign, Ensure, Goes
      <4>2. c \in DOMAIN pc /\ c \in DOMAIN op /\ DOMAIN pc = Calls /\ DOMAIN op = Calls
        BY <1>0 DEF TypeOK
      <4> QED
        BY <4>1, <4>2
    <3>2. CASE PublicKey(c)
      BY <1>0, <3>2 DEF PublicKey, Ensure, Goes, TypeOK
    <3> QED
      BY <1>1, <3>1, <3>2
  <2> QED
    BY <1>0, <2>1, <2>2 DEF IInv, OnceBuilt
<1>2. CASE Close(c)
  <2>1. /\ closed' /\ UNCHANGED <<handles, built, used>>
        /\ \A x \in Calls \ {c} : pc'[x] = pc[x] /\ op'[x] = op[x]
        /\ op'[c] = "close"
    BY <1>0, <1>2 DEF Close, Goes, TypeOK
  <2> QED
    BY <1>0, <2>1 DEF IInv, OnceBuilt
<1>3. CASE OpenReturns(c) \/ FindReturns(c) \/ CloseReturns(c)
  <2>1. closed /\ UNCHANGED <<built, closed, op, used>>
    BY <1>0, <1>3 DEF OpenReturns, FindReturns, CloseReturns, TokenVars, OnceBuilt
  <2>2. /\ \A x \in Calls \ {c} : pc'[x] = pc[x]
        /\ pc'[c] \in {"finding", "ready"} \/ pc[c] = "closing"
    BY <1>0, <1>3 DEF OpenReturns, FindReturns, CloseReturns, Goes, TypeOK
  <2>3. handles' # 0
    BY <1>0, <1>3 DEF OpenReturns, FindReturns, CloseReturns, OnceBuilt, TypeOK
  <2> QED
    BY <1>0, <2>1, <2>2, <2>3 DEF IInv, OnceBuilt
<1>4. CASE UseToken(c)
  <2>1. /\ UNCHANGED <<session, handles, built, op, live, closed>>
        /\ used'[c].handles = handles
        /\ used'[c].sound = (session = handles /\ session \in live)
        /\ \A x \in Calls \ {c} : used'[x] = used[x] /\ pc'[x] = pc[x]
        /\ pc'[c] = "using"
    BY <1>0, <1>4 DEF UseToken, Goes, TokenVars, TypeOK
  <2> QED
    BY <1>0, <2>1 DEF IInv, OnceBuilt
<1>5. CASE TokenAnswers(c) \/ TokenFails(c)
  <2>0. built'
    BY <1>5 DEF TokenAnswers, TokenFails
  <2>1. /\ UNCHANGED <<session, handles, op, live, used, closed>>
        /\ \A x \in Calls \ {c} : pc'[x] = pc[x]
        /\ (pc'[c] = "failed" \/ (pc'[c] = "done" /\ pc[c] = "using"))
    <3>1. CASE TokenAnswers(c)
      BY <1>0, <3>1 DEF TokenAnswers, Goes, TokenVars, TypeOK
    <3>2. CASE TokenFails(c)
      <4>1. DOMAIN pc = Calls
        BY <1>0 DEF TypeOK
      <4> QED
        BY <3>2, <4>1 DEF TokenFails, Goes, TokenVars
    <3> QED
      BY <1>5, <3>1, <3>2
  <2> QED
    BY <1>0, <2>0, <2>1 DEF IInv, OnceBuilt
<1> QED
  BY <1>1, <1>2, <1>3, <1>4, <1>5

LEMMA NextKeepsIInv == SessionAssumption /\ IInv /\ [Next]_vars => IInv'
<1> SUFFICES ASSUME SessionAssumption, IInv, [Next]_vars PROVE IInv'
  OBVIOUS
<1>1. TypeOK'
  BY NextTypeOK DEF IInv
<1>2. CASE UNCHANGED vars
  BY <1>1, <1>2 DEF vars, IInv, OnceBuilt, WhileBuilding
<1> QED
  BY <1>1, <1>2, BuildingKeeps, BuiltKeeps DEF Next

(* The lazily opened session and its late handles are sound for every call *)
(* until someone calls close, and handles are never missing                *)
(* (pkcs11.ts:131-200).                                                    *)
THEOREM SessionIsSoundUntilClosed ==
    ASSUME SessionAssumption
    PROVE  Spec => []SoundUntilClosed
<1>1. ASSUME IInv PROVE SoundUntilClosed
  <2>1. ASSUME NEW c \in Calls, pc[c] \in {"using", "done"}, op[c] = "sign"
        PROVE  used[c].handles # 0
    BY <1>1, <2>1 DEF IInv, OnceBuilt, WhileBuilding
  <2>2. ASSUME ~closed PROVE (\A c \in Calls : used[c].sound) /\ Cardinality(live) <= 1
    <3>1. live = {} \/ live = {session}
      BY <1>1, <2>2 DEF IInv, OnceBuilt, WhileBuilding
    <3>2. Cardinality(live) = 0 \/ Cardinality(live) = 1
      BY <3>1, FS_EmptySet, FS_Singleton
    <3>3. Cardinality(live) <= 1
      BY <3>2
    <3> QED
      BY <1>1, <2>2, <3>3 DEF IInv, OnceBuilt, WhileBuilding
  <2> QED
    BY <2>1, <2>2 DEF SoundUntilClosed
<1> QED
  BY <1>1, InitIInv, NextKeepsIInv, PTL DEF Spec
-----------------------------------------------------------------------------
(* What is cached and pinned as long as the service's key is not rotated   *)
(* at the wrong moment.                                                    *)
KeysInStep ==
    /\ named \in {"version", "latest"}
    /\ named = "latest" => kind \in {"aws", "azure", "pkcs11"}
    /\ current \in Nat \ {0}
    /\ named = "version" => cachedKey \in {0, pinned}
    /\ named = "latest" /\ stage = "pinned" =>
          kind # "aws" /\ ("pinned" \in rotatedIn \/ pinned = current)
    /\ named = "latest" /\ stage = "ready" =>
          /\ kind = "aws"   => "ready"  \in rotatedIn \/ cachedKey = current
          /\ kind = "azure" => "pinned" \in rotatedIn \/ cachedKey = pinned
          /\ kind = "pkcs11" =>
                cachedKey = pinned /\ (rotatedIn \ {"up"} # {} \/ pinned = current)
    /\ stage \in {"closed", "reopened"} =>
          /\ kind = "pkcs11"
          /\ named = "latest" =>
                rotatedIn \ {"up"} # {} \/ (cachedKey = pinned /\ pinned = current)

(* A signature verifies under the key its provider reports, but for an AWS *)
(* alias, an Azure name or a PKCS#11 label rotated at the wrong moment     *)
(* (aws-kms.ts, azure-key-vault.ts, gcp-kms.ts, pkcs11.ts).                *)
THEOREM ServicesReportVerifyingKeys == ServicesSpec => []ReportedKeyVerifies
<1> DEFINE PInv == KeysInStep /\ Providers!ReportedKeyVerifies
<1> USE DEF KeysInStep, Providers!ReportedKeyVerifies
<1>1. ServicesInit => PInv
  BY DEF ServicesInit, Providers!Init, Providers!NotSigned
<1>2. [ServicesNext]_servicesVars => [Providers!Next]_providerVars
  BY DEF ServicesNext, servicesVars
<1>3. PInv /\ Providers!Next => PInv'
  <2> USE DEF Providers!config
  <2> SUFFICES ASSUME PInv, Providers!Next PROVE PInv'
    OBVIOUS
  <2>1. CASE Providers!Rotate
    BY <2>1 DEF Providers!Rotate
  <2>2. CASE Providers!RequireFipsMode
    BY <2>2 DEF Providers!RequireFipsMode
  <2>3. CASE Providers!HoldOwnKey
    BY <2>3 DEF Providers!HoldOwnKey
  <2>4. CASE Providers!PinKey
    BY <2>4 DEF Providers!PinKey, Providers!Denotes
  <2>5. CASE Providers!CachePublicKey
    BY <2>5 DEF Providers!CachePublicKey, Providers!Denotes
  <2>6. CASE Providers!ConstructionFails
    BY <2>6 DEF Providers!ConstructionFails
  <2>7. CASE Providers!AsFipsProvider
    BY <2>7 DEF Providers!AsFipsProvider
  <2>8. CASE Providers!Sign
    BY <2>8 DEF Providers!Sign, Providers!Running, Providers!SigningVersion,
                Providers!ReportedVersion, Providers!Denotes
  <2>9. CASE Providers!Close
    BY <2>9 DEF Providers!Close, Providers!Running
  <2>10. CASE Providers!Reopen
    BY <2>10 DEF Providers!Reopen, Providers!Denotes
  <2> QED
    BY <2>1, <2>2, <2>3, <2>4, <2>5, <2>6, <2>7, <2>8, <2>9, <2>10 DEF Providers!Next
<1>4. PInv /\ UNCHANGED providerVars => PInv'
  BY DEF providerVars
<1>5. PInv => ReportedKeyVerifies
  BY DEF ReportedKeyVerifies
<1> HIDE DEF PInv, KeysInStep, Providers!ReportedKeyVerifies
<1> QED
  BY <1>1, <1>2, <1>3, <1>4, <1>5, PTL DEF ServicesSpec
-----------------------------------------------------------------------------
(* Every entry is its slot's own, and no entry was hit more often than the *)
(* cache.                                                                  *)
EntriesAreOwn ==
    /\ hits \in Nat /\ gets \in Nat /\ hits <= gets /\ nowMs \in Nat
    /\ DOMAIN store = Dedup!Tenants \X PromptKeys
    /\ \A s \in Dedup!Tenants \X PromptKeys :
          /\ store[s].hits \in Nat /\ store[s].hits <= hits
          /\ store[s].stored_at \in Nat
          /\ store[s] = Dedup!NoEntry \/ (store[s].by = s[1] /\ store[s].key = s[2])
    /\ DOMAIN asking = Clients /\ DOMAIN served = Clients
    /\ \A c \in Clients : asking[c] # "none" => asking[c] \in PromptKeys

(* Every answer served from the cache is the asking tenant's own to that   *)
(* prompt, at most TtlMs old, whoever misses, computes and puts meanwhile  *)
(* (dedup-cache.ts:43-70).                                                 *)
THEOREM ServicesHitsAreOwnAndFresh == ServicesSpec => []HitIsOwnAndFresh
<1> DEFINE DInv == EntriesAreOwn /\ Dedup!HitIsOwnAndFresh
           OwnAndFresh(v, c) == v # Dedup!NoAnswer =>
              /\ v.entry.by = TenantOf[c] /\ v.entry.key = v.key
              /\ v.at - v.entry.stored_at <= TtlMs
<1>1. ServicesInit => DInv
  <2> SUFFICES ASSUME ServicesInit PROVE DInv
    OBVIOUS
  <2>1. Dedup!Init
    BY DEF ServicesInit
  <2>2. DOMAIN store = Dedup!Tenants \X PromptKeys
    BY <2>1 DEF Dedup!Init
  <2>3. ASSUME NEW s \in Dedup!Tenants \X PromptKeys
        PROVE  store[s] = Dedup!NoEntry
    BY <2>1 DEF Dedup!Init
  <2> QED
    BY <2>1, <2>2, <2>3 DEF Dedup!Init, EntriesAreOwn, Dedup!HitIsOwnAndFresh, Dedup!NoEntry
<1>2. [ServicesNext]_servicesVars => [Dedup!Next]_dedupVars
  BY DEF ServicesNext, servicesVars
<1>3. DInv /\ Dedup!Next => DInv'
  <2> SUFFICES ASSUME DInv, Dedup!Next PROVE DInv'
    OBVIOUS
  <2>1. CASE Dedup!Tick
    BY <2>1 DEF Dedup!Tick, EntriesAreOwn, Dedup!HitIsOwnAndFresh
  <2>2. ASSUME NEW c \in Clients, Dedup!Put(c) PROVE DInv'
    <3> DEFINE slot == <<TenantOf[c], asking[c]>>
               entry == [by |-> TenantOf[c], key |-> asking[c], stored_at |-> nowMs, hits |-> 0]
    <3>1. slot \in Dedup!Tenants \X PromptKeys
      BY <2>2 DEF Dedup!Put, Dedup!Tenants, EntriesAreOwn
    <3>2. store' = [store EXCEPT ![slot] = entry]
      BY <2>2 DEF Dedup!Put, Dedup!Slot
    <3>3. \A s \in Dedup!Tenants \X PromptKeys : store'[s] = IF s = slot THEN entry ELSE store[s]
      BY <3>2 DEF EntriesAreOwn
    <3> QED
      BY <2>2, <3>1, <3>2, <3>3 DEF Dedup!Put, EntriesAreOwn, Dedup!HitIsOwnAndFresh
  <2>3. ASSUME NEW c \in Clients, NEW k \in PromptKeys, Dedup!Get(c, k) PROVE DInv'
    <3> DEFINE slot == <<TenantOf[c], k>>
               e    == store[slot]
    <3>1. slot \in Dedup!Tenants \X PromptKeys
      BY DEF Dedup!Tenants
    <3>2. CASE e = Dedup!NoEntry
      BY <2>3, <3>1, <3>2 DEF Dedup!Get, Dedup!Slot, EntriesAreOwn, Dedup!HitIsOwnAndFresh
    <3>3. CASE e # Dedup!NoEntry /\ Dedup!Expired(e)
      <4>1. store' = [store EXCEPT ![slot] = Dedup!NoEntry]
        BY <2>3, <3>3 DEF Dedup!Get, Dedup!Slot
      <4> QED
        BY <2>3, <3>1, <3>3, <4>1
        DEF Dedup!Get, Dedup!Slot, EntriesAreOwn, Dedup!HitIsOwnAndFresh, Dedup!NoEntry
    <3>4. CASE e # Dedup!NoEntry /\ ~Dedup!Expired(e)
      <4>1. /\ store'  = [store EXCEPT ![slot].hits = @ + 1]
            /\ served' = [served EXCEPT ![c] = [entry |-> e, key |-> k, at |-> nowMs]]
            /\ hits' = hits + 1 /\ gets' = gets + 1
            /\ UNCHANGED <<asking, nowMs>>
        BY <2>3, <3>4 DEF Dedup!Get, Dedup!Slot
      <4>2. e.by = TenantOf[c] /\ e.key = k /\ e.stored_at \in Nat /\ e.hits \in Nat
        BY <3>1, <3>4 DEF EntriesAreOwn
      <4>3. nowMs - e.stored_at <= TtlMs
        BY <3>4, <4>2, ServicesAssumption DEF Dedup!Expired, Dedup!DedupAssumption, EntriesAreOwn
      <4>4. Dedup!HitIsOwnAndFresh'
        BY <3>1, <4>1, <4>2, <4>3 DEF EntriesAreOwn, Dedup!HitIsOwnAndFresh
      <4>5. EntriesAreOwn'
        BY <3>1, <3>4, <4>1, <4>2 DEF EntriesAreOwn
      <4> QED
        BY <4>4, <4>5
    <3> QED
      BY <3>2, <3>3, <3>4
  <2> QED
    BY <2>1, <2>2, <2>3 DEF Dedup!Next
<1>4. DInv /\ UNCHANGED dedupVars => DInv'
  BY DEF dedupVars, EntriesAreOwn, Dedup!HitIsOwnAndFresh
<1>5. DInv => HitIsOwnAndFresh
  BY DEF HitIsOwnAndFresh
<1> QED
  BY <1>1, <1>2, <1>3, <1>4, <1>5, PTL DEF ServicesSpec
-----------------------------------------------------------------------------
(* The verdicts in circulation are finitely many, each hashed and          *)
(* independent of the action it was given on.                              *)
VerdictsAreTheirActions ==
    /\ IsFiniteSet(verdicts)
    /\ \A v \in verdicts : /\ v.hashed = v.of /\ v.independent_of = v.of.actor
                            /\ v.reviewer \in Names /\ v.kid \in Kids

(* A valid verdict speaks for the action it clears.                        *)
LEMMA ValidSpeaksFor ==
    ASSUME VerdictsAreTheirActions, NEW v \in verdicts, NEW action \in Guard!Actions,
           Guard!VerifyPreVerdict(v, action, Guard!TrustedKeys(Guard!NoMoment), now)
    PROVE  Guard!SpeaksFor(v, action)
BY ServicesAssumption
   DEF VerdictsAreTheirActions, Guard!VerifyPreVerdict, Guard!SpeaksFor, Guard!TrustedKeys,
       Guard!NotExpired, Guard!ActionHash, Guard!GuardianAssumption, Guard!Known

(* What a gate clears was reviewed: by a verdict that speaks for it, or by *)
(* as many keys as were asked for, with no verdict against it              *)
(* (guardian.ts:150-327).                                                  *)
THEOREM ServicesClearReviewed == ServicesSpec => []ClearedIsReviewed
<1>1. ServicesInit => VerdictsAreTheirActions
  BY FS_EmptySet DEF ServicesInit, Guard!Init, VerdictsAreTheirActions
<1>2. [ServicesNext]_servicesVars => [Guard!Next]_guardVars
  BY DEF ServicesNext, servicesVars
<1>3. VerdictsAreTheirActions /\ [Guard!Next]_guardVars => VerdictsAreTheirActions'
  <2> SUFFICES ASSUME VerdictsAreTheirActions, [Guard!Next]_guardVars
               PROVE  VerdictsAreTheirActions'
    OBVIOUS
  <2>1. CASE Guard!SignPreVerdict
    <3>1. PICK a \in Guard!Actions, k \in Kids, who \in Names,
               v \in {"approve", "concerns", "reject"}, exp \in {NoExpiry, Unparsed, 0},
               ok \in BOOLEAN :
               verdicts' = verdicts \cup
                  {[hashed |-> a, verdict |-> v, reviewer |-> who, independent_of |-> a.actor,
                    expires_at |-> exp, kid |-> k, intact |-> ok, of |-> a]}
      <4>1. \A a \in Guard!Actions : Guard!ActionHash(a) = a
        BY DEF Guard!ActionHash
      <4> QED
        BY <2>1, <4>1 DEF Guard!SignPreVerdict
    <3>2. IsFiniteSet(verdicts')
      <4>1. IsFiniteSet(verdicts)
        BY DEF VerdictsAreTheirActions
      <4> QED
        BY <3>1, <4>1, FS_AddElement
    <3> QED
      BY <3>1, <3>2 DEF VerdictsAreTheirActions
  <2>2. CASE UNCHANGED verdicts
    BY <2>2 DEF VerdictsAreTheirActions
  <2> QED
    BY <2>1, <2>2 DEF Guard!Next, Guard!Registry, Guard!Restart, Guard!Tick, guardVars
<1>4. ASSUME VerdictsAreTheirActions PROVE ClearedIsReviewed
  <2> SUFFICES ASSUME NEW action \in Guard!Actions
               PROVE  LET trusted == Guard!TrustedKeys(Guard!NoMoment)
                          For(vs) == {v \in vs : Guard!SpeaksFor(v, action) /\ v.verdict # "reject"}
                      IN  /\ \A v \in verdicts :
                                Guard!ActionCleared(v, action, trusted, now) => For({v}) # {}
                          /\ \A vs \in SUBSET verdicts :
                                Guard!ReviewNofM(vs, action, trusted, now) =>
                                  /\ Guard!Cardinality({v.kid : v \in For(vs)}) >= Threshold
                                  /\ \A v \in vs : Guard!SpeaksFor(v, action) => v.verdict # "reject"
    BY DEF ClearedIsReviewed, Guard!ClearedIsReviewed
  <2> DEFINE trusted == Guard!TrustedKeys(Guard!NoMoment)
             For(vs) == {v \in vs : Guard!SpeaksFor(v, action) /\ v.verdict # "reject"}
  <2>1. ASSUME NEW v \in verdicts, Guard!ActionCleared(v, action, trusted, now)
        PROVE  For({v}) # {}
    BY <1>4, <2>1, ValidSpeaksFor DEF Guard!ActionCleared, Guard!Approves
  <2>2. ASSUME NEW vs \in SUBSET verdicts, Guard!ReviewNofM(vs, action, trusted, now)
        PROVE  /\ Guard!Cardinality({v.kid : v \in For(vs)}) >= Threshold
               /\ \A v \in vs : Guard!SpeaksFor(v, action) => v.verdict # "reject"
    <3> DEFINE valid     == {v \in vs : Guard!VerifyPreVerdict(v, action, trusted, now)}
               approvers == {v.kid : v \in {w \in valid : Guard!Approves(w)}}
               kids      == {v.kid : v \in For(vs)}
    <3>1. /\ Threshold >= 1
          /\ \A v \in valid : v.verdict # "reject"
          /\ Guard!Cardinality(approvers) >= Threshold
      BY <2>2 DEF Guard!ReviewNofM
    <3>2. approvers \subseteq kids
      BY <1>4, <3>1, ValidSpeaksFor
    <3>3. IsFiniteSet(kids)
      <4>1. IsFiniteSet(vs)
        BY <1>4, FS_Subset DEF VerdictsAreTheirActions
      <4>2. IsFiniteSet(For(vs))
        BY <4>1, FS_Subset
      <4> DEFINE kid == [v \in For(vs) |-> v.kid]
      <4>3. kid \in Surjection(For(vs), kids)
        BY DEF Surjection
      <4> QED
        BY <4>2, <4>3, FS_Surjection
    <3>4. Cardinality(approvers) <= Cardinality(kids) /\ Cardinality(kids) \in Nat
          /\ Cardinality(approvers) \in Nat
      BY <3>2, <3>3, FS_Subset, FS_CardinalityType
    <3>5. \A S : Guard!Cardinality(S) = Cardinality(S)
      BY Zenon DEF Guard!Cardinality, Cardinality
    <3>6. Guard!Cardinality(kids) >= Threshold
      BY <3>1, <3>4, <3>5, ServicesAssumption DEF Guard!GuardianAssumption
    <3>7. ASSUME NEW v \in vs, Guard!SpeaksFor(v, action)
          PROVE  v.verdict # "reject"
      BY <1>4, <3>1, <3>7, ServicesAssumption
         DEF Guard!SpeaksFor, Guard!VerifyPreVerdict, Guard!TrustedKeys, Guard!NotExpired,
             Guard!ActionHash, VerdictsAreTheirActions, Guard!GuardianAssumption
    <3> QED
      BY <3>6, <3>7
  <2> QED
    BY <2>1, <2>2
<1> QED
  BY <1>1, <1>2, <1>3, <1>4, PTL DEF ServicesSpec
-----------------------------------------------------------------------------
Before(s) == {e \in Export!Events : e < first /\ acked[s][e] > 0}

(* An event's deliveries acknowledged by a sink: none yet, at most one in  *)
(* the batch under way, exactly one before it if the sink's entry is ok.   *)
EntriesFitAcks ==
    /\ first \in Nat \ {0}
    /\ settled \in [Sinks -> {"none", "ok", "failed"}]
    /\ totals \in [Sinks -> [seen : BOOLEAN, ok : BOOLEAN, delivered : Nat]]
    /\ received \in [Sinks -> [Export!Events -> Nat]]
    /\ acked \in [Sinks -> [Export!Events -> Nat]]
    /\ report \in [done : BOOLEAN, ok : BOOLEAN, batches : Nat]
    /\ \A s \in Sinks, e \in Export!Events :
          /\ e \in Export!Batch =>
                /\ acked[s][e] = IF settled[s] = "ok" THEN 1 ELSE 0
                /\ settled[s] = "ok" /\ KindOf[s] # "syslog" => received[s][e] > 0
          /\ e >= first + Export!StepSize => acked[s][e] = 0
          /\ e < first => /\ acked[s][e] <= 1
                          /\ totals[s].ok => acked[s][e] = 1
                          /\ totals[s].ok /\ KindOf[s] # "syslog" => received[s][e] > 0
    /\ \A s \in Sinks : /\ totals[s].seen <=> first > 1
                        /\ totals[s].delivered = Cardinality(Before(s))
    /\ report.done =>
          /\ Export!Batch = {}
          /\ report.ok => \A s \in Sinks : totals[s].seen => totals[s].ok

LEMMA StepSizeType == Export!StepSize \in Nat \ {0}
BY ServicesAssumption DEF Export!StepSize, Export!ExporterAssumption

LEMMA SameCardinality == \A S : Export!Cardinality(S) = Cardinality(S)
BY Zenon DEF Export!Cardinality, Cardinality

(* When no batch is left, every event was in one.                          *)
LEMMA AllWereSent ==
    ASSUME EntriesFitAcks, Export!Batch = {}
    PROVE  /\ \A e \in Export!Events : e < first
           /\ NumEvents # 0 => first > 1
<1>1. NumEvents \in Nat /\ Export!Events \subseteq Nat \ {0}
  BY ServicesAssumption DEF Export!ExporterAssumption, Export!Events
<1>2. first \in Nat \ {0} /\ Export!StepSize \in Nat \ {0}
  BY StepSizeType DEF EntriesFitAcks
<1>3. first \notin Export!Events
  BY <1>1, <1>2 DEF Export!Batch
<1>4. first > NumEvents
  BY <1>1, <1>2, <1>3 DEF Export!Events
<1> QED
  BY <1>1, <1>2, <1>4 DEF Export!Events

(* An attempt changes the sink's own counters only.                        *)
LEMMA AttemptKeepsEntries ==
    ASSUME EntriesFitAcks, NEW s \in Sinks, Export!Delivered(s) \/ Export!Failed(s)
    PROVE  EntriesFitAcks'
<1>1. PICK es : Export!Reaches(s, es) /\ (Export!Delivered(s) => es \in Export!HasArrived(s))
  BY DEF Export!Delivered, Export!Failed
<1>2. received' \in [Sinks -> [Export!Events -> Nat]]
  BY <1>1 DEF EntriesFitAcks, Export!Reaches
<1>3. /\ UNCHANGED <<first, totals, report>>
      /\ ~report.done /\ settled[s] = "none"
      /\ Export!Batch' = Export!Batch
  BY DEF Export!Delivered, Export!Failed, Export!Pending, Export!Batch
<1>4. \A t \in Sinks \ {s} : received'[t] = received[t]
  BY <1>1 DEF EntriesFitAcks, Export!Reaches
<1>5. \A e \in Export!Events : received[s][e] > 0 => received'[s][e] > 0
  BY <1>1 DEF EntriesFitAcks, Export!Reaches
<1>6. CASE Export!Delivered(s)
  <2>1. /\ acked'   = [acked EXCEPT ![s] = [e \in Export!Events |->
                                 @[e] + (IF e \in Export!Batch THEN 1 ELSE 0)]]
        /\ settled' = [settled EXCEPT ![s] = "ok"]
    BY <1>6 DEF Export!Delivered
  <2>2. KindOf[s] # "syslog" => \A e \in Export!Batch : received'[s][e] > 0
    BY <1>1, <1>6 DEF EntriesFitAcks, Export!Reaches, Export!HasArrived, Export!Batch
  <2>3. /\ acked' \in [Sinks -> [Export!Events -> Nat]]
        /\ settled' \in [Sinks -> {"none", "ok", "failed"}]
        /\ settled'[s] = "ok"
        /\ \A t \in Sinks \ {s} : acked'[t] = acked[t] /\ settled'[t] = settled[t]
        /\ \A e \in Export!Events :
              acked'[s][e] = acked[s][e] + (IF e \in Export!Batch THEN 1 ELSE 0)
    BY <2>1 DEF EntriesFitAcks
  <2>4. \A e \in Export!Batch : acked'[s][e] = 1
    BY <1>3, <2>3 DEF EntriesFitAcks, Export!Batch
  <2>5. \A e \in Export!Events \ Export!Batch : acked'[s][e] = acked[s][e]
    BY <2>3 DEF EntriesFitAcks
  <2>6. \A e \in Export!Events : /\ e < first => e \notin Export!Batch
                                 /\ e >= first + Export!StepSize => e \notin Export!Batch
    BY ServicesAssumption, StepSizeType
       DEF Export!Batch, EntriesFitAcks, Export!Events, Export!ExporterAssumption
  <2>7. \A t \in Sinks : Before(t)' = Before(t)
    BY <1>3, <2>3, <2>5, <2>6 DEF Before
  <2>8. Export!StepSize' = Export!StepSize /\ Export!Events' = Export!Events
    BY DEF Export!StepSize, Export!Events
  <2>9. ASSUME NEW t \in Sinks, NEW e \in Export!Events
        PROVE  /\ e \in Export!Batch =>
                     /\ acked'[t][e] = IF settled'[t] = "ok" THEN 1 ELSE 0
                     /\ settled'[t] = "ok" /\ KindOf[t] # "syslog" => received'[t][e] > 0
               /\ e >= first + Export!StepSize => acked'[t][e] = 0
               /\ e < first => /\ acked'[t][e] <= 1
                               /\ totals[t].ok => acked'[t][e] = 1
                               /\ totals[t].ok /\ KindOf[t] # "syslog" => received'[t][e] > 0
    <3>1. CASE t = s
      BY <3>1, <1>5, <2>2, <2>3, <2>4, <2>5, <2>6 DEF EntriesFitAcks
    <3>2. CASE t # s
      BY <3>2, <1>4, <2>3 DEF EntriesFitAcks
    <3> QED
      BY <3>1, <3>2
  <2> QED
    BY <1>2, <1>3, <2>3, <2>7, <2>8, <2>9 DEF EntriesFitAcks
<1>7. CASE Export!Failed(s)
  <2>1. UNCHANGED acked /\ \E r \in {"none", "failed"} : settled' = [settled EXCEPT ![s] = r]
    BY <1>7 DEF Export!Failed
  <2>2. \A t \in Sinks : Before(t)' = Before(t)
    BY <1>3, <2>1 DEF Before
  <2> QED
    BY <1>2, <1>3, <1>4, <1>5, <2>1, <2>2 DEF EntriesFitAcks
<1> QED
  BY <1>6, <1>7

(* The next batch's results are added to the entries.                      *)
LEMMA NextBatchKeepsEntries ==
    ASSUME EntriesFitAcks, Export!NextBatch
    PROVE  EntriesFitAcks'
<1> DEFINE n == Export!Cardinality(Export!Batch)
<1>1. /\ totals'  = [s \in Sinks |-> Export!AddResult(totals[s], settled[s], n)]
      /\ first'   = first + Export!StepSize
      /\ settled' = [s \in Sinks |-> "none"]
      /\ report'  = [report EXCEPT !.batches = @ + 1]
      /\ ~report.done
      /\ \A s \in Sinks : settled[s] # "none"
      /\ UNCHANGED <<received, acked>>
  BY DEF Export!NextBatch, Export!GoesOn
<1>2. /\ IsFiniteSet(Export!Batch) /\ n = Cardinality(Export!Batch) /\ n \in Nat
  <2>1. IsFiniteSet(Export!Events)
    BY FS_Interval, ServicesAssumption DEF Export!Events, Export!ExporterAssumption
  <2>2. IsFiniteSet(Export!Batch)
    BY <2>1, FS_Subset DEF Export!Batch
  <2> QED
    BY <2>2, SameCardinality, FS_CardinalityType
<1>3. /\ \A s \in Sinks : IsFiniteSet(Before(s))
      /\ \A s \in Sinks : Cardinality(Before(s)) \in Nat
  <2>1. IsFiniteSet(Export!Events)
    BY FS_Interval, ServicesAssumption DEF Export!Events, Export!ExporterAssumption
  <2>2. \A s \in Sinks : IsFiniteSet(Before(s))
    BY <2>1, FS_Subset DEF Before
  <2> QED
    BY <2>2, FS_CardinalityType
<1>4. first \in Nat \ {0} /\ Export!StepSize \in Nat \ {0} /\ Export!Events \subseteq Nat \ {0}
  BY StepSizeType, ServicesAssumption DEF EntriesFitAcks, Export!Events, Export!ExporterAssumption
<1>5. \A e \in Export!Events : e < first' <=> e < first \/ e \in Export!Batch
  BY <1>1, <1>4 DEF Export!Batch
<1>6. \A e \in Export!Batch : e \in Export!Events /\ first <= e /\ e < first + Export!StepSize
  BY DEF Export!Batch
<1>7. \A s \in Sinks :
         Before(s)' = IF settled[s] = "ok" THEN Before(s) \cup Export!Batch ELSE Before(s)
  <2> SUFFICES ASSUME NEW s \in Sinks
      PROVE Before(s)' = IF settled[s] = "ok" THEN Before(s) \cup Export!Batch ELSE Before(s)
    OBVIOUS
  <2>1. Before(s)' = {e \in Export!Events : (e < first \/ e \in Export!Batch) /\ acked[s][e] > 0}
    BY <1>1, <1>5 DEF Before, Export!Events
  <2>2. \A e \in Export!Batch : acked[s][e] = IF settled[s] = "ok" THEN 1 ELSE 0
    BY <1>6 DEF EntriesFitAcks
  <2> QED
    BY <2>1, <2>2, <1>6 DEF Before
<1>8. \A s \in Sinks : Cardinality(Before(s) \cup Export!Batch) = Cardinality(Before(s)) + n
  <2> SUFFICES ASSUME NEW s \in Sinks
      PROVE Cardinality(Before(s) \cup Export!Batch) = Cardinality(Before(s)) + n
    OBVIOUS
  <2>1. Before(s) \cap Export!Batch = {}
    <3> SUFFICES ASSUME NEW e \in Before(s), e \in Export!Batch PROVE FALSE
      OBVIOUS
    <3>1. e \in Export!Events /\ e < first /\ first <= e
      BY <1>6 DEF Before
    <3>2. e \in Nat /\ first \in Nat
      BY <1>4, <3>1
    <3> QED
      BY <3>1, <3>2
  <2>2. Cardinality(Before(s) \cap Export!Batch) = 0
    BY <2>1, FS_EmptySet
  <2>3. Cardinality(Before(s) \cup Export!Batch)
           = Cardinality(Before(s)) + Cardinality(Export!Batch) - Cardinality(Before(s) \cap Export!Batch)
    BY <1>2, <1>3, FS_Union
  <2> QED
    BY <1>2, <1>3, <2>2, <2>3
<1>9. \A s \in Sinks : /\ totals'[s].seen = TRUE
                       /\ totals'[s].ok = (settled[s] = "ok" /\ (totals[s].seen => totals[s].ok))
                       /\ totals'[s].delivered
                             = totals[s].delivered + (IF settled[s] = "ok" THEN n ELSE 0)
  BY <1>1 DEF Export!AddResult
<1>10. totals' \in [Sinks -> [seen : BOOLEAN, ok : BOOLEAN, delivered : Nat]]
  BY <1>1, <1>2 DEF Export!AddResult, EntriesFitAcks
<1> HIDE DEF n
<1>11. \A s \in Sinks : totals'[s].delivered = Cardinality(Before(s)')
  <2> SUFFICES ASSUME NEW s \in Sinks PROVE totals'[s].delivered = Cardinality(Before(s)')
    OBVIOUS
  <2>1. totals[s].delivered = Cardinality(Before(s))
    BY DEF EntriesFitAcks
  <2>2. totals'[s].delivered = totals[s].delivered + (IF settled[s] = "ok" THEN n ELSE 0)
    BY <1>9
  <2>3. CASE settled[s] = "ok"
    <3>1. Before(s)' = Before(s) \cup Export!Batch
      BY <1>7, <2>3
    <3> QED
      BY <1>8, <2>1, <2>2, <2>3, <3>1
  <2>4. CASE settled[s] # "ok"
    <3>1. Before(s)' = Before(s)
      BY <1>7, <2>4
    <3> QED
      BY <1>3, <2>1, <2>2, <2>4, <3>1
  <2> QED
    BY <2>3, <2>4
<1>12. first' \in Nat \ {0} /\ first' > 1 /\ first' = first + Export!StepSize
  BY <1>1, <1>4
<1>13. /\ settled' \in [Sinks -> {"none", "ok", "failed"}]
       /\ report' \in [done : BOOLEAN, ok : BOOLEAN, batches : Nat]
       /\ ~report'.done
       /\ \A s \in Sinks : settled'[s] = "none"
  BY <1>1 DEF EntriesFitAcks
<1>14. ASSUME NEW s \in Sinks, NEW e \in Export!Events
       PROVE  /\ e >= first' => acked[s][e] = 0
              /\ e < first' => /\ acked[s][e] <= 1
                               /\ totals'[s].ok => acked[s][e] = 1
                               /\ totals'[s].ok /\ KindOf[s] # "syslog" => received[s][e] > 0
  <2>1. /\ e \in Export!Batch =>
              /\ acked[s][e] = IF settled[s] = "ok" THEN 1 ELSE 0
              /\ settled[s] = "ok" /\ KindOf[s] # "syslog" => received[s][e] > 0
        /\ e >= first + Export!StepSize => acked[s][e] = 0
        /\ e < first => /\ acked[s][e] <= 1
                        /\ totals[s].ok => acked[s][e] = 1
                        /\ totals[s].ok /\ KindOf[s] # "syslog" => received[s][e] > 0
        /\ totals[s].seen <=> first > 1
    BY DEF EntriesFitAcks
  <2>2. e < first => first > 1
    BY <1>4
  <2>3. CASE e >= first'
    BY <2>3, <2>1, <1>12, <1>4
  <2>4. CASE e < first
    BY <2>4, <2>1, <2>2, <1>9, <1>12, <1>4
  <2>5. CASE e \in Export!Batch
    <3>1. /\ acked[s][e] = IF settled[s] = "ok" THEN 1 ELSE 0
          /\ settled[s] = "ok" /\ KindOf[s] # "syslog" => received[s][e] > 0
      BY <2>5, <2>1
    <3>2. totals'[s].ok => settled[s] = "ok"
      BY <1>9
    <3>3. ~(e >= first')
      BY <2>5, <1>6, <1>12, <1>4
    <3>4. acked[s][e] <= 1
      BY <3>1
    <3> QED
      BY <3>1, <3>2, <3>3, <3>4
  <2> QED
    BY <2>3, <2>4, <2>5, <1>5, <1>4, <1>12
<1>15. /\ Export!StepSize' = Export!StepSize /\ Export!Events' = Export!Events
       /\ \A e \in Export!Events : e \in Export!Batch' => e >= first'
       /\ \A e \in Export!Events : e >= first' + Export!StepSize => e >= first'
  BY <1>4, <1>12 DEF Export!StepSize, Export!Events, Export!Batch
<1>16. ASSUME NEW s \in Sinks, NEW e \in Export!Events
       PROVE  /\ e \in Export!Batch' =>
                    /\ acked'[s][e] = IF settled'[s] = "ok" THEN 1 ELSE 0
                    /\ settled'[s] = "ok" /\ KindOf[s] # "syslog" => received'[s][e] > 0
              /\ e >= first' + Export!StepSize' => acked'[s][e] = 0
              /\ e < first' => /\ acked'[s][e] <= 1
                               /\ totals'[s].ok => acked'[s][e] = 1
                               /\ totals'[s].ok /\ KindOf[s] # "syslog" => received'[s][e] > 0
  BY <1>1, <1>13, <1>14, <1>15
<1>17. received' \in [Sinks -> [Export!Events -> Nat]] /\ acked' \in [Sinks -> [Export!Events -> Nat]]
  BY <1>1 DEF EntriesFitAcks
<1>18. \A s \in Sinks : totals'[s].seen <=> first' > 1
  BY <1>9, <1>12
<1> QED
  BY <1>10, <1>11, <1>12, <1>13, <1>15, <1>16, <1>17, <1>18 DEF EntriesFitAcks

(* The report of exportReceipts can be believed: a sink it reports ok      *)
(* acknowledged every event, and was sent none again after that; its       *)
(* delivered counts the acknowledged events.                               *)
THEOREM ServicesReportIsHonest == ServicesSpec => []ReportIsHonest
<1>1. ServicesInit => EntriesFitAcks
  <2> SUFFICES ASSUME ServicesInit PROVE EntriesFitAcks
    OBVIOUS
  <2>1. Export!Init
    BY DEF ServicesInit
  <2>2. Export!Events \subseteq Nat \ {0} /\ Export!StepSize \in Nat \ {0}
    BY StepSizeType, ServicesAssumption DEF Export!Events, Export!ExporterAssumption
  <2>3. \A s \in Sinks : Before(s) = {}
    BY <2>1, <2>2 DEF Export!Init, Before
  <2>4. \A s \in Sinks : Cardinality(Before(s)) = 0
    BY <2>3, FS_EmptySet
  <2> QED
    BY <2>1, <2>2, <2>4 DEF Export!Init, EntriesFitAcks, Export!Batch
<1>2. EntriesFitAcks /\ [ServicesNext]_servicesVars => EntriesFitAcks'
  <2> SUFFICES ASSUME EntriesFitAcks, [ServicesNext]_servicesVars
      PROVE  EntriesFitAcks'
    OBVIOUS
  <2>1. CASE Export!Next
    <3>1. CASE Export!Return
      <4>1. /\ Export!Batch = {} /\ UNCHANGED <<first, settled, totals, received, acked>>
            /\ report' = [report EXCEPT
                  !.done = TRUE,
                  !.ok   = /\ \A s \in Sinks : totals[s].seen => totals[s].ok
                           /\ NumEvents = 0 \/ Sinks # {}]
        BY <3>1 DEF Export!Return
      <4>2. /\ Export!Batch' = Export!Batch
            /\ \A s \in Sinks : Before(s)' = Before(s)
            /\ Export!StepSize' = Export!StepSize /\ Export!Events' = Export!Events
        BY <4>1 DEF Export!Batch, Before, Export!StepSize, Export!Events
      <4>3. /\ report' \in [done : BOOLEAN, ok : BOOLEAN, batches : Nat]
            /\ report'.ok => \A s \in Sinks : totals[s].seen => totals[s].ok
        BY <4>1 DEF EntriesFitAcks
      <4> QED
        BY <4>1, <4>2, <4>3 DEF EntriesFitAcks
    <3> QED
      BY <2>1, <3>1, AttemptKeepsEntries, NextBatchKeepsEntries DEF Export!Next
  <2>2. CASE UNCHANGED exportVars
    <3>1. Export!Batch' = Export!Batch /\ \A s \in Sinks : Before(s)' = Before(s)
      BY <2>2 DEF exportVars, Export!Batch, Before
    <3> QED
      BY <2>2, <3>1 DEF exportVars, EntriesFitAcks
  <2> QED
    BY <2>1, <2>2 DEF ServicesNext, servicesVars
<1>3. EntriesFitAcks => ReportIsHonest
  <2> SUFFICES ASSUME EntriesFitAcks PROVE ReportIsHonest
    OBVIOUS
  <2>1. Export!NoResendAfterAck
    <3> SUFFICES ASSUME NEW s \in Sinks, NEW e \in Export!Events PROVE acked[s][e] <= 1
      BY DEF Export!NoResendAfterAck
    <3>1. e \in Export!Batch \/ e >= first + Export!StepSize \/ e < first
      BY StepSizeType, ServicesAssumption
         DEF EntriesFitAcks, Export!Batch, Export!Events, Export!ExporterAssumption
    <3> QED
      BY <3>1 DEF EntriesFitAcks
  <2>2. ASSUME report.done
        PROVE  /\ report.ok => \A s \in Sinks : NumEvents = 0 \/ totals[s].ok
               /\ \A s \in Sinks : totals[s].ok =>
                     \A e \in Export!Events :
                        acked[s][e] > 0 /\ (KindOf[s] # "syslog" => received[s][e] > 0)
               /\ \A s \in Sinks :
                     totals[s].delivered = Export!Cardinality({e \in Export!Events : acked[s][e] > 0})
    <3>1. /\ \A e \in Export!Events : e < first
          /\ NumEvents # 0 => first > 1
      BY <2>2, AllWereSent DEF EntriesFitAcks
    <3>2. \A s \in Sinks : {e \in Export!Events : acked[s][e] > 0} = Before(s)
      BY <3>1 DEF Before
    <3>3. \A s \in Sinks : totals[s].ok =>
             \A e \in Export!Events :
                acked[s][e] > 0 /\ (KindOf[s] # "syslog" => received[s][e] > 0)
      BY <3>1 DEF EntriesFitAcks
    <3>4. report.ok => \A s \in Sinks : NumEvents = 0 \/ totals[s].ok
      BY <2>2, <3>1 DEF EntriesFitAcks
    <3>5. ASSUME NEW s \in Sinks
          PROVE  totals[s].delivered = Export!Cardinality({e \in Export!Events : acked[s][e] > 0})
      <4>1. totals[s].delivered = Cardinality(Before(s))
        BY DEF EntriesFitAcks
      <4> QED
        BY <3>2, <4>1, SameCardinality
    <3> QED
      BY <3>3, <3>4, <3>5
  <2> QED
    BY <2>1, <2>2 DEF ReportIsHonest, Export!ReportIsHonest
<1> QED
  BY <1>1, <1>2, <1>3, PTL DEF ServicesSpec
-----------------------------------------------------------------------------
(* Transparency log.  Leaves are only ever appended, so the first n stay   *)
(* what they are, and with them the root of a head of size n: there is no  *)
(* need to know how a root is computed.                                    *)
LogEntry == Submitters \X Nat
LogHead  == [size : Nat, root : {Log!Root(D, n) : D \in Seq(LogEntry), n \in Nat},
              seen : Nat]

(* A head, signed or about to be: the root of entries that are there, and  *)
(* no smaller than any head that was out when its publication began.       *)
TrueHead(h) ==
    /\ h.size <= Len(leafHashes) /\ h.root = Log!Root(leafHashes, h.size)
    /\ h.seen <= Len(sthHistory)
    /\ \A i \in 1..h.seen : sthHistory[i].size <= h.size

LogInv ==
    /\ leafHashes \in Seq(LogEntry)
    /\ acks \in [Submitters -> Seq(Nat)]
    /\ signing \in [Publishers -> SUBSET LogHead]
    /\ sthHistory \in Seq(LogHead)
    /\ \A p \in Publishers : \A h \in signing[p] : TrueHead(h)
    /\ \A i \in 1..Len(sthHistory) : TrueHead(sthHistory[i])
    /\ \A s \in Submitters : \A j \in 1..Len(acks[s]) :
          /\ acks[s][j] < Len(leafHashes)
          /\ leafHashes[acks[s][j] + 1] = Log!Leaf(s, j)

(* What is appended changes neither the entries before it nor their root.  *)
LEMMA AppendedEntries ==
    ASSUME NEW S, NEW D \in Seq(S), NEW x \in S
    PROVE  /\ Append(D, x) \in Seq(S) /\ Len(Append(D, x)) = Len(D) + 1
           /\ Append(D, x)[Len(D) + 1] = x
           /\ \A i \in 1..Len(D) : Append(D, x)[i] = D[i]
           /\ \A n \in 0..Len(D) : SubSeq(Append(D, x), 1, n) = SubSeq(D, 1, n)
<1>1. /\ Append(D, x) \in Seq(S) /\ Len(Append(D, x)) = Len(D) + 1
      /\ Append(D, x)[Len(D) + 1] = x
      /\ \A i \in 1..Len(D) : Append(D, x)[i] = D[i]
  OBVIOUS
<1>2. ASSUME NEW n \in 0..Len(D)
      PROVE  SubSeq(Append(D, x), 1, n) = SubSeq(D, 1, n)
  <2>1. SubSeq(D, 1, n) = [i \in 1..n |-> D[i]]
    BY Z3
  <2>2. SubSeq(Append(D, x), 1, n) = [i \in 1..n |-> Append(D, x)[i]]
    BY <1>1, Z3
  <2>3. \A i \in 1..n : Append(D, x)[i] = D[i]
    BY <1>1
  <2> QED
    BY <2>1, <2>2, <2>3
<1> QED
  BY <1>1, <1>2

(* append() leaves the heads and the acknowledged entries true.            *)
LEMMA AppendKeepsHeads ==
    ASSUME LogInv, NEW s \in Submitters, Log!AppendLeaf(s)
    PROVE  LogInv'
<1> DEFINE n == Len(leafHashes)
<1> DEFINE m == Len(acks[s])
<1>0. n \in Nat /\ m \in Nat /\ acks[s] \in Seq(Nat)
  BY DEF LogInv
<1>1. Log!Leaf(s, m + 1) \in LogEntry
  BY <1>0 DEF Log!Leaf, LogEntry
<1>2. /\ leafHashes' = Append(leafHashes, Log!Leaf(s, m + 1))
      /\ acks' = [acks EXCEPT ![s] = Append(acks[s], n)]
      /\ signing' = signing /\ sthHistory' = sthHistory
  BY DEF Log!AppendLeaf
<1> HIDE DEF n, m
<1>3. /\ leafHashes' \in Seq(LogEntry) /\ Len(leafHashes') = n + 1
      /\ leafHashes'[n + 1] = Log!Leaf(s, m + 1)
      /\ \A i \in 1..n : leafHashes'[i] = leafHashes[i]
      /\ \A k \in 0..n : SubSeq(leafHashes', 1, k) = SubSeq(leafHashes, 1, k)
  BY <1>1, <1>2, AppendedEntries DEF LogInv, n
<1>4. /\ acks'[s] \in Seq(Nat) /\ Len(acks'[s]) = m + 1 /\ acks'[s][m + 1] = n
      /\ \A j \in 1..m : acks'[s][j] = acks[s][j]
  <2>1. acks'[s] = Append(acks[s], n)
    BY <1>2 DEF LogInv
  <2> QED
    BY <2>1, <1>0, AppendedEntries DEF m
<1>5. acks' \in [Submitters -> Seq(Nat)] /\ \A t \in Submitters \ {s} : acks'[t] = acks[t]
  BY <1>2, <1>0 DEF LogInv
<1>6. ASSUME NEW h \in LogHead, TrueHead(h) PROVE TrueHead(h)'
  <2>1. h.size \in 0..n
    BY <1>0, <1>6 DEF LogHead, TrueHead, n
  <2>2. Log!Root(leafHashes', h.size) = Log!Root(leafHashes, h.size)
    BY <2>1, <1>3 DEF Log!Root
  <2> QED
    BY <2>1, <2>2, <1>0, <1>2, <1>3, <1>6 DEF TrueHead
<1>7. ASSUME NEW t \in Submitters, NEW j \in 1..Len(acks'[t])
      PROVE  acks'[t][j] < n + 1 /\ leafHashes'[acks'[t][j] + 1] = Log!Leaf(t, j)
  <2>1. CASE t = s /\ j = m + 1
    BY <2>1, <1>0, <1>3, <1>4
  <2>2. CASE ~(t = s /\ j = m + 1)
    <3>1. j \in 1..Len(acks[t]) /\ acks'[t][j] = acks[t][j]
      <4>1. CASE t = s
        <5>1. j \in 1..m
          BY <4>1, <2>2, <1>0, <1>4
        <5> QED
          BY <4>1, <5>1, <1>4 DEF m
      <4>2. CASE t # s
        BY <4>2, <1>5
      <4> QED
        BY <4>1, <4>2
    <3>2. acks[t][j] \in Nat
      BY <3>1 DEF LogInv
    <3>3. acks[t][j] < n /\ leafHashes[acks[t][j] + 1] = Log!Leaf(t, j)
      BY <3>1 DEF LogInv, n
    <3>4. acks[t][j] + 1 \in 1..n
      BY <3>2, <3>3, <1>0
    <3> QED
      BY <3>1, <3>2, <3>3, <3>4, <1>0, <1>3
  <2> QED
    BY <2>1, <2>2
<1>8. /\ \A p \in Publishers : \A h \in signing'[p] : TrueHead(h)'
      /\ \A i \in 1..Len(sthHistory') : TrueHead(sthHistory[i])'
  BY <1>2, <1>6 DEF LogInv
<1>9. /\ (\A p \in Publishers : \A h \in signing[p] : TrueHead(h))'
      /\ (\A i \in 1..Len(sthHistory) : TrueHead(sthHistory[i]))'
  BY <1>2, <1>8
<1>10. (\A t \in Submitters : \A j \in 1..Len(acks[t]) :
          /\ acks[t][j] < Len(leafHashes)
          /\ leafHashes[acks[t][j] + 1] = Log!Leaf(t, j))'
  BY <1>7, <1>3
<1> QED
  BY <1>2, <1>3, <1>5, <1>9, <1>10 DEF LogInv

(* publishSth() up to its await makes a head that is true.                 *)
LEMMA BeginKeepsHeads ==
    ASSUME LogInv, NEW p \in Publishers, Log!BeginPublish(p)
    PROVE  LogInv'
<1> DEFINE new == [size |-> Len(leafHashes), root |-> Log!Root(leafHashes, Len(leafHashes)),
                   seen |-> Len(sthHistory)]
<1>1. new \in LogHead
  BY DEF LogInv, LogHead
<1>2. /\ signing' = [signing EXCEPT ![p] = {new}]
      /\ UNCHANGED <<leafHashes, acks, sthHistory>>
  BY DEF Log!BeginPublish
<1>3. Len(leafHashes) \in Nat /\ Len(sthHistory) \in Nat
  BY DEF LogInv
<1>4. TrueHead(new)
  <2>1. ASSUME NEW i \in 1..Len(sthHistory) PROVE sthHistory[i].size <= Len(leafHashes)
    BY DEF LogInv, TrueHead
  <2> QED
    BY <2>1, <1>3 DEF TrueHead
<1> HIDE DEF new
<1>5. \A h : TrueHead(h)' <=> TrueHead(h)
  BY <1>2 DEF TrueHead
<1>6. signing' \in [Publishers -> SUBSET LogHead]
  BY <1>1, <1>2 DEF LogInv
<1>7. ASSUME NEW q \in Publishers, NEW h \in signing'[q] PROVE TrueHead(h)
  BY <1>2, <1>4 DEF LogInv
<1>8. /\ (\A q \in Publishers : \A h \in signing[q] : TrueHead(h))'
      /\ (\A i \in 1..Len(sthHistory) : TrueHead(sthHistory[i]))'
  <2>1. \A q \in Publishers : \A h \in signing'[q] : TrueHead(h)'
    BY <1>5, <1>7
  <2>2. \A i \in 1..Len(sthHistory) : TrueHead(sthHistory[i])'
    BY <1>2, <1>5 DEF LogInv
  <2> QED
    BY <1>2, <2>1, <2>2
<1> QED
  BY <1>2, <1>6, <1>8 DEF LogInv

(* The signature arrives: the head is as true as when it was made.         *)
LEMMA SignedKeepsHeads ==
    ASSUME LogInv, NEW p \in Publishers, Log!Signed(p)
    PROVE  LogInv'
<1>1. PICK head \in signing[p] : sthHistory' = Append(sthHistory, head)
  BY DEF Log!Signed
<1>2. /\ signing' = [signing EXCEPT ![p] = {}]
      /\ UNCHANGED <<leafHashes, acks>>
  BY DEF Log!Signed
<1>3. head \in LogHead /\ TrueHead(head)
  BY DEF LogInv
<1> DEFINE n == Len(sthHistory)
<1>4. n \in Nat
  BY DEF LogInv
<1>5. /\ sthHistory' \in Seq(LogHead) /\ Len(sthHistory') = n + 1
      /\ sthHistory'[n + 1] = head
      /\ \A i \in 1..n : sthHistory'[i] = sthHistory[i]
  BY <1>1, <1>3, AppendedEntries DEF LogInv
<1>6. signing' \in [Publishers -> SUBSET LogHead]
      /\ \A q \in Publishers : signing'[q] \subseteq signing[q]
  BY <1>2 DEF LogInv
<1>7. ASSUME NEW h \in LogHead, TrueHead(h) PROVE TrueHead(h)'
  <2>1. h.seen \in 0..n
    BY <1>4, <1>7 DEF TrueHead, LogHead
  <2>2. \A i \in 1..h.seen : sthHistory'[i].size <= h.size
    BY <2>1, <1>4, <1>5, <1>7 DEF TrueHead
  <2> QED
    BY <2>1, <2>2, <1>2, <1>4, <1>5, <1>7 DEF TrueHead
<1>8. \A q \in Publishers : \A h \in signing'[q] : TrueHead(h)'
  BY <1>6, <1>7 DEF LogInv
<1>9. ASSUME NEW i \in 1..Len(sthHistory') PROVE TrueHead(sthHistory[i])'
  <2>1. sthHistory'[i] \in LogHead /\ TrueHead(sthHistory'[i])
    <3>1. CASE i = n + 1
      BY <3>1, <1>3, <1>5
    <3>2. CASE i # n + 1
      <4>1. i \in 1..n
        BY <3>2, <1>4, <1>5
      <4> QED
        BY <4>1, <1>5 DEF LogInv
    <3> QED
      BY <3>1, <3>2
  <2>2. \A h \in LogHead : TrueHead(h) => TrueHead(h)'
    BY <1>7
  <2> QED
    BY <2>1, <2>2
<1>10. /\ (\A q \in Publishers : \A h \in signing[q] : TrueHead(h))'
       /\ (\A i \in 1..Len(sthHistory) : TrueHead(sthHistory[i]))'
  BY <1>8, <1>9
<1> QED
  BY <1>2, <1>5, <1>6, <1>10 DEF LogInv

LEMMA LogStep == LogInv /\ [ServicesNext]_servicesVars => LogInv'
<1> SUFFICES ASSUME LogInv, [ServicesNext]_servicesVars PROVE LogInv'
  OBVIOUS
<1>1. CASE Log!Next
  <2>1. ASSUME NEW p \in Publishers, Log!SignerFails(p) PROVE LogInv'
    <3>1. /\ signing' = [signing EXCEPT ![p] = {}]
          /\ UNCHANGED <<leafHashes, acks, sthHistory>>
      BY <2>1 DEF Log!SignerFails
    <3>2. \A h : TrueHead(h)' <=> TrueHead(h)
      BY <3>1 DEF TrueHead
    <3>3. signing' \in [Publishers -> SUBSET LogHead]
          /\ \A q \in Publishers : signing'[q] \subseteq signing[q]
      BY <3>1 DEF LogInv
    <3>4. /\ \A q \in Publishers : \A h \in signing'[q] : TrueHead(h)'
          /\ \A i \in 1..Len(sthHistory) : TrueHead(sthHistory[i])'
      BY <3>1, <3>2, <3>3 DEF LogInv
    <3> QED
      BY <3>1, <3>3, <3>4 DEF LogInv
  <2> QED
    BY <1>1, <2>1, AppendKeepsHeads, BeginKeepsHeads, SignedKeepsHeads DEF Log!Next
<1>2. CASE UNCHANGED logVars
  BY <1>2 DEF logVars, LogInv, TrueHead
<1> QED
  BY <1>1, <1>2 DEF ServicesNext, servicesVars

(* Every signed head is and stays the root of the log's first entries, a   *)
(* head begun after another was out is not smaller, and every submitter's  *)
(* leaves are where append() told it, whatever interleaves with the awaits.*)
THEOREM ServicesHeadsAreTrue == ServicesSpec => []HeadsAreTrue
<1>1. ServicesInit => LogInv
  BY DEF ServicesInit, Log!Init, LogInv
<1>2. LogInv /\ [ServicesNext]_servicesVars => LogInv'
  BY LogStep
<1>3. LogInv => HeadsAreTrue
  <2> SUFFICES ASSUME LogInv PROVE HeadsAreTrue
    OBVIOUS
  <2>1. Log!HeadsStayTrue
    BY DEF LogInv, TrueHead, Log!HeadsStayTrue, Log!Heads
  <2>2. ASSUME NEW i \in DOMAIN sthHistory, NEW j \in DOMAIN sthHistory,
               i <= sthHistory[j].seen
        PROVE  sthHistory[i].size <= sthHistory[j].size
    <3>1. /\ i \in 1..Len(sthHistory) /\ j \in 1..Len(sthHistory)
          /\ sthHistory[j] \in LogHead /\ TrueHead(sthHistory[j])
      BY DEF LogInv
    <3>2. i \in 1..sthHistory[j].seen
      BY <3>1, <2>2 DEF LogHead
    <3> QED
      BY <3>1, <3>2 DEF TrueHead
  <2> QED
    BY <2>1, <2>2 DEF HeadsAreTrue, Log!PublishedHeadsGrow
<1> QED
  BY <1>1, <1>2, <1>3, PTL DEF ServicesSpec
-----------------------------------------------------------------------------
(* Inclusion proofs.  What MerkleTreeProofs proves of the algorithms holds *)
(* of the log's entries, which are all different: each is the one leaf its *)
(* submitter was told is at its position.                                  *)
Merkle == INSTANCE MerkleTreeProofs

LEMMA SameAlgorithms ==
    /\ \A D, n : Log!Root(D, n) = Merkle!Root(D, n)
    /\ \A D, i, n : Log!InclusionPath(D, i, n) = Merkle!InclusionPath(D, i, n)
    /\ \A leaf, i, n, path, root :
          Log!VerifyInclusion(leaf, i, n, path, root)
             <=> Merkle!VerifyInclusion(leaf, i, n, path, root)
    /\ \A D, m, n : Log!ConsistencyProof(D, m, n) = Merkle!ConsistencyProof(D, m, n)
    /\ \A m, old, n, new, proof :
          Log!VerifyConsistency(m, old, n, new, proof)
             <=> Merkle!VerifyConsistency(m, old, n, new, proof)
    /\ \A leaves : Log!BatchRoot(leaves) = Merkle!BatchRoot(leaves)
    /\ \A leaves, i : Log!BatchPath(leaves, i) = Merkle!BatchPath(leaves, i)
    /\ \A leaf, i, n, path, root :
          Log!VerifyBatchInclusion(leaf, i, n, path, root)
             <=> Merkle!VerifyBatchInclusion(leaf, i, n, path, root)
<1>1. \A D, s, e : Log!RootOf(D, s, e) = Merkle!RootOf(D, s, e)
  BY DEF Log!RootOf, Merkle!RootOf, Log!EmptyRoot, Merkle!EmptyRoot,
         Log!Split, Merkle!Split, Log!Ranges, Merkle!Ranges, Log!Size, Merkle!Size,
         Log!Middle, Merkle!Middle, Log!Left, Merkle!Left, Log!Right, Merkle!Right,
         Log!hashNode, Merkle!hashNode
<1>2. \A D, n : Log!Root(D, n) = Merkle!Root(D, n)
  BY <1>1 DEF Log!Root, Merkle!Root
<1>3. \A D, i, n : Log!InclusionPath(D, i, n) = Merkle!InclusionPath(D, i, n)
  BY DEF Log!InclusionPath, Merkle!InclusionPath,
         Log!RootOf, Merkle!RootOf, Log!EmptyRoot, Merkle!EmptyRoot,
         Log!Split, Merkle!Split, Log!Ranges, Merkle!Ranges, Log!Size, Merkle!Size,
         Log!Middle, Merkle!Middle, Log!Left, Merkle!Left, Log!Right, Merkle!Right,
         Log!hashNode, Merkle!hashNode
<1>4. \A i, n : Log!Sides(i, n) = Merkle!Sides(i, n)
  BY DEF Log!Sides, Merkle!Sides,
         Log!Split, Merkle!Split, Log!Ranges, Merkle!Ranges, Log!Size, Merkle!Size,
         Log!Middle, Merkle!Middle, Log!Left, Merkle!Left, Log!Right, Merkle!Right,
         Log!hashNode, Merkle!hashNode
<1>5. \A x, sides, path : Log!Combined(x, sides, path) = Merkle!Combined(x, sides, path)
  BY DEF Log!Combined, Merkle!Combined, Log!hashNode, Merkle!hashNode
<1>6. \A leaf, i, n, path, root :
         Log!VerifyInclusion(leaf, i, n, path, root)
            <=> Merkle!VerifyInclusion(leaf, i, n, path, root)
  BY <1>4, <1>5 DEF Log!VerifyInclusion, Merkle!VerifyInclusion
<1>7. \A D, m, n : Log!ConsistencyProof(D, m, n) = Merkle!ConsistencyProof(D, m, n)
  BY DEF Log!ConsistencyProof, Merkle!ConsistencyProof, Log!Around, Merkle!Around,
         Log!RootOf, Merkle!RootOf, Log!EmptyRoot, Merkle!EmptyRoot,
         Log!Split, Merkle!Split, Log!Ranges, Merkle!Ranges, Log!Size, Merkle!Size,
         Log!Middle, Merkle!Middle, Log!Left, Merkle!Left, Log!Right, Merkle!Right,
         Log!hashNode, Merkle!hashNode
<1>8. \A m, old, n, new, proof :
          Log!VerifyConsistency(m, old, n, new, proof)
             <=> Merkle!VerifyConsistency(m, old, n, new, proof)
  BY DEF Log!VerifyConsistency, Merkle!VerifyConsistency, Log!Ascended, Merkle!Ascended,
         Log!Levels, Merkle!Levels, Log!Halved, Merkle!Halved,
         Log!Recomputed, Merkle!Recomputed, Log!hashNode, Merkle!hashNode
<1>9. \A leaves : Log!BatchRoot(leaves) = Merkle!BatchRoot(leaves)
  BY DEF Log!BatchRoot, Merkle!BatchRoot, Log!Last, Merkle!Last,
         Log!BatchLevels, Merkle!BatchLevels,
         Log!LevelAbove, Merkle!LevelAbove, Log!hashNode, Merkle!hashNode
<1>10. \A leaves, i : Log!BatchPath(leaves, i) = Merkle!BatchPath(leaves, i)
  BY DEF Log!BatchPath, Merkle!BatchPath, Log!BatchLevels, Merkle!BatchLevels,
         Log!LevelAbove, Merkle!LevelAbove, Log!hashNode, Merkle!hashNode
<1>11. Log!BatchSides = Merkle!BatchSides
  BY DEF Log!BatchSides, Merkle!BatchSides
<1>12. \A leaf, i, n, path, root :
          Log!VerifyBatchInclusion(leaf, i, n, path, root)
             <=> Merkle!VerifyBatchInclusion(leaf, i, n, path, root)
  BY <1>5, <1>11 DEF Log!VerifyBatchInclusion, Merkle!VerifyBatchInclusion
<1> QED
  BY <1>2, <1>3, <1>6, <1>7, <1>8, <1>9, <1>10, <1>12

EntriesAreAcked ==
    \A k \in 1..Len(leafHashes) :
        LET entry == leafHashes[k]
        IN  entry[2] \in 1..Len(acks[entry[1]]) /\ acks[entry[1]][entry[2]] = k - 1

LEMMA AppendKeepsEntries ==
    ASSUME LogInv, EntriesAreAcked, NEW s \in Submitters, Log!AppendLeaf(s)
    PROVE  EntriesAreAcked'
<1> DEFINE n == Len(leafHashes)
           m == Len(acks[s])
<1>1. n \in Nat /\ m \in Nat /\ acks[s] \in Seq(Nat) /\ leafHashes \in Seq(LogEntry)
  BY DEF LogInv
<1>2. Log!Leaf(s, m + 1) \in LogEntry /\ Log!Leaf(s, m + 1) = <<s, m + 1>>
  BY <1>1 DEF Log!Leaf, LogEntry
<1>3. /\ leafHashes' = Append(leafHashes, <<s, m + 1>>)
      /\ acks' = [acks EXCEPT ![s] = Append(acks[s], n)]
  BY <1>2 DEF Log!AppendLeaf
<1> HIDE DEF n, m
<1>4. /\ Len(leafHashes') = n + 1 /\ leafHashes'[n + 1] = <<s, m + 1>>
      /\ \A k \in 1..n : leafHashes'[k] = leafHashes[k]
  BY <1>1, <1>2, <1>3, AppendedEntries DEF n
<1>5. acks'[s] = Append(acks[s], n) /\ \A t \in Submitters \ {s} : acks'[t] = acks[t]
  BY <1>3 DEF LogInv
<1>6. /\ Len(acks'[s]) = m + 1 /\ acks'[s][m + 1] = n
      /\ \A j \in 1..m : acks'[s][j] = acks[s][j]
  BY <1>1, <1>5, AppendedEntries DEF m
<1>7. ASSUME NEW k \in 1..Len(leafHashes')
      PROVE  /\ leafHashes'[k][2] \in 1..Len(acks'[leafHashes'[k][1]])
             /\ acks'[leafHashes'[k][1]][leafHashes'[k][2]] = k - 1
  <2>1. CASE k = n + 1
    BY <1>1, <1>4, <1>6, <2>1
  <2>2. CASE k # n + 1
    <3>1. k \in 1..n
      BY <1>1, <1>4, <2>2
    <3> DEFINE t == leafHashes[k][1]
               j == leafHashes[k][2]
    <3>2. t \in Submitters /\ j \in Nat
      BY <1>1, <3>1 DEF LogEntry, n
    <3>3. j \in 1..Len(acks[t]) /\ acks[t][j] = k - 1
      BY <3>1 DEF EntriesAreAcked, n
    <3>4. leafHashes'[k] = leafHashes[k]
      BY <1>4, <3>1
    <3> HIDE DEF t, j
    <3>5. j \in 1..Len(acks'[t]) /\ acks'[t][j] = k - 1
      <4>1. CASE t = s
        BY <1>1, <1>6, <3>3, <4>1 DEF m
      <4>2. CASE t # s
        BY <1>5, <3>2, <3>3, <4>2
      <4> QED
        BY <4>1, <4>2
    <3> QED
      BY <3>4, <3>5 DEF t, j
  <2> QED
    BY <2>1, <2>2
<1> QED
  BY <1>7 DEF EntriesAreAcked

LEMMA EntriesStep ==
    LogInv /\ EntriesAreAcked /\ [ServicesNext]_servicesVars => EntriesAreAcked'
<1> SUFFICES ASSUME LogInv, EntriesAreAcked, [ServicesNext]_servicesVars
             PROVE  EntriesAreAcked'
  OBVIOUS
<1>1. CASE \E s \in Submitters : Log!AppendLeaf(s)
  BY <1>1, AppendKeepsEntries
<1>2. CASE UNCHANGED <<leafHashes, acks>>
  BY <1>2 DEF EntriesAreAcked
<1> QED
  BY <1>1, <1>2 DEF ServicesNext, servicesVars, logVars, Log!Next, Log!BeginPublish,
                    Log!Signed, Log!SignerFails

LEMMA EntriesDiffer ==
    ASSUME EntriesAreAcked, NEW k \in 1..Len(leafHashes), NEW l \in 1..Len(leafHashes),
           leafHashes[k] = leafHashes[l]
    PROVE  k = l
<1>1. k - 1 = l - 1
  BY DEF EntriesAreAcked
<1> QED
  BY <1>1

LEMMA HeadsAreRoots ==
    ASSUME LogInv, NEW h \in Log!Heads
    PROVE  /\ leafHashes \in Seq(LogEntry) /\ Len(leafHashes) \in Nat
           /\ h.size \in Nat /\ h.size <= Len(leafHashes)
           /\ h.root = Log!Root(leafHashes, h.size)
<1>1. PICK k \in DOMAIN sthHistory : h = sthHistory[k]
  BY DEF Log!Heads
<1>2. k \in 1..Len(sthHistory) /\ h \in LogHead
  BY <1>1 DEF LogInv
<1>3. TrueHead(h)
  BY <1>1, <1>2 DEF LogInv
<1>4. leafHashes \in Seq(LogEntry) /\ Len(leafHashes) \in Nat
  BY DEF LogInv
<1> QED
  BY <1>2, <1>3, <1>4 DEF LogHead, TrueHead

(* The proof the log makes for an entry of a published head is accepted for*)
(* that entry at its position, for no other entry of the log and at no     *)
(* other position (log.ts:298-303).                                        *)
LEMMA InclusionHolds == LogInv /\ EntriesAreAcked => Log!InclusionIsExact
<1> SUFFICES ASSUME LogInv, EntriesAreAcked,
                    NEW h \in Log!Heads, NEW i \in 0..(h.size - 1)
             PROVE  LET path == Log!InclusionPath(leafHashes, i, h.size)
                    IN  /\ \A leaf \in Log!Leaves :
                              Log!VerifyInclusion(leaf, i, h.size, path, h.root)
                                 <=> leaf = leafHashes[i + 1]
                        /\ \A j \in (-1)..h.size :
                              Log!VerifyInclusion(leafHashes[i + 1], j, h.size, path, h.root)
                                 <=> j = i
  BY DEF Log!InclusionIsExact
<1> DEFINE path == Log!InclusionPath(leafHashes, i, h.size)
<1>1. h.size \in Nat /\ h.size <= Len(leafHashes) /\ h.root = Log!Root(leafHashes, h.size)
  BY HeadsAreRoots
<1>2. /\ leafHashes \in Seq(LogEntry) /\ Len(leafHashes) \in Nat
      /\ h.size \in 1..Len(leafHashes) /\ i \in Nat
  BY <1>1 DEF LogInv
<1>3. Log!VerifyInclusion(leafHashes[i + 1], i, h.size, path, h.root)
  <2> DEFINE n == h.size
  <2>1. n \in 1..Len(leafHashes) /\ i \in 0..(n - 1)
    BY <1>2
  <2>2. h.root = Merkle!Root(leafHashes, n) /\ path = Merkle!InclusionPath(leafHashes, i, n)
    BY <1>1, SameAlgorithms
  <2> HIDE DEF n, path
  <2>3. Merkle!VerifyInclusion(leafHashes[i + 1], i, n, Merkle!InclusionPath(leafHashes, i, n),
                               Merkle!Root(leafHashes, n))
    BY <1>2, <2>1, Merkle!InclusionIsComplete
  <2>4. Log!VerifyInclusion(leafHashes[i + 1], i, n, path, h.root)
    BY <2>2, <2>3, SameAlgorithms
  <2> QED
    BY <2>4 DEF n
<1>4. ASSUME NEW leaf, NEW j \in Int, Log!VerifyInclusion(leaf, j, h.size, path, h.root)
      PROVE  j \in 0..(h.size - 1) /\ leaf = leafHashes[j + 1]
  <2>1. Merkle!VerifyInclusion(leaf, j, h.size, path, Merkle!Root(leafHashes, h.size))
    BY <1>1, <1>4, SameAlgorithms
  <2> HIDE DEF path
  <2> QED
    BY <1>2, <2>1, Merkle!InclusionIsSound
<1>5. ASSUME NEW j \in 0..(h.size - 1), leafHashes[i + 1] = leafHashes[j + 1]
      PROVE  j = i
  <2>1. i + 1 \in 1..Len(leafHashes) /\ j + 1 \in 1..Len(leafHashes)
    BY <1>1, <1>2
  <2>2. i + 1 = j + 1
    BY <1>5, <2>1, EntriesDiffer
  <2> QED
    BY <1>2, <2>2
<1> HIDE DEF path
<1>6. \A leaf : Log!VerifyInclusion(leaf, i, h.size, path, h.root)
                   <=> leaf = leafHashes[i + 1]
  BY <1>2, <1>3, <1>4
<1>7. \A j \in (-1)..h.size :
         Log!VerifyInclusion(leafHashes[i + 1], j, h.size, path, h.root) <=> j = i
  BY <1>1, <1>3, <1>4, <1>5
<1> QED
  BY <1>6, <1>7 DEF path

(* A rewritten log is one of entries, and differs from the log in what was *)
(* rewritten.                                                              *)
LEMMA RewrittenDiffers ==
    ASSUME LogInv, EntriesAreAcked, NEW n \in 0..Len(leafHashes), NEW D \in Log!Rewritten(n)
    PROVE  /\ D \in Seq(LogEntry \cup {Forged}) /\ Len(D) = Len(leafHashes)
           /\ \E i \in 1..n : D[i] # leafHashes[i]
<1> DEFINE m == Len(leafHashes)
           E == LogEntry \cup {Forged}
<1>1. leafHashes \in Seq(LogEntry) /\ m \in Nat /\ n \in Nat /\ n <= m
  BY DEF LogInv
<1>2. leafHashes \in [1..m -> LogEntry]
  BY <1>1
<1>3. \A f \in [1..m -> E] : f \in Seq(E) /\ Len(f) = m
  BY <1>1
<1>4. Forged \notin LogEntry
  BY ServicesAssumption DEF Log!LogAssumption, LogEntry
<1>5. \A k, l \in 1..m : leafHashes[k] = leafHashes[l] => k = l
  BY EntriesDiffer
<1> HIDE DEF m
<1>6. CASE \E i \in 1..n : D = [leafHashes EXCEPT ![i] = Forged]
  <2>1. PICK i \in 1..n : D = [leafHashes EXCEPT ![i] = Forged]
    BY <1>6
  <2>2. i \in 1..m
    BY <1>1
  <2>3. D \in [1..m -> E] /\ D[i] = Forged
    BY <1>2, <2>1, <2>2
  <2>4. leafHashes[i] \in LogEntry
    BY <1>2, <2>2
  <2> QED
    BY <1>3, <1>4, <2>3, <2>4 DEF m
<1>7. CASE \E i \in 1..(n - 1) :
              D = [leafHashes EXCEPT ![i] = leafHashes[i + 1], ![i + 1] = leafHashes[i]]
  <2>1. PICK i \in 1..(n - 1) :
              D = [leafHashes EXCEPT ![i] = leafHashes[i + 1], ![i + 1] = leafHashes[i]]
    BY <1>7
  <2>2. i \in 1..m /\ i + 1 \in 1..m /\ i \in 1..n /\ i # i + 1
    BY <1>1
  <2>3. leafHashes[i] \in E /\ leafHashes[i + 1] \in E
    BY <1>2, <2>2
  <2>4. D \in [1..m -> E]
    BY <1>2, <2>1, <2>3
  <2>5. D[i] = leafHashes[i + 1]
    BY <1>2, <2>1, <2>2
  <2>6. D[i] # leafHashes[i]
    BY <1>5, <2>2, <2>5
  <2> QED
    BY <1>3, <2>2, <2>4, <2>6 DEF m
<1> QED
  BY <1>6, <1>7 DEF Log!Rewritten

(* The log's own proof is accepted between any two published heads, and    *)
(* none connects a head to a log whose first part was rewritten            *)
(* (log.ts:242-246).                                                       *)
LEMMA ConsistencyHolds == LogInv /\ EntriesAreAcked => Log!ConsistencyIsExact
<1> SUFFICES ASSUME LogInv, EntriesAreAcked,
                    NEW a \in Log!Heads, NEW b \in Log!Heads, a.size <= b.size
             PROVE  /\ Log!VerifyConsistency(a.size, a.root, b.size, b.root,
                           Log!ConsistencyProof(leafHashes, a.size, b.size))
                    /\ \A D \in Log!Rewritten(a.size) :
                          ~Log!VerifyConsistency(a.size, a.root, b.size, Log!Root(D, b.size),
                                 Log!ConsistencyProof(D, a.size, b.size))
  BY DEF Log!ConsistencyIsExact
<1> DEFINE m == a.size
           n == b.size
           E == LogEntry \cup {Forged}
<1>1. /\ leafHashes \in Seq(LogEntry) /\ Len(leafHashes) \in Nat
      /\ m \in Nat /\ n \in Nat /\ m <= n /\ n <= Len(leafHashes)
      /\ a.root = Log!Root(leafHashes, m) /\ b.root = Log!Root(leafHashes, n)
  BY HeadsAreRoots
<1> HIDE DEF m, n
<1>2. a.root = Merkle!Root(leafHashes, m) /\ b.root = Merkle!Root(leafHashes, n)
  BY <1>1, SameAlgorithms
<1>3. Log!VerifyConsistency(m, a.root, n, b.root, Log!ConsistencyProof(leafHashes, m, n))
  <2>1. n \in 0..Len(leafHashes) /\ m \in 0..n
    BY <1>1
  <2>2. Merkle!VerifyConsistency(m, Merkle!Root(leafHashes, m), n, Merkle!Root(leafHashes, n),
                                 Merkle!ConsistencyProof(leafHashes, m, n))
    BY <1>1, <2>1, Merkle!ConsistencyIsComplete
  <2> QED
    BY <1>2, <2>2, SameAlgorithms
<1>4. ASSUME NEW D \in Log!Rewritten(m), NEW proof,
             Log!VerifyConsistency(m, a.root, n, Log!Root(D, n), proof)
      PROVE  FALSE
  <2>1. m \in 0..Len(leafHashes)
    BY <1>1
  <2>2. D \in Seq(E) /\ Len(D) = Len(leafHashes)
    BY <2>1, RewrittenDiffers
  <2>3. PICK i \in 1..m : D[i] # leafHashes[i]
    BY <2>1, RewrittenDiffers
  <2>4. n \in 1..Len(D) /\ m \in 1..n
    BY <1>1, <2>2, <2>3
  <2>5. Merkle!VerifyConsistency(m, a.root, n, Merkle!Root(D, n), proof)
    BY <1>4, SameAlgorithms
  <2>6. a.root = Merkle!Root(D, m)
    BY <2>2, <2>4, <2>5, Merkle!ConsistencyIsSound
  <2>7. leafHashes \in Seq(E)
    BY <1>1
  <2>8. Merkle!Root(leafHashes, m) = Merkle!Root(D, m)
    BY <1>2, <2>6
  <2>9. leafHashes[i] = D[i]
    <3>1. m \in Nat /\ m <= Len(leafHashes) /\ m <= Len(D)
      BY <1>1, <2>2
    <3> HIDE DEF E
    <3> QED
      BY <2>2, <2>7, <2>8, <3>1, Merkle!RootIsInjective
  <2> QED
    BY <2>3, <2>9
<1> QED
  BY <1>3, <1>4 DEF m, n

(* The batch commitment over the entries of a published head is the log's  *)
(* tree (merkle.ts:10-16).                                                 *)
LEMMA BatchHolds == LogInv => Log!BatchMatchesLog
<1> SUFFICES ASSUME LogInv, NEW h \in Log!Heads, h.size > 0
             PROVE  LET leaves == SubSeq(leafHashes, 1, h.size)
                    IN  /\ Log!BatchRoot(leaves) = h.root
                        /\ \A i \in 0..(h.size - 1) :
                              /\ Log!BatchPath(leaves, i) = Log!InclusionPath(leafHashes, i, h.size)
                              /\ Log!VerifyBatchInclusion(leaves[i + 1], i, h.size,
                                       Log!BatchPath(leaves, i), h.root)
  BY DEF Log!BatchMatchesLog
<1> DEFINE n == h.size
           leaves == SubSeq(leafHashes, 1, n)
<1>1. /\ leafHashes \in Seq(LogEntry) /\ n \in 1..Len(leafHashes)
      /\ h.root = Merkle!Root(leafHashes, n)
  BY HeadsAreRoots, SameAlgorithms
<1> HIDE DEF n
<1>2. /\ Merkle!BatchRoot(leaves) = Merkle!Root(leafHashes, n)
      /\ \A i \in 0..(n - 1) :
            /\ Merkle!BatchPath(leaves, i) = Merkle!InclusionPath(leafHashes, i, n)
            /\ Merkle!VerifyBatchInclusion(leaves[i + 1], i, n, Merkle!BatchPath(leaves, i),
                                           Merkle!Root(leafHashes, n))
  BY <1>1, Merkle!BatchIsExact
<1> HIDE DEF leaves
<1>3. Log!BatchRoot(leaves) = h.root
  BY <1>1, <1>2, SameAlgorithms
<1>4. ASSUME NEW i \in 0..(n - 1)
      PROVE  /\ Log!BatchPath(leaves, i) = Log!InclusionPath(leafHashes, i, n)
             /\ Log!VerifyBatchInclusion(leaves[i + 1], i, n, Log!BatchPath(leaves, i), h.root)
  BY <1>1, <1>2, SameAlgorithms
<1> QED
  BY <1>3, <1>4 DEF n, leaves

(* With any number of submitters, publishers and entries, the proofs the   *)
(* log makes under its published heads are accepted for exactly what is    *)
(* true: an entry at its position, an earlier head of the same log, and the*)
(* batch commitment over the same entries.                                 *)
THEOREM ServicesProofsAreExact == ServicesSpec => []ProofsAreExact
<1>1. ServicesInit => LogInv /\ EntriesAreAcked
  BY DEF ServicesInit, Log!Init, LogInv, EntriesAreAcked
<1>2. LogInv /\ EntriesAreAcked => ProofsAreExact
  BY InclusionHolds, ConsistencyHolds, BatchHolds DEF ProofsAreExact
<1> QED
  BY <1>1, <1>2, LogStep, EntriesStep, PTL DEF ServicesSpec
-----------------------------------------------------------------------------
(* Adapters.  A call's records appear together when its event is emitted,  *)
(* so what is on the chain and what was handed on agree call by call and in*)
(* their order; until then the call has neither records nor, unless its    *)
(* hook answers first, an answer.                                          *)
Once(seq, c)  == \E i : Adapters!Of(seq, c) = {i}
Never(seq, c) == Adapters!Of(seq, c) = {}

Receipted(c) ==
    /\ IF hook[c] \in Adapters!Signing THEN Once(ledger, c) ELSE Never(ledger, c)
    /\ IF hook[c] = "portkey" THEN Never(handed, c) ELSE Once(handed, c)

Excused(c) ==
    \/ c \in unbuilt \cup unsigned
    \/ hook[c] = "proxy" /\ down
    \/ hook[c] \notin Adapters!ReceiptsErrors /\ said[c] \in {"error", "cut"}

Unharmed(c) ==
    \/ got[c] = "none"
    \/ got[c] = said[c]
    \/ said[c] = "cut" /\ got[c] = (IF hook[c] = "worker" THEN "error" ELSE "ok")
    \/ said[c] = "bare" /\ got[c] = "nothing"
    \/ got[c] = "thrown" /\ c \in unbuilt /\ hook[c] \in Adapters!BuildReachesCaller
    \/ got[c] = "reset" /\ \E d \in unbuilt : hook[d] = "proxy"

CallPhase(c) ==
    /\ at[c] \in {"idle", "called"} => said[c] = "none" /\ got[c] = "none"
    /\ at[c] \in {"build", "deliver", "hung"} =>
          said[c] # "none" /\ ~Adapters!EndsHere(hook[c], said[c])
    /\ at[c] \in {"idle", "called", "build"} => Never(ledger, c) /\ Never(handed, c)
    /\ at[c] \in {"deliver", "hung"} => Receipted(c)
    /\ at[c] = "done" => Excused(c) \/ Receipted(c)
    /\ c \in starts => said[c] # "ok"
    /\ ~(Never(ledger, c) /\ Never(handed, c)) => said[c] # "none"
    /\ \A i \in Adapters!Of(ledger, c) : ledger[i].tells = Adapters!Tells(c)

SameRecords ==
    /\ \A c \in Adapters!SignedHere : Adapters!Records(handed, c) = Adapters!Records(ledger, c)
    /\ \A c, d \in Adapters!SignedHere :
          Adapters!Precedes(handed, c, d) <=> Adapters!Precedes(ledger, c, d)

Record == [call : AiCalls, tells : {"ok", "error"}]

CaptureInv ==
    /\ at   \in [AiCalls -> {"idle", "called", "build", "deliver", "hung", "done"}]
    /\ said \in [AiCalls -> {"none", "ok", "error", "bare", "cut"}]
    /\ got  \in [AiCalls -> {"none", "ok", "error", "nothing", "thrown", "reset"}]
    /\ ledger \in Seq(Record)
    /\ handed \in Seq(Record)
    /\ \A c \in AiCalls : Unharmed(c) /\ CallPhase(c)
    /\ SameRecords

Answers == {"ok", "error", "bare", "cut"}

(* One record more: only its call's records grow, and it comes last.       *)
LEMMA OneRecordMore ==
    ASSUME NEW seq \in Seq(Record), NEW r \in Record
    PROVE  /\ Append(seq, r) \in Seq(Record)
           /\ Adapters!Of(Append(seq, r), r.call) = Adapters!Of(seq, r.call) \cup {Len(seq) + 1}
           /\ Append(seq, r)[Len(seq) + 1] = r
           /\ \A c \in AiCalls \ {r.call} : Adapters!Of(Append(seq, r), c) = Adapters!Of(seq, c)
           /\ \A c \in AiCalls : \A i \in Adapters!Of(seq, c) : Append(seq, r)[i] = seq[i]
           /\ Adapters!Records(Append(seq, r), r.call) = Adapters!Records(seq, r.call) \cup {r}
           /\ \A c \in AiCalls \ {r.call} :
                 Adapters!Records(Append(seq, r), c) = Adapters!Records(seq, c)
           /\ \A c, d \in AiCalls :
                 Adapters!Precedes(Append(seq, r), c, d) <=>
                    Adapters!Precedes(seq, c, d) \/ (d = r.call /\ ~Never(seq, c))
<1> DEFINE new == Append(seq, r)
<1> DEFINE n == Len(seq)
<1>1. /\ new \in Seq(Record) /\ n \in Nat /\ Len(new) = n + 1 /\ new[n + 1] = r
      /\ \A i \in 1..n : new[i] = seq[i]
      /\ DOMAIN seq = 1..n /\ DOMAIN new = 1..(n + 1)
  OBVIOUS
<1> HIDE DEF new, n
<1>2. \A c : Adapters!Of(seq, c) = {i \in 1..n : seq[i].call = c}
  BY <1>1 DEF Adapters!Of
<1>3. \A c : Adapters!Of(new, c) = {i \in 1..(n + 1) : new[i].call = c}
  BY <1>1 DEF Adapters!Of
<1>4. Adapters!Of(new, r.call) = Adapters!Of(seq, r.call) \cup {n + 1}
  BY <1>1, <1>2, <1>3
<1>5. ASSUME NEW c \in AiCalls \ {r.call} PROVE Adapters!Of(new, c) = Adapters!Of(seq, c)
  <2>1. new[n + 1].call # c
    BY <1>1
  <2>2. \A i \in 1..(n + 1) : i \in 1..n \/ i = n + 1
    BY <1>1
  <2>3. \A i \in 1..n : i \in 1..(n + 1) /\ new[i].call = seq[i].call
    BY <1>1
  <2>4. \A i : i \in Adapters!Of(new, c) <=> i \in Adapters!Of(seq, c)
    BY <2>1, <2>2, <2>3, <1>2, <1>3
  <2> QED
    BY <2>4, Zenon
<1>6. \A c : \A i \in Adapters!Of(seq, c) : i \in 1..n /\ new[i] = seq[i]
  BY <1>1, <1>2
<1>7. Adapters!Records(new, r.call) = Adapters!Records(seq, r.call) \cup {r}
  BY <1>1, <1>4, <1>6 DEF Adapters!Records
<1>8. \A c \in AiCalls \ {r.call} : Adapters!Records(new, c) = Adapters!Records(seq, c)
  BY <1>5, <1>6 DEF Adapters!Records
<1>9. ASSUME NEW c \in AiCalls, NEW d \in AiCalls
      PROVE  Adapters!Precedes(new, c, d) <=>
                Adapters!Precedes(seq, c, d) \/ (d = r.call /\ ~Never(seq, c))
  <2>1. \A i, j \in 1..(n + 1) : i < j => i \in 1..n /\ (j \in 1..n \/ j = n + 1)
    BY <1>1
  <2>2. ASSUME NEW i \in Adapters!Of(new, c), NEW j \in Adapters!Of(new, d), i < j
        PROVE  Adapters!Precedes(seq, c, d) \/ (d = r.call /\ ~Never(seq, c))
    <3>1. i \in 1..n /\ (j \in 1..n \/ j = n + 1)
      BY <2>1, <2>2, <1>3
    <3>2. i \in Adapters!Of(seq, c)
      BY <3>1, <1>1, <1>2, <1>3
    <3>3. CASE j = n + 1
      BY <3>2, <3>3, <1>1, <1>3 DEF Never
    <3>4. CASE j \in 1..n
      <4>1. j \in Adapters!Of(seq, d)
        BY <3>4, <1>1, <1>2, <1>3
      <4> QED
        BY <3>2, <4>1, <2>2 DEF Adapters!Precedes
    <3> QED
      BY <3>1, <3>3, <3>4
  <2>3. \A e \in AiCalls : Adapters!Of(seq, e) \subseteq Adapters!Of(new, e)
    BY <1>4, <1>5
  <2>4. Adapters!Precedes(seq, c, d) => Adapters!Precedes(new, c, d)
    BY <2>3 DEF Adapters!Precedes
  <2>5. ASSUME d = r.call, ~Never(seq, c) PROVE Adapters!Precedes(new, c, d)
    <3>1. PICK i : i \in Adapters!Of(seq, c)
      BY <2>5 DEF Never
    <3>2. i \in Adapters!Of(new, c) /\ n + 1 \in Adapters!Of(new, d)
      BY <3>1, <2>3, <2>5, <1>4
    <3>3. i < n + 1
      BY <3>1, <1>1, <1>6
    <3> QED
      BY <3>2, <3>3 DEF Adapters!Precedes
  <2> QED
    BY <2>2, <2>4, <2>5 DEF Adapters!Precedes
<1>10. \A c \in AiCalls : \A i \in Adapters!Of(seq, c) : new[i] = seq[i]
  BY <1>6
<1>11. /\ new \in Seq(Record)
       /\ Adapters!Of(new, r.call) = Adapters!Of(seq, r.call) \cup {n + 1}
       /\ new[n + 1] = r
       /\ \A c \in AiCalls \ {r.call} : Adapters!Of(new, c) = Adapters!Of(seq, c)
       /\ \A c \in AiCalls : \A i \in Adapters!Of(seq, c) : new[i] = seq[i]
       /\ Adapters!Records(new, r.call) = Adapters!Records(seq, r.call) \cup {r}
       /\ \A c \in AiCalls \ {r.call} : Adapters!Records(new, c) = Adapters!Records(seq, c)
       /\ \A c, d \in AiCalls :
             Adapters!Precedes(new, c, d) <=>
                Adapters!Precedes(seq, c, d) \/ (d = r.call /\ ~Never(seq, c))
  BY <1>1, <1>4, <1>5, <1>7, <1>8, <1>9, <1>10
<1> QED
  BY <1>11 DEF new, n

(* A call that does nothing keeps its part of the invariant.               *)
LEMMA OtherCallsKeep ==
    ASSUME NEW d \in AiCalls, Unharmed(d), CallPhase(d), hook' = hook,
           at'[d] = at[d], said'[d] = said[d], got'[d] = got[d],
           unbuilt \subseteq unbuilt', unsigned \subseteq unsigned', down => down',
           d \in starts' => d \in starts,
           Adapters!Of(ledger', d) = Adapters!Of(ledger, d),
           Adapters!Of(handed', d) = Adapters!Of(handed, d),
           \A i \in Adapters!Of(ledger, d) : ledger'[i] = ledger[i]
    PROVE  (Unharmed(d) /\ CallPhase(d))'
<1>1. Unharmed(d)'
  BY DEF Unharmed
<1>2. /\ Never(ledger', d) <=> Never(ledger, d)
      /\ Never(handed', d) <=> Never(handed, d)
      /\ Once(ledger', d) <=> Once(ledger, d)
      /\ Once(handed', d) <=> Once(handed, d)
  BY DEF Never, Once
<1>3. Receipted(d)' <=> Receipted(d)
  BY <1>2 DEF Receipted
<1>4. Excused(d) => Excused(d)'
  BY DEF Excused
<1>5. (\A i \in Adapters!Of(ledger, d) : ledger[i].tells = Adapters!Tells(d))'
  BY DEF CallPhase, Adapters!Tells
<1>6. CallPhase(d)'
  BY <1>2, <1>3, <1>4, <1>5 DEF CallPhase
<1> QED
  BY <1>1, <1>6

(* What the caller gets of an answer that is receipted here is unharmed.   *)
LEMMA AnsweredUnharmed ==
    ASSUME got \in [AiCalls -> {"none", "ok", "error", "nothing", "thrown", "reset"}],
           NEW c \in AiCalls, NEW s \in Answers, Unharmed(c),
           ~Adapters!EndsHere(hook[c], s), got[c] = "none" \/ said[c] = s,
           hook' = hook, said'[c] = s, got' = Adapters!Answered(c, s), unbuilt \subseteq unbuilt'
    PROVE  /\ got' \in [AiCalls -> {"none", "ok", "error", "nothing", "thrown", "reset"}]
           /\ \A d \in AiCalls \ {c} : got'[d] = got[d]
           /\ Unharmed(c)'
<1> DEFINE given == IF got[c] # "none" THEN got[c]
                    ELSE IF s = "cut" THEN "ok" ELSE IF s = "bare" THEN "nothing" ELSE s
<1>1. got' = [got EXCEPT ![c] = given]
  <2>1. CASE got[c] # "none"
    BY <2>1 DEF Adapters!Answered
  <2>2. CASE got[c] = "none" /\ s = "cut"
    BY <2>2 DEF Adapters!Answered
  <2>3. CASE got[c] = "none" /\ s = "bare"
    BY <2>3 DEF Adapters!Answered
  <2>4. CASE got[c] = "none" /\ s \notin {"cut", "bare"}
    BY <2>4 DEF Adapters!Answered
  <2> QED
    BY <2>1, <2>2, <2>3, <2>4
<1>2. given \in {"none", "ok", "error", "nothing", "thrown", "reset"}
  BY DEF Answers
<1>3. /\ got' \in [AiCalls -> {"none", "ok", "error", "nothing", "thrown", "reset"}]
      /\ \A d \in AiCalls \ {c} : got'[d] = got[d]
      /\ got'[c] = given
  BY <1>1, <1>2
<1>4. Unharmed(c)'
  <2>1. CASE got[c] = "none"
    BY <2>1, <1>3 DEF Unharmed, Adapters!EndsHere, Answers
  <2>2. CASE got[c] # "none"
    BY <2>2, <1>3 DEF Unharmed
  <2> QED
    BY <2>1, <2>2
<1> QED
  BY <1>3, <1>4

(* Steps that sign nothing and hand nothing on: it is enough to look at the*)
(* calls.                                                                  *)
LEMMA QuietStep ==
    ASSUME CaptureInv, UNCHANGED <<hook, ledger, handed>>,
           at'   \in [AiCalls -> {"idle", "called", "build", "deliver", "hung", "done"}],
           said' \in [AiCalls -> {"none", "ok", "error", "bare", "cut"}],
           got'  \in [AiCalls -> {"none", "ok", "error", "nothing", "thrown", "reset"}],
           \A c \in AiCalls : (Unharmed(c) /\ CallPhase(c))'
    PROVE  CaptureInv'
<1>1. Adapters!SignedHere' = Adapters!SignedHere
  BY DEF Adapters!SignedHere
<1>2. SameRecords'
  BY <1>1 DEF CaptureInv, SameRecords
<1>3. (\A c \in AiCalls : Unharmed(c) /\ CallPhase(c))'
  OBVIOUS
<1> QED
  BY <1>2, <1>3 DEF CaptureInv

LEMMA CallKeepsCaptures ==
    ASSUME CaptureInv, NEW c \in AiCalls, Adapters!Call(c)
    PROVE  CaptureInv'
<1>1. /\ at[c] = "idle" /\ at' = [at EXCEPT ![c] = "called"]
      /\ UNCHANGED <<hook, said, got, unbuilt, unsigned, ledger, handed, down>>
      /\ starts' \subseteq starts \cup {c}
  BY DEF Adapters!Call, Adapters!Goes
<1>2. ASSUME NEW d \in AiCalls PROVE (Unharmed(d) /\ CallPhase(d))'
  <2>1. Unharmed(d) /\ CallPhase(d)
    BY DEF CaptureInv
  <2>2. CASE d # c
    BY <1>1, <2>1, <2>2, OtherCallsKeep DEF CaptureInv
  <2>3. CASE d = c
    BY <1>1, <2>1, <2>3 DEF CaptureInv, Unharmed, CallPhase, Never
  <2> QED
    BY <2>2, <2>3
<1> QED
  BY <1>1, <1>2, QuietStep DEF CaptureInv

LEMMA AnswerKeepsCaptures ==
    ASSUME CaptureInv, NEW c \in AiCalls, NEW s \in Answers, Adapters!Answer(c, s)
    PROVE  CaptureInv'
<1>1. /\ at[c] = "called" /\ said' = [said EXCEPT ![c] = s]
      /\ UNCHANGED <<hook, unbuilt, unsigned, ledger, handed, down>>
      /\ starts' \subseteq starts /\ (s = "ok" => c \notin starts')
      /\ s = "cut" => hook[c] \in Adapters!ReadsBody
  BY DEF Adapters!Answer
<1>2. Unharmed(c) /\ CallPhase(c) /\ said[c] = "none" /\ got[c] = "none"
  BY <1>1 DEF CaptureInv, CallPhase
<1>3. Never(ledger, c) /\ Never(handed, c)
  BY <1>1, <1>2 DEF CallPhase
<1>4. said' \in [AiCalls -> {"none", "ok", "error", "bare", "cut"}]
      /\ said'[c] = s /\ \A d \in AiCalls \ {c} : said'[d] = said[d]
  BY <1>1 DEF CaptureInv, Answers
<1>5. CASE Adapters!EndsHere(hook[c], s)
  <2> DEFINE given == IF s = "cut" /\ hook[c] = "proxy" THEN "none" ELSE "error"
  <2>1. at' = [at EXCEPT ![c] = "done"] /\ got' = [got EXCEPT ![c] = given]
    BY <1>5 DEF Adapters!Answer, Adapters!Goes
  <2>2. /\ at' \in [AiCalls -> {"idle", "called", "build", "deliver", "hung", "done"}]
        /\ got' \in [AiCalls -> {"none", "ok", "error", "nothing", "thrown", "reset"}]
        /\ at'[c] = "done" /\ got'[c] = given
        /\ \A d \in AiCalls \ {c} : at'[d] = at[d] /\ got'[d] = got[d]
    BY <2>1 DEF CaptureInv
  <2>3. Unharmed(c)'
    BY <1>1, <1>4, <1>5, <2>2
       DEF Unharmed, Answers, Adapters!EndsHere, Adapters!ReadsBody
  <2>4. Excused(c)'
    BY <1>1, <1>4, <1>5 DEF Excused, Adapters!EndsHere, Adapters!ReadsBody, Adapters!ReceiptsErrors
  <2>5. CallPhase(c)'
    BY <1>1, <1>3, <1>4, <2>2, <2>4 DEF CallPhase, Never, Answers
  <2>6. ASSUME NEW d \in AiCalls \ {c} PROVE (Unharmed(d) /\ CallPhase(d))'
    BY <1>1, <1>4, <2>2, OtherCallsKeep DEF CaptureInv
  <2> QED
    BY <1>1, <1>4, <2>2, <2>3, <2>5, <2>6, QuietStep
<1>6. CASE ~Adapters!EndsHere(hook[c], s)
  <2>1. /\ at' = [at EXCEPT ![c] = "build"]
        /\ got' = got \/ got' = Adapters!Answered(c, s)
    BY <1>6 DEF Adapters!Answer, Adapters!Goes
  <2>2. /\ at' \in [AiCalls -> {"idle", "called", "build", "deliver", "hung", "done"}]
        /\ at'[c] = "build" /\ \A d \in AiCalls \ {c} : at'[d] = at[d]
    BY <2>1 DEF CaptureInv
  <2>3. /\ got' \in [AiCalls -> {"none", "ok", "error", "nothing", "thrown", "reset"}]
        /\ \A d \in AiCalls \ {c} : got'[d] = got[d]
        /\ Unharmed(c)'
    <3>1. CASE got' = got
      BY <1>2, <3>1 DEF CaptureInv, Unharmed
    <3>2. CASE got' = Adapters!Answered(c, s)
      BY <1>1, <1>2, <1>4, <1>6, <3>2, AnsweredUnharmed DEF CaptureInv
    <3> QED
      BY <2>1, <3>1, <3>2
  <2>4. CallPhase(c)'
    BY <1>1, <1>3, <1>4, <1>6, <2>2 DEF CallPhase, Never, Answers, Adapters!EndsHere
  <2>5. ASSUME NEW d \in AiCalls \ {c} PROVE (Unharmed(d) /\ CallPhase(d))'
    BY <1>1, <1>4, <2>2, <2>3, OtherCallsKeep DEF CaptureInv
  <2> QED
    BY <1>1, <1>4, <2>2, <2>3, <2>4, <2>5, QuietStep
<1> QED
  BY <1>5, <1>6

(* The proxy's process takes every call with it that goes through it.      *)
LEMMA BuildFailsKeepsCaptures ==
    ASSUME CaptureInv, NEW c \in AiCalls, Adapters!BuildFails(c)
    PROVE  CaptureInv'
<1>1. /\ at[c] = "build" /\ unbuilt' = unbuilt \cup {c}
      /\ UNCHANGED <<hook, said, unsigned, ledger, handed, starts>>
  BY DEF Adapters!BuildFails
<1>2. said[c] \in Answers /\ ~Adapters!EndsHere(hook[c], said[c])
  BY <1>1 DEF CaptureInv, CallPhase, Answers
<1>3. CASE hook[c] = "proxy"
  <2>1. /\ down' = TRUE
        /\ at'  = [d \in AiCalls |-> IF hook[d] = "proxy" /\ at[d] # "idle" THEN "done" ELSE at[d]]
        /\ got' = [d \in AiCalls |-> IF hook[d] = "proxy" /\ at[d] = "called"
                                     THEN "reset" ELSE got[d]]
    BY <1>3 DEF Adapters!BuildFails
  <2>2. /\ at' \in [AiCalls -> {"idle", "called", "build", "deliver", "hung", "done"}]
        /\ got' \in [AiCalls -> {"none", "ok", "error", "nothing", "thrown", "reset"}]
    BY <2>1 DEF CaptureInv
  <2>3. ASSUME NEW d \in AiCalls PROVE (Unharmed(d) /\ CallPhase(d))'
    <3>1. Unharmed(d) /\ CallPhase(d)
      BY DEF CaptureInv
    <3>2. CASE hook[d] = "proxy" /\ at[d] # "idle"
      <4>1. at'[d] = "done" /\ got'[d] = IF at[d] = "called" THEN "reset" ELSE got[d]
        BY <2>1, <3>2
      <4>2. Unharmed(d)'
        BY <1>1, <1>3, <3>1, <4>1 DEF Unharmed
      <4>3. Excused(d)'
        BY <1>1, <2>1, <3>2 DEF Excused
      <4>4. CallPhase(d)'
        BY <1>1, <3>1, <4>1, <4>3 DEF CallPhase, Never, Adapters!Tells
      <4> QED
        BY <4>2, <4>4
    <3>3. CASE ~(hook[d] = "proxy" /\ at[d] # "idle")
      <4>1. at'[d] = at[d] /\ got'[d] = got[d]
        BY <2>1, <3>3 DEF CaptureInv
      <4> QED
        BY <1>1, <2>1, <3>1, <4>1, OtherCallsKeep
    <3> QED
      BY <3>2, <3>3
  <2> QED
    BY <1>1, <2>2, <2>3, QuietStep DEF CaptureInv
<1>4. CASE hook[c] # "proxy"
  <2>1. /\ at' = [at EXCEPT ![c] = "done"] /\ down' = down
        /\ IF hook[c] \in Adapters!BuildReachesCaller
           THEN got' = [got EXCEPT ![c] = "thrown"] ELSE got' = Adapters!Answered(c, said[c])
    BY <1>4 DEF Adapters!BuildFails, Adapters!Goes
  <2>2. /\ at' \in [AiCalls -> {"idle", "called", "build", "deliver", "hung", "done"}]
        /\ at'[c] = "done" /\ \A d \in AiCalls \ {c} : at'[d] = at[d]
    BY <2>1 DEF CaptureInv
  <2>3. /\ got' \in [AiCalls -> {"none", "ok", "error", "nothing", "thrown", "reset"}]
        /\ \A d \in AiCalls \ {c} : got'[d] = got[d]
        /\ Unharmed(c)'
    <3>1. CASE hook[c] \in Adapters!BuildReachesCaller
      BY <1>1, <2>1, <3>1 DEF CaptureInv, Unharmed
    <3>2. CASE hook[c] \notin Adapters!BuildReachesCaller
      BY <1>1, <1>2, <2>1, <3>2, AnsweredUnharmed DEF CaptureInv
    <3> QED
      BY <3>1, <3>2
  <2>4. CallPhase(c)'
    <3>1. CallPhase(c)
      BY DEF CaptureInv
    <3>2. Excused(c)'
      BY <1>1 DEF Excused
    <3> QED
      BY <1>1, <2>2, <3>1, <3>2 DEF CallPhase, Never, Adapters!Tells
  <2>5. ASSUME NEW d \in AiCalls \ {c} PROVE (Unharmed(d) /\ CallPhase(d))'
    BY <1>1, <2>1, <2>2, <2>3, OtherCallsKeep DEF CaptureInv
  <2> QED
    BY <1>1, <2>2, <2>3, <2>4, <2>5, QuietStep DEF CaptureInv
<1> QED
  BY <1>3, <1>4

LEMMA SignFailsKeepsCaptures ==
    ASSUME CaptureInv, NEW c \in AiCalls, Adapters!SignFails(c)
    PROVE  CaptureInv'
<1>1. /\ at[c] = "build" /\ unsigned' = unsigned \cup {c}
      /\ at' = [at EXCEPT ![c] = "done"] /\ got' = Adapters!Answered(c, said[c])
      /\ UNCHANGED <<hook, said, unbuilt, ledger, handed, starts, down>>
  BY DEF Adapters!SignFails, Adapters!Goes
<1>2. said[c] \in Answers /\ ~Adapters!EndsHere(hook[c], said[c])
  BY <1>1 DEF CaptureInv, CallPhase, Answers
<1>3. /\ at' \in [AiCalls -> {"idle", "called", "build", "deliver", "hung", "done"}]
      /\ at'[c] = "done" /\ \A d \in AiCalls \ {c} : at'[d] = at[d]
  BY <1>1 DEF CaptureInv
<1>4. /\ got' \in [AiCalls -> {"none", "ok", "error", "nothing", "thrown", "reset"}]
      /\ \A d \in AiCalls \ {c} : got'[d] = got[d]
      /\ Unharmed(c)'
  BY <1>1, <1>2, AnsweredUnharmed DEF CaptureInv
<1>5. CallPhase(c)'
  <2>1. CallPhase(c)
    BY DEF CaptureInv
  <2>2. Excused(c)'
    BY <1>1 DEF Excused
  <2> QED
    BY <1>1, <1>3, <2>1, <2>2 DEF CallPhase, Never, Adapters!Tells
<1>6. ASSUME NEW d \in AiCalls \ {c} PROVE (Unharmed(d) /\ CallPhase(d))'
  BY <1>1, <1>3, <1>4, OtherCallsKeep DEF CaptureInv
<1> QED
  BY <1>1, <1>3, <1>4, <1>5, <1>6, QuietStep DEF CaptureInv

(* The end of a delivery, or of the wait for it.                           *)
LEMMA DeliveryKeepsCaptures ==
    ASSUME CaptureInv, NEW c \in AiCalls, Adapters!Delivered(c) \/ Adapters!DeliveryHangs(c)
    PROVE  CaptureInv'
<1>1. /\ at[c] = "deliver"
      /\ at' = [at EXCEPT ![c] = "done"] \/ at' = [at EXCEPT ![c] = "hung"]
      /\ got' = got \/ got' = Adapters!Answered(c, said[c])
      /\ UNCHANGED <<hook, said, unbuilt, unsigned, ledger, handed, starts, down>>
  BY DEF Adapters!Delivered, Adapters!DeliveryHangs, Adapters!Goes
<1>2. said[c] \in Answers /\ ~Adapters!EndsHere(hook[c], said[c])
  BY <1>1 DEF CaptureInv, CallPhase, Answers
<1>3. /\ at' \in [AiCalls -> {"idle", "called", "build", "deliver", "hung", "done"}]
      /\ at'[c] \in {"done", "hung"} /\ \A d \in AiCalls \ {c} : at'[d] = at[d]
  BY <1>1 DEF CaptureInv
<1>4. /\ got' \in [AiCalls -> {"none", "ok", "error", "nothing", "thrown", "reset"}]
      /\ \A d \in AiCalls \ {c} : got'[d] = got[d]
      /\ Unharmed(c)'
  <2>1. CASE got' = got
    BY <1>1, <2>1 DEF CaptureInv, Unharmed
  <2>2. CASE got' = Adapters!Answered(c, said[c])
    BY <1>1, <1>2, <2>2, AnsweredUnharmed DEF CaptureInv
  <2> QED
    BY <1>1, <2>1, <2>2
<1>5. CallPhase(c)'
  <2>1. CallPhase(c) /\ Receipted(c)
    BY <1>1 DEF CaptureInv, CallPhase
  <2>2. Receipted(c)'
    BY <1>1, <2>1 DEF Receipted, Once, Never
  <2> QED
    BY <1>1, <1>3, <2>1, <2>2 DEF CallPhase, Never, Adapters!Tells
<1>6. ASSUME NEW d \in AiCalls \ {c} PROVE (Unharmed(d) /\ CallPhase(d))'
  BY <1>1, <1>3, <1>4, OtherCallsKeep DEF CaptureInv
<1> QED
  BY <1>1, <1>3, <1>4, <1>5, <1>6, QuietStep DEF CaptureInv

(* Emitting puts the call's only record on the chain and hands it on.      *)
LEMMA EmitKeepsCaptures ==
    ASSUME CaptureInv, NEW c \in AiCalls, Adapters!Emit(c)
    PROVE  CaptureInv'
<1> DEFINE r == [call |-> c, tells |-> Adapters!Tells(c)]
<1> DEFINE signs == hook[c] \in Adapters!Signing
<1> DEFINE hands == hook[c] # "portkey"
<1>1. /\ at[c] = "build"
      /\ UNCHANGED <<hook, said, unbuilt, unsigned, starts, down>>
      /\ ledger' = IF signs THEN Append(ledger, r) ELSE ledger
      /\ handed' = IF hands THEN Append(handed, r) ELSE handed
      /\ at' = [at EXCEPT ![c] = IF hands THEN "deliver" ELSE "done"]
      /\ got' = got \/ got' = Adapters!Answered(c, said[c])
  BY DEF Adapters!Emit, Adapters!Note, Adapters!Goes
<1>2. said[c] \in Answers /\ ~Adapters!EndsHere(hook[c], said[c])
  BY <1>1 DEF CaptureInv, CallPhase, Answers
<1>3. /\ at' \in [AiCalls -> {"idle", "called", "build", "deliver", "hung", "done"}]
      /\ at'[c] = (IF hands THEN "deliver" ELSE "done")
      /\ \A d \in AiCalls \ {c} : at'[d] = at[d]
  BY <1>1 DEF CaptureInv
<1>4. /\ got' \in [AiCalls -> {"none", "ok", "error", "nothing", "thrown", "reset"}]
      /\ \A d \in AiCalls \ {c} : got'[d] = got[d]
      /\ Unharmed(c)'
  <2>1. CASE got' = got
    BY <1>1, <2>1 DEF CaptureInv, Unharmed
  <2>2. CASE got' = Adapters!Answered(c, said[c])
    BY <1>1, <1>2, <2>2, AnsweredUnharmed DEF CaptureInv
  <2> QED
    BY <1>1, <2>1, <2>2
<1>5. r \in Record /\ r.call = c /\ r.tells = Adapters!Tells(c) /\ Adapters!Tells(c)' = Adapters!Tells(c)
  BY <1>1 DEF Record, Adapters!Tells
<1>6. Never(ledger, c) /\ Never(handed, c)
  BY <1>1 DEF CaptureInv, CallPhase
<1>7. ledger \in Seq(Record) /\ handed \in Seq(Record)
  BY DEF CaptureInv
<1> HIDE DEF r
<1>8. ASSUME NEW seq \in Seq(Record)
       PROVE  /\ Append(seq, r) \in Seq(Record)
              /\ Never(seq, c) => Adapters!Of(Append(seq, r), c) = {Len(seq) + 1}
              /\ Append(seq, r)[Len(seq) + 1] = r
              /\ \A d \in AiCalls \ {c} :
                    /\ Adapters!Of(Append(seq, r), d) = Adapters!Of(seq, d)
                    /\ \A i \in Adapters!Of(seq, d) : Append(seq, r)[i] = seq[i]
              /\ Adapters!Records(Append(seq, r), c) = Adapters!Records(seq, c) \cup {r}
              /\ \A d \in AiCalls \ {c} :
                    Adapters!Records(Append(seq, r), d) = Adapters!Records(seq, d)
              /\ \A d, e \in AiCalls :
                    Adapters!Precedes(Append(seq, r), d, e) <=>
                       Adapters!Precedes(seq, d, e) \/ (e = c /\ ~Never(seq, d))
  <2>1. c \in AiCalls /\ r \in Record /\ r.call = c
    BY <1>5
  <2>2. /\ Append(seq, r) \in Seq(Record)
        /\ Adapters!Of(Append(seq, r), c) = Adapters!Of(seq, c) \cup {Len(seq) + 1}
        /\ Append(seq, r)[Len(seq) + 1] = r
        /\ Adapters!Records(Append(seq, r), c) = Adapters!Records(seq, c) \cup {r}
    BY <2>1, OneRecordMore
  <2>3. \A d \in AiCalls \ {c} :
           /\ Adapters!Of(Append(seq, r), d) = Adapters!Of(seq, d)
           /\ \A i \in Adapters!Of(seq, d) : Append(seq, r)[i] = seq[i]
           /\ Adapters!Records(Append(seq, r), d) = Adapters!Records(seq, d)
    <3>1. /\ \A d \in AiCalls \ {c} : Adapters!Of(Append(seq, r), d) = Adapters!Of(seq, d)
          /\ \A d \in AiCalls \ {c} : Adapters!Records(Append(seq, r), d) = Adapters!Records(seq, d)
      BY <2>1, OneRecordMore
    <3>2. \A d \in AiCalls : \A i \in Adapters!Of(seq, d) : Append(seq, r)[i] = seq[i]
      BY <2>1, OneRecordMore
    <3> QED
      BY <3>1, <3>2
  <2>4. \A d, e \in AiCalls :
           Adapters!Precedes(Append(seq, r), d, e) <=>
              Adapters!Precedes(seq, d, e) \/ (e = c /\ ~Never(seq, d))
    BY <2>1, OneRecordMore
  <2> QED
    BY <2>2, <2>3, <2>4 DEF Never
<1>9. /\ ledger' \in Seq(Record)
      /\ (signs => /\ Adapters!Of(ledger', c) = {Len(ledger) + 1}
                   /\ ledger'[Len(ledger) + 1] = r)
      /\ (~signs => Never(ledger', c))
      /\ \A d \in AiCalls \ {c} : /\ Adapters!Of(ledger', d) = Adapters!Of(ledger, d)
                                  /\ \A i \in Adapters!Of(ledger, d) : ledger'[i] = ledger[i]
  <2>1. CASE signs
    <3>1. ledger' = Append(ledger, r)
      BY <1>1, <2>1
    <3> QED
      BY <3>1, <2>1, <1>6, <1>7, <1>8
  <2>2. CASE ~signs
    BY <1>1, <1>6, <1>7, <2>2 DEF Never
  <2> QED
    BY <2>1, <2>2
<1>10. /\ handed' \in Seq(Record)
      /\ (hands => Adapters!Of(handed', c) = {Len(handed) + 1})
      /\ (~hands => Never(handed', c))
      /\ \A d \in AiCalls \ {c} : Adapters!Of(handed', d) = Adapters!Of(handed, d)
  <2>1. CASE hands
    <3>1. handed' = Append(handed, r)
      BY <1>1, <2>1
    <3> QED
      BY <3>1, <2>1, <1>6, <1>7, <1>8
  <2>2. CASE ~hands
    BY <1>1, <1>6, <1>7, <2>2 DEF Never
  <2> QED
    BY <2>1, <2>2
<1>11. Receipted(c)'
  <2>1. IF signs THEN Once(ledger', c) ELSE Never(ledger', c)
    BY <1>9 DEF Once
  <2>2. IF hands THEN Once(handed', c) ELSE Never(handed', c)
    BY <1>10 DEF Once
  <2> QED
    BY <2>1, <2>2, <1>1 DEF Receipted, Once, Never
<1>12. CallPhase(c)'
  <2>1. said'[c] # "none" /\ said'[c] = said[c] /\ hook'[c] = hook[c]
    BY <1>1, <1>2 DEF Answers
  <2>2. (\A i \in Adapters!Of(ledger, c) : ledger[i].tells = Adapters!Tells(c))'
    <3>1. ASSUME NEW i \in Adapters!Of(ledger', c) PROVE ledger'[i].tells = Adapters!Tells(c)'
      BY <1>5, <1>9 DEF Never
    <3> QED
      BY <3>1
  <2>3. c \in starts' => said'[c] # "ok"
    BY <1>1 DEF CaptureInv, CallPhase
  <2> QED
    BY <1>2, <1>3, <1>11, <2>1, <2>2, <2>3 DEF CallPhase
<1>13. ASSUME NEW d \in AiCalls \ {c} PROVE (Unharmed(d) /\ CallPhase(d))'
  BY <1>1, <1>3, <1>4, <1>9, <1>10, OtherCallsKeep DEF CaptureInv
<1>14. SameRecords'
  <2>1. Adapters!SignedHere' = Adapters!SignedHere
    BY <1>1 DEF Adapters!SignedHere
  <2>2. Adapters!SignedHere \subseteq AiCalls /\ (c \in Adapters!SignedHere <=> signs /\ hands)
    BY DEF Adapters!SignedHere
  <2>3. CASE signs /\ hands
    <3>1. ledger' = Append(ledger, r) /\ handed' = Append(handed, r)
      BY <1>1, <2>3
    <3>2. ASSUME NEW d \in Adapters!SignedHere
          PROVE  Adapters!Records(handed', d) = Adapters!Records(ledger', d)
      <4>1. Adapters!Records(handed, d) = Adapters!Records(ledger, d)
        BY DEF CaptureInv, SameRecords
      <4>2. CASE d = c
        BY <3>1, <4>1, <4>2, <1>7, <1>8
      <4>3. CASE d # c
        <5>1. d \in AiCalls \ {c}
          BY <2>2, <4>3
        <5> QED
          BY <3>1, <4>1, <5>1, <1>7, <1>8
      <4> QED
        BY <4>2, <4>3
    <3>3. \A d \in Adapters!SignedHere : Never(handed, d) <=> Never(ledger, d)
      <4>1. \A d : /\ Never(handed, d) <=> Adapters!Records(handed, d) = {}
                   /\ Never(ledger, d) <=> Adapters!Records(ledger, d) = {}
        BY DEF Never, Adapters!Records
      <4> QED
        BY <4>1 DEF CaptureInv, SameRecords
    <3>4. ASSUME NEW d \in Adapters!SignedHere, NEW e \in Adapters!SignedHere
          PROVE  Adapters!Precedes(handed', d, e) <=> Adapters!Precedes(ledger', d, e)
      <4>1. Adapters!Precedes(handed, d, e) <=> Adapters!Precedes(ledger, d, e)
        BY DEF CaptureInv, SameRecords
      <4> QED
        BY <2>2, <3>1, <3>3, <4>1, <1>7, <1>8
    <3> QED
      BY <2>1, <3>2, <3>4 DEF SameRecords
  <2>4. CASE ~(signs /\ hands)
    <3>1. ASSUME NEW seq \in Seq(Record), NEW new, new = Append(seq, r) \/ new = seq
          PROVE  /\ \A d \in Adapters!SignedHere : Adapters!Records(new, d) = Adapters!Records(seq, d)
                 /\ \A d, e \in Adapters!SignedHere :
                       Adapters!Precedes(new, d, e) <=> Adapters!Precedes(seq, d, e)
      <4>1. \A d \in Adapters!SignedHere : d \in AiCalls \ {c}
        BY <2>2, <2>4
      <4>2. CASE new = Append(seq, r)
        BY <4>1, <4>2, <1>8
      <4> QED
        BY <3>1, <4>2
    <3>2. /\ \A d \in Adapters!SignedHere : Adapters!Records(ledger', d) = Adapters!Records(ledger, d)
          /\ \A d, e \in Adapters!SignedHere :
                Adapters!Precedes(ledger', d, e) <=> Adapters!Precedes(ledger, d, e)
      BY <3>1, <1>1, <1>7
    <3>3. /\ \A d \in Adapters!SignedHere : Adapters!Records(handed', d) = Adapters!Records(handed, d)
          /\ \A d, e \in Adapters!SignedHere :
                Adapters!Precedes(handed', d, e) <=> Adapters!Precedes(handed, d, e)
      BY <3>1, <1>1, <1>7
    <3> QED
      BY <2>1, <3>2, <3>3 DEF CaptureInv, SameRecords
  <2> QED
    BY <2>3, <2>4
<1>15. (\A d \in AiCalls : Unharmed(d) /\ CallPhase(d))'
  BY <1>4, <1>12, <1>13
<1> QED
  BY <1>1, <1>3, <1>4, <1>9, <1>10, <1>14, <1>15 DEF CaptureInv

(* Whatever the provider, the event's builder, the signer and the receiver *)
(* of the receipts do, the caller gets the provider's answer or one of the *)
(* known exceptions, and a call that is over has its one receipt, true and *)
(* handed on in chain order, or the reason is known why it has none.       *)
THEOREM ServicesCaptureCalls == ServicesSpec => []CallsAreCaptured
<1>1. ServicesInit => CaptureInv
  <2> SUFFICES ASSUME ServicesInit PROVE CaptureInv
    OBVIOUS
  <2>1. Adapters!Init
    BY DEF ServicesInit
  <2>2. \A c : Never(ledger, c) /\ Never(handed, c)
    BY <2>1 DEF Adapters!Init, Never, Adapters!Of
  <2>3. SameRecords
    BY <2>2 DEF SameRecords, Never, Adapters!Records, Adapters!Precedes
  <2>4. \A c \in AiCalls : Unharmed(c) /\ CallPhase(c)
    BY <2>1, <2>2 DEF Adapters!Init, Unharmed, CallPhase, Never
  <2> QED
    BY <2>1, <2>3, <2>4 DEF CaptureInv, Adapters!Init
<1>2. CaptureInv /\ [ServicesNext]_servicesVars => CaptureInv'
  <2> SUFFICES ASSUME CaptureInv, [ServicesNext]_servicesVars PROVE CaptureInv'
    OBVIOUS
  <2>1. CASE Adapters!Next
    BY <2>1, CallKeepsCaptures, AnswerKeepsCaptures, BuildFailsKeepsCaptures,
       SignFailsKeepsCaptures, EmitKeepsCaptures, DeliveryKeepsCaptures
       DEF Adapters!Next, Adapters!Step, Answers
  <2>2. CASE UNCHANGED adapterVars
    <3>1. UNCHANGED <<hook, at, said, got, unbuilt, unsigned, ledger, handed, starts, down>>
      BY <2>2 DEF adapterVars
    <3>2. ASSUME NEW d \in AiCalls PROVE (Unharmed(d) /\ CallPhase(d))'
      BY <3>1, OtherCallsKeep DEF CaptureInv
    <3> QED
      BY <3>1, <3>2, QuietStep DEF CaptureInv
  <2> QED
    BY <2>1, <2>2 DEF ServicesNext, servicesVars
<1>3. CaptureInv => CallsAreCaptured
  <2> SUFFICES ASSUME CaptureInv PROVE CallsAreCaptured
    OBVIOUS
  <2>1. Adapters!CallIsUnharmed
    BY DEF CaptureInv, Unharmed, Adapters!CallIsUnharmed
  <2>2. \A S : Adapters!Cardinality(S) = Cardinality(S)
    BY Zenon DEF Adapters!Cardinality, Cardinality
  <2>3. ASSUME NEW c \in AiCalls
        PROVE  /\ at[c] \in {"done", "hung"} =>
                     \/ c \in unbuilt \cup unsigned
                     \/ hook[c] = "proxy" /\ down
                     \/ hook[c] \notin Adapters!ReceiptsErrors /\ said[c] \in {"error", "cut"}
                     \/ /\ Adapters!Cardinality(Adapters!Of(ledger, c))
                              = IF hook[c] \in Adapters!Signing THEN 1 ELSE 0
                        /\ hook[c] # "portkey" =>
                              Adapters!Cardinality(Adapters!Of(handed, c)) = 1
               /\ \A i \in Adapters!Of(ledger, c) \cup Adapters!Of(handed, c) : said[c] # "none"
               /\ \A i \in Adapters!Of(ledger, c) :
                     ledger[i].tells = "error" <=> said[c] = "error"
               /\ c \in starts => said[c] # "ok"
    <3>1. CallPhase(c)
      BY DEF CaptureInv
    <3>2. /\ \A seq : Once(seq, c) => Adapters!Cardinality(Adapters!Of(seq, c)) = 1
          /\ \A seq : Never(seq, c) => Adapters!Cardinality(Adapters!Of(seq, c)) = 0
      BY <2>2, FS_Singleton, FS_EmptySet DEF Once, Never
    <3>3. Receipted(c) =>
             /\ Adapters!Cardinality(Adapters!Of(ledger, c))
                   = IF hook[c] \in Adapters!Signing THEN 1 ELSE 0
             /\ hook[c] # "portkey" => Adapters!Cardinality(Adapters!Of(handed, c)) = 1
      BY <3>2 DEF Receipted
    <3>4. at[c] \in {"done", "hung"} => Excused(c) \/ Receipted(c)
      BY <3>1 DEF CallPhase
    <3>5. \A i \in Adapters!Of(ledger, c) \cup Adapters!Of(handed, c) : said[c] # "none"
      BY <3>1 DEF CallPhase, Never
    <3>6. \A i \in Adapters!Of(ledger, c) : ledger[i].tells = "error" <=> said[c] = "error"
      BY <3>1 DEF CallPhase, Adapters!Tells
    <3> QED
      BY <3>1, <3>3, <3>4, <3>5, <3>6 DEF CallPhase, Excused
  <2>4. Adapters!OutcomeIsReceipted
    BY <2>3 DEF Adapters!OutcomeIsReceipted, CaptureInv, SameRecords
  <2> QED
    BY <2>1, <2>4 DEF CallsAreCaptured
<1> QED
  BY <1>1, <1>2, <1>3, PTL DEF ServicesSpec

LEMMA VersionAppended ==
    ASSUME NEW v, NEW S, v \in Seq(S), NEW x
    PROVE  /\ Append(v, x) \in Seq(S \cup {x}) /\ Append(v, x) # <<>>
           /\ Len(v) \in Nat /\ Len(Append(v, x)) = Len(v) + 1 /\ Append(v, x)[Len(v) + 1] = x
           /\ \A i \in 1 .. Len(v) : Append(v, x)[i] = v[i]
           /\ v = <<>> <=> Len(v) = 0
<1>1. v \in Seq(S \cup {x})
  OBVIOUS
<1>2. Append(v, x) \in Seq(S \cup {x}) /\ Len(Append(v, x)) = Len(v) + 1 /\ Len(v) \in Nat
  BY <1>1
<1> QED
  BY <1>1, <1>2

EntryFields == {"content", "updated", "created", "prev"}

(* The versions v of an id and the ones edited in place of them, against   *)
(* its entry.                                                              *)
ChainedVersions(v, changed, entry) ==
    /\ \E S : v \in Seq(S)
    /\ changed \subseteq 1 .. Len(v)
    /\ v # <<>> => /\ DOMAIN entry = EntryFields
                   /\ v[1].prev = NoVersion
                   /\ Len(v) \notin changed => entry = v[Len(v)]
    /\ \A n \in 1 .. Len(v) : v[n].created # Unset
    /\ \A n \in 2 .. Len(v) :
          n - 1 \notin changed => v[n].prev = v[n - 1] /\ v[n].created = v[n - 1].created

ContentsOf(id) == IF id \in UseCases THEN UseCaseContents ELSE ModelContents

RegistryInv ==
    /\ Registry!Registered \subseteq Registry!Ids /\ clock \in Nat
    /\ entries  = [id \in Registry!Registered |-> entries[id]]
    /\ versions = [id \in Registry!Ids |-> versions[id]]
    /\ edited   = [id \in Registry!Ids |-> edited[id]]
    /\ \A id \in Registry!Ids :
          /\ versions[id] = <<>> <=> id \notin Registry!Registered
          /\ ChainedVersions(versions[id], edited[id], entries[id])
    /\ \A id \in Registry!Registered :
          /\ entries[id].content \in ContentsOf(id)
          /\ id \in UseCases /\ edited[id] = {} => entries[id].content.tier # "unacceptable"

LEMMA RegistryStarts == Registry!Init => RegistryInv
<1> SUFFICES ASSUME Registry!Init PROVE RegistryInv
  OBVIOUS
<1>1. Registry!Registered = {} /\ entries = [id \in {} |-> NoVersion]
  BY DEF Registry!Init, Registry!Registered
<1>2. \A id \in Registry!Ids : versions[id] = <<>> /\ edited[id] = {}
  BY DEF Registry!Init
<1>3. \A x : ChainedVersions(<<>>, {}, x)
  <2>1. <<>> \in Seq({}) /\ Len(<<>>) = 0
    OBVIOUS
  <2> QED
    BY <2>1 DEF ChainedVersions
<1>4. /\ versions = [id \in Registry!Ids |-> versions[id]]
      /\ edited = [id \in Registry!Ids |-> edited[id]]
  BY DEF Registry!Init
<1>5. \A id \in Registry!Ids : ChainedVersions(versions[id], edited[id], entries[id])
  BY <1>2, <1>3
<1> QED
  BY <1>1, <1>2, <1>4, <1>5 DEF RegistryInv, Registry!Init

(* The next version of what is there follows it.                           *)
LEMMA NextIsChained ==
    ASSUME NEW v, NEW changed, NEW entry, ChainedVersions(v, changed, entry),
           NEW full, DOMAIN full = EntryFields,
           full.created # Unset,
           v # <<>> => full.prev = entry /\ (entry.created # Unset => full.created = entry.created),
           v = <<>> => full.prev = NoVersion
    PROVE  ChainedVersions(Append(v, full), changed, full) /\ Append(v, full) # <<>>
<1>1. PICK S : v \in Seq(S)
  BY DEF ChainedVersions
<1> DEFINE w == Append(v, full)
           n == Len(v)
<1>2. /\ w \in Seq(S \cup {full}) /\ w # <<>> /\ n \in Nat /\ Len(w) = n + 1
      /\ w[n + 1] = full /\ \A i \in 1 .. n : w[i] = v[i]
      /\ v = <<>> <=> n = 0
  BY <1>1, VersionAppended
<1> HIDE DEF w
<1>4. changed \subseteq 1 .. n
  BY DEF ChainedVersions
<1> HIDE DEF n
<1>5. changed \subseteq 1 .. Len(w) /\ n + 1 \notin changed
  BY <1>2, <1>4
<1>6. CASE n = 0
  <2>1. Len(w) = 1 /\ w[1] = full /\ full.prev = NoVersion
    BY <1>2, <1>6
  <2>2. ChainedVersions(w, changed, full)
    BY <1>2, <1>5, <1>6, <2>1 DEF ChainedVersions
  <2> QED
    BY <1>2, <2>2 DEF w
<1>7. CASE n # 0
  <2>1. /\ full.prev = entry /\ (entry.created # Unset => full.created = entry.created)
        /\ v[1].prev = NoVersion
        /\ n \notin changed => entry = v[n]
        /\ \A i \in 1 .. n : v[i].created # Unset
        /\ \A i \in 2 .. n :
              i - 1 \notin changed => v[i].prev = v[i - 1] /\ v[i].created = v[i - 1].created
    BY <1>2, <1>7 DEF ChainedVersions, n
  <2>2. w[1] = v[1] /\ w[n] = v[n]
    BY <1>2, <1>7
  <2>3. ASSUME NEW i \in 2 .. Len(w), i - 1 \notin changed
        PROVE  w[i].prev = w[i - 1] /\ w[i].created = w[i - 1].created
    <3>1. CASE i = n + 1
      <4>1. w[i] = full /\ i - 1 = n
        BY <1>2, <3>1
      <4>2. entry = v[n] /\ v[n].created # Unset
        BY <1>2, <1>7, <2>1, <2>3, <4>1
      <4> QED
        BY <2>1, <2>2, <4>1, <4>2
    <3>2. CASE i \in 2 .. n
      <4>1. w[i] = v[i] /\ w[i - 1] = v[i - 1]
        BY <1>2, <3>2
      <4> QED
        BY <2>1, <2>3, <3>2, <4>1
    <3> QED
      BY <1>2, <2>3, <3>1, <3>2
  <2>4. w[1].prev = NoVersion /\ full = w[Len(w)]
    BY <1>2, <2>1, <2>2
  <2>6. \A i \in 1 .. Len(w) : w[i].created # Unset
    BY <1>2, <2>1
  <2>5. ChainedVersions(w, changed, full)
    BY <1>2, <1>5, <2>3, <2>4, <2>6 DEF ChainedVersions
  <2> QED
    BY <1>2, <2>5 DEF w
<1> QED
  BY <1>2, <1>6, <1>7

LEMMA RegistryConstants ==
    /\ UseCases \cap Models = {} /\ Unset \notin Int
    /\ UseCaseContents \subseteq [tier : STRING, lifecycle : STRING, models : SUBSET Models,
                                  sources : SUBSET STRING, classes : SUBSET STRING]
    /\ ModelContents \subseteq
          [status : {"development", "validation", "approved", "approved_with_conditions",
                     "retired", "revoked"}, uses : SUBSET UseCases]
BY ServicesAssumption DEF ServicesAssumption, Registry!RegistriesAssumption

LEMMA PutKeeps ==
    ASSUME RegistryInv, NEW id \in Registry!Ids, NEW content, Registry!Put(id, content),
           content \in ContentsOf(id), id \in UseCases => content.tier # "unacceptable"
    PROVE  RegistryInv'
<1>1. PICK given \in {Unset, 0} :
         LET full == Registry!NextVersion(id, content, given)
         IN  /\ entries'  = [x \in Registry!Registered \cup {id} |->
                                IF x = id THEN full ELSE entries[x]]
             /\ versions' = [versions EXCEPT ![id] = Append(@, full)]
  BY DEF Registry!Put
<1> DEFINE full == Registry!NextVersion(id, content, given)
<1>2. /\ full.content = content /\ DOMAIN full = EntryFields
      /\ full.created # Unset
      /\ versions[id] # <<>> =>
            full.prev = entries[id] /\ (entries[id].created # Unset => full.created = entries[id].created)
      /\ versions[id] = <<>> => full.prev = NoVersion
  BY RegistryConstants DEF Registry!NextVersion, EntryFields, RegistryInv
<1> HIDE DEF full
<1>3. /\ Registry!Registered' = Registry!Registered \cup {id}
      /\ entries'[id] = full /\ \A x \in Registry!Registered \ {id} : entries'[x] = entries[x]
      /\ entries' = [x \in Registry!Registered' |-> entries'[x]]
  BY <1>1 DEF full, Registry!Registered
<1>4. /\ versions' = [x \in Registry!Ids |-> versions'[x]]
      /\ versions'[id] = Append(versions[id], full)
      /\ \A x \in Registry!Ids \ {id} : versions'[x] = versions[x]
  BY <1>1 DEF full, RegistryInv
<1>5. edited' = edited /\ clock' \in Nat
  BY DEF Registry!Put, RegistryInv
<1>6. ChainedVersions(versions'[id], edited[id], full) /\ versions'[id] # <<>>
  <2>1. ChainedVersions(versions[id], edited[id], entries[id])
    BY DEF RegistryInv
  <2> QED
    BY <1>2, <1>4, <2>1, NextIsChained
<1>7. ASSUME NEW x \in Registry!Ids
      PROVE  /\ versions'[x] = <<>> <=> x \notin Registry!Registered'
             /\ ChainedVersions(versions'[x], edited'[x], entries'[x])
  <2>1. CASE x = id
    BY <1>3, <1>5, <1>6, <2>1
  <2>2. CASE x # id /\ x \in Registry!Registered
    <3>1. /\ versions[x] = <<>> <=> x \notin Registry!Registered
          /\ ChainedVersions(versions[x], edited[x], entries[x])
      BY DEF RegistryInv
    <3> QED
      BY <1>3, <1>4, <1>5, <2>2, <3>1
  <2>3. CASE x # id /\ x \notin Registry!Registered
    <3>1. /\ versions[x] = <<>> <=> x \notin Registry!Registered
          /\ ChainedVersions(versions[x], edited[x], entries[x])
      BY DEF RegistryInv
    <3> QED
      BY <1>3, <1>4, <1>5, <2>3, <3>1 DEF ChainedVersions
  <2> QED
    BY <2>1, <2>2, <2>3
<1>8. ASSUME NEW u \in Registry!Registered'
      PROVE  /\ entries'[u].content \in ContentsOf(u)
             /\ u \in UseCases /\ edited'[u] = {} => entries'[u].content.tier # "unacceptable"
  <2>1. CASE u = id
    BY <1>2, <1>3, <2>1
  <2>2. CASE u # id
    BY <1>3, <1>5, <1>8, <2>2 DEF RegistryInv
  <2> QED
    BY <2>1, <2>2
<1> QED
  BY <1>3, <1>4, <1>5, <1>7, <1>8 DEF RegistryInv, Registry!Ids

LEMMA EditKeeps ==
    ASSUME RegistryInv, NEW id \in Registry!Ids, Registry!EditInPlace(id)
    PROVE  RegistryInv'
<1>1. PICK content, created, prev :
      /\ content \in ContentsOf(id)
      /\ entries' = [entries EXCEPT ![id] = [entries[id] EXCEPT !.content = content,
                                                !.created = created, !.prev = prev]]
  BY DEF Registry!EditInPlace, ContentsOf
<1>2. /\ id \in Registry!Registered /\ versions' = versions
      /\ edited' = [edited EXCEPT ![id] = @ \cup {Len(versions[id])}] /\ clock' \in Nat
  BY DEF Registry!EditInPlace, RegistryInv
<1>3. ChainedVersions(versions[id], edited[id], entries[id]) /\ versions[id] # <<>>
  BY <1>2 DEF RegistryInv
<1>4. /\ edited' = [x \in Registry!Ids |-> edited'[x]]
      /\ edited'[id] = edited[id] \cup {Len(versions[id])}
      /\ \A x \in Registry!Ids \ {id} : edited'[x] = edited[x]
  BY <1>2 DEF RegistryInv
<1>5. /\ Registry!Registered' = Registry!Registered
      /\ entries' = [x \in Registry!Registered |-> entries'[x]]
      /\ entries'[id] = [entries[id] EXCEPT !.content = content, !.created = created, !.prev = prev]
      /\ \A x \in Registry!Registered \ {id} : entries'[x] = entries[x]
  BY <1>1, <1>2 DEF RegistryInv, Registry!Registered
<1>6. DOMAIN entries'[id] = EntryFields /\ entries'[id].content = content
  BY <1>3, <1>5 DEF ChainedVersions, EntryFields
<1>7. Len(versions[id]) \in 1 .. Len(versions[id])
  <2>1. PICK S : versions[id] \in Seq(S)
    BY <1>3 DEF ChainedVersions
  <2>2. Len(versions[id]) \in Nat /\ versions[id] # <<>>
    BY <1>3, <2>1 DEF ChainedVersions
  <2> QED
    BY <2>1, <2>2, VersionAppended
<1>8. ChainedVersions(versions[id], edited'[id], entries'[id])
  BY <1>3, <1>4, <1>6, <1>7 DEF ChainedVersions
<1>9. ASSUME NEW x \in Registry!Ids
      PROVE  /\ versions'[x] = <<>> <=> x \notin Registry!Registered'
             /\ ChainedVersions(versions'[x], edited'[x], entries'[x])
  <2>1. CASE x = id
    BY <1>2, <1>3, <1>5, <1>8, <2>1
  <2>2. CASE x # id /\ x \in Registry!Registered
    <3>1. /\ versions[x] = <<>> <=> x \notin Registry!Registered
          /\ ChainedVersions(versions[x], edited[x], entries[x])
      BY DEF RegistryInv
    <3> QED
      BY <1>2, <1>4, <1>5, <2>2, <3>1
  <2>3. CASE x # id /\ x \notin Registry!Registered
    <3>1. /\ versions[x] = <<>> <=> x \notin Registry!Registered
          /\ ChainedVersions(versions[x], edited[x], entries[x])
      BY DEF RegistryInv
    <3> QED
      BY <1>2, <1>4, <1>5, <2>3, <3>1 DEF ChainedVersions
  <2> QED
    BY <2>1, <2>2, <2>3
<1>10. ASSUME NEW u \in Registry!Registered'
       PROVE  /\ entries'[u].content \in ContentsOf(u)
              /\ u \in UseCases /\ edited'[u] = {} => entries'[u].content.tier # "unacceptable"
  <2>1. CASE u = id
    BY <1>1, <1>4, <1>6, <2>1
  <2>2. CASE u # id
    BY <1>4, <1>5, <1>10, <2>2 DEF RegistryInv
  <2> QED
    BY <2>1, <2>2
<1> QED
  BY <1>2, <1>4, <1>5, <1>9, <1>10 DEF RegistryInv, Registry!Ids

(* Saying less, and approving more.                                        *)
LEMMA Widening ==
    ASSUME NEW c \in UseCaseContents, NEW m, NEW s, NEW k, Registry!Allowed(c, m, s, k)
    PROVE  /\ Registry!Allowed(c, Unset, s, k) /\ Registry!Allowed(c, m, Unset, k)
           /\ Registry!Allowed(c, m, s, Unset)
           /\ \A x : /\ Registry!Allowed([c EXCEPT !.models = @ \cup {x}], m, s, k)
                     /\ Registry!Allowed([c EXCEPT !.classes = @ \cup {x}], m, s, k)
                     /\ c.sources # {} =>
                           Registry!Allowed([c EXCEPT !.sources = @ \cup {x}], m, s, k)
<1>1. c \in [tier : STRING, lifecycle : STRING, models : SUBSET Models,
             sources : SUBSET STRING, classes : SUBSET STRING]
  BY RegistryConstants
<1>2. \A d : Registry!Allowed(d, m, s, k) <=>
                /\ d.lifecycle \notin {"retired", "deprecated"}
                /\ m = Unset \/ m \in d.models
                /\ d.sources = {} \/ s = Unset \/ s \in d.sources
                /\ k = Unset \/ k \in d.classes
  BY DEF Registry!Allowed, Registry!Approved, Registry!InUse
<1>3. /\ Registry!Allowed(c, Unset, s, k) /\ Registry!Allowed(c, m, Unset, k)
      /\ Registry!Allowed(c, m, s, Unset)
  BY DEF Registry!Allowed, Registry!Approved, Registry!InUse
<1>4. ASSUME NEW x, NEW d, d = [c EXCEPT !.models = @ \cup {x}] PROVE Registry!Allowed(d, m, s, k)
  <2>1. /\ d.models = c.models \cup {x}
        /\ d.lifecycle = c.lifecycle /\ d.sources = c.sources /\ d.classes = c.classes
    BY <1>1, <1>4
  <2> QED
    BY <1>2, <2>1
<1>5. ASSUME NEW x, NEW d, d = [c EXCEPT !.classes = @ \cup {x}] PROVE Registry!Allowed(d, m, s, k)
  <2>1. /\ d.classes = c.classes \cup {x}
        /\ d.lifecycle = c.lifecycle /\ d.sources = c.sources /\ d.models = c.models
    BY <1>1, <1>5
  <2> QED
    BY <1>2, <2>1
<1>6. ASSUME NEW x, NEW d, d = [c EXCEPT !.sources = @ \cup {x}], c.sources # {}
      PROVE  Registry!Allowed(d, m, s, k)
  <2>1. /\ d.sources = c.sources \cup {x}
        /\ d.lifecycle = c.lifecycle /\ d.models = c.models /\ d.classes = c.classes
    BY <1>1, <1>6
  <2> QED
    BY <1>2, <1>6, <2>1
<1> QED
  BY <1>3, <1>4, <1>5, <1>6

LEMMA RegistryKeeps == RegistryInv /\ [ServicesNext]_servicesVars => RegistryInv'
<1> SUFFICES ASSUME RegistryInv, [ServicesNext]_servicesVars PROVE RegistryInv'
  OBVIOUS
<1>1. CASE UNCHANGED registryVars
  BY <1>1 DEF registryVars, RegistryInv, Registry!Registered
<1>2. CASE Registry!Next
  <2>1. UseCases \cap Models = {} /\ UseCases \cup Models = Registry!Ids
    BY ServicesAssumption DEF ServicesAssumption, Registry!RegistriesAssumption, Registry!Ids
  <2>2. ASSUME NEW id \in UseCases, Registry!Upsert(id) PROVE RegistryInv'
    <3>1. PICK content \in UseCaseContents :
              content.tier # "unacceptable" /\ Registry!Put(id, content)
      BY <2>2 DEF Registry!Upsert
    <3> QED
      BY <2>1, <3>1, PutKeeps DEF ContentsOf
  <2>3. ASSUME NEW id \in Models, Registry!Register(id) PROVE RegistryInv'
    <3>1. PICK content \in ModelContents : Registry!Put(id, content)
      BY <2>3 DEF Registry!Register
    <3> QED
      BY <2>1, <3>1, PutKeeps DEF ContentsOf
  <2> QED
    BY <1>2, <2>2, <2>3, EditKeeps DEF Registry!Next
<1> QED
  BY <1>1, <1>2 DEF ServicesNext, servicesVars

(* For any use cases, models and contents, and any number of changes: the  *)
(* versions of an id are one chain, which only a change in place escapes;  *)
(* no prohibited use is let in; what is revoked serves nothing; and saying *)
(* less, or approving more, never has a receipt refused.                   *)
THEOREM ServicesRegistriesAreExact == ServicesSpec => []RegistriesAreExact
<1>1. ASSUME RegistryInv PROVE RegistriesAreExact
  <2>1. ASSUME NEW id \in Registry!Ids
        PROVE  /\ versions[id] = <<>> <=> id \notin Registry!Registered
               /\ ChainedVersions(versions[id], edited[id], entries[id])
    BY <1>1 DEF RegistryInv
  <2>2. Registry!VersionsAreChained
    BY <2>1 DEF Registry!VersionsAreChained, ChainedVersions
  <2>3. Registry!ProhibitedStaysOut
    BY <1>1 DEF RegistryInv, Registry!ProhibitedStaysOut
  <2>4. Registry!ModelChecksAgree
    <3>1. ASSUME NEW m \in Models, m \in Registry!Registered
          PROVE  entries[m].content \in ModelContents
      BY <1>1, <3>1, RegistryConstants DEF RegistryInv, ContentsOf
    <3>2. ASSUME NEW m \in Models, NEW u \in UseCases, Registry!ValidateAssignment(m, u)
          PROVE  Registry!IsApprovedForProduction(m)
      BY <3>1, <3>2, RegistryConstants
      DEF Registry!ValidateAssignment, Registry!IsApprovedForProduction
    <3>3. ASSUME NEW m \in Models, versions[m] # <<>>, edited[m] = {}
          PROVE  entries[m] = versions[m][Len(versions[m])]
      BY <2>1, <3>3 DEF ChainedVersions, Registry!Ids
    <3> QED
      BY <3>2, <3>3 DEF Registry!ModelChecksAgree, Registry!ValidateAssignment
  <2>5. Registry!ApprovalsOnlyWiden
    <3>1. ASSUME NEW u \in UseCases, u \in Registry!Registered
          PROVE  entries[u].content \in UseCaseContents
      BY <1>1, <3>1 DEF RegistryInv, ContentsOf
    <3>2. ASSUME NEW u \in UseCases, NEW m \in Models \cup {Unset},
                 NEW s \in Registry!Sources \cup {Unset}, NEW k \in Registry!Classes \cup {Unset},
                 Registry!ValidateUsage(u, m, s, k)
          PROVE  LET c == entries[u].content
                 IN  /\ Registry!Allowed(c, Unset, s, k) /\ Registry!Allowed(c, m, Unset, k)
                     /\ Registry!Allowed(c, m, s, Unset)
                     /\ \A x \in Models :
                           Registry!Allowed([c EXCEPT !.models = @ \cup {x}], m, s, k)
                     /\ \A x \in Registry!Classes :
                           Registry!Allowed([c EXCEPT !.classes = @ \cup {x}], m, s, k)
                     /\ \A x \in Registry!Sources : c.sources # {} =>
                           Registry!Allowed([c EXCEPT !.sources = @ \cup {x}], m, s, k)
      <4>1. entries[u].content \in UseCaseContents /\ Registry!Allowed(entries[u].content, m, s, k)
        BY <3>1, <3>2 DEF Registry!ValidateUsage
      <4> QED
        BY <4>1, Widening
    <3> QED
      BY <3>2 DEF Registry!ApprovalsOnlyWiden
  <2> QED
    BY <2>2, <2>3, <2>4, <2>5 DEF RegistriesAreExact, Registry!RegistriesAreExact
<1> QED
  BY <1>1, RegistryStarts, RegistryKeeps, PTL DEF ServicesSpec, ServicesInit
=============================================================================
