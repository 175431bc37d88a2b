--------------------------- MODULE SigningProviders ---------------------------
(***************************************************************************)
(* The signing providers (src/signing-provider.ts, src/hsm, src/fips.ts)   *)
(* over a key service whose key is rotated while they run.  A provider has *)
(* one kid; the key it reports and the key it signs with are looked up at  *)
(* different moments, by a name that may or may not fix the version.  The  *)
(* service is external: it holds one current version per key name.         *)
(***************************************************************************)
EXTENDS Integers, FiniteSets

CONSTANT MaxVersion     \* bound on the rotations of the service

RotationAssumption == MaxVersion \in Nat \ {0}

VARIABLES
    kind,       \* the provider's class
    named,      \* "version" or "latest": what its key name denotes
    claimsFips, \* fipsEndpoint, hsmBacked or fipsValidated was configured
    posture,    \* the FipsPosture of requireFipsMode
    openssl,    \* isNodeOpensslFipsActive()
    stage,      \* "boot", "up", "pinned", "ready", "closed", "reopened", "refused"
    current,    \* the service's current version
    pinned,     \* the version a handle, or a name fixed to it, denotes
    cachedKey,  \* the version of _cachedPublicKey, 0 if none
    rotatedIn,  \* the stages a rotation fell into
    signed,     \* the last signature: [with, reported, fips]
    wrapped     \* the caller holds asFipsProvider()'s result

vars == <<kind, named, claimsFips, posture, openssl, stage, current, pinned,
          cachedKey, rotatedIn, signed, wrapped>>
config == <<kind, named, claimsFips, posture, openssl>>
-----------------------------------------------------------------------------
Kinds == {"software", "hsm", "pkcs11", "aws", "azure", "gcp"}

NotSigned == [with |-> 0, reported |-> 0, fips |-> FALSE]

(* Software keys are bytes in memory, a GCP name holds its version, the    *)
(* HSM adapter has one handle; AWS and Azure names may mean the latest, and*)
(* a PKCS#11 label the key it was last given to.                           *)
Init ==
    /\ kind \in Kinds
    /\ named \in IF kind \in {"aws", "azure", "pkcs11"} THEN {"version", "latest"} ELSE {"version"}
    /\ claimsFips \in BOOLEAN /\ (claimsFips => kind \in {"pkcs11", "aws", "azure", "gcp"})
    /\ posture \in {"disabled", "required-soft", "required-strict"}
    /\ openssl \in BOOLEAN
    /\ stage = "boot" /\ current = 1 /\ pinned = 1 /\ cachedKey = 0
    /\ rotatedIn = {} /\ signed = NotSigned /\ wrapped = FALSE

(* What the service takes a key name of this provider to denote now.       *)
Denotes == IF named = "latest" THEN current ELSE pinned

Rotate ==
    /\ stage \in {"up", "pinned", "ready", "closed", "reopened"} /\ current < MaxVersion
    /\ current'   = current + 1
    /\ rotatedIn' = rotatedIn \cup {stage}
    /\ UNCHANGED <<config, stage, pinned, cachedKey, signed, wrapped>>
-----------------------------------------------------------------------------
(* requireFipsMode: only the strict posture refuses to start.              *)
RequireFipsMode ==
    /\ stage = "boot"
    /\ stage' = IF posture = "required-strict" /\ ~openssl THEN "refused" ELSE "up"
    /\ UNCHANGED <<config, current, pinned, cachedKey, rotatedIn, signed, wrapped>>

(* fromBytes, generate and the HSM adapter ask the service nothing.        *)
HoldOwnKey ==
    /\ stage = "up" /\ kind \in {"software", "hsm"}
    /\ stage' = "ready"
    /\ UNCHANGED <<config, current, pinned, cachedKey, rotatedIn, signed, wrapped>>

(* Azure's fromKeyId: getKey resolves the name, and the cryptography       *)
(* client is made for the id, version included, that it returned.  PKCS#11:*)
(* ensureSession finds the handles of the key with the label.              *)
PinKey ==
    /\ stage = "up" /\ kind \in {"azure", "pkcs11"}
    /\ pinned' = Denotes
    /\ stage'  = "pinned"
    /\ UNCHANGED <<config, current, cachedKey, rotatedIn, signed, wrapped>>

(* Mutant: Azure's publicKey is that of a name fixed to the version.       *)
CacheForeignKey ==
    /\ \/ stage = "pinned"
       \/ stage = "up" /\ kind \in {"aws", "gcp"}
    /\ cachedKey' = current
    /\ stage'  = "ready"
    /\ UNCHANGED <<config, current, pinned, rotatedIn, signed, wrapped>>

(* publicKey at construction fetches the key and caches it; an Azure or    *)
(* AWS name is looked up again, PKCS#11 reads by the handle.               *)
CachePublicKey ==
    /\ \/ stage = "pinned"
       \/ stage = "up" /\ kind \in {"aws", "gcp"}
    /\ cachedKey' = IF kind = "pkcs11" THEN pinned ELSE Denotes
    /\ stage'  = "ready"
    /\ UNCHANGED <<config, current, pinned, rotatedIn, signed, wrapped>>

(* The service could not be reached, or the key is not an Ed25519 key.     *)
ConstructionFails ==
    /\ stage \in {"up", "pinned"} /\ kind \in {"pkcs11", "aws", "azure", "gcp"}
    /\ stage' = "refused"
    /\ UNCHANGED <<config, current, pinned, cachedKey, rotatedIn, signed, wrapped>>

Built   == stage \in {"ready", "closed", "reopened"}
Running == stage \in {"ready", "reopened"}

(* PKCS#11: close drops the session, and the next sign looks the label up  *)
(* again; the public key that was cached stays (Pkcs11Session has the      *)
(* calls that overlap these).                                              *)
Close ==
    /\ kind = "pkcs11" /\ Running
    /\ stage' = "closed"
    /\ UNCHANGED <<config, current, pinned, cachedKey, rotatedIn, signed, wrapped>>

Reopen ==
    /\ stage = "closed"
    /\ pinned' = Denotes
    /\ stage'  = "reopened"
    /\ UNCHANGED <<config, current, cachedKey, rotatedIn, signed, wrapped>>

(* asFipsProvider throws unless the provider was configured for it.        *)
AsFipsProvider ==
    /\ Built /\ claimsFips /\ ~wrapped
    /\ wrapped' = TRUE
    /\ UNCHANGED <<config, stage, current, pinned, cachedKey, rotatedIn, signed>>

(* The version sign uses: AWS sends its key name again on every call.      *)
SigningVersion == IF kind = "aws" THEN Denotes ELSE pinned

(* The version publicKey answers; the cloud providers and PKCS#11 cache.   *)
ReportedVersion == IF cachedKey # 0 THEN cachedKey ELSE pinned

(* sign, by itself or through the FIPS wrapper, which only delegates.      *)
Sign ==
    /\ Running
    /\ signed' = [with |-> SigningVersion, reported |-> ReportedVersion, fips |-> wrapped]
    /\ UNCHANGED <<config, stage, current, pinned, cachedKey, rotatedIn, wrapped>>

Next ==
    \/ Rotate \/ RequireFipsMode \/ HoldOwnKey \/ PinKey \/ CachePublicKey
    \/ ConstructionFails \/ Close \/ Reopen \/ AsFipsProvider \/ Sign

Spec == Init /\ [][Next]_vars
-----------------------------------------------------------------------------
(* A signature verifies under the key its provider reports, whenever the   *)
(* service's key is rotated, with three exceptions that need a name meaning*)
(* the latest version: an AWS alias moved after the key was cached, an     *)
(* Azure key rotated between the two look-ups of fromKeyId, and a PKCS#11  *)
(* label given to another key after its first look-up, once the provider   *)
(* was closed and used again: close keeps the cached key (pkcs11.ts:165,   *)
(* 191-196).                                                               *)
ReportedKeyVerifies ==
    signed.with # signed.reported =>
        /\ named = "latest"
        /\ \/ kind = "aws"   /\ "ready"  \in rotatedIn
           \/ kind = "azure" /\ "pinned" \in rotatedIn
           \/ /\ kind = "pkcs11" /\ stage \in {"closed", "reopened"}
              /\ rotatedIn \ {"up"} # {}
=============================================================================
