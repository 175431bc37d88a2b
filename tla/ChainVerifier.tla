---------------------------- MODULE ChainVerifier ----------------------------
(***************************************************************************)
(* The independent verification of receipts and chains (src/verify.ts).    *)
(*                                                                         *)
(* A receipt is a record with its id (standing for its hash), tenant,      *)
(* height, prev and `intact`: its hash matches its contents and one of its *)
(* signatures verifies with a supplied key.  Receipts are well-formed and  *)
(* carry no time-stamp tokens.                                             *)
(***************************************************************************)
EXTENDS Integers, Sequences, SequencesExt

CONSTANTS Genesis,      \* GENESIS_HASH
          NoPredecessor \* no previousReceipt is supplied

(* Mutant: heights need only grow, and hashes are not compared.             *)
LinkValidHeightsOnly(r, previous) ==
    IF previous # NoPredecessor
    THEN r.height > previous.height
    ELSE r.height = 1 \/ r.prev = Genesis => r.height = 1 /\ r.prev = Genesis

(* Step 3 of verifyReceipt: chain_link_valid is not false.  A receipt from *)
(* the middle of a chain without its predecessor leaves it undefined.      *)
LinkValid(r, previous) ==
    /\ r.height >= 1
    /\ IF previous # NoPredecessor
       THEN previous.id = r.prev /\ r.height = previous.height + 1
       ELSE r.height = 1 \/ r.prev = Genesis => r.height = 1 /\ r.prev = Genesis

(* verifyReceipt                                                           *)
VerifyReceipt(r, previous) == r.intact /\ LinkValid(r, previous)

(* verifyChain on a set of receipts: they are put in height order, each is *)
(* verified against the one before it, and the first that fails is named.  *)
(* tenantId is that of the receipt that came first in the caller's order.  *)
Ordered(receipts) ==
    CHOOSE seq \in SetToSeqs(receipts) :
        \A i, j \in DOMAIN seq : i < j => seq[i].height <= seq[j].height

Failing(ordered, tenantId) ==
    {i \in DOMAIN ordered :
        \/ ordered[i].tenant # tenantId
        \/ ~VerifyReceipt(ordered[i], IF i = 1 THEN NoPredecessor ELSE ordered[i - 1])}

VerifyChain(receipts, tenantId) ==
    LET ordered == Ordered(receipts)
        failing == Failing(ordered, tenantId)
    IN  [valid               |-> receipts # {} /\ failing = {},
         brokenAt            |-> IF failing = {} THEN 0 ELSE Min(failing),
         completeFromGenesis |-> /\ receipts # {}
                                 /\ ordered[1].height = 1 /\ ordered[1].prev = Genesis]
=============================================================================
