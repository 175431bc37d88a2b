------------------------------ MODULE Evidence ------------------------------
(***************************************************************************)
(* What an auditor is handed.  The evidence pack (src/evidence/            *)
(* evidence-pack.ts): receipts under a Merkle root, sealed by a hash, built*)
(* from a selection and verified with keys the caller brings.  And the     *)
(* model-risk workpaper (src/mrm): inventories, monitoring totals,         *)
(* validation activities and findings, computed from receipt summaries.    *)
(*                                                                         *)
(* A receipt of a pack is [id, body, sealed, linked, sigs]: its content,   *)
(* the content its receipt_hash was computed of, whether its height and    *)
(* previous hash fit each other, and the kids that signed with the content *)
(* they signed.  The hash of a pack's content is that content.             *)
(*                                                                         *)
(* A summary is [id, tenant, model, use, decision, outcome, policies,      *)
(* reviewer].  A rate is an integer in units of 1/Scale, as round() leaves *)
(* it.  Titles, the order of the inventories and the rendering are left    *)
(* out; the hash of the workpaper is that of what is here.                 *)
(***************************************************************************)
EXTENDS MerkleTree

CONSTANTS Scale,                    \* 10,000
          ErrorLimit, FlagLimit,    \* 5% and 10%, in units of 1/Scale
          SampleSize, EvidenceSize  \* 5 and 10: the receipts cited at most

EvidenceAssumption ==
    /\ Scale \in Nat \ {0} /\ ErrorLimit \in Nat /\ FlagLimit \in Nat
    /\ SampleSize \in Nat \ {0} /\ EvidenceSize \in Nat \ {0}
-----------------------------------------------------------------------------
(* An entry of an audit path that is not 32 bytes.                         *)
NotAHash == <<"not a hash">>

(* The leaf of a receipt: all of its canonical bytes, not the envelope.    *)
Leaf(r) == <<r.id, r.body, r.sealed>>

Leaves(rs) == [i \in DOMAIN rs |-> Leaf(rs[i])]

(* verifyReceipt, alone and with these keys                                *)
Verifies(r, keys) ==
    /\ r.sealed = r.body /\ r.linked
    /\ \E s \in r.sigs : s.kid \in keys /\ s.body = r.body

(* buildBatch: the proof of an id is that of the last receipt that has it. *)
LastWith(rs, id) == Max({i \in DOMAIN rs : rs[i].id = id})

BuildBatch(rs) ==
    [root   |-> BatchRoot(Leaves(rs)),
     proofs |-> [id \in {r.id : r \in ToSet(rs)} |->
                    LET i == LastWith(rs, id) - 1
                    IN  [index |-> i, size |-> Len(rs), path |-> BatchPath(Leaves(rs), i)]]]

Core(meta, trusted, merkle, rs) ==
    [meta |-> meta, trusted |-> trusted, merkle |-> merkle, receipts |-> rs]

(* buildEvidencePack, of one receipt at least.                             *)
BuildEvidencePack(meta, rs, trusted) ==
    LET batch == BuildBatch(rs)
    IN  [meta |-> meta, trusted |-> trusted, merkle |-> batch, receipts |-> rs,
         count |-> Len(rs), hash |-> Core(meta, trusted, batch, rs)]

(* Mutant: the keys are left out of the hash, as a hint.                   *)
IntegrityWithoutKeys(p) ==
    Core(p.meta, p.hash.trusted, p.merkle, p.receipts) = p.hash

VerifyPackIntegrity(p) == Core(p.meta, p.trusted, p.merkle, p.receipts) = p.hash

(* Mutant: the version before the fix, which took nodes no one consumes.   *)
IncludedWithPadding(p, r) ==
    /\ r.id \in DOMAIN p.merkle.proofs
    /\ LET proof == p.merkle.proofs[r.id]
           sides == BatchSides[<<proof.index, proof.size>>]
       IN  /\ Len(proof.path) >= Len(sides)
           /\ NotAHash \notin {proof.path[j] : j \in DOMAIN sides}
           /\ Combined(Leaf(r), sides, proof.path) = p.merkle.root

(* The loop of verifyAllReceiptsInPack, which does not ask whether the     *)
(* index is inside the tree: every node of the path is consumed.           *)
Included(p, r) ==
    /\ r.id \in DOMAIN p.merkle.proofs
    /\ LET proof == p.merkle.proofs[r.id]
           sides == BatchSides[<<proof.index, proof.size>>]
       IN  /\ Len(proof.path) = Len(sides)
           /\ NotAHash \notin ToSet(proof.path)
           /\ Combined(Leaf(r), sides, proof.path) = p.merkle.root

VerifyEvidencePack(p, keys) ==
    LET lost     == {r.id : r \in {x \in ToSet(p.receipts) : ~Included(p, x)}}
        unsigned == {r.id : r \in {x \in ToSet(p.receipts) : ~Verifies(x, keys)}}
    IN  IF keys = {} THEN [valid |-> FALSE, failedInclusion |-> {}, failedSignature |-> {}]
        ELSE [valid           |-> VerifyPackIntegrity(p) /\ lost = {} /\ unsigned = {},
              failedInclusion |-> lost,
              failedSignature |-> unsigned]
-----------------------------------------------------------------------------
(* round(part / whole)                                                     *)
Share(part, whole) == (2 * Scale * part + whole) \div (2 * whole)

Blocked(r)   == r.decision = "block"
Flagged(r)   == r.decision = "flag"
Errored(r)   == r.outcome = "error"
Guarded(r)   == r.outcome = "guardrail_block"
Uncited(r)   == r.policies = {}
Reviewed(r)  == r.reviewer \notin {"none", "pending"}

(* filter(...).slice(0, most).map((r) => r.receipt_id)                     *)
Sample(rs, most) == [i \in 1 .. IF Len(rs) < most THEN Len(rs) ELSE most |-> rs[i].id]

Rate(rs, Test(_)) == Share(Len(SelectSeq(rs, Test)), Len(rs))

OfModel(rs, m) == SelectSeq(rs, LAMBDA r : r.model = m)
OfUse(rs, u)   == SelectSeq(rs, LAMBDA r : r.use = u)

ModelEntry(mine) ==
    [invocations |-> Len(mine), tenants |-> {r.tenant : r \in ToSet(mine)},
     block |-> Rate(mine, Blocked), flag |-> Rate(mine, Flagged), error |-> Rate(mine, Errored),
     uses |-> {r.use : r \in ToSet(mine)}, sample |-> Sample(mine, SampleSize)]

BuildModelInventory(rs) ==
    [m \in {r.model : r \in ToSet(rs)} |-> ModelEntry(OfModel(rs, m))]

BuildUseCaseInventory(rs) ==
    [u \in {r.use : r \in ToSet(rs)} |->
        [models |-> {r.model : r \in ToSet(OfUse(rs, u))}, invocations |-> Len(OfUse(rs, u))]]

BuildMonitoring(rs) ==
    [total  |-> Len(rs),                       blocks |-> Len(SelectSeq(rs, Blocked)),
     flags  |-> Len(SelectSeq(rs, Flagged)),   errors |-> Len(SelectSeq(rs, Errored)),
     coverage |-> IF rs = <<>> THEN 0 ELSE Share(Len(rs) - Len(SelectSeq(rs, Uncited)), Len(rs))]

(* Mutant: the version before the fix, which certified every workpaper.    *)
CitationAsserted(rs) ==
    [finding |-> IF rs = <<>> THEN "none" ELSE "complete", uncited |-> 0,
     evidence |-> Sample(rs, SampleSize)]

(* Citation completeness, derived from the receipts that fail it.          *)
Citation(rs) ==
    LET bad == SelectSeq(rs, Uncited)
    IN  [finding  |-> IF rs = <<>> THEN "none" ELSE IF bad = <<>> THEN "complete" ELSE "lacking",
         uncited  |-> Len(bad),
         evidence |-> Sample(IF bad = <<>> THEN rs ELSE bad, SampleSize)]

BuildValidationActivities(rs) ==
    LET Activity(mine) == [count |-> Len(mine), evidence |-> Sample(mine, EvidenceSize)]
    IN  [review   |-> Activity(SelectSeq(rs, Reviewed)),
         guards   |-> Activity(SelectSeq(rs, Guarded)),
         citation |-> Citation(rs)]

(* Mutant: the evidence of a model is taken from the first receipts.       *)
FindingsOfAnyModel(inv, rs) ==
    LET Found(kind, over, Test(_)) ==
            {[kind |-> kind, model |-> m, evidence |-> Sample(SelectSeq(rs, Test), EvidenceSize)] :
                m \in {n \in DOMAIN inv : over[n]}}
    IN  Found("error", [m \in DOMAIN inv |-> inv[m].error > ErrorLimit], Errored)
        \cup Found("flag", [m \in DOMAIN inv |-> inv[m].flag > FlagLimit], Flagged)

(* deriveFindings, from the rounded rates of the inventory.                *)
DeriveFindings(inv, rs) ==
    LET Found(kind, over, Test(_)) ==
            {[kind |-> kind, model |-> m,
              evidence |-> Sample(SelectSeq(OfModel(rs, m), Test), EvidenceSize)] :
                m \in {n \in DOMAIN inv : over[n]}}
    IN  Found("error", [m \in DOMAIN inv |-> inv[m].error > ErrorLimit], Errored)
        \cup Found("flag", [m \in DOMAIN inv |-> inv[m].flag > FlagLimit], Flagged)

BuildWorkpaper(rs) ==
    LET inv == BuildModelInventory(rs)
    IN  [models     |-> inv,
         uses       |-> BuildUseCaseInventory(rs),
         monitoring |-> BuildMonitoring(rs),
         validation |-> BuildValidationActivities(rs),
         findings   |-> DeriveFindings(inv, rs)]
=============================================================================
