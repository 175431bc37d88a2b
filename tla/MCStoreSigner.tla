---------------------------- MODULE MCStoreSigner ----------------------------
(***************************************************************************)
(* Instances of StoreSigner small enough for TLC, and the audit of the     *)
(* receipts they sign by the verifier of src/verify.ts.                    *)
(***************************************************************************)
EXTENDS StoreSigner, TLC

Symmetry == Permutations(Signers)

Audit == INSTANCE ChainVerifier WITH NoPredecessor <- NoRow

(* What an auditor is shown of a committed receipt.                        *)
Shown(r) == [id |-> r.id, tenant |-> r.tenant, height |-> r.height, prev |-> r.prev,
             intact |-> TRUE]

(* GENESIS_HASH is no receipt's hash, and NoRow no receipt.                *)
ASSUME AuditAssumption ==
    /\ Genesis \notin ReceiptIds
    /\ NoRow \notin [id : ReceiptIds, tenant : Tenants, height : Nat \ {0}, prev : Hash,
                     intact : BOOLEAN]

Committed(t) == {Shown(ledger[t][i]) : i \in 1..Len(ledger[t])}

(* The first member of a set of heights whose predecessor is missing; a set*)
(* need not begin at 1.                                                    *)
AfterGap(heights) ==
    {h \in heights : h - 1 \notin heights /\ \E g \in heights : g < h}

Rank(h, heights) == Cardinality({g \in heights : g <= h})

(* PL-RFC-003 section 4 of the receipts held: heights 1 to N, the first of *)
(* them on genesis, each linked to the one before it.  Genesis is whatever *)
(* the code writes there: GENESIS_HASH, where the specification has "".    *)
Conformant(held) ==
    LET heights == {r.height : r \in held}
    IN  /\ heights = 1 .. Cardinality(held)
        /\ \A r \in held : IF r.height = 1 THEN r.prev = Genesis
                           ELSE \E q \in held : q.height = r.height - 1 /\ q.id = r.prev

(* "a dropped or reordered receipt cannot pass" (verify.ts:174-175) and "a *)
(* partial range can still be internally valid without being mistaken for  *)
(* the whole ledger" (269-270): whatever signers race, crash or lose       *)
(* acknowledgements, verifyChain accepts a set of committed receipts if and*)
(* only if it is an unbroken slice of one tenant's chain, names the first  *)
(* receipt after a gap or an altered one, and says complete only of what   *)
(* begins at genesis.                                                      *)
(*                                                                         *)
(* Exception to the specification: PL-RFC-003 section 4 calls a verifier   *)
(* not conformant that "returns "valid"" for a sequence whose heights are  *)
(* not 1 to N, and this one returns it for every slice from the middle of  *)
(* a chain.  What section 4 asks for is valid together with                *)
(* completeFromGenesis: those two hold exactly of what conforms, and valid *)
(* alone exceeds it by the slices that do not begin at genesis, no more.   *)
AuditIsExact ==
    \A t \in Tenants :
        /\ \A held \in (SUBSET Committed(t)) \ {{}} :
              LET heights == {r.height : r \in held}
                  report  == Audit!VerifyChain(held, t)
              IN  /\ report.valid <=> AfterGap(heights) = {}
                  /\ ~report.valid =>
                        \E h \in AfterGap(heights) :
                            /\ \A g \in AfterGap(heights) : h <= g
                            /\ report.brokenAt = Rank(h, heights)
                  /\ report.completeFromGenesis <=> 1 \in heights
                  /\ (report.valid /\ report.completeFromGenesis) <=> Conformant(held)
                  /\ (report.valid /\ ~Conformant(held)) => 1 \notin heights
        /\ \A r \in Committed(t) :
              Audit!VerifyChain((Committed(t) \ {r}) \cup {[r EXCEPT !.intact = FALSE]}, t).brokenAt
                  = r.height
        /\ \A u \in Tenants \ {t} : \A r \in Committed(u) :
              ~Audit!VerifyChain(Committed(t) \cup {r}, t).valid
=============================================================================
