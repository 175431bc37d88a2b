--------------------------- MODULE TransparencyLog ---------------------------
(***************************************************************************)
(* The in-memory transparency log (src/transparency-log/log.ts): submitters*)
(* append batches of leaves, publishers sign tree heads, and anybody checks*)
(* proofs against the heads.                                               *)
(*                                                                         *)
(* appendBatch awaits between its entries and publishSth awaits the signer,*)
(* so batches and publications interleave.  Signatures themselves are left *)
(* out: a head is one this log's signer signed.                            *)
(***************************************************************************)
EXTENDS MerkleTree

CONSTANTS Submitters, Publishers,
          BatchSize,    \* leaves in a submitter's batch
          MaxHeads,     \* bound: publications begun
          Forged        \* a leaf nobody submits

LogAssumption == /\ BatchSize \in Nat /\ MaxHeads \in Nat
                 /\ Forged \notin Submitters \X Nat

VARIABLES
    leafHashes,   \* leafHashes (and entries, which runs along with it)
    acks,         \* acks[s]: the log indices returned to submitter s
    signing,      \* signing[p]: the head p awaits the signature of, in a set
    sthHistory    \* the signed heads

vars == <<leafHashes, acks, signing, sthHistory>>
-----------------------------------------------------------------------------
(* The j-th leaf of a submitter's batch: a receipt's canonical bytes hold a*)
(* fresh UUID, so no two leaves are equal.                                 *)
Leaf(s, j) == <<s, j>>

Init ==
    /\ leafHashes = <<>>
    /\ acks       = [s \in Submitters |-> <<>>]
    /\ signing    = [p \in Publishers |-> {}]
    /\ sthHistory = <<>>

(* Mutant: a batch appends to the log as it left it, losing what others    *)
(* appended while it awaited.                                              *)
AppendLeafToSnapshot(s) ==
    /\ Len(acks[s]) < BatchSize
    /\ acks' = [acks EXCEPT ![s] = Append(@, Len(leafHashes))]
    /\ leafHashes' = [j \in 1..(Len(acks[s]) + 1) |-> Leaf(s, j)]
    /\ UNCHANGED <<signing, sthHistory>>

(* append(), alone or as the next turn of appendBatch.                     *)
AppendLeaf(s) ==
    /\ Len(acks[s]) < BatchSize
    /\ acks' = [acks EXCEPT ![s] = Append(@, Len(leafHashes))]
    /\ leafHashes' = Append(leafHashes, Leaf(s, Len(acks[s]) + 1))
    /\ UNCHANGED <<signing, sthHistory>>

(* publishSth() up to the await: size and root are read together.  `seen`  *)
(* (history) is how many heads were out by then.                           *)
BeginPublish(p) ==
    /\ signing[p] = {}
    /\ Len(sthHistory) + Cardinality({q \in Publishers : signing[q] # {}}) < MaxHeads
    /\ signing' = [signing EXCEPT ![p] =
           {[size |-> Len(leafHashes), root |-> Root(leafHashes, Len(leafHashes)),
             seen |-> Len(sthHistory)]}]
    /\ UNCHANGED <<leafHashes, acks, sthHistory>>

(* Mutant: the root is read when the signature is there.                   *)
SignedWithLateRoot(p) ==
    /\ \E h \in signing[p] :
          sthHistory' = Append(sthHistory,
              [h EXCEPT !.root = Root(leafHashes, Len(leafHashes))])
    /\ signing' = [signing EXCEPT ![p] = {}]
    /\ UNCHANGED <<leafHashes, acks>>

(* The signer resolves, in whatever order.                                 *)
Signed(p) ==
    /\ \E h \in signing[p] : sthHistory' = Append(sthHistory, h)
    /\ signing' = [signing EXCEPT ![p] = {}]
    /\ UNCHANGED <<leafHashes, acks>>

(* The signer rejects, and publishSth with it.                             *)
SignerFails(p) ==
    /\ signing[p] # {}
    /\ signing' = [signing EXCEPT ![p] = {}]
    /\ UNCHANGED <<leafHashes, acks, sthHistory>>

Next == \/ \E s \in Submitters : AppendLeaf(s)
        \/ \E p \in Publishers : BeginPublish(p) \/ Signed(p) \/ SignerFails(p)

Spec == Init /\ [][Next]_vars
-----------------------------------------------------------------------------
Heads == {sthHistory[i] : i \in DOMAIN sthHistory}
Leaves == {leafHashes[i] : i \in DOMAIN leafHashes}

(* Every signed head is and stays the root of the log's first `size`       *)
(* entries: nothing that happens while a signature is awaited, or later,   *)
(* makes it a statement about another log ("detect log rewrites", lines    *)
(* 10-12), and every submitter's leaves are where it was told.             *)
HeadsStayTrue ==
    /\ \A h \in Heads : h.size <= Len(leafHashes) /\ h.root = Root(leafHashes, h.size)
    /\ \A s \in Submitters : \A j \in 1..Len(acks[s]) :
          leafHashes[acks[s][j] + 1] = Leaf(s, j)

(* A head whose publication began after another head was out is not        *)
(* smaller; sths() may be out of order only among overlapping publications.*)
PublishedHeadsGrow ==
    \A i, j \in DOMAIN sthHistory :
        i <= sthHistory[j].seen => sthHistory[i].size <= sthHistory[j].size

(* Other histories of the length of the log: one entry forged, or two      *)
(* neighbours swapped.                                                     *)
Rewritten(n) ==
    {[leafHashes EXCEPT ![i] = Forged] : i \in 1..n}
    \cup {[leafHashes EXCEPT ![i] = leafHashes[i + 1], ![i + 1] = leafHashes[i]] :
             i \in 1..(n - 1)}

(* "if the proof fails, the log has been tampered with between the two     *)
(* STHs" (lines 242-246): the log's own proof is accepted for any two      *)
(* published heads, and a log with a rewritten first part has none.        *)
ConsistencyIsExact ==
    \A a, b \in Heads : a.size <= b.size =>
        /\ VerifyConsistency(a.size, a.root, b.size, b.root,
                             ConsistencyProof(leafHashes, a.size, b.size))
        /\ \A D \in Rewritten(a.size) :
              ~VerifyConsistency(a.size, a.root, b.size, Root(D, b.size),
                                 ConsistencyProof(D, a.size, b.size))

(* An inclusion proof under a published head is accepted for its own leaf  *)
(* at its own index, for no other leaf and at no other index (298-303).    *)
InclusionIsExact ==
    \A h \in Heads : \A i \in 0..(h.size - 1) :
        LET path == InclusionPath(leafHashes, i, h.size)
        IN  /\ \A leaf \in Leaves :
                  VerifyInclusion(leaf, i, h.size, path, h.root) <=> leaf = leafHashes[i + 1]
            /\ \A j \in (-1)..h.size :
                  VerifyInclusion(leafHashes[i + 1], j, h.size, path, h.root) <=> j = i

(* The batch commitment over the entries of a head is the same tree: its   *)
(* level-by-level construction has the root and the audit paths of the     *)
(* log's recursive one, and accepts them (merkle.ts:10-16: "matches RFC    *)
(* 9162", "the last node is promoted (not duplicated)").                   *)
BatchMatchesLog ==
    \A h \in Heads : h.size > 0 =>
        LET leaves == SubSeq(leafHashes, 1, h.size)
        IN  /\ BatchRoot(leaves) = h.root
            /\ \A i \in 0..(h.size - 1) :
                  /\ BatchPath(leaves, i) = InclusionPath(leafHashes, i, h.size)
                  /\ VerifyBatchInclusion(leaves[i + 1], i, h.size,
                                          BatchPath(leaves, i), h.root)
=============================================================================
