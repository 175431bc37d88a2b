------------------------------ MODULE MerkleTree ------------------------------
(***************************************************************************)
(* The Merkle tree algorithms of the transparency log                      *)
(* (src/transparency-log/log.ts) and of batch commitment (src/merkle.ts).  *)
(*                                                                         *)
(* SHA-256 is taken to be free of collisions: the hash of a node is the    *)
(* pair of its children's hashes, and a leaf stands for its own hash.      *)
(* Positions count from 0, as in the code; sequences count from 1.         *)
(***************************************************************************)
EXTENDS Integers, Sequences, SequencesExt

hashNode(left, right) == <<left, right>>
EmptyRoot == <<>>

(* The largest power of two below n (k *= 2 while k * 2 < n).              *)
Split(n) ==
    LET doubled[k \in 1..n] == IF 2 * k < n THEN doubled[2 * k] ELSE k
    IN  doubled[1]

(* A range of entries, from its first position to before its second, and   *)
(* the two parts it is split into.                                         *)
Ranges(n) == (0..n) \X (0..n)
Size(r)   == r[2] - r[1]
Middle(r) == r[1] + Split(Size(r))
Left(r)   == <<r[1], Middle(r)>>
Right(r)  == <<Middle(r), r[2]>>

(* rootFromLeaves(D.slice(s, e))                                           *)
RootOf(D, s, e) ==
    LET root[r \in Ranges(Len(D))] ==
            IF Size(r) <= 1 THEN D[r[2]] ELSE hashNode(root[Left(r)], root[Right(r)])
    IN  IF e = s THEN EmptyRoot ELSE root[<<s, e>>]

(* The root of the first n leaves, which are sliced off first.             *)
Root(D, n) == RootOf(SubSeq(D, 1, n), 0, n)
-----------------------------------------------------------------------------
(* Inclusion proofs                                                        *)

(* Mutant: siblings are pushed from the root down.                         *)
InclusionPathTopDown(D, i, n) ==
    LET path[r \in Ranges(n)] ==
            IF Size(r) <= 1 THEN <<>>
            ELSE IF i < Middle(r) THEN <<RootOf(D, Middle(r), r[2])>> \o path[Left(r)]
            ELSE <<RootOf(D, r[1], Middle(r))>> \o path[Right(r)]
    IN  path[<<0, n>>]

(* proveInclusion(i, n): the siblings of leaf i, bottom-up.                *)
InclusionPath(D, i, n) ==
    LET path[r \in Ranges(n)] ==
            IF Size(r) <= 1 THEN <<>>
            ELSE IF i < Middle(r) THEN Append(path[Left(r)], RootOf(D, Middle(r), r[2]))
            ELSE Append(path[Right(r)], RootOf(D, r[1], Middle(r)))
    IN  path[<<0, n>>]

(* climb: the sides the siblings of leaf i of n are on, bottom-up.         *)
Sides(i, n) ==
    LET side[r \in Ranges(n)] ==
            IF Size(r) <= 1 THEN <<>>
            ELSE IF i < Middle(r) THEN Append(side[Left(r)], "right")
            ELSE Append(side[Right(r)], "left")
    IN  side[<<0, n>>]

(* The hash a leaf and the first Len(sides) siblings of a path combine to. *)
Combined(leaf, sides, path) ==
    LET up[j \in 0..Len(sides)] ==
            IF j = 0 THEN leaf
            ELSE IF sides[j] = "right" THEN hashNode(up[j - 1], path[j])
            ELSE hashNode(path[j], up[j - 1])
    IN  up[Len(sides)]

(* verifyInclusion of log.ts: every sibling is used, none is missing.      *)
VerifyInclusion(leaf, i, n, path, root) ==
    /\ n >= 1 /\ 0 <= i /\ i < n
    /\ Len(path) = Len(Sides(i, n))
    /\ Combined(leaf, Sides(i, n), path) = root
-----------------------------------------------------------------------------
(* Consistency proofs                                                      *)

(* The ranges of n entries that the end of the first m is in.              *)
Around(m, n) == {r \in Ranges(n) : r[1] < m /\ m <= r[2]}

(* Mutant: the version before the fix, without the base case for b.        *)
ConsistencyProofAlwaysSeeds(D, m, n) ==
    LET sub[q \in Around(m, n) \X BOOLEAN] ==
            LET r == q[1]  b == q[2]
            IN  IF m = r[2] THEN <<RootOf(D, r[1], r[2])>>
                ELSE IF m <= Middle(r) THEN Append(sub[<<Left(r), b>>], RootOf(D, Middle(r), r[2]))
                ELSE Append(sub[<<Right(r), FALSE>>], RootOf(D, r[1], Middle(r)))
    IN  IF m = 0 \/ m = n THEN <<>> ELSE sub[<<<<0, n>>, TRUE>>]

(* proveConsistency(m, n): SUBPROOF of RFC 6962; b says that the verifier  *)
(* knows the root of the subtree already.                                  *)
ConsistencyProof(D, m, n) ==
    LET sub[q \in Around(m, n) \X BOOLEAN] ==
            LET r == q[1]  b == q[2]
            IN  IF m = r[2] THEN IF b THEN <<>> ELSE <<RootOf(D, r[1], r[2])>>
                ELSE IF m <= Middle(r) THEN Append(sub[<<Left(r), b>>], RootOf(D, Middle(r), r[2]))
                ELSE Append(sub[<<Right(r), FALSE>>], RootOf(D, r[1], Middle(r)))
    IN  IF m = 0 \/ m = n THEN <<>> ELSE sub[<<<<0, n>>, TRUE>>]

(* The places of a node of the first tree and of the last node of the      *)
(* second, one level up.                                                   *)
Halved(p) == <<p[1] \div 2, p[2] \div 2>>

(* The first loop of verifyConsistency: up while node is a right child.    *)
Ascended[p \in Nat \X Nat] == IF p[1] % 2 = 1 THEN Ascended[Halved(p)] ELSE p

(* What the other two loops do with the next proof node at each level: it  *)
(* is the left sibling of both trees, the right sibling of the second, or  *)
(* there is none.                                                          *)
Levels[p \in Nat \X Nat] ==
    IF p[1] > 0
    THEN (IF p[1] % 2 = 1 THEN <<"both">> ELSE IF p[1] < p[2] THEN <<"second">> ELSE <<>>)
         \o Levels[Halved(p)]
    ELSE IF p[2] > 0 THEN <<"second">> \o Levels[Halved(p)] ELSE <<>>

(* The roots of both trees: what a seed and the proof's nodes combine to.  *)
Recomputed(seed, levels, nodes) ==
    LET up[j \in 0..Len(levels)] ==
            IF j = 0 THEN [old |-> seed, new |-> seed]
            ELSE [old |-> IF levels[j] = "both" THEN hashNode(nodes[j], up[j - 1].old)
                          ELSE up[j - 1].old,
                  new |-> IF levels[j] = "both" THEN hashNode(nodes[j], up[j - 1].new)
                          ELSE hashNode(up[j - 1].new, nodes[j])]
    IN  up[Len(levels)]

(* Recomputes both roots; the seed is the first root itself when its size  *)
(* is a power of two and the first proof node otherwise.                   *)
VerifyConsistency(m, firstRoot, n, secondRoot, proof) ==
    IF m < 0 \/ n < m THEN FALSE
    ELSE IF m = n THEN proof = <<>> /\ firstRoot = secondRoot
    ELSE IF m = 0 THEN TRUE
    ELSE LET start  == Ascended[<<m - 1, n - 1>>]
             levels == Levels[start]
             seeded == start[1] > 0
             roots  == Recomputed(IF seeded THEN proof[1] ELSE firstRoot, levels,
                                  IF seeded THEN Tail(proof) ELSE proof)
         IN  /\ Len(proof) = Len(levels) + (IF seeded THEN 1 ELSE 0)
             /\ roots.old = firstRoot
             /\ roots.new = secondRoot
-----------------------------------------------------------------------------
(* Batch commitment (merkle.ts), level by level                            *)

(* Mutant: the odd node of a level is paired with itself.                  *)
LevelAboveDuplicating(level) ==
    [i \in 1..((Len(level) + 1) \div 2) |->
        IF 2 * i <= Len(level) THEN hashNode(level[2 * i - 1], level[2 * i])
        ELSE hashNode(level[2 * i - 1], level[2 * i - 1])]

(* One pass of buildBatch's loop: pairs are hashed, an odd one is promoted.*)
LevelAbove(level) ==
    [i \in 1..((Len(level) + 1) \div 2) |->
        IF 2 * i <= Len(level) THEN hashNode(level[2 * i - 1], level[2 * i])
        ELSE level[2 * i - 1]]

(* buildBatch: all levels, leaves first, up to the root.                   *)
BatchLevels(leaves) ==
    LET level[k \in 0..Len(leaves)] == IF k = 0 THEN leaves ELSE LevelAbove(level[k - 1])
        height == CHOOSE h \in 0..Len(leaves) :
                     Len(level[h]) = 1 /\ \A g \in 0..(h - 1) : Len(level[g]) > 1
    IN  [k \in 1..(height + 1) |-> level[k - 1]]

BatchRoot(leaves) == Last(BatchLevels(leaves))[1]

(* The proof buildBatch makes for leaf i: going up, its sibling on every   *)
(* level that has one.                                                     *)
BatchPath(leaves, i) ==
    LET levels == BatchLevels(leaves)
        Sibling(x) == IF x % 2 = 0 THEN x + 1 ELSE x - 1
        up[k \in 0..(Len(levels) - 1)] ==
            IF k = 0 THEN [idx |-> i, path |-> <<>>]
            ELSE LET x == up[k - 1].idx
                 IN  [idx  |-> x \div 2,
                      path |-> IF Sibling(x) < Len(levels[k])
                               THEN Append(up[k - 1].path, levels[k][Sibling(x) + 1])
                               ELSE up[k - 1].path]
    IN  up[Len(levels) - 1].path

(* verifyInclusion of merkle.ts: on which side the sibling of leaf p[1] of *)
(* p[2] is on each level that has one.                                     *)
BatchSides[p \in Nat \X Nat] ==
    IF p[2] <= 1 THEN <<>>
    ELSE (IF p[1] = p[2] - 1 /\ p[2] % 2 = 1 THEN <<>>
          ELSE IF p[1] % 2 = 0 THEN <<"right">> ELSE <<"left">>)
         \o BatchSides[<<p[1] \div 2, (p[2] + 1) \div 2>>]

VerifyBatchInclusion(leaf, i, n, path, root) ==
    /\ n >= 1 /\ 0 <= i /\ i < n
    /\ Len(path) = Len(BatchSides[<<i, n>>])
    /\ Combined(leaf, BatchSides[<<i, n>>], path) = root
=============================================================================
