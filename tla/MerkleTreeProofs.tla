--------------------------- MODULE MerkleTreeProofs ---------------------------
(***************************************************************************)
(* Proofs about MerkleTree, for logs of any length.  Its recursive         *)
(* functions are defined: each is made of its values of lower rank.  By    *)
(* induction on the length of a range, an inclusion proof combines to the  *)
(* root exactly with the leaf it was made for; a consistency proof is      *)
(* accepted between two roots of one log, and nothing between a head and a *)
(* log it is no head of; and the batch's levels, paths and verifier are    *)
(* those of the recursive tree, by going up level by level.  At the end:   *)
(* whatever sides a verifier climbs, only an entry with its own path lands *)
(* on the root.                                                            *)
(***************************************************************************)
EXTENDS MerkleTree, SequenceTheorems, WellFoundedInduction, TLAPS

(* Induction over the naturals, of a set.                                  *)
LEMMA SetInduction ==
    ASSUME NEW S \in SUBSET Nat, 0 \in S, \A n \in S : n + 1 \in S
    PROVE  S = Nat
<1> DEFINE R == OpToRel(<, Nat)
<1> DEFINE T == Nat \ S
<1>1. IsWellFoundedOn(R, Nat)
  BY NatLessThanWellFounded
<1>2. \A n, m \in Nat : n < m => <<n, m>> \in R
  BY DEF OpToRel
<1> HIDE DEF R
<1>3. SUFFICES ASSUME T # {} PROVE FALSE
  OBVIOUS
<1>4. PICK m \in T : \A n \in T : ~(<<n, m>> \in R)
  BY <1>1, <1>3, WFMin
<1>5. m \in Nat /\ m # 0 /\ m - 1 \in Nat /\ m - 1 < m
  BY <1>4
<1>6. m - 1 \in S
  BY <1>2, <1>4, <1>5
<1>7. (m - 1) + 1 \in S
  BY <1>6
<1> QED
  BY <1>4, <1>5, <1>7

(* A set of naturals has a least element.                                  *)
LEMMA Least ==
    ASSUME NEW S \in SUBSET Nat, NEW a \in S
    PROVE  \E m \in S : \A x \in S : m <= x
<1> DEFINE T == {m \in Nat : \A x \in S : m <= x}
<1>1. CASE \A m \in T : m + 1 \in T
  <2>1. 0 \in T /\ T \in SUBSET Nat
    OBVIOUS
  <2> HIDE DEF T
  <2>2. T = Nat
    BY <1>1, <2>1, SetInduction
  <2>3. a + 1 \in T
    BY <2>2
  <2> QED
    BY <2>3 DEF T
<1>2. CASE ~(\A m \in T : m + 1 \in T)
  <2>1. PICK m \in T : m + 1 \notin T
    BY <1>2
  <2>2. PICK x \in S : ~(m + 1 <= x)
    BY <2>1
  <2>3. m <= x /\ m \in Nat /\ x \in Nat
    BY <2>1
  <2>4. x = m
    BY <2>2, <2>3
  <2> QED
    BY <2>1, <2>4
<1> QED
  BY <1>1, <1>2
-----------------------------------------------------------------------------
(* The roots one level up, by what the level does with the proof node y.   *)
Joined(t, level, y) ==
    [old |-> IF level = "both" THEN hashNode(y, t.old) ELSE t.old,
     new |-> IF level = "both" THEN hashNode(y, t.new) ELSE hashNode(t.new, y)]

Sibling(x) == IF x % 2 = 0 THEN x + 1 ELSE x - 1

(* What the recursive functions of MerkleTree over pairs, levels and       *)
(* subtrees, and the sum over a set, are at p, of a function f of what is  *)
(* below p.                                                                *)
Turn(kind, a, b, c, f, p) ==
    CASE kind = "split" -> IF 2 * p < a THEN f[2 * p] ELSE p
      [] kind = "ascended" -> IF p[1] % 2 = 1 THEN f[Halved(p)] ELSE p
      [] kind = "levels"   ->
            IF p[1] > 0
            THEN (IF p[1] % 2 = 1 THEN <<"both">> ELSE IF p[1] < p[2] THEN <<"second">> ELSE <<>>)
                 \o f[Halved(p)]
            ELSE IF p[2] > 0 THEN <<"second">> \o f[Halved(p)] ELSE <<>>
      [] kind = "recomputed" ->
            IF p = 0 THEN [old |-> a, new |-> a] ELSE Joined(f[p - 1], b[p], c[p])
      [] kind = "subproof" ->
            IF b = p[1][2] THEN IF p[2] THEN <<>> ELSE <<RootOf(a, p[1][1], p[1][2])>>
            ELSE IF b <= Middle(p[1])
            THEN Append(f[<<Left(p[1]), p[2]>>], RootOf(a, Middle(p[1]), p[1][2]))
            ELSE Append(f[<<Right(p[1]), FALSE>>], RootOf(a, p[1][1], Middle(p[1])))
      [] kind = "batch levels" -> IF p = 0 THEN a ELSE LevelAbove(f[p - 1])
      [] kind = "batch path" ->
            IF p = 0 THEN [idx |-> a, path |-> <<>>]
            ELSE [idx  |-> f[p - 1].idx \div 2,
                  path |-> IF Sibling(f[p - 1].idx) < Len(b[p])
                           THEN Append(f[p - 1].path, b[p][Sibling(f[p - 1].idx) + 1])
                           ELSE f[p - 1].path]
      [] kind = "batch sides" ->
            IF p[2] <= 1 THEN <<>>
            ELSE (IF p[1] = p[2] - 1 /\ p[2] % 2 = 1 THEN <<>>
                  ELSE IF p[1] % 2 = 0 THEN <<"right">> ELSE <<"left">>)
                 \o f[<<p[1] \div 2, (p[2] + 1) \div 2>>]
      [] kind = "sum" ->
            IF p = {} THEN 0 ELSE LET x == CHOOSE x \in p : TRUE IN a[x] + f[p \ {x}]

Equal(kind, a, b, c, f, g, p) == Turn(kind, a, b, c, f, p) = Turn(kind, a, b, c, g, p)

(* A function's values are made of its values of lower rank only.          *)
Ranked(kind, a, b, c, Dom, rank) ==
    /\ rank \in [Dom -> Nat]
    /\ \A p \in Dom : \A f, g :
          (\A q \in Dom : rank[q] < rank[p] => f[q] = g[q]) => Equal(kind, a, b, c, f, g, p)

Solves(kind, a, b, c, Dom, f) == f = [p \in Dom |-> Turn(kind, a, b, c, f, p)]

(* Then there is such a function.                                          *)
LEMMA Recursion ==
    ASSUME NEW kind, NEW a, NEW b, NEW c, NEW Dom, NEW rank, Ranked(kind, a, b, c, Dom, rank)
    PROVE  \E f : Solves(kind, a, b, c, Dom, f)
<1> DEFINE Step(f, p) == Turn(kind, a, b, c, f, p)
           Good(m, f) == \A p \in Dom : rank[p] <= m => f[p] = Step(f, p)
<1>0. \A p \in Dom : rank[p] \in Nat
  BY DEF Ranked
<1>1. \A p \in Dom : \A f, g :
         (\A q \in Dom : rank[q] < rank[p] => f[q] = g[q]) => Step(f, p) = Step(g, p)
  BY DEF Equal, Ranked
<1> HIDE DEF Step
<1> DEFINE Agree(m) == \A f, g : Good(m, f) /\ Good(m, g) =>
                          \A p \in Dom : rank[p] <= m => f[p] = g[p]
           S == {m \in Nat : Agree(m)}
<1>2. 0 \in S
  <2>1. ASSUME NEW f, NEW g, Good(0, f), Good(0, g), NEW p \in Dom, rank[p] <= 0
        PROVE  f[p] = g[p]
    <3>1. \A q \in Dom : ~(rank[q] < rank[p])
      BY <1>0, <2>1
    <3>2. Step(f, p) = Step(g, p)
      BY <1>1, <3>1
    <3> QED
      BY <2>1, <3>2
  <2> HIDE DEF Good
  <2> QED
    BY <2>1
<1>3. ASSUME NEW m \in S PROVE m + 1 \in S
  <2>0. m \in Nat /\ m + 1 \in Nat /\ Agree(m)
    BY <1>3
  <2>1. ASSUME NEW f, NEW g, Good(m + 1, f), Good(m + 1, g), NEW p \in Dom, rank[p] <= m + 1
        PROVE  f[p] = g[p]
    <3>1. Good(m, f) /\ Good(m, g)
      BY <1>0, <2>0, <2>1
    <3>2. \A q \in Dom : rank[q] <= m => f[q] = g[q]
      <4> HIDE DEF Good
      <4> QED
        BY <2>0, <3>1
    <3>3. \A q \in Dom : rank[q] < rank[p] => rank[q] <= m
      BY <1>0, <2>0, <2>1
    <3>4. Step(f, p) = Step(g, p)
      BY <1>1, <3>2, <3>3
    <3> QED
      BY <2>1, <3>4
  <2> HIDE DEF Good
  <2>2. Agree(m + 1)
    BY <2>1
  <2> QED
    BY <2>0, <2>2
<1>4. \A m \in Nat : Agree(m)
  <2> HIDE DEF Agree
  <2>1. S \in SUBSET Nat
    OBVIOUS
  <2> HIDE DEF S
  <2>2. S = Nat
    BY <1>2, <1>3, <2>1, SetInduction
  <2> QED
    BY <2>2 DEF S
<1> DEFINE T == {m \in Nat : \E f : Good(m, f)}
<1>5. 0 \in T
  <2> DEFINE f == [p \in Dom |-> Step(<<>>, p)]
  <2>1. \A p \in Dom : f[p] = Step(<<>>, p)
    OBVIOUS
  <2> HIDE DEF f
  <2>2. ASSUME NEW p \in Dom, rank[p] <= 0 PROVE f[p] = Step(f, p)
    <3>1. \A q \in Dom : ~(rank[q] < rank[p])
      BY <1>0, <2>2
    <3>2. Step(<<>>, p) = Step(f, p)
      BY <1>1, <3>1
    <3> QED
      BY <2>1, <3>2
  <2>3. Good(0, f)
    BY <2>2
  <2> HIDE DEF Good
  <2> QED
    BY <2>3
<1>6. ASSUME NEW m \in T PROVE m + 1 \in T
  <2>0. m \in Nat /\ m + 1 \in Nat
    BY <1>6
  <2>1. PICK f : Good(m, f)
    BY <1>6
  <2> DEFINE g == [p \in Dom |-> IF rank[p] <= m THEN f[p] ELSE Step(f, p)]
  <2>2. \A p \in Dom : g[p] = IF rank[p] <= m THEN f[p] ELSE Step(f, p)
    OBVIOUS
  <2> HIDE DEF g
  <2>3. ASSUME NEW p \in Dom, rank[p] <= m + 1 PROVE g[p] = Step(g, p)
    <3>1. \A q \in Dom : rank[q] < rank[p] => g[q] = f[q]
      <4>1. \A q \in Dom : rank[q] < rank[p] => rank[q] <= m
        BY <1>0, <2>0, <2>3
      <4> QED
        BY <2>2, <4>1
    <3>2. Step(g, p) = Step(f, p)
      BY <1>1, <3>1
    <3> QED
      BY <2>1, <2>2, <3>2
  <2>4. Good(m + 1, g)
    BY <2>3
  <2> HIDE DEF Good
  <2> QED
    BY <2>0, <2>4
<1>7. \A m \in Nat : \E f : Good(m, f)
  <2> HIDE DEF Good
  <2>1. T \in SUBSET Nat
    OBVIOUS
  <2> HIDE DEF T
  <2>2. T = Nat
    BY <1>5, <1>6, <2>1, SetInduction
  <2> QED
    BY <2>2 DEF T
<1> DEFINE part(m) == CHOOSE f : Good(m, f)
           whole == [p \in Dom |-> part(rank[p])[p]]
<1>8. \A m \in Nat : Good(m, part(m))
  <2> HIDE DEF Good
  <2> QED
    BY <1>7
<1>9. \A p \in Dom : whole[p] = part(rank[p])[p]
  OBVIOUS
<1>10. whole = [p \in Dom |-> whole[p]]
  OBVIOUS
<1> HIDE DEF part, whole
<1>11. ASSUME NEW p \in Dom PROVE whole[p] = Step(whole, p)
  <2>1. Good(rank[p], part(rank[p]))
    BY <1>0, <1>8
  <2>2. ASSUME NEW q \in Dom, rank[q] < rank[p] PROVE whole[q] = part(rank[p])[q]
    <3>1. Good(rank[q], part(rank[p]))
      BY <1>0, <2>1, <2>2
    <3>2. Good(rank[q], part(rank[q]))
      BY <1>0, <1>8
    <3>3. Agree(rank[q]) /\ rank[q] <= rank[q]
      BY <1>0, <1>4
    <3>4. part(rank[q])[q] = part(rank[p])[q]
      <4> HIDE DEF Good
      <4> QED
        BY <3>1, <3>2, <3>3
    <3> QED
      BY <1>9, <3>4
  <2>3. Step(whole, p) = Step(part(rank[p]), p)
    BY <1>1, <2>2
  <2>4. part(rank[p])[p] = Step(part(rank[p]), p)
    BY <1>0, <2>1
  <2> QED
    BY <1>9, <2>3, <2>4
<1>12. whole = [p \in Dom |-> Step(whole, p)]
  BY <1>10, <1>11
<1> QED
  BY <1>12 DEF Step, Solves
-----------------------------------------------------------------------------
(* Powers of two, as the code finds them: by doubling from 1.              *)
IsPower(k) == \A S \in SUBSET Nat : 1 \in S /\ (\A x \in S : 2 * x \in S) => k \in S

LEMMA PowerIsNat ==
    ASSUME NEW k, IsPower(k)
    PROVE  k \in Nat /\ k >= 1
<1> DEFINE S == {x \in Nat : x >= 1}
<1>1. S \in SUBSET Nat /\ 1 \in S /\ \A x \in S : 2 * x \in S
  OBVIOUS
<1> HIDE DEF S
<1>2. k \in S
  BY <1>1 DEF IsPower
<1> QED
  BY <1>2 DEF S

LEMMA OneIsPower == IsPower(1)
BY DEF IsPower

LEMMA DoubleIsPower ==
    ASSUME NEW k, IsPower(k)
    PROVE  IsPower(2 * k)
BY DEF IsPower

LEMMA PowerCases ==
    ASSUME NEW k, IsPower(k)
    PROVE  k = 1 \/ \E j : IsPower(j) /\ k = 2 * j
<1> DEFINE S == {x \in Nat : IsPower(x) /\ (x = 1 \/ \E j : IsPower(j) /\ x = 2 * j)}
<1>1. S \in SUBSET Nat /\ 1 \in S
  BY OneIsPower
<1>2. ASSUME NEW x \in S PROVE 2 * x \in S
  BY DoubleIsPower
<1> HIDE DEF S
<1>3. k \in S
  BY <1>1, <1>2 DEF IsPower
<1> QED
  BY <1>3 DEF S

LEMMA PowersApart ==
    ASSUME NEW k, IsPower(k), NEW j, IsPower(j), j < k
    PROVE  2 * j <= k
<1> DEFINE Apart(x) == \A i : IsPower(i) /\ i < x => 2 * i <= x
           S == {x \in Nat : x >= 1 /\ Apart(x)}
<1>1. S \in SUBSET Nat
  OBVIOUS
<1>2. 1 \in S
  BY PowerIsNat
<1>3. ASSUME NEW x \in S PROVE 2 * x \in S
  <2>0. x \in Nat /\ x >= 1 /\ Apart(x)
    OBVIOUS
  <2>1. ASSUME NEW i, IsPower(i), i < 2 * x PROVE 2 * i <= 2 * x
    <3>1. CASE i = 1
      BY <2>0, <3>1
    <3>2. CASE \E h : IsPower(h) /\ i = 2 * h
      <4>1. PICK h : IsPower(h) /\ i = 2 * h
        BY <3>2
      <4>2. h \in Nat /\ h < x
        BY <2>0, <2>1, <4>1, PowerIsNat
      <4>3. 2 * h <= x
        BY <2>0, <4>1, <4>2
      <4> QED
        BY <2>0, <4>1, <4>2, <4>3
    <3> QED
      BY <2>1, <3>1, <3>2, PowerCases
  <2> QED
    BY <2>0, <2>1
<1> HIDE DEF S
<1>4. k \in S
  BY <1>1, <1>2, <1>3 DEF IsPower
<1> QED
  BY <1>4 DEF S

(* Split(n) is the one power of two with n above it and up to its double.  *)
LEMMA SplitTable ==
    ASSUME NEW n \in Nat, n >= 2
    PROVE  \E d : Split(n) = d[1] /\ \A k \in 1..n : d[k] = IF 2 * k < n THEN d[2 * k] ELSE k
<1> DEFINE rank == [k \in 1..n |-> n - k]
<1>1. rank \in [1..n -> Nat] /\ \A k \in 1..n : rank[k] = n - k
  OBVIOUS
<1> HIDE DEF rank
<1>2. ASSUME NEW k \in 1..n, NEW f, NEW g,
             \A q \in 1..n : rank[q] < rank[k] => f[q] = g[q]
      PROVE  Equal("split", n, n, n, f, g, k)
  <2>1. 2 * k < n => 2 * k \in 1..n /\ rank[2 * k] < rank[k]
    BY <1>1
  <2> QED
    BY <1>2, <2>1 DEF Equal, Turn
<1>3. Ranked("split", n, n, n, 1..n, rank)
  BY <1>1, <1>2 DEF Ranked
<1>4. PICK f : Solves("split", n, n, n, 1..n, f)
  BY <1>3, Recursion
<1> DEFINE Is(d) == d = [k \in 1..n |-> IF 2 * k < n THEN d[2 * k] ELSE k]
<1>5. \A k : Turn("split", n, n, n, f, k) = IF 2 * k < n THEN f[2 * k] ELSE k
  BY DEF Turn
<1>6. Is(f)
  BY <1>4, <1>5 DEF Solves
<1> DEFINE d == CHOOSE e : Is(e)
<1>7. Is(d)
  BY <1>6
<1>8. Split(n) = d[1]
  BY DEF Split
<1> HIDE DEF d
<1>9. \A k \in 1..n : d[k] = IF 2 * k < n THEN d[2 * k] ELSE k
  BY <1>7
<1> QED
  BY <1>8, <1>9

LEMMA SplitIsPower ==
    ASSUME NEW n \in Nat, n >= 2
    PROVE  IsPower(Split(n)) /\ Split(n) < n /\ n <= 2 * Split(n)
<1>1. PICK d : Split(n) = d[1] /\ \A k \in 1..n : d[k] = IF 2 * k < n THEN d[2 * k] ELSE k
  BY SplitTable
<1> DEFINE Ends(k) == IsPower(d[k]) /\ d[k] < n /\ n <= 2 * d[k]
           T == {m \in Nat : \A k \in 1..(n - 1) : n - k <= m /\ IsPower(k) => Ends(k)}
<1>2. 0 \in T
  OBVIOUS
<1>3. ASSUME NEW m \in T PROVE m + 1 \in T
  <2>0. m \in Nat /\ \A k \in 1..(n - 1) : n - k <= m /\ IsPower(k) => Ends(k)
    OBVIOUS
  <2> HIDE DEF T
  <2>1. ASSUME NEW k \in 1..(n - 1), n - k <= m + 1, IsPower(k) PROVE Ends(k)
    <3>1. k \in 1..n /\ d[k] = IF 2 * k < n THEN d[2 * k] ELSE k
      BY <1>1
    <3>2. CASE 2 * k < n
      <4>1. 2 * k \in 1..(n - 1) /\ n - 2 * k <= m /\ IsPower(2 * k)
        BY <2>0, <2>1, <3>2, DoubleIsPower
      <4>2. Ends(2 * k)
        BY <2>0, <4>1
      <4> QED
        BY <3>1, <3>2, <4>2
    <3>3. CASE ~(2 * k < n)
      BY <2>1, <3>1, <3>3
    <3> QED
      BY <3>2, <3>3
  <2> HIDE DEF Ends
  <2> QED
    BY <2>0, <2>1 DEF T
<1>4. T = Nat
  <2>1. T \in SUBSET Nat
    OBVIOUS
  <2> HIDE DEF T
  <2> QED
    BY <1>2, <1>3, <2>1, SetInduction
<1>5. n - 1 \in Nat /\ n - 1 \in T
  BY <1>4
<1>6. Ends(1)
  <2>1. 1 \in 1..(n - 1) /\ n - 1 <= n - 1
    OBVIOUS
  <2> HIDE DEF Ends
  <2> QED
    BY <1>5, <2>1, OneIsPower DEF T
<1> QED
  BY <1>1, <1>6

LEMMA SplitIs ==
    ASSUME NEW n \in Nat, NEW k, IsPower(k), k < n, n <= 2 * k
    PROVE  Split(n) = k
<1>1. k \in Nat /\ k >= 1 /\ n >= 2
  BY PowerIsNat
<1>2. IsPower(Split(n)) /\ Split(n) < n /\ n <= 2 * Split(n) /\ Split(n) \in Nat
  BY <1>1, SplitIsPower, PowerIsNat
<1>3. ~(k < Split(n)) /\ ~(Split(n) < k)
  BY <1>1, <1>2, PowersApart
<1> QED
  BY <1>1, <1>2, <1>3

(* The loop that doubles k ends below n.                                   *)
LEMMA SplitInside ==
    ASSUME NEW n \in Nat, n >= 2
    PROVE  Split(n) \in 1..(n - 1)
<1>1. IsPower(Split(n)) /\ Split(n) < n
  BY SplitIsPower
<1>2. Split(n) \in Nat /\ Split(n) >= 1
  BY <1>1, PowerIsNat
<1> QED
  BY <1>1, <1>2
-----------------------------------------------------------------------------
(* Ranges of entries, and that the functions over them are defined.        *)

LEMMA SizeType ==
    ASSUME NEW L \in Nat, NEW r \in Ranges(L)
    PROVE  Size(r) \in Int /\ Size(r) <= L
BY DEF Ranges, Size

LEMMA HalvesInside ==
    ASSUME NEW L \in Nat, NEW r \in Ranges(L), ~(Size(r) <= 1)
    PROVE  /\ Left(r) \in Ranges(L) /\ Right(r) \in Ranges(L)
           /\ Size(Left(r)) \in Nat /\ 1 <= Size(Left(r)) /\ Size(Left(r)) < Size(r)
           /\ Size(Right(r)) \in Nat /\ 1 <= Size(Right(r)) /\ Size(Right(r)) < Size(r)
           /\ Left(r)[1] = r[1] /\ Left(r)[2] = Right(r)[1] /\ Right(r)[2] = r[2]
<1>1. r[1] \in 0..L /\ r[2] \in 0..L /\ Size(r) = r[2] - r[1]
  BY DEF Ranges, Size
<1>2. Size(r) \in Nat /\ Size(r) >= 2
  BY <1>1
<1> DEFINE k == Split(Size(r))
<1>3. k \in 1..(Size(r) - 1)
  BY <1>2, SplitInside
<1>4. Left(r) = <<r[1], r[1] + k>> /\ Right(r) = <<r[1] + k, r[2]>>
  BY DEF Left, Right, Middle
<1> HIDE DEF k
<1>5. r[1] + k \in 0..L /\ r[1] < r[1] + k /\ r[1] + k < r[2]
  BY <1>1, <1>3
<1> QED
  BY <1>1, <1>4, <1>5 DEF Ranges, Size

(* Induction over ranges, of a set of them.                                *)
LEMMA RangeInduction ==
    ASSUME NEW n \in Nat, NEW T,
           \A r \in Ranges(n) : Size(r) = 1 => r \in T,
           \A r \in Ranges(n) : Size(r) >= 2 /\ Left(r) \in T /\ Right(r) \in T => r \in T
    PROVE  \A r \in Ranges(n) : 1 <= Size(r) => r \in T
<1> DEFINE S == {l \in Nat : \A r \in Ranges(n) : 1 <= Size(r) /\ Size(r) <= l => r \in T}
<1>0. \A r \in Ranges(n) : Size(r) \in Int /\ Size(r) <= n
  BY SizeType
<1>1. 0 \in S
  BY <1>0
<1>2. ASSUME NEW l \in S PROVE l + 1 \in S
  <2>0. l \in Nat /\ \A r \in Ranges(n) : 1 <= Size(r) /\ Size(r) <= l => r \in T
    OBVIOUS
  <2> HIDE DEF S
  <2>1. ASSUME NEW r \in Ranges(n), 1 <= Size(r), Size(r) <= l + 1 PROVE r \in T
    <3>1. CASE Size(r) = 1
      BY <3>1
    <3>2. CASE Size(r) # 1
      <4>1. Size(r) >= 2 /\ ~(Size(r) <= 1)
        BY <1>0, <2>1, <3>2
      <4>2. /\ Left(r) \in Ranges(n) /\ 1 <= Size(Left(r)) /\ Size(Left(r)) < Size(r)
            /\ Right(r) \in Ranges(n) /\ 1 <= Size(Right(r)) /\ Size(Right(r)) < Size(r)
        BY <4>1, HalvesInside
      <4>3. Size(Left(r)) <= l /\ Size(Right(r)) <= l
        BY <1>0, <2>0, <2>1, <4>2
      <4> QED
        BY <2>0, <4>1, <4>2, <4>3
    <3> QED
      BY <3>1, <3>2
  <2> QED
    BY <2>0, <2>1 DEF S
<1>3. S = Nat
  <2>1. S \in SUBSET Nat
    OBVIOUS
  <2> HIDE DEF S
  <2> QED
    BY <1>1, <1>2, <2>1, SetInduction
<1> QED
  BY <1>0, <1>3

(* What the three functions of MerkleTree over ranges are at a range: the  *)
(* roots of D, the siblings of entry i, and the sides they are on.         *)
Row(kind, D, i, f, r) ==
    IF kind = "root"
    THEN IF Size(r) <= 1 THEN D[r[2]] ELSE hashNode(f[Left(r)], f[Right(r)])
    ELSE IF Size(r) <= 1 THEN <<>>
    ELSE IF kind = "path"
    THEN IF i < Middle(r) THEN Append(f[Left(r)], RootOf(D, Middle(r), r[2]))
         ELSE Append(f[Right(r)], RootOf(D, r[1], Middle(r)))
    ELSE IF i < Middle(r) THEN Append(f[Left(r)], "right") ELSE Append(f[Right(r)], "left")

IsTable(kind, D, i, L, f) == f = [r \in Ranges(L) |-> Row(kind, D, i, f, r)]

(* They are defined: every range is longer than its halves.                *)
LEMMA TableExists ==
    ASSUME NEW kind, NEW D, NEW i, NEW L \in Nat
    PROVE  \E f : IsTable(kind, D, i, L, f)
<1> DEFINE Value(f, r) == Row(kind, D, i, f, r)
           UpTo(m) == \E f : /\ f = [r \in Ranges(L) |-> f[r]]
                             /\ \A r \in Ranges(L) : Size(r) <= m + 1 => f[r] = Value(f, r)
           S == {m \in Nat : UpTo(m)}
<1>1. \A f, g, r : \/ Size(r) <= 1
                   \/ g[Left(r)] = f[Left(r)] /\ g[Right(r)] = f[Right(r)]
                   => Value(g, r) = Value(f, r)
  BY DEF Row
<1> HIDE DEF Value
<1>2. 0 \in S
  <2> DEFINE f == [r \in Ranges(L) |-> Value(<<>>, r)]
  <2>1. f = [r \in Ranges(L) |-> f[r]] /\ \A r \in Ranges(L) : f[r] = Value(<<>>, r)
    OBVIOUS
  <2> HIDE DEF f
  <2>2. \A r \in Ranges(L) : Size(r) <= 0 + 1 => f[r] = Value(f, r)
    BY <1>1, <2>1
  <2> QED
    BY <2>1, <2>2
<1>3. ASSUME NEW m \in S PROVE m + 1 \in S
  <2>1. PICK f : /\ f = [r \in Ranges(L) |-> f[r]]
                 /\ \A r \in Ranges(L) : Size(r) <= m + 1 => f[r] = Value(f, r)
    BY <1>3
  <2>2. m \in Nat
    OBVIOUS
  <2> DEFINE g == [r \in Ranges(L) |-> IF Size(r) = m + 2 THEN Value(f, r) ELSE f[r]]
  <2>3. g = [r \in Ranges(L) |-> g[r]]
    OBVIOUS
  <2>4. \A r \in Ranges(L) : g[r] = IF Size(r) = m + 2 THEN Value(f, r) ELSE f[r]
    OBVIOUS
  <2> HIDE DEF g
  <2>5. \A r \in Ranges(L) : Size(r) <= m + 1 => g[r] = f[r]
    BY <2>2, <2>4, SizeType
  <2>6. ASSUME NEW r \in Ranges(L), Size(r) <= m + 2 PROVE g[r] = Value(g, r)
    <3>1. Value(g, r) = Value(f, r)
      <4>1. CASE ~(Size(r) <= 1)
        <5>1. /\ Left(r) \in Ranges(L) /\ Size(Left(r)) <= m + 1
              /\ Right(r) \in Ranges(L) /\ Size(Right(r)) <= m + 1
          <6>1. /\ Left(r) \in Ranges(L) /\ Size(Left(r)) \in Nat /\ Size(Left(r)) < Size(r)
                /\ Right(r) \in Ranges(L) /\ Size(Right(r)) \in Nat /\ Size(Right(r)) < Size(r)
            BY <4>1, HalvesInside
          <6>2. Size(r) \in Int
            BY SizeType
          <6> QED
            BY <2>2, <2>6, <6>1, <6>2
        <5> QED
          BY <1>1, <2>5, <5>1
      <4> QED
        BY <1>1, <4>1
    <3>2. CASE Size(r) = m + 2
      BY <2>4, <3>1, <3>2
    <3>3. CASE Size(r) <= m + 1
      BY <2>1, <2>5, <3>1, <3>3
    <3> QED
      BY <2>2, <2>6, <3>2, <3>3, SizeType
  <2>7. \A r \in Ranges(L) : Size(r) <= (m + 1) + 1 => g[r] = Value(g, r)
    BY <2>2, <2>6
  <2> QED
    BY <2>2, <2>3, <2>7
<1>4. L \in S
  <2> HIDE DEF S
  <2>1. S \in SUBSET Nat
    BY DEF S
  <2> QED
    BY <1>2, <1>3, <2>1, SetInduction
<1>5. PICK f : /\ f = [r \in Ranges(L) |-> f[r]]
               /\ \A r \in Ranges(L) : Size(r) <= L + 1 => f[r] = Value(f, r)
  BY <1>4
<1>6. \A r \in Ranges(L) : f[r] = Value(f, r)
  BY <1>5, SizeType
<1>7. f = [r \in Ranges(L) |-> Value(f, r)]
  BY <1>5, <1>6
<1> QED
  BY <1>7 DEF Value, IsTable

(* The functions themselves.                                               *)
AreRoots(D, f) ==
    f = [r \in Ranges(Len(D)) |->
            IF Size(r) <= 1 THEN D[r[2]] ELSE hashNode(f[Left(r)], f[Right(r)])]

ArePaths(D, i, n, f) ==
    f = [r \in Ranges(n) |->
            IF Size(r) <= 1 THEN <<>>
            ELSE IF i < Middle(r) THEN Append(f[Left(r)], RootOf(D, Middle(r), r[2]))
            ELSE Append(f[Right(r)], RootOf(D, r[1], Middle(r)))]

AreSides(i, n, f) ==
    f = [r \in Ranges(n) |->
            IF Size(r) <= 1 THEN <<>>
            ELSE IF i < Middle(r) THEN Append(f[Left(r)], "right")
            ELSE Append(f[Right(r)], "left")]

Roots(D)      == CHOOSE f : AreRoots(D, f)
PathIn(D, i, n) == CHOOSE f : ArePaths(D, i, n, f)
SidesIn(i, n) == CHOOSE f : AreSides(i, n, f)

LEMMA TablesDefined ==
    ASSUME NEW D, Len(D) \in Nat, NEW i, NEW n \in Nat
    PROVE  /\ AreRoots(D, Roots(D))
           /\ ArePaths(D, i, n, PathIn(D, i, n))
           /\ AreSides(i, n, SidesIn(i, n))
<1>1. \E f : AreRoots(D, f)
  <2>1. PICK f : IsTable("root", D, i, Len(D), f)
    BY TableExists
  <2>2. \A r : Row("root", D, i, f, r)
                  = IF Size(r) <= 1 THEN D[r[2]] ELSE hashNode(f[Left(r)], f[Right(r)])
    BY DEF Row
  <2>3. AreRoots(D, f)
    BY <2>1, <2>2 DEF IsTable, AreRoots
  <2> QED
    BY <2>3
<1>2. \E f : ArePaths(D, i, n, f)
  <2>1. PICK f : IsTable("path", D, i, n, f)
    BY TableExists
  <2>2. \A r : Row("path", D, i, f, r)
                  = IF Size(r) <= 1 THEN <<>>
                    ELSE IF i < Middle(r) THEN Append(f[Left(r)], RootOf(D, Middle(r), r[2]))
                    ELSE Append(f[Right(r)], RootOf(D, r[1], Middle(r)))
    BY DEF Row
  <2>3. ArePaths(D, i, n, f)
    BY <2>1, <2>2 DEF IsTable, ArePaths
  <2> QED
    BY <2>3
<1>3. \E f : AreSides(i, n, f)
  <2>1. PICK f : IsTable("side", D, i, n, f)
    BY TableExists
  <2>2. \A r : Row("side", D, i, f, r)
                  = IF Size(r) <= 1 THEN <<>>
                    ELSE IF i < Middle(r) THEN Append(f[Left(r)], "right")
                    ELSE Append(f[Right(r)], "left")
    BY DEF Row
  <2>3. AreSides(i, n, f)
    BY <2>1, <2>2 DEF IsTable, AreSides
  <2> QED
    BY <2>3
<1> QED
  BY <1>1, <1>2, <1>3 DEF Roots, PathIn, SidesIn

(* The model's operators are these functions' values at the whole range.   *)
LEMMA TablesUsed ==
    ASSUME NEW D, NEW i, NEW n
    PROVE  /\ \A s, e : RootOf(D, s, e) = IF e = s THEN EmptyRoot ELSE Roots(D)[<<s, e>>]
           /\ InclusionPath(D, i, n) = PathIn(D, i, n)[<<0, n>>]
           /\ Sides(i, n) = SidesIn(i, n)[<<0, n>>]
<1>1. \A s, e : RootOf(D, s, e) = IF e = s THEN EmptyRoot ELSE Roots(D)[<<s, e>>]
  BY DEF RootOf, Roots, AreRoots
<1>2. InclusionPath(D, i, n) = PathIn(D, i, n)[<<0, n>>]
  BY DEF InclusionPath, PathIn, ArePaths
<1>3. Sides(i, n) = SidesIn(i, n)[<<0, n>>]
  BY DEF Sides, SidesIn, AreSides
<1> QED
  BY <1>1, <1>2, <1>3
-----------------------------------------------------------------------------
(* What a leaf and its siblings combine to.                                *)
LEMMA Agreement ==
    ASSUME NEW n \in Nat, NEW u, NEW v, u[0] = v[0],
           \A j \in 1..n : u[j - 1] = v[j - 1] => u[j] = v[j]
    PROVE  u[n] = v[n]
<1> DEFINE S == {j \in Nat : j <= n => u[j] = v[j]}
<1>1. 0 \in S
  OBVIOUS
<1>2. ASSUME NEW j \in S PROVE j + 1 \in S
  <2>1. j + 1 <= n => j + 1 \in 1..n /\ (j + 1) - 1 = j
    OBVIOUS
  <2> QED
    BY <2>1
<1>3. n \in S
  <2> HIDE DEF S
  <2>1. S \in SUBSET Nat
    BY DEF S
  <2> QED
    BY <1>1, <1>2, <2>1, SetInduction
<1> QED
  BY <1>3

Above(h, side, sibling) == IF side = "right" THEN hashNode(h, sibling) ELSE hashNode(sibling, h)

LEMMA CombinedTable ==
    ASSUME NEW leaf, NEW sides, NEW path, NEW n \in Nat
    PROVE  \E up : up = [j \in 0..n |-> IF j = 0 THEN leaf ELSE Above(up[j - 1], sides[j], path[j])]
<1> DEFINE Value(up, j) == IF j = 0 THEN leaf ELSE Above(up[j - 1], sides[j], path[j])
<1> DEFINE UpTo(m) == \E up : /\ up = [j \in 0..n |-> up[j]]
                              /\ \A j \in 0..n : j <= m => up[j] = Value(up, j)
<1> DEFINE S == {m \in Nat : UpTo(m)}
<1>1. 0 \in S
  <2> DEFINE up == [j \in 0..n |-> leaf]
  <2>1. up = [j \in 0..n |-> up[j]] /\ \A j \in 0..n : j <= 0 => up[j] = Value(up, j)
    OBVIOUS
  <2> HIDE DEF up, Value
  <2> QED
    BY <2>1
<1>2. ASSUME NEW m \in S PROVE m + 1 \in S
  <2> HIDE DEF Value
  <2>1. PICK up : /\ up = [j \in 0..n |-> up[j]]
                  /\ \A j \in 0..n : j <= m => up[j] = Value(up, j)
    BY <1>2
  <2>2. m \in Nat
    OBVIOUS
  <2> DEFINE on == [j \in 0..n |-> IF j = m + 1 THEN Value(up, j) ELSE up[j]]
  <2>3. on = [j \in 0..n |-> on[j]] /\ \A j \in 0..n : on[j] = IF j = m + 1 THEN Value(up, j) ELSE up[j]
    OBVIOUS
  <2> HIDE DEF on
  <2>4. ASSUME NEW j \in 0..n, j <= m + 1 PROVE on[j] = Value(on, j)
    <3>1. Value(on, j) = Value(up, j)
      <4>1. j # 0 => j - 1 \in 0..n /\ j - 1 # m + 1
        BY <2>2, <2>4
      <4>2. j # 0 => on[j - 1] = up[j - 1]
        BY <2>3, <4>1
      <4> QED
        BY <4>2 DEF Value
    <3>2. CASE j = m + 1
      BY <2>3, <3>1, <3>2
    <3>3. CASE j <= m
      <4>1. j # m + 1
        BY <2>2, <3>3
      <4> QED
        BY <2>1, <2>3, <3>1, <3>3, <4>1
    <3> QED
      BY <2>2, <2>4, <3>2, <3>3
  <2> QED
    BY <2>2, <2>3, <2>4
<1>3. n \in S
  <2> HIDE DEF S
  <2>1. S \in SUBSET Nat
    BY DEF S
  <2> QED
    BY <1>1, <1>2, <2>1, SetInduction
<1> HIDE DEF Value
<1>4. PICK up : /\ up = [j \in 0..n |-> up[j]]
                /\ \A j \in 0..n : j <= n => up[j] = Value(up, j)
  BY <1>3
<1>5. up = [j \in 0..n |-> Value(up, j)]
  BY <1>4
<1> QED
  BY <1>5 DEF Value

(* The function Combined is the end of.                                    *)
Climb(leaf, sides, path) ==
    CHOOSE up : up = [j \in 0..Len(sides) |->
                        IF j = 0 THEN leaf ELSE Above(up[j - 1], sides[j], path[j])]

LEMMA ClimbIs ==
    ASSUME NEW leaf, NEW sides, Len(sides) \in Nat, NEW path
    PROVE  /\ Combined(leaf, sides, path) = Climb(leaf, sides, path)[Len(sides)]
           /\ Climb(leaf, sides, path)[0] = leaf
           /\ \A j \in 1..Len(sides) :
                 Climb(leaf, sides, path)[j]
                    = Above(Climb(leaf, sides, path)[j - 1], sides[j], path[j])
<1> DEFINE up == Climb(leaf, sides, path)
<1>1. Combined(leaf, sides, path) = up[Len(sides)]
  BY DEF Combined, Climb, Above
<1>2. Len(sides) \in Nat
  OBVIOUS
<1>3. up = [j \in 0..Len(sides) |-> IF j = 0 THEN leaf ELSE Above(up[j - 1], sides[j], path[j])]
  BY <1>2, CombinedTable DEF Climb
<1> HIDE DEF up
<1>4. up[0] = leaf /\ \A j \in 1..Len(sides) : up[j] = Above(up[j - 1], sides[j], path[j])
  BY <1>2, <1>3
<1> QED
  BY <1>1, <1>4 DEF up

(* One side more: the sibling on it is put next to what there was.         *)
LEMMA CombinedStep ==
    ASSUME NEW leaf, NEW A, NEW sides \in Seq(A), NEW x \in A, NEW path
    PROVE  Combined(leaf, Append(sides, x), path)
              = Above(Combined(leaf, sides, path), x, path[Len(sides) + 1])
<1> DEFINE more == Append(sides, x)
           u == Climb(leaf, more, path)
           v == Climb(leaf, sides, path)
           n == Len(sides)
<1>1. /\ more \in Seq(A) /\ n \in Nat /\ Len(more) = n + 1 /\ more[n + 1] = x
      /\ \A j \in 1..n : more[j] = sides[j]
  OBVIOUS
<1> HIDE DEF more
<1>2. /\ Combined(leaf, more, path) = u[n + 1] /\ u[0] = leaf
      /\ \A j \in 1..(n + 1) : u[j] = Above(u[j - 1], more[j], path[j])
  <2>1. Len(more) \in Nat
    BY <1>1
  <2>2. /\ Combined(leaf, more, path) = u[Len(more)] /\ u[0] = leaf
        /\ \A j \in 1..Len(more) : u[j] = Above(u[j - 1], more[j], path[j])
    BY <2>1, ClimbIs
  <2> HIDE DEF u, n
  <2> QED
    BY <1>1, <2>2
<1>3. /\ Combined(leaf, sides, path) = v[n] /\ v[0] = leaf
      /\ \A j \in 1..n : v[j] = Above(v[j - 1], sides[j], path[j])
  BY ClimbIs
<1> HIDE DEF u, v, n
<1>4. u[n] = v[n]
  <2>1. \A j \in 1..n : u[j - 1] = v[j - 1] => u[j] = v[j]
    <3>1. \A j \in 1..n : j \in 1..(n + 1)
      BY <1>1
    <3> QED
      BY <1>1, <1>2, <1>3, <3>1
  <2> QED
    BY <1>1, <1>2, <1>3, <2>1, Agreement
<1>5. u[n + 1] = Above(u[n], x, path[n + 1])
  <2>1. n + 1 \in 1..(n + 1) /\ (n + 1) - 1 = n
    BY <1>1
  <2> QED
    BY <1>1, <1>2, <2>1
<1> QED
  BY <1>2, <1>3, <1>4, <1>5 DEF more, n

LEMMA CombinedNone ==
    ASSUME NEW leaf, NEW path
    PROVE  Combined(leaf, <<>>, path) = leaf
<1>1. Len(<<>>) = 0
  OBVIOUS
<1>2. /\ Combined(leaf, <<>>, path) = Climb(leaf, <<>>, path)[Len(<<>>)]
      /\ Climb(leaf, <<>>, path)[0] = leaf
  BY <1>1, ClimbIs
<1> QED
  BY <1>1, <1>2

(* Siblings beyond the sides do not matter.                                *)
LEMMA CombinedPrefix ==
    ASSUME NEW leaf, NEW A, NEW sides \in Seq(A), NEW B, NEW path \in Seq(B), NEW y \in B,
           Len(path) = Len(sides)
    PROVE  Combined(leaf, sides, Append(path, y)) = Combined(leaf, sides, path)
<1> DEFINE more == Append(path, y)
           u == Climb(leaf, sides, more)
           v == Climb(leaf, sides, path)
           n == Len(sides)
<1>1. n \in Nat /\ \A j \in 1..n : more[j] = path[j]
  OBVIOUS
<1> HIDE DEF more
<1>2. /\ Combined(leaf, sides, more) = u[n] /\ u[0] = leaf
      /\ \A j \in 1..n : u[j] = Above(u[j - 1], sides[j], more[j])
  BY ClimbIs
<1>3. /\ Combined(leaf, sides, path) = v[n] /\ v[0] = leaf
      /\ \A j \in 1..n : v[j] = Above(v[j - 1], sides[j], path[j])
  BY ClimbIs
<1> HIDE DEF u, v, n
<1>4. \A j \in 1..n : u[j - 1] = v[j - 1] => u[j] = v[j]
  BY <1>1, <1>2, <1>3
<1>5. u[n] = v[n]
  BY <1>1, <1>2, <1>3, <1>4, Agreement
<1> QED
  BY <1>2, <1>3, <1>5 DEF more
-----------------------------------------------------------------------------
(* Roots of ranges.                                                        *)
RootIn(D, r) == RootOf(D, r[1], r[2])

LEMMA RootSplits ==
    ASSUME NEW D, Len(D) \in Nat, NEW r \in Ranges(Len(D)), 1 <= Size(r)
    PROVE  RootIn(D, r) = IF Size(r) <= 1 THEN D[r[2]]
                          ELSE hashNode(RootIn(D, Left(r)), RootIn(D, Right(r)))
<1> DEFINE L == Len(D)
           root == Roots(D)
<1>1. root = [q \in Ranges(L) |->
                 IF Size(q) <= 1 THEN D[q[2]] ELSE hashNode(root[Left(q)], root[Right(q)])]
  BY TablesDefined DEF AreRoots
<1>2. \A s, e : RootOf(D, s, e) = IF e = s THEN EmptyRoot ELSE root[<<s, e>>]
  BY TablesUsed
<1> HIDE DEF root, L
<1>3. ASSUME NEW q \in Ranges(L), 1 <= Size(q) PROVE RootIn(D, q) = root[q]
  <2>1. q[1] \in Nat /\ q[2] \in Nat /\ q = <<q[1], q[2]>> /\ q[1] # q[2]
    BY <1>3 DEF Ranges, Size, L
  <2> QED
    BY <1>2, <2>1 DEF RootIn
<1>4. r \in Ranges(L) /\ L \in Nat
  BY DEF L
<1>5. RootIn(D, r) = root[r]
  BY <1>3, <1>4
<1>6. CASE Size(r) <= 1
  BY <1>1, <1>4, <1>5, <1>6
<1>7. CASE ~(Size(r) <= 1)
  <2>1. /\ Left(r) \in Ranges(L) /\ 1 <= Size(Left(r))
        /\ Right(r) \in Ranges(L) /\ 1 <= Size(Right(r))
    BY <1>4, <1>7, HalvesInside
  <2>2. root[r] = hashNode(root[Left(r)], root[Right(r)])
    BY <1>1, <1>4, <1>7
  <2> QED
    BY <1>3, <1>5, <1>7, <2>1, <2>2
<1> QED
  BY <1>6, <1>7

(* The root of a range does not depend on what comes after it.             *)
LEMMA PrefixRoots ==
    ASSUME NEW E, NEW D \in Seq(E), NEW n \in 1..Len(D)
    PROVE  /\ Len(SubSeq(D, 1, n)) = n
           /\ \A r \in Ranges(n) : 1 <= Size(r) => RootIn(SubSeq(D, 1, n), r) = RootIn(D, r)
<1> DEFINE C == SubSeq(D, 1, n)
           T == {r \in Ranges(n) : RootIn(C, r) = RootIn(D, r)}
<1>1. /\ Len(D) \in Nat /\ n \in Nat /\ n <= Len(D) /\ Len(C) = n
      /\ \A j \in 1..n : C[j] = D[j]
  OBVIOUS
<1> HIDE DEF C
<1>2. \A r \in Ranges(n) : r \in Ranges(Len(C)) /\ r \in Ranges(Len(D))
  BY <1>1 DEF Ranges
<1>3. ASSUME NEW r \in Ranges(n), Size(r) = 1 PROVE r \in T
  <2>1. RootIn(C, r) = C[r[2]] /\ RootIn(D, r) = D[r[2]]
    BY <1>1, <1>2, <1>3, RootSplits
  <2>2. r[2] \in 1..n
    BY <1>1, <1>3 DEF Ranges, Size
  <2> QED
    BY <1>1, <2>1, <2>2
<1>4. ASSUME NEW r \in Ranges(n), Size(r) >= 2, Left(r) \in T, Right(r) \in T PROVE r \in T
  <2>1. 1 <= Size(r) /\ ~(Size(r) <= 1)
    BY <1>1, <1>4, SizeType
  <2>2. RootIn(C, r) = hashNode(RootIn(C, Left(r)), RootIn(C, Right(r)))
    BY <1>1, <1>2, <2>1, RootSplits
  <2>3. RootIn(D, r) = hashNode(RootIn(D, Left(r)), RootIn(D, Right(r)))
    BY <1>1, <1>2, <2>1, RootSplits
  <2> QED
    BY <1>4, <2>2, <2>3
<1>5. \A r \in Ranges(n) : 1 <= Size(r) => r \in T
  <2> HIDE DEF T
  <2> QED
    BY <1>1, <1>3, <1>4, RangeInduction
<1> QED
  BY <1>1, <1>5 DEF C

LEMMA RootOfPrefix ==
    ASSUME NEW E, NEW D \in Seq(E), NEW n \in 1..Len(D)
    PROVE  Root(D, n) = RootOf(D, 0, n)
<1> DEFINE C == SubSeq(D, 1, n)
<1>1. \A r \in Ranges(n) : 1 <= Size(r) => RootIn(C, r) = RootIn(D, r)
  BY PrefixRoots
<1> HIDE DEF C
<1>2. <<0, n>> \in Ranges(n) /\ 1 <= Size(<<0, n>>)
  BY DEF Ranges, Size
<1>3. RootIn(C, <<0, n>>) = RootIn(D, <<0, n>>)
  BY <1>1, <1>2
<1> QED
  BY <1>3 DEF Root, RootIn, C
-----------------------------------------------------------------------------
(* The sides and the siblings of entry i of a range, by those of its half. *)
LEMMA SidesSplit ==
    ASSUME NEW i, NEW n \in Nat
    PROVE  \A r \in Ranges(n) :
              SidesIn(i, n)[r] = IF Size(r) <= 1 THEN <<>>
                                 ELSE IF i < Middle(r) THEN Append(SidesIn(i, n)[Left(r)], "right")
                                 ELSE Append(SidesIn(i, n)[Right(r)], "left")
<1> DEFINE f == SidesIn(i, n)
<1>1. AreSides(i, n, f)
  <2>1. Len(<<>>) \in Nat
    OBVIOUS
  <2> QED
    BY <2>1, TablesDefined
<1> HIDE DEF f
<1>2. \A r \in Ranges(n) :
         f[r] = IF Size(r) <= 1 THEN <<>>
                ELSE IF i < Middle(r) THEN Append(f[Left(r)], "right") ELSE Append(f[Right(r)], "left")
  BY <1>1 DEF AreSides
<1> QED
  BY <1>2 DEF f

LEMMA PathSplits ==
    ASSUME NEW D, Len(D) \in Nat, NEW i, NEW n \in Nat
    PROVE  \A r \in Ranges(n) :
              PathIn(D, i, n)[r] = IF Size(r) <= 1 THEN <<>>
                                   ELSE IF i < Middle(r)
                                   THEN Append(PathIn(D, i, n)[Left(r)], RootIn(D, Right(r)))
                                   ELSE Append(PathIn(D, i, n)[Right(r)], RootIn(D, Left(r)))
<1> DEFINE f == PathIn(D, i, n)
<1>1. ArePaths(D, i, n, f)
  BY TablesDefined
<1> HIDE DEF f
<1>2. \A r \in Ranges(n) :
         f[r] = IF Size(r) <= 1 THEN <<>>
                ELSE IF i < Middle(r) THEN Append(f[Left(r)], RootOf(D, Middle(r), r[2]))
                ELSE Append(f[Right(r)], RootOf(D, r[1], Middle(r)))
  BY <1>1 DEF ArePaths
<1>3. \A r : /\ RootIn(D, Right(r)) = RootOf(D, Middle(r), r[2])
             /\ RootIn(D, Left(r)) = RootOf(D, r[1], Middle(r))
  BY DEF RootIn, Left, Right
<1> QED
  BY <1>2, <1>3 DEF f

Holding(i, r) == r[1] <= i /\ i < r[2]

(* The half with the entry, and the other one.                             *)
LEMMA HalfHolding ==
    ASSUME NEW n \in Nat, NEW i \in Nat, NEW r \in Ranges(n), Holding(i, r), ~(Size(r) <= 1)
    PROVE  /\ i < Middle(r) => Holding(i, Left(r))
           /\ ~(i < Middle(r)) => Holding(i, Right(r))
<1>1. /\ Left(r)[1] = r[1] /\ Left(r)[2] = Middle(r) /\ Right(r)[1] = Middle(r) /\ Right(r)[2] = r[2]
  BY DEF Left, Right
<1>2. Middle(r) \in Nat
  <2>1. Left(r) \in Ranges(n)
    BY HalvesInside
  <2> QED
    BY <1>1, <2>1 DEF Ranges
<1> QED
  BY <1>1, <1>2 DEF Holding

SideNames == {"left", "right"}

(* Any siblings on the sides of an entry combine to the root of its range  *)
(* with no other leaf than the entry; and its path does.                   *)
Fits(D, i, n, r) ==
    /\ SidesIn(i, n)[r] \in Seq(SideNames)
    /\ \A x, q : Combined(x, SidesIn(i, n)[r], q) = RootIn(D, r) => x = D[i + 1]
    /\ PathIn(D, i, n)[r] \in Seq({RootIn(D, p) : p \in Ranges(n)})
    /\ Len(PathIn(D, i, n)[r]) = Len(SidesIn(i, n)[r])
    /\ Combined(D[i + 1], SidesIn(i, n)[r], PathIn(D, i, n)[r]) = RootIn(D, r)

LEMMA EntryFits ==
    ASSUME NEW D, Len(D) \in Nat, NEW n \in 1..Len(D), NEW i \in 0..(n - 1),
           NEW r \in Ranges(n), Holding(i, r), Size(r) <= 1
    PROVE  Fits(D, i, n, r)
<1>1. n \in Nat /\ Size(r) = 1 /\ r[2] = i + 1 /\ r \in Ranges(Len(D))
  BY DEF Ranges, Size, Holding
<1>2. RootIn(D, r) = D[i + 1]
  BY <1>1, RootSplits
<1>3. SidesIn(i, n)[r] = <<>> /\ PathIn(D, i, n)[r] = <<>>
  BY <1>1, SidesSplit, PathSplits
<1>4. \A x, q : Combined(x, <<>>, q) = x
  BY CombinedNone
<1> QED
  BY <1>2, <1>3, <1>4 DEF Fits

LEMMA HalfFits ==
    ASSUME NEW D, NEW i, NEW n, NEW half, NEW other \in Ranges(n), NEW side \in SideNames,
           NEW r, Fits(D, i, n, half),
           RootIn(D, r) = Above(RootIn(D, half), side, RootIn(D, other)),
           SidesIn(i, n)[r] = Append(SidesIn(i, n)[half], side),
           PathIn(D, i, n)[r] = Append(PathIn(D, i, n)[half], RootIn(D, other))
    PROVE  Fits(D, i, n, r)
<1> DEFINE s == SidesIn(i, n)[half]
           p == PathIn(D, i, n)[half]
           V == {RootIn(D, t) : t \in Ranges(n)}
           y == RootIn(D, other)
<1>1. /\ s \in Seq(SideNames) /\ p \in Seq(V) /\ y \in V /\ Len(p) = Len(s) /\ Len(s) \in Nat
      /\ Combined(D[i + 1], s, p) = RootIn(D, half)
  BY DEF Fits
<1>2. \A x, q : Combined(x, s, q) = RootIn(D, half) => x = D[i + 1]
  BY DEF Fits
<1> HIDE DEF s, p, V, y
<1>3. Append(s, side) \in Seq(SideNames) /\ Append(p, y) \in Seq(V)
  BY <1>1
<1>4. Len(Append(s, side)) = Len(s) + 1 /\ Len(Append(p, y)) = Len(p) + 1
      /\ Append(p, y)[Len(s) + 1] = y
  BY <1>1
<1>5. \A x, q : Combined(x, Append(s, side), q) = Above(Combined(x, s, q), side, q[Len(s) + 1])
  BY <1>1, CombinedStep
<1>6. ASSUME NEW x, NEW q, Combined(x, Append(s, side), q) = RootIn(D, r) PROVE x = D[i + 1]
  <2>1. Above(Combined(x, s, q), side, q[Len(s) + 1]) = Above(RootIn(D, half), side, y)
    BY <1>5, <1>6 DEF y
  <2>2. \A a, b, c, d : Above(a, side, b) = Above(c, side, d) => a = c
    BY DEF Above, hashNode
  <2>3. Combined(x, s, q) = RootIn(D, half)
    BY <2>1, <2>2
  <2> QED
    BY <1>2, <2>3
<1>7. Combined(D[i + 1], Append(s, side), Append(p, y)) = RootIn(D, r)
  <2>1. Combined(D[i + 1], s, Append(p, y)) = Combined(D[i + 1], s, p)
    BY <1>1, CombinedPrefix
  <2>2. Combined(D[i + 1], Append(s, side), Append(p, y))
           = Above(Combined(D[i + 1], s, Append(p, y)), side, y)
    BY <1>4, <1>5
  <2> QED
    BY <1>1, <2>1, <2>2 DEF y
<1>8. SidesIn(i, n)[r] = Append(s, side) /\ PathIn(D, i, n)[r] = Append(p, y)
  BY DEF s, p, y
<1> QED
  BY <1>1, <1>3, <1>4, <1>6, <1>7, <1>8 DEF Fits, V

LEMMA EveryRangeFits ==
    ASSUME NEW D, Len(D) \in Nat, NEW n \in 1..Len(D), NEW i \in 0..(n - 1)
    PROVE  \A r \in Ranges(n) : Holding(i, r) => Fits(D, i, n, r)
<1>1. n \in Nat /\ i \in Nat
  OBVIOUS
<1> DEFINE S == {m \in Nat : \A r \in Ranges(n) : Holding(i, r) /\ Size(r) <= m + 1 => Fits(D, i, n, r)}
<1>2. 0 \in S
  BY EntryFits
<1>3. ASSUME NEW m \in S PROVE m + 1 \in S
  <2>0. m \in Nat
    OBVIOUS
  <2>1. ASSUME NEW r \in Ranges(n), Holding(i, r), Size(r) <= m + 2 PROVE Fits(D, i, n, r)
    <3>1. Size(r) \in Int
      BY <1>1, SizeType
    <3>2. CASE Size(r) <= m + 1
      BY <1>3, <2>1, <3>2
    <3>3. CASE ~(Size(r) <= m + 1)
      <4>1. ~(Size(r) <= 1) /\ 1 <= Size(r)
        BY <2>0, <3>1, <3>3
      <4>2. /\ Left(r) \in Ranges(n) /\ Size(Left(r)) <= m + 1
            /\ Right(r) \in Ranges(n) /\ Size(Right(r)) <= m + 1
        <5>1. /\ Left(r) \in Ranges(n) /\ Size(Left(r)) \in Nat /\ Size(Left(r)) < Size(r)
              /\ Right(r) \in Ranges(n) /\ Size(Right(r)) \in Nat /\ Size(Right(r)) < Size(r)
          BY <1>1, <4>1, HalvesInside
        <5> QED
          BY <2>0, <2>1, <3>1, <5>1
      <4>3. RootIn(D, r) = hashNode(RootIn(D, Left(r)), RootIn(D, Right(r)))
        <5>1. r \in Ranges(Len(D))
          BY DEF Ranges
        <5> QED
          BY <4>1, <5>1, RootSplits
      <4>4. CASE i < Middle(r)
        <5>1. Fits(D, i, n, Left(r))
          <6>1. Holding(i, Left(r))
            BY <1>1, <2>1, <4>1, <4>4, HalfHolding
          <6> QED
            BY <1>3, <4>2, <6>1
        <5>2. /\ SidesIn(i, n)[r] = Append(SidesIn(i, n)[Left(r)], "right")
              /\ PathIn(D, i, n)[r] = Append(PathIn(D, i, n)[Left(r)], RootIn(D, Right(r)))
          BY <1>1, <4>1, <4>4, SidesSplit, PathSplits
        <5>3. RootIn(D, r) = Above(RootIn(D, Left(r)), "right", RootIn(D, Right(r)))
          BY <4>3 DEF Above
        <5>4. "right" \in SideNames
          BY DEF SideNames
        <5> QED
          BY <4>2, <5>1, <5>2, <5>3, <5>4, HalfFits
      <4>5. CASE ~(i < Middle(r))
        <5>1. Fits(D, i, n, Right(r))
          <6>1. Holding(i, Right(r))
            BY <1>1, <2>1, <4>1, <4>5, HalfHolding
          <6> QED
            BY <1>3, <4>2, <6>1
        <5>2. /\ SidesIn(i, n)[r] = Append(SidesIn(i, n)[Right(r)], "left")
              /\ PathIn(D, i, n)[r] = Append(PathIn(D, i, n)[Right(r)], RootIn(D, Left(r)))
          BY <1>1, <4>1, <4>5, SidesSplit, PathSplits
        <5>3. RootIn(D, r) = Above(RootIn(D, Right(r)), "left", RootIn(D, Left(r)))
          BY <4>3 DEF Above
        <5>4. "left" \in SideNames
          BY DEF SideNames
        <5> QED
          BY <4>2, <5>1, <5>2, <5>3, <5>4, HalfFits
      <4> QED
        BY <4>4, <4>5
    <3> QED
      BY <3>2, <3>3
  <2> HIDE DEF S
  <2>2. \A r \in Ranges(n) : Holding(i, r) /\ Size(r) <= (m + 1) + 1 => Fits(D, i, n, r)
    BY <2>0, <2>1
  <2> QED
    BY <2>0, <2>2 DEF S
<1>4. n \in S
  <2> HIDE DEF S
  <2>1. S \in SUBSET Nat
    BY DEF S
  <2> QED
    BY <1>1, <1>2, <1>3, <2>1, SetInduction
<1>5. \A r \in Ranges(n) : Size(r) <= n + 1
  BY <1>1, SizeType
<1> QED
  BY <1>4, <1>5

(* The proof the log makes for an entry verifies under the root of its     *)
(* first n entries ("produced here verify", log.ts:298-303), whatever the  *)
(* entries and however many.                                               *)
THEOREM InclusionIsComplete ==
    ASSUME NEW E, NEW D \in Seq(E), NEW n \in 1..Len(D), NEW i \in 0..(n - 1)
    PROVE  VerifyInclusion(D[i + 1], i, n, InclusionPath(D, i, n), Root(D, n))
<1>1. Len(D) \in Nat /\ n \in Nat /\ n >= 1 /\ 0 <= i /\ i < n
  OBVIOUS
<1>2. <<0, n>> \in Ranges(n) /\ Holding(i, <<0, n>>)
  BY <1>1 DEF Ranges, Holding
<1>3. Fits(D, i, n, <<0, n>>)
  BY <1>1, <1>2, EveryRangeFits
<1>4. RootIn(D, <<0, n>>) = Root(D, n)
  BY RootOfPrefix DEF RootIn
<1>5. Sides(i, n) = SidesIn(i, n)[<<0, n>>] /\ InclusionPath(D, i, n) = PathIn(D, i, n)[<<0, n>>]
  BY TablesUsed
<1> QED
  BY <1>1, <1>3, <1>4, <1>5 DEF Fits, VerifyInclusion

(* No proof of whatever length and content makes the verifier take another *)
(* leaf for the entry at a position of the log, if SHA-256 has no          *)
(* collisions.                                                             *)
THEOREM InclusionIsSound ==
    ASSUME NEW E, NEW D \in Seq(E), NEW n \in 1..Len(D), NEW leaf, NEW j \in Int, NEW path,
           VerifyInclusion(leaf, j, n, path, Root(D, n))
    PROVE  j \in 0..(n - 1) /\ leaf = D[j + 1]
<1>1. Len(D) \in Nat /\ n \in Nat /\ j \in 0..(n - 1)
  BY DEF VerifyInclusion
<1>2. <<0, n>> \in Ranges(n) /\ Holding(j, <<0, n>>)
  BY <1>1 DEF Ranges, Holding
<1>3. Fits(D, j, n, <<0, n>>)
  BY <1>1, <1>2, EveryRangeFits
<1>4. RootIn(D, <<0, n>>) = Root(D, n)
  BY RootOfPrefix DEF RootIn
<1>5. Sides(j, n) = SidesIn(j, n)[<<0, n>>]
  BY TablesUsed
<1>6. Combined(leaf, SidesIn(j, n)[<<0, n>>], path) = RootIn(D, <<0, n>>)
  BY <1>4, <1>5 DEF VerifyInclusion
<1> QED
  BY <1>1, <1>3, <1>6 DEF Fits
-----------------------------------------------------------------------------
(* Places in two trees.                                                    *)
Pairs == Nat \X Nat

LEMMA PairFacts ==
    /\ \A x, y \in Nat : /\ <<x, y>> \in Pairs /\ <<x, y>>[1] = x /\ <<x, y>>[2] = y
                         /\ x \div 2 \in Nat /\ y \div 2 \in Nat
                         /\ Halved(<<x, y>>) = <<x \div 2, y \div 2>>
    /\ \A p \in Pairs : p[1] \in Nat /\ p[2] \in Nat /\ p = <<p[1], p[2]>> /\ Halved(p) \in Pairs
<1>1. \A x, y : <<x, y>>[1] = x /\ <<x, y>>[2] = y
  OBVIOUS
<1>2. \A x \in Nat : x \div 2 \in Nat
  OBVIOUS
<1>3. \A p \in Pairs : p[1] \in Nat /\ p[2] \in Nat /\ p = <<p[1], p[2]>>
  BY DEF Pairs
<1>4. \A x, y \in Nat : <<x, y>> \in Pairs
  BY DEF Pairs
<1> QED
  BY <1>1, <1>2, <1>3, <1>4 DEF Halved

PairSum == [p \in Pairs |-> p[1] + p[2]]

LEMMA HalvedIsLess ==
    ASSUME NEW p \in Pairs, p[1] > 0 \/ p[2] > 0
    PROVE  Halved(p) \in Pairs /\ PairSum[Halved(p)] < PairSum[p]
<1>1. p[1] \in Nat /\ p[2] \in Nat /\ Halved(p) \in Pairs
  BY PairFacts
<1>2. Halved(p)[1] = p[1] \div 2 /\ Halved(p)[2] = p[2] \div 2
  BY DEF Halved
<1>3. PairSum[p] = p[1] + p[2] /\ PairSum[Halved(p)] = p[1] \div 2 + p[2] \div 2
  BY <1>1, <1>2 DEF PairSum
<1> QED
  BY <1>1, <1>3

LEMMA PairSumIsNat == PairSum \in [Pairs -> Nat]
BY DEF PairSum, Pairs

LEMMA AscendedIs ==
    \A p \in Pairs : Ascended[p] = IF p[1] % 2 = 1 THEN Ascended[Halved(p)] ELSE p
<1>1. ASSUME NEW p \in Pairs, NEW f, NEW g,
             \A q \in Pairs : PairSum[q] < PairSum[p] => f[q] = g[q]
      PROVE  Equal("ascended", 0, 0, 0, f, g, p)
  <2>1. p[1] % 2 = 1 => p[1] > 0
    BY PairFacts
  <2>2. p[1] % 2 = 1 => f[Halved(p)] = g[Halved(p)]
    BY <1>1, <2>1, HalvedIsLess
  <2> QED
    BY <2>2 DEF Equal, Turn
<1>2. Ranked("ascended", 0, 0, 0, Pairs, PairSum)
  BY <1>1, PairSumIsNat DEF Ranked
<1>3. PICK f : Solves("ascended", 0, 0, 0, Pairs, f)
  BY <1>2, Recursion
<1> DEFINE Is(d) == d = [p \in Nat \X Nat |-> IF p[1] % 2 = 1 THEN d[Halved(p)] ELSE p]
<1>4. \A p : Turn("ascended", 0, 0, 0, f, p) = IF p[1] % 2 = 1 THEN f[Halved(p)] ELSE p
  BY DEF Turn
<1>5. Is(f)
  BY <1>3, <1>4 DEF Solves, Pairs
<1> DEFINE d == CHOOSE e : Is(e)
<1>6. Is(d)
  BY <1>5
<1>7. Ascended = d
  BY DEF Ascended
<1> HIDE DEF d
<1> QED
  BY <1>6, <1>7 DEF Pairs

LevelOf(p) == IF p[1] > 0 THEN IF p[1] % 2 = 1 THEN <<"both">> ELSE IF p[1] < p[2] THEN <<"second">> ELSE <<>>
              ELSE <<"second">>

LevelsRow(f, p) ==
    IF p[1] > 0
    THEN (IF p[1] % 2 = 1 THEN <<"both">> ELSE IF p[1] < p[2] THEN <<"second">> ELSE <<>>)
         \o f[Halved(p)]
    ELSE IF p[2] > 0 THEN <<"second">> \o f[Halved(p)] ELSE <<>>

LEMMA LevelsIs ==
    \A p \in Pairs : Levels[p] = IF p[1] > 0 \/ p[2] > 0 THEN LevelOf(p) \o Levels[Halved(p)] ELSE <<>>
<1>1. \A f, p : Turn("levels", 0, 0, 0, f, p) = LevelsRow(f, p)
  BY DEF Turn, LevelsRow
<1>2. ASSUME NEW p \in Pairs, NEW f, NEW g,
             \A q \in Pairs : PairSum[q] < PairSum[p] => f[q] = g[q]
      PROVE  Equal("levels", 0, 0, 0, f, g, p)
  <2>1. p[1] > 0 \/ p[2] > 0 => f[Halved(p)] = g[Halved(p)]
    BY <1>2, HalvedIsLess
  <2>2. LevelsRow(f, p) = LevelsRow(g, p)
    BY <2>1 DEF LevelsRow
  <2> QED
    BY <1>1, <2>2 DEF Equal
<1>3. Ranked("levels", 0, 0, 0, Pairs, PairSum)
  BY <1>2, PairSumIsNat DEF Ranked
<1>4. PICK f : Solves("levels", 0, 0, 0, Pairs, f)
  BY <1>3, Recursion
<1> DEFINE Is(d) == d = [p \in Nat \X Nat |-> LevelsRow(d, p)]
<1>5. Is(f)
  BY <1>1, <1>4 DEF Solves, Pairs
<1>6. Is(CHOOSE e : Is(e))
  BY <1>5
<1>7. Levels = CHOOSE e : Is(e)
  BY DEF Levels, LevelsRow
<1>8. Is(Levels)
  <2> HIDE DEF Is
  <2> QED
    BY <1>6, <1>7
<1>9. ASSUME NEW p \in Pairs
      PROVE  LevelsRow(Levels, p) = IF p[1] > 0 \/ p[2] > 0 THEN LevelOf(p) \o Levels[Halved(p)] ELSE <<>>
  <2>1. CASE p[1] > 0
    BY <2>1, Zenon DEF LevelOf, LevelsRow
  <2>2. CASE ~(p[1] > 0)
    BY <2>2, Zenon DEF LevelOf, LevelsRow
  <2> QED
    BY <2>1, <2>2
<1>10. ASSUME NEW p \in Pairs PROVE Levels[p] = LevelsRow(Levels, p)
  BY <1>8 DEF Pairs
<1> QED
  BY <1>9, <1>10

LevelNames == {"both", "second"}

LEMMA JoinAppend ==
    ASSUME NEW A, NEW s \in Seq(A), NEW t \in Seq(A), NEW x \in A
    PROVE  s \o Append(t, x) = Append(s \o t, x)
<1>1. <<x>> \in Seq(A) /\ s \o t \in Seq(A)
  BY ConcatProperties
<1>2. Append(t, x) = t \o <<x>> /\ Append(s \o t, x) = (s \o t) \o <<x>>
  BY <1>1, AppendIsConcat
<1>3. (s \o t) \o <<x>> = s \o (t \o <<x>>)
  BY <1>1, ConcatAssociative
<1> QED
  BY <1>2, <1>3

LEMMA LevelOfType == \A p : LevelOf(p) \in Seq(LevelNames)
<1>1. <<"both">> \in Seq(LevelNames) /\ <<"second">> \in Seq(LevelNames) /\ <<>> \in Seq(LevelNames)
  BY DEF LevelNames
<1> QED
  BY <1>1, Zenon DEF LevelOf

LEMMA LevelsType == \A p \in Pairs : Levels[p] \in Seq(LevelNames)
<1> DEFINE S == {m \in Nat : \A p \in Pairs : PairSum[p] <= m => Levels[p] \in Seq(LevelNames)}
<1>0. \A p \in Pairs : PairSum[p] \in Nat
  BY PairSumIsNat
<1>a. <<>> \in Seq(LevelNames)
  OBVIOUS
<1>1. 0 \in S
  <2>1. ASSUME NEW p \in Pairs, PairSum[p] <= 0 PROVE Levels[p] \in Seq(LevelNames)
    <3>1. ~(p[1] > 0 \/ p[2] > 0)
      <4>1. Halved(p) \in Pairs
        BY PairFacts
      <4> QED
        BY <1>0, <2>1, <4>1, HalvedIsLess
    <3> QED
      BY <1>a, <3>1, LevelsIs
  <2> QED
    BY <2>1
<1>2. ASSUME NEW m \in S PROVE m + 1 \in S
  <2>0. m \in Nat /\ \A p \in Pairs : PairSum[p] <= m => Levels[p] \in Seq(LevelNames)
    OBVIOUS
  <2> HIDE DEF S
  <2>1. ASSUME NEW p \in Pairs, PairSum[p] <= m + 1 PROVE Levels[p] \in Seq(LevelNames)
    <3>1. CASE p[1] > 0 \/ p[2] > 0
      <4>1. Levels[p] = LevelOf(p) \o Levels[Halved(p)]
        BY <3>1, LevelsIs
      <4>2. Halved(p) \in Pairs /\ PairSum[Halved(p)] <= m
        BY <1>0, <2>0, <2>1, <3>1, HalvedIsLess
      <4>3. Levels[Halved(p)] \in Seq(LevelNames)
        BY <2>0, <4>2
      <4> QED
        BY <4>1, <4>3, LevelOfType, ConcatProperties
    <3>2. CASE ~(p[1] > 0 \/ p[2] > 0)
      BY <1>a, <3>2, LevelsIs
    <3> QED
      BY <3>1, <3>2
  <2> QED
    BY <2>0, <2>1 DEF S
<1>3. S = Nat
  <2>1. S \in SUBSET Nat
    OBVIOUS
  <2> HIDE DEF S
  <2> QED
    BY <1>1, <1>2, <2>1, SetInduction
<1>4. ASSUME NEW p \in Pairs PROVE Levels[p] \in Seq(LevelNames)
  <2>1. PairSum[p] \in S /\ PairSum[p] <= PairSum[p]
    BY <1>0, <1>3
  <2> QED
    BY <2>1
<1> QED
  BY <1>4

(* A pair one level up.                                                    *)
LEMMA LevelsUp ==
    ASSUME NEW x \in Nat, NEW y \in Nat, x > 0 \/ y > 0
    PROVE  /\ Levels[<<x, y>>] = LevelOf(<<x, y>>) \o Levels[<<x \div 2, y \div 2>>]
           /\ Levels[<<x \div 2, y \div 2>>] \in Seq(LevelNames)
           /\ x > 0 => /\ x % 2 = 1 => LevelOf(<<x, y>>) = <<"both">>
                       /\ x % 2 # 1 /\ x < y => LevelOf(<<x, y>>) = <<"second">>
                       /\ x % 2 # 1 /\ ~(x < y) => LevelOf(<<x, y>>) = <<>>
           /\ ~(x > 0) => LevelOf(<<x, y>>) = <<"second">>
<1> DEFINE p == <<x, y>>
<1>1. p \in Pairs /\ p[1] = x /\ p[2] = y /\ Halved(p) = <<x \div 2, y \div 2>>
  BY PairFacts
<1> HIDE DEF p
<1>2. Levels[p] = LevelOf(p) \o Levels[Halved(p)]
  BY <1>1, LevelsIs
<1>3. Levels[Halved(p)] \in Seq(LevelNames)
  BY <1>1, PairFacts, LevelsType
<1>4. /\ x > 0 => /\ x % 2 = 1 => LevelOf(p) = <<"both">>
                  /\ x % 2 # 1 /\ x < y => LevelOf(p) = <<"second">>
                  /\ x % 2 # 1 /\ ~(x < y) => LevelOf(p) = <<>>
      /\ ~(x > 0) => LevelOf(p) = <<"second">>
  BY <1>1, Zenon DEF LevelOf
<1> QED
  BY <1>1, <1>2, <1>3, <1>4 DEF p

LEMMA NoLevels == Levels[<<0, 0>>] = <<>>
<1>1. <<0, 0>> \in Pairs /\ <<0, 0>>[1] = 0 /\ <<0, 0>>[2] = 0
  BY PairFacts
<1> QED
  BY <1>1, LevelsIs

(* The top level of two trees of which the first ends in the left half, of *)
(* k leaves, of the second: the root of the right half is needed.          *)
LeftOf(k, x, y) == x \in Nat /\ y \in Nat /\ x < k /\ k <= y /\ y < 2 * k

LeftLevels(h) ==
    \A u, w : LeftOf(h, u, w) => Levels[<<u, w>>] = Append(Levels[<<u, h - 1>>], "second")

LEMMA LevelsLeft ==
    ASSUME NEW k, IsPower(k), NEW x, NEW y, LeftOf(k, x, y)
    PROVE  Levels[<<x, y>>] = Append(Levels[<<x, k - 1>>], "second")
<1> DEFINE S == {h \in Nat : h >= 1 /\ LeftLevels(h)}
<1>1. 1 \in S
  <2>1. ASSUME NEW u, NEW w, LeftOf(1, u, w) PROVE Levels[<<u, w>>] = Append(Levels[<<u, 0>>], "second")
    <3>1. u = 0 /\ w = 1
      BY <2>1 DEF LeftOf
    <3>2. Levels[<<0, 1>>] = <<"second">> \o Levels[<<0, 0>>]
      <4>1. 0 \div 2 = 0 /\ 1 \div 2 = 0 /\ 0 \in Nat /\ 1 \in Nat /\ 1 > 0 /\ ~(0 > 0)
        OBVIOUS
      <4>2. Levels[<<0, 1>>] = LevelOf(<<0, 1>>) \o Levels[<<0 \div 2, 1 \div 2>>] /\ LevelOf(<<0, 1>>) = <<"second">>
        BY <4>1, LevelsUp
      <4> QED
        BY <4>1, <4>2
    <3>3. <<"second">> \o <<>> = Append(<<>>, "second")
      OBVIOUS
    <3> QED
      BY <3>1, <3>2, <3>3, NoLevels
  <2> QED
    BY <2>1 DEF LeftLevels
<1>2. ASSUME NEW h \in S PROVE 2 * h \in S
  <2>0. h \in Nat /\ h >= 1 /\ LeftLevels(h)
    OBVIOUS
  <2>1. ASSUME NEW u, NEW w, LeftOf(2 * h, u, w)
        PROVE  Levels[<<u, w>>] = Append(Levels[<<u, 2 * h - 1>>], "second")
    <3> DEFINE v == 2 * h - 1
    <3>1. /\ u \in Nat /\ w \in Nat /\ v \in Nat /\ w > 0 /\ v > 0 /\ v \div 2 = h - 1
          /\ u < w /\ (u % 2 # 1 => u < v)
      BY <2>0, <2>1 DEF LeftOf
    <3>2. LeftOf(h, u \div 2, w \div 2)
      BY <2>0, <2>1 DEF LeftOf
    <3> HIDE DEF v
    <3> DEFINE s == Levels[<<u \div 2, w \div 2>>]
               t == Levels[<<u \div 2, v \div 2>>]
    <3>3. s = Append(t, "second")
      BY <2>0, <3>1, <3>2 DEF LeftLevels
    <3>4. /\ Levels[<<u, w>>] = LevelOf(<<u, w>>) \o s
          /\ Levels[<<u, v>>] = LevelOf(<<u, v>>) \o t
          /\ t \in Seq(LevelNames)
      BY <3>1, LevelsUp
    <3>5. LevelOf(<<u, w>>) = LevelOf(<<u, v>>)
      BY <3>1, LevelsUp, ZenonT(40)
    <3> HIDE DEF s, t
    <3>6. LevelOf(<<u, v>>) \o Append(t, "second") = Append(LevelOf(<<u, v>>) \o t, "second")
      <4>1. "second" \in LevelNames
        BY DEF LevelNames
      <4> QED
        BY <3>4, <4>1, LevelOfType, JoinAppend, SMTT(20)
    <3> QED
      BY <3>3, <3>4, <3>5, <3>6 DEF v
  <2>2. LeftLevels(2 * h)
    BY <2>1 DEF LeftLevels
  <2> QED
    BY <2>0, <2>2
<1>3. S \in SUBSET Nat
  OBVIOUS
<1> HIDE DEF S
<1>4. k \in S
  BY <1>1, <1>2, <1>3 DEF IsPower
<1> QED
  BY <1>4 DEF S, LeftLevels

(* The top level when the first tree ends in the right half: the root of   *)
(* the left half is a sibling in both.                                     *)
RightOf(k, x, y) == x \in Nat /\ y \in Nat /\ k <= x /\ x <= y /\ y < 2 * k

RightLevels(h) ==
    \A u, w : RightOf(h, u, w) => Levels[<<u, w>>] = Append(Levels[<<u - h, w - h>>], "both")

LEMMA LevelsRight ==
    ASSUME NEW k, IsPower(k), NEW x, NEW y, RightOf(k, x, y)
    PROVE  Levels[<<x, y>>] = Append(Levels[<<x - k, y - k>>], "both")
<1> DEFINE S == {h \in Nat : h >= 1 /\ RightLevels(h)}
<1>1. 1 \in S
  <2>1. ASSUME NEW u, NEW w, RightOf(1, u, w) PROVE Levels[<<u, w>>] = Append(Levels[<<u - 1, w - 1>>], "both")
    <3>1. u = 1 /\ w = 1 /\ u - 1 = 0 /\ w - 1 = 0
      BY <2>1 DEF RightOf
    <3>2. Levels[<<1, 1>>] = <<"both">> \o Levels[<<0, 0>>]
      <4>1. 1 \div 2 = 0 /\ 1 % 2 = 1 /\ 1 > 0
        OBVIOUS
      <4>2. Levels[<<1, 1>>] = LevelOf(<<1, 1>>) \o Levels[<<1 \div 2, 1 \div 2>>] /\ LevelOf(<<1, 1>>) = <<"both">>
        BY <4>1, LevelsUp
      <4> QED
        BY <4>1, <4>2
    <3>3. <<"both">> \o <<>> = Append(<<>>, "both")
      OBVIOUS
    <3> QED
      BY <3>1, <3>2, <3>3, NoLevels
  <2> QED
    BY <2>1 DEF RightLevels
<1>2. ASSUME NEW h \in S PROVE 2 * h \in S
  <2>0. h \in Nat /\ h >= 1 /\ RightLevels(h)
    OBVIOUS
  <2>1. ASSUME NEW u, NEW w, RightOf(2 * h, u, w)
        PROVE  Levels[<<u, w>>] = Append(Levels[<<u - 2 * h, w - 2 * h>>], "both")
    <3> DEFINE a == u - 2 * h
               b == w - 2 * h
    <3>1. /\ u \in Nat /\ w \in Nat /\ a \in Nat /\ b \in Nat /\ u > 0 /\ w > 0
          /\ a \div 2 = u \div 2 - h /\ b \div 2 = w \div 2 - h /\ a % 2 = u % 2
          /\ (a < b <=> u < w) /\ a <= b
      BY <2>0, <2>1 DEF RightOf
    <3>2. RightOf(h, u \div 2, w \div 2)
      BY <2>0, <2>1 DEF RightOf
    <3> HIDE DEF a, b
    <3> DEFINE s == Levels[<<u \div 2, w \div 2>>]
               t == Levels[<<a \div 2, b \div 2>>]
    <3>3. s = Append(t, "both")
      BY <2>0, <3>1, <3>2, ZenonT(40) DEF RightLevels
    <3>4. Levels[<<u, w>>] = LevelOf(<<u, w>>) \o s
      BY <3>1, LevelsUp
    <3>5. t \in Seq(LevelNames)
      BY <3>1, LevelsType, PairFacts
    <3>6. "both" \in LevelNames
      BY DEF LevelNames
    <3>7. CASE a > 0 \/ b > 0
      <4>1. Levels[<<a, b>>] = LevelOf(<<a, b>>) \o t
        BY <3>1, <3>7, LevelsUp
      <4>2. LevelOf(<<u, w>>) = LevelOf(<<a, b>>)
        <5>1. CASE a > 0
          <6>1. CASE u % 2 = 1
            <7>1. LevelOf(<<a, b>>) = <<"both">> /\ LevelOf(<<u, w>>) = <<"both">>
              BY <3>1, <5>1, <6>1, LevelsUp
            <7> QED
              BY <7>1
          <6>2. CASE u % 2 # 1 /\ u < w
            <7>1. LevelOf(<<a, b>>) = <<"second">> /\ LevelOf(<<u, w>>) = <<"second">>
              BY <3>1, <5>1, <6>2, LevelsUp
            <7> QED
              BY <7>1
          <6>3. CASE u % 2 # 1 /\ ~(u < w)
            <7>1. LevelOf(<<a, b>>) = <<>> /\ LevelOf(<<u, w>>) = <<>>
              BY <3>1, <5>1, <6>3, LevelsUp
            <7> QED
              BY <7>1
          <6> QED
            BY <6>1, <6>2, <6>3
        <5>2. CASE ~(a > 0)
          <6>1. a = 0 /\ b > 0 /\ u % 2 # 1 /\ u < w
            BY <3>1, <3>7, <5>2
          <6>2. LevelOf(<<a, b>>) = <<"second">>
            BY <3>1, <6>1, LevelsUp
          <6>3. LevelOf(<<u, w>>) = <<"second">>
            BY <3>1, <6>1, LevelsUp
          <6> QED
            BY <6>2, <6>3
        <5> QED
          BY <5>1, <5>2
      <4> HIDE DEF s, t
      <4>3. LevelOf(<<a, b>>) \o Append(t, "both") = Append(LevelOf(<<a, b>>) \o t, "both")
        BY <3>5, <3>6, LevelOfType, JoinAppend
      <4> QED
        BY <3>3, <3>4, <4>1, <4>2, <4>3 DEF a, b
    <3>8. CASE ~(a > 0 \/ b > 0)
      <4>1. a = 0 /\ b = 0 /\ a \div 2 = 0 /\ b \div 2 = 0 /\ u % 2 # 1 /\ ~(u < w)
        BY <3>1, <3>8
      <4>2. t = <<>> /\ Levels[<<a, b>>] = <<>>
        BY <4>1, NoLevels
      <4>3. LevelOf(<<u, w>>) = <<>>
        BY <3>1, <4>1, LevelsUp
      <4>4. <<>> \o Append(<<>>, "both") = Append(<<>>, "both")
        OBVIOUS
      <4> HIDE DEF s, t
      <4> QED
        BY <3>3, <3>4, <4>2, <4>3, <4>4 DEF a, b
    <3> QED
      BY <3>7, <3>8
  <2>2. RightLevels(2 * h)
    BY <2>1 DEF RightLevels
  <2> QED
    BY <2>0, <2>2
<1>3. S \in SUBSET Nat
  OBVIOUS
<1> HIDE DEF S
<1>4. k \in S
  BY <1>1, <1>2, <1>3 DEF IsPower
<1> QED
  BY <1>4 DEF S, RightLevels

LEMMA AscendedUp ==
    ASSUME NEW x \in Nat, NEW y \in Nat
    PROVE  /\ x % 2 = 1 => Ascended[<<x, y>>] = Ascended[<<x \div 2, y \div 2>>]
           /\ x % 2 # 1 => Ascended[<<x, y>>] = <<x, y>>
<1> DEFINE p == <<x, y>>
<1>1. p \in Pairs /\ p[1] = x /\ p[2] = y /\ Halved(p) = <<x \div 2, y \div 2>>
  BY PairFacts
<1> HIDE DEF p
<1>2. Ascended[p] = IF p[1] % 2 = 1 THEN Ascended[Halved(p)] ELSE p
  BY <1>1, AscendedIs
<1> QED
  BY <1>1, <1>2 DEF p

LEMMA AscendedZero == \A y \in Nat : Ascended[<<0, y>>] = <<0, y>>
<1>1. 0 \in Nat /\ 0 % 2 # 1
  OBVIOUS
<1> QED
  BY <1>1, AscendedUp

(* Going up leaves the first tree's end where it is against the halves:    *)
(* there is a level where it stops, at u of h to w.                        *)
LeftStop(h, u, w, k, x, y) ==
    /\ IsPower(h) /\ LeftOf(h, u, w)
    /\ Ascended[<<x, y>>] = <<u, w>> /\ Ascended[<<x, k - 1>>] = <<u, h - 1>>

LeftStops(k) == \A x, y : LeftOf(k, x, y) => \E h, u, w : LeftStop(h, u, w, k, x, y)

LEMMA AscendedLeft ==
    ASSUME NEW k, IsPower(k)
    PROVE  LeftStops(k)
<1> DEFINE S == {h \in Nat : h >= 1 /\ IsPower(h) /\ LeftStops(h)}
<1>1. 1 \in S
  <2>1. ASSUME NEW x, NEW y, LeftOf(1, x, y) PROVE \E h, u, w : LeftStop(h, u, w, 1, x, y)
    <3>1. x = 0 /\ y = 1 /\ 1 \in Nat /\ 0 \in Nat /\ 1 - 1 = 0
      BY <2>1 DEF LeftOf
    <3>2. Ascended[<<0, 1>>] = <<0, 1>> /\ Ascended[<<0, 0>>] = <<0, 0>>
      BY AscendedZero
    <3>3. LeftStop(1, 0, 1, 1, x, y)
      BY <2>1, <3>1, <3>2, OneIsPower DEF LeftStop
    <3> QED
      BY <3>3
  <2> QED
    BY <2>1, OneIsPower DEF LeftStops
<1>2. ASSUME NEW k2 \in S PROVE 2 * k2 \in S
  <2>0. k2 \in Nat /\ k2 >= 1 /\ IsPower(k2) /\ LeftStops(k2) /\ IsPower(2 * k2)
    BY DoubleIsPower
  <2> HIDE DEF S
  <2>1. ASSUME NEW x, NEW y, LeftOf(2 * k2, x, y) PROVE \E h, u, w : LeftStop(h, u, w, 2 * k2, x, y)
    <3>1. /\ x \in Nat /\ y \in Nat /\ 2 * k2 - 1 \in Nat /\ (2 * k2 - 1) \div 2 = k2 - 1
          /\ LeftOf(k2, x \div 2, y \div 2)
      BY <2>0, <2>1 DEF LeftOf
    <3>2. CASE x % 2 = 1
      <4>1. PICK h, u, w : LeftStop(h, u, w, k2, x \div 2, y \div 2)
        BY <2>0, <3>1 DEF LeftStops
      <4>2. /\ Ascended[<<x, y>>] = Ascended[<<x \div 2, y \div 2>>]
            /\ Ascended[<<x, 2 * k2 - 1>>] = Ascended[<<x \div 2, k2 - 1>>]
        BY <3>1, <3>2, AscendedUp
      <4>3. LeftStop(h, u, w, 2 * k2, x, y)
        BY <4>1, <4>2 DEF LeftStop
      <4> QED
        BY <4>3
    <3>3. CASE x % 2 # 1
      <4>1. Ascended[<<x, y>>] = <<x, y>> /\ Ascended[<<x, 2 * k2 - 1>>] = <<x, 2 * k2 - 1>>
        BY <3>1, <3>3, AscendedUp
      <4>2. LeftStop(2 * k2, x, y, 2 * k2, x, y)
        BY <2>0, <2>1, <4>1 DEF LeftStop
      <4> QED
        BY <4>2
    <3> QED
      BY <3>2, <3>3
  <2>2. LeftStops(2 * k2)
    BY <2>1 DEF LeftStops
  <2>3. 2 * k2 \in Nat /\ 2 * k2 >= 1
    BY <2>0
  <2> QED
    BY <2>0, <2>2, <2>3 DEF S
<1>3. S \in SUBSET Nat
  OBVIOUS
<1> HIDE DEF S
<1>4. k \in S
  BY <1>1, <1>2, <1>3 DEF IsPower
<1> QED
  BY <1>4 DEF S

(* The same, but for a first tree that fills the second.                   *)
RightStop(h, u, w, k, x, y) ==
    /\ IsPower(h) /\ RightOf(h, u, w)
    /\ Ascended[<<x, y>>] = <<u, w>> /\ Ascended[<<x - k, y - k>>] = <<u - h, w - h>>

RightStops(k) == \A x, y : RightOf(k, x, y) /\ x # 2 * k - 1 => \E h, u, w : RightStop(h, u, w, k, x, y)

LEMMA AscendedRight ==
    ASSUME NEW k, IsPower(k)
    PROVE  RightStops(k)
<1> DEFINE S == {h \in Nat : h >= 1 /\ IsPower(h) /\ RightStops(h)}
<1>1. 1 \in S
  <2>1. \A x, y : ~(RightOf(1, x, y) /\ x # 2 * 1 - 1)
    BY DEF RightOf
  <2> QED
    BY <2>1, OneIsPower DEF RightStops
<1>2. ASSUME NEW k2 \in S PROVE 2 * k2 \in S
  <2>0. k2 \in Nat /\ k2 >= 1 /\ IsPower(k2) /\ RightStops(k2) /\ IsPower(2 * k2)
    BY DoubleIsPower
  <2> HIDE DEF S
  <2>1. ASSUME NEW x, NEW y, RightOf(2 * k2, x, y), x # 2 * (2 * k2) - 1
        PROVE  \E h, u, w : RightStop(h, u, w, 2 * k2, x, y)
    <3> DEFINE a == x - 2 * k2
               b == y - 2 * k2
    <3>1. /\ x \in Nat /\ y \in Nat /\ a \in Nat /\ b \in Nat /\ a % 2 = x % 2
          /\ a \div 2 = x \div 2 - k2 /\ b \div 2 = y \div 2 - k2
          /\ RightOf(k2, x \div 2, y \div 2)
          /\ x % 2 = 1 => x \div 2 # 2 * k2 - 1
      BY <2>0, <2>1 DEF RightOf
    <3> HIDE DEF a, b
    <3>2. CASE x % 2 = 1
      <4>1. PICK h, u, w : RightStop(h, u, w, k2, x \div 2, y \div 2)
        BY <2>0, <3>1, <3>2 DEF RightStops
      <4>2. /\ Ascended[<<x, y>>] = Ascended[<<x \div 2, y \div 2>>]
            /\ Ascended[<<a, b>>] = Ascended[<<x \div 2 - k2, y \div 2 - k2>>]
        BY <3>1, <3>2, AscendedUp
      <4>3. RightStop(h, u, w, 2 * k2, x, y)
        BY <4>1, <4>2 DEF RightStop, a, b
      <4> QED
        BY <4>3
    <3>3. CASE x % 2 # 1
      <4>1. Ascended[<<x, y>>] = <<x, y>> /\ Ascended[<<a, b>>] = <<a, b>>
        BY <3>1, <3>3, AscendedUp
      <4>2. RightStop(2 * k2, x, y, 2 * k2, x, y)
        BY <2>0, <2>1, <4>1 DEF RightStop, a, b
      <4> QED
        BY <4>2
    <3> QED
      BY <3>2, <3>3
  <2>2. RightStops(2 * k2)
    BY <2>1 DEF RightStops
  <2>3. 2 * k2 \in Nat /\ 2 * k2 >= 1
    BY <2>0
  <2> QED
    BY <2>0, <2>2, <2>3 DEF S
<1>3. S \in SUBSET Nat
  OBVIOUS
<1> HIDE DEF S
<1>4. k \in S
  BY <1>1, <1>2, <1>3 DEF IsPower
<1> QED
  BY <1>4 DEF S

(* A first tree that fills the second is ascended to their root.           *)
LEMMA AscendedWhole ==
    ASSUME NEW k, IsPower(k)
    PROVE  Ascended[<<k - 1, k - 1>>] = <<0, 0>>
<1> DEFINE S == {h \in Nat : h >= 1 /\ Ascended[<<h - 1, h - 1>>] = <<0, 0>>}
<1>1. 1 \in S
  <2>1. 1 - 1 = 0 /\ 0 \in Nat
    OBVIOUS
  <2> QED
    BY <2>1, AscendedZero
<1>2. ASSUME NEW h \in S PROVE 2 * h \in S
  <2>1. 2 * h - 1 \in Nat /\ (2 * h - 1) % 2 = 1 /\ (2 * h - 1) \div 2 = h - 1
    OBVIOUS
  <2>2. Ascended[<<2 * h - 1, 2 * h - 1>>] = Ascended[<<h - 1, h - 1>>]
    BY <2>1, AscendedUp
  <2> QED
    BY <2>2
<1>3. S \in SUBSET Nat
  OBVIOUS
<1> HIDE DEF S
<1>4. k \in S
  BY <1>1, <1>2, <1>3 DEF IsPower
<1> QED
  BY <1>4 DEF S
-----------------------------------------------------------------------------
(* What a seed and proof nodes combine to.                                 *)
Rejoin(seed, levels, nodes) ==
    CHOOSE up : up = [j \in 0..Len(levels) |->
                        IF j = 0 THEN [old |-> seed, new |-> seed]
                        ELSE Joined(up[j - 1], levels[j], nodes[j])]

LEMMA RejoinIs ==
    ASSUME NEW seed, NEW levels, Len(levels) \in Nat, NEW nodes
    PROVE  /\ Recomputed(seed, levels, nodes) = Rejoin(seed, levels, nodes)[Len(levels)]
           /\ Rejoin(seed, levels, nodes)[0] = [old |-> seed, new |-> seed]
           /\ \A j \in 1..Len(levels) :
                 Rejoin(seed, levels, nodes)[j]
                    = Joined(Rejoin(seed, levels, nodes)[j - 1], levels[j], nodes[j])
<1> DEFINE up == Rejoin(seed, levels, nodes)
           n == Len(levels)
           rank == [j \in 0..n |-> j]
           Is(f) == f = [j \in 0..n |-> IF j = 0 THEN [old |-> seed, new |-> seed]
                                        ELSE Joined(f[j - 1], levels[j], nodes[j])]
<1>1. Recomputed(seed, levels, nodes) = up[n]
  BY DEF Recomputed, Rejoin, Joined
<1>2. n \in Nat
  OBVIOUS
<1>3. rank \in [0..n -> Nat] /\ \A j \in 0..n : rank[j] = j
  OBVIOUS
<1>4. up = CHOOSE f : Is(f)
  BY DEF Rejoin
<1> HIDE DEF rank, up, n
<1>5. \A f, j : Turn("recomputed", seed, levels, nodes, f, j)
                   = IF j = 0 THEN [old |-> seed, new |-> seed]
                     ELSE Joined(f[j - 1], levels[j], nodes[j])
  BY DEF Turn
<1>6. ASSUME NEW j \in 0..n, NEW f, NEW g, \A q \in 0..n : rank[q] < rank[j] => f[q] = g[q]
      PROVE  Equal("recomputed", seed, levels, nodes, f, g, j)
  <2>1. j # 0 => j - 1 \in 0..n /\ rank[j - 1] < rank[j]
    BY <1>2, <1>3
  <2> QED
    BY <1>5, <1>6, <2>1 DEF Equal
<1>7. Ranked("recomputed", seed, levels, nodes, 0..n, rank)
  BY <1>3, <1>6 DEF Ranked
<1>8. \E f : Is(f)
  <2>1. PICK f : Solves("recomputed", seed, levels, nodes, 0..n, f)
    BY <1>7, Recursion
  <2>2. Is(f)
    BY <1>5, <2>1 DEF Solves
  <2> QED
    BY <2>2
<1>9. Is(up)
  BY <1>4, <1>8
<1>10. up[0] = [old |-> seed, new |-> seed]
       /\ \A j \in 1..n : up[j] = Joined(up[j - 1], levels[j], nodes[j])
  BY <1>2, <1>9
<1> QED
  BY <1>1, <1>10 DEF up, n

LEMMA RecomputedNone ==
    ASSUME NEW seed, NEW nodes
    PROVE  Recomputed(seed, <<>>, nodes) = [old |-> seed, new |-> seed]
<1>1. Len(<<>>) = 0
  OBVIOUS
<1>2. /\ Recomputed(seed, <<>>, nodes) = Rejoin(seed, <<>>, nodes)[Len(<<>>)]
      /\ Rejoin(seed, <<>>, nodes)[0] = [old |-> seed, new |-> seed]
  BY <1>1, RejoinIs
<1> QED
  BY <1>1, <1>2

(* One level more.                                                         *)
LEMMA RecomputedStep ==
    ASSUME NEW seed, NEW A, NEW levels \in Seq(A), NEW x \in A, NEW nodes
    PROVE  Recomputed(seed, Append(levels, x), nodes)
              = Joined(Recomputed(seed, levels, nodes), x, nodes[Len(levels) + 1])
<1> DEFINE more == Append(levels, x)
           u == Rejoin(seed, more, nodes)
           v == Rejoin(seed, levels, nodes)
           n == Len(levels)
<1>1. /\ n \in Nat /\ Len(more) = n + 1 /\ more[n + 1] = x /\ \A j \in 1..n : more[j] = levels[j]
  OBVIOUS
<1> HIDE DEF more
<1>2. /\ Recomputed(seed, more, nodes) = u[n + 1] /\ u[0] = [old |-> seed, new |-> seed]
      /\ \A j \in 1..(n + 1) : u[j] = Joined(u[j - 1], more[j], nodes[j])
  <2>1. Len(more) \in Nat
    BY <1>1
  <2>2. /\ Recomputed(seed, more, nodes) = u[Len(more)] /\ u[0] = [old |-> seed, new |-> seed]
        /\ \A j \in 1..Len(more) : u[j] = Joined(u[j - 1], more[j], nodes[j])
    BY <2>1, RejoinIs
  <2> HIDE DEF u, n
  <2> QED
    BY <1>1, <2>2
<1>3. /\ Recomputed(seed, levels, nodes) = v[n] /\ v[0] = [old |-> seed, new |-> seed]
      /\ \A j \in 1..n : v[j] = Joined(v[j - 1], levels[j], nodes[j])
  BY RejoinIs
<1> HIDE DEF u, v, n
<1>4. u[n] = v[n]
  <2>1. \A j \in 1..n : u[j - 1] = v[j - 1] => u[j] = v[j]
    <3>1. \A j \in 1..n : j \in 1..(n + 1)
      BY <1>1
    <3> QED
      BY <1>1, <1>2, <1>3, <3>1
  <2> QED
    BY <1>1, <1>2, <1>3, <2>1, Agreement
<1>5. u[n + 1] = Joined(u[n], x, nodes[n + 1])
  <2>1. n + 1 \in 1..(n + 1) /\ (n + 1) - 1 = n
    BY <1>1
  <2> QED
    BY <1>1, <1>2, <2>1
<1> QED
  BY <1>2, <1>3, <1>4, <1>5 DEF more, n

(* Proof nodes beyond the levels do not matter.                            *)
LEMMA RecomputedPrefix ==
    ASSUME NEW seed, NEW A, NEW levels \in Seq(A), NEW B, NEW nodes \in Seq(B), NEW y \in B,
           Len(nodes) = Len(levels)
    PROVE  Recomputed(seed, levels, Append(nodes, y)) = Recomputed(seed, levels, nodes)
<1> DEFINE more == Append(nodes, y)
           u == Rejoin(seed, levels, more)
           v == Rejoin(seed, levels, nodes)
           n == Len(levels)
<1>1. n \in Nat /\ \A j \in 1..n : more[j] = nodes[j]
  OBVIOUS
<1> HIDE DEF more
<1>2. /\ Recomputed(seed, levels, more) = u[n] /\ u[0] = [old |-> seed, new |-> seed]
      /\ \A j \in 1..n : u[j] = Joined(u[j - 1], levels[j], more[j])
  BY RejoinIs
<1>3. /\ Recomputed(seed, levels, nodes) = v[n] /\ v[0] = [old |-> seed, new |-> seed]
      /\ \A j \in 1..n : v[j] = Joined(v[j - 1], levels[j], nodes[j])
  BY RejoinIs
<1> HIDE DEF u, v, n
<1>4. \A j \in 1..n : u[j - 1] = v[j - 1] => u[j] = v[j]
  BY <1>1, <1>2, <1>3
<1>5. u[n] = v[n]
  BY <1>1, <1>2, <1>3, <1>4, Agreement
<1> QED
  BY <1>2, <1>3, <1>5 DEF more
-----------------------------------------------------------------------------
(* The consistency proof the log makes, by that of the half around m.      *)
SubproofRow(D, m, f, q) ==
    IF m = q[1][2] THEN IF q[2] THEN <<>> ELSE <<RootOf(D, q[1][1], q[1][2])>>
    ELSE IF m <= Middle(q[1]) THEN Append(f[<<Left(q[1]), q[2]>>], RootOf(D, Middle(q[1]), q[1][2]))
    ELSE Append(f[<<Right(q[1]), FALSE>>], RootOf(D, q[1][1], Middle(q[1])))

AreSubproofs(D, m, n, f) ==
    f = [q \in Around(m, n) \X BOOLEAN |->
            LET r == q[1]  b == q[2]
            IN  IF m = r[2] THEN IF b THEN <<>> ELSE <<RootOf(D, r[1], r[2])>>
                ELSE IF m <= Middle(r) THEN Append(f[<<Left(r), b>>], RootOf(D, Middle(r), r[2]))
                ELSE Append(f[<<Right(r), FALSE>>], RootOf(D, r[1], Middle(r)))]

SubproofIn(D, m, n) == CHOOSE f : AreSubproofs(D, m, n, f)

LEMMA AroundHalf ==
    ASSUME NEW n \in Nat, NEW m \in Nat, NEW r \in Around(m, n), m # r[2]
    PROVE  /\ r \in Ranges(n) /\ r[1] \in Nat /\ r[2] \in Nat /\ r[1] < m /\ m < r[2]
           /\ Size(r) \in Nat /\ Size(r) >= 2 /\ Size(r) = r[2] - r[1]
           /\ Middle(r) \in Nat /\ Left(r) = <<r[1], Middle(r)>> /\ Right(r) = <<Middle(r), r[2]>>
           /\ Size(Left(r)) \in Nat /\ Size(Left(r)) < Size(r)
           /\ Size(Right(r)) \in Nat /\ Size(Right(r)) < Size(r)
           /\ m <= Middle(r) => Left(r) \in Around(m, n)
           /\ ~(m <= Middle(r)) => Right(r) \in Around(m, n)
<1>1. /\ r \in Ranges(n) /\ r[1] \in Nat /\ r[2] \in Nat /\ r[1] < m /\ m < r[2]
      /\ Size(r) \in Nat /\ Size(r) >= 2 /\ Size(r) = r[2] - r[1]
  BY DEF Around, Ranges, Size
<1>2. /\ Left(r) \in Ranges(n) /\ Right(r) \in Ranges(n)
      /\ Size(Left(r)) \in Nat /\ Size(Left(r)) < Size(r)
      /\ Size(Right(r)) \in Nat /\ Size(Right(r)) < Size(r)
  BY <1>1, HalvesInside
<1>3. Left(r) = <<r[1], Middle(r)>> /\ Right(r) = <<Middle(r), r[2]>>
  BY DEF Left, Right
<1>4. Middle(r) \in Nat
  BY <1>2, <1>3 DEF Ranges
<1>5. m <= Middle(r) => Left(r) \in Around(m, n)
  BY <1>1, <1>2, <1>3 DEF Around
<1>6. ~(m <= Middle(r)) => Right(r) \in Around(m, n)
  BY <1>1, <1>2, <1>3, <1>4 DEF Around
<1> QED
  BY <1>1, <1>2, <1>3, <1>4, <1>5, <1>6

LEMMA SubproofSplits ==
    ASSUME NEW D, NEW n \in Nat, NEW m \in Nat, NEW r \in Around(m, n), NEW b \in BOOLEAN
    PROVE  LET s == SubproofIn(D, m, n)
           IN  /\ m = r[2] => s[<<r, b>>] = IF b THEN <<>> ELSE <<RootIn(D, r)>>
               /\ m # r[2] /\ m <= Middle(r) => s[<<r, b>>] = Append(s[<<Left(r), b>>], RootIn(D, Right(r)))
               /\ m # r[2] /\ ~(m <= Middle(r)) =>
                     s[<<r, b>>] = Append(s[<<Right(r), FALSE>>], RootIn(D, Left(r)))
<1> DEFINE Dom == Around(m, n) \X BOOLEAN
           rank == [q \in Dom |-> Size(q[1])]
<1>1. \A t \in Around(m, n) : Size(t) \in Nat
  BY DEF Around, Ranges, Size
<1>2. rank \in [Dom -> Nat] /\ \A q \in Dom : rank[q] = Size(q[1])
  BY <1>1
<1>3. \A q \in Dom : q[1] \in Around(m, n) /\ q[2] \in BOOLEAN
  OBVIOUS
<1>4. \A t \in Around(m, n), v \in BOOLEAN :
         <<t, v>> \in Dom /\ <<t, v>>[1] = t /\ <<t, v>>[2] = v
  OBVIOUS
<1> HIDE DEF rank, Dom
<1>5. \A f, q : Turn("subproof", D, m, n, f, q) = SubproofRow(D, m, f, q)
  BY DEF Turn, SubproofRow
<1>6. ASSUME NEW q \in Dom, NEW f, NEW g, \A p \in Dom : rank[p] < rank[q] => f[p] = g[p]
      PROVE  Equal("subproof", D, m, n, f, g, q)
  <2> DEFINE t == q[1]
             v == q[2]
  <2>0. t \in Around(m, n) /\ v \in BOOLEAN /\ rank[q] = Size(t)
    BY <1>2, <1>3
  <2> HIDE DEF t, v
  <2>1. ASSUME m # t[2], m <= Middle(t) PROVE f[<<Left(t), v>>] = g[<<Left(t), v>>]
    <3>1. Left(t) \in Around(m, n) /\ Size(Left(t)) < Size(t)
      BY <2>0, <2>1, AroundHalf
    <3>2. <<Left(t), v>> \in Dom /\ rank[<<Left(t), v>>] = Size(Left(t))
      BY <1>2, <1>4, <2>0, <3>1
    <3> QED
      BY <1>6, <2>0, <3>1, <3>2
  <2>2. ASSUME m # t[2], ~(m <= Middle(t)) PROVE f[<<Right(t), FALSE>>] = g[<<Right(t), FALSE>>]
    <3>1. Right(t) \in Around(m, n) /\ Size(Right(t)) < Size(t)
      BY <2>0, <2>2, AroundHalf
    <3>2. <<Right(t), FALSE>> \in Dom /\ rank[<<Right(t), FALSE>>] = Size(Right(t))
      BY <1>2, <1>4, <3>1
    <3> QED
      BY <1>6, <2>0, <3>1, <3>2
  <2>3. SubproofRow(D, m, f, q) = SubproofRow(D, m, g, q)
    BY <2>1, <2>2, Zenon DEF SubproofRow, t, v
  <2> QED
    BY <1>5, <2>3 DEF Equal
<1>7. Ranked("subproof", D, m, n, Dom, rank)
  BY <1>2, <1>6 DEF Ranked
<1> DEFINE s == SubproofIn(D, m, n)
<1>8. AreSubproofs(D, m, n, s)
  <2>1. PICK f : Solves("subproof", D, m, n, Dom, f)
    BY <1>7, Recursion
  <2>2. f = [q \in Dom |-> SubproofRow(D, m, f, q)]
    BY <1>5, <2>1 DEF Solves
  <2>3. AreSubproofs(D, m, n, f)
    BY <2>2 DEF AreSubproofs, SubproofRow, Dom
  <2> QED
    BY <2>3 DEF SubproofIn
<1> HIDE DEF s
<1>9. \A q \in Dom : s[q] = SubproofRow(D, m, s, q)
  BY <1>8 DEF AreSubproofs, SubproofRow, Dom
<1>10. \A t : /\ RootIn(D, Right(t)) = RootOf(D, Middle(t), t[2])
              /\ RootIn(D, Left(t)) = RootOf(D, t[1], Middle(t))
              /\ RootIn(D, t) = RootOf(D, t[1], t[2])
  BY DEF RootIn, Left, Right
<1> DEFINE q == <<r, b>>
<1>11. q \in Dom /\ q[1] = r /\ q[2] = b
  BY <1>4
<1> HIDE DEF q
<1>12. s[q] = SubproofRow(D, m, s, q)
  BY <1>9, <1>11
<1>13. m = r[2] => s[q] = IF b THEN <<>> ELSE <<RootIn(D, r)>>
  BY <1>10, <1>11, <1>12, Zenon DEF SubproofRow
<1>14. m # r[2] /\ m <= Middle(r) => s[q] = Append(s[<<Left(r), b>>], RootIn(D, Right(r)))
  BY <1>10, <1>11, <1>12, Zenon DEF SubproofRow
<1>15. m # r[2] /\ ~(m <= Middle(r)) => s[q] = Append(s[<<Right(r), FALSE>>], RootIn(D, Left(r)))
  BY <1>10, <1>11, <1>12, Zenon DEF SubproofRow
<1> QED
  BY <1>13, <1>14, <1>15 DEF q, s
-----------------------------------------------------------------------------
(* Where verifyConsistency starts in a range around the end of the first   *)
(* tree, as if the range were the second tree, and its levels from there.  *)
Place(r, m)    == <<m - 1 - r[1], r[2] - 1 - r[1]>>
Start(r, m)    == Ascended[Place(r, m)]
LevelsIn(r, m) == Levels[Start(r, m)]

LEMMA StartWhole ==
    ASSUME NEW n \in Nat, NEW m \in Nat, NEW r \in Around(m, n), m = r[2], IsPower(Size(r))
    PROVE  Start(r, m)[1] = 0 /\ LevelsIn(r, m) = <<>>
<1>1. Place(r, m) = <<Size(r) - 1, Size(r) - 1>>
  BY DEF Place, Size, Around, Ranges
<1>2. Start(r, m) = <<0, 0>>
  BY <1>1, AscendedWhole DEF Start
<1> QED
  BY <1>2, NoLevels DEF LevelsIn

LEMMA StartLeft ==
    ASSUME NEW n \in Nat, NEW m \in Nat, NEW r \in Around(m, n), m # r[2], m <= Middle(r)
    PROVE  /\ IsPower(Size(Left(r)))
           /\ Start(r, m)[1] = Start(Left(r), m)[1] /\ Start(r, m)[1] \in Nat
           /\ LevelsIn(Left(r), m) \in Seq(LevelNames)
           /\ LevelsIn(r, m) = Append(LevelsIn(Left(r), m), "second")
<1> DEFINE k == Split(Size(r))
           x == m - 1 - r[1]
           y == r[2] - 1 - r[1]
<1>1. /\ r[1] \in Nat /\ r[2] \in Nat /\ r[1] < m /\ m < r[2] /\ Size(r) = r[2] - r[1]
      /\ Size(r) \in Nat /\ Size(r) >= 2 /\ Left(r) = <<r[1], r[1] + k>> /\ Middle(r) = r[1] + k
  BY AroundHalf DEF Middle
<1>2. IsPower(k) /\ k < Size(r) /\ Size(r) <= 2 * k /\ k \in Nat /\ k >= 1
  BY <1>1, SplitIsPower, PowerIsNat
<1> HIDE DEF k
<1>3. Size(Left(r)) = k
  BY <1>1, <1>2 DEF Size
<1>4. LeftOf(k, x, y)
  BY <1>1, <1>2 DEF LeftOf
<1>5. Place(r, m) = <<x, y>> /\ Place(Left(r), m) = <<x, k - 1>>
  <2>1. Left(r)[1] = r[1] /\ Left(r)[2] - 1 - r[1] = k - 1
    BY <1>1, <1>2
  <2> QED
    BY <2>1 DEF Place
<1> HIDE DEF x, y
<1>6. PICK h, u, w : LeftStop(h, u, w, k, x, y)
  BY <1>2, <1>4, AscendedLeft DEF LeftStops
<1>7. Start(r, m) = <<u, w>> /\ Start(Left(r), m) = <<u, h - 1>>
  BY <1>5, <1>6 DEF LeftStop, Start
<1>8. IsPower(h) /\ LeftOf(h, u, w) /\ u \in Nat /\ h - 1 \in Nat
  BY <1>6, PowerIsNat DEF LeftStop, LeftOf
<1>9. Levels[<<u, w>>] = Append(Levels[<<u, h - 1>>], "second")
  BY <1>8, LevelsLeft
<1>10. Levels[<<u, h - 1>>] \in Seq(LevelNames)
  BY <1>8, LevelsType, PairFacts
<1> QED
  BY <1>2, <1>3, <1>7, <1>8, <1>9, <1>10 DEF LevelsIn

LEMMA StartRight ==
    ASSUME NEW n \in Nat, NEW m \in Nat, NEW r \in Around(m, n), m # r[2], ~(m <= Middle(r))
    PROVE  /\ Start(r, m)[1] # 0 /\ Start(r, m)[1] \in Nat
           /\ LevelsIn(Right(r), m) \in Seq(LevelNames)
           /\ LevelsIn(r, m) = Append(LevelsIn(Right(r), m), "both")
<1> DEFINE k == Split(Size(r))
           x == m - 1 - r[1]
           y == r[2] - 1 - r[1]
<1>1. /\ r[1] \in Nat /\ r[2] \in Nat /\ r[1] < m /\ m < r[2] /\ Size(r) = r[2] - r[1]
      /\ Size(r) \in Nat /\ Size(r) >= 2 /\ Right(r) = <<r[1] + k, r[2]>> /\ Middle(r) = r[1] + k
  BY AroundHalf DEF Middle
<1>2. IsPower(k) /\ k < Size(r) /\ Size(r) <= 2 * k /\ k \in Nat /\ k >= 1
  BY <1>1, SplitIsPower, PowerIsNat
<1> HIDE DEF k
<1>4. RightOf(k, x, y) /\ x # 2 * k - 1
  BY <1>1, <1>2 DEF RightOf
<1>5. Place(r, m) = <<x, y>> /\ Place(Right(r), m) = <<x - k, y - k>>
  <2>1. Right(r)[1] = r[1] + k /\ Right(r)[2] = r[2]
    BY <1>1, <1>2
  <2>2. m - 1 - (r[1] + k) = x - k /\ r[2] - 1 - (r[1] + k) = y - k
    BY <1>1, <1>2
  <2> QED
    BY <2>1, <2>2 DEF Place
<1> HIDE DEF x, y
<1>6. PICK h, u, w : RightStop(h, u, w, k, x, y)
  BY <1>2, <1>4, AscendedRight DEF RightStops
<1>7. Start(r, m) = <<u, w>> /\ Start(Right(r), m) = <<u - h, w - h>>
  BY <1>5, <1>6 DEF RightStop, Start
<1>8. IsPower(h) /\ RightOf(h, u, w) /\ u # 0 /\ u \in Nat /\ u - h \in Nat /\ w - h \in Nat
  BY <1>6, PowerIsNat DEF RightStop, RightOf
<1>9. Levels[<<u, w>>] = Append(Levels[<<u - h, w - h>>], "both")
  BY <1>8, LevelsRight
<1>10. Levels[<<u - h, w - h>>] \in Seq(LevelNames)
  BY <1>8, LevelsType, PairFacts
<1> QED
  BY <1>7, <1>8, <1>9, <1>10 DEF LevelsIn

(* An end in the right half: the first tree has the same left half.        *)
LEMMA FirstSplits ==
    ASSUME NEW D, Len(D) \in Nat, NEW n \in 0..Len(D), NEW m \in Nat,
           NEW r \in Around(m, n), m # r[2], ~(m <= Middle(r))
    PROVE  RootOf(D, r[1], m) = hashNode(RootIn(D, Left(r)), RootOf(D, Middle(r), m))
<1> DEFINE k == Split(Size(r))
           q == <<r[1], m>>
<1>1. /\ r[1] \in Nat /\ r[2] \in Nat /\ r[1] < m /\ m < r[2] /\ Size(r) = r[2] - r[1] /\ r \in Ranges(n)
      /\ Size(r) \in Nat /\ Size(r) >= 2 /\ Left(r) = <<r[1], r[1] + k>> /\ Middle(r) = r[1] + k
  BY AroundHalf DEF Middle
<1>2. IsPower(k) /\ k < Size(r) /\ Size(r) <= 2 * k /\ k \in Nat /\ k >= 1
  BY <1>1, SplitIsPower, PowerIsNat
<1> HIDE DEF k
<1>3. /\ q \in Ranges(Len(D)) /\ q[1] = r[1] /\ q[2] = m /\ Size(q) = m - r[1]
      /\ Size(q) \in Nat /\ k < Size(q) /\ Size(q) <= 2 * k
  BY <1>1, <1>2 DEF Ranges, Size
<1> HIDE DEF q
<1>4. Split(Size(q)) = k
  BY <1>2, <1>3, SplitIs
<1>5. Left(q) = Left(r) /\ Right(q) = <<Middle(r), m>>
  BY <1>1, <1>3, <1>4 DEF Left, Right, Middle
<1>6. 1 <= Size(q) /\ ~(Size(q) <= 1)
  BY <1>2, <1>3
<1>7. RootIn(D, q) = hashNode(RootIn(D, Left(q)), RootIn(D, Right(q)))
  BY <1>3, <1>6, RootSplits
<1> QED
  BY <1>3, <1>5, <1>7 DEF RootIn

(* Whatever seed and nodes combine to the root of the range as that of the *)
(* second tree, they combine to that of the first tree in it as the first, *)
(* and so is the seed where the code uses the first root for it.           *)
Decides(D, m, r) ==
    \A seed, nodes :
        LET roots == Recomputed(seed, LevelsIn(r, m), nodes)
        IN  roots.new = RootIn(D, r) => /\ roots.old = RootOf(D, r[1], m)
                                        /\ Start(r, m)[1] = 0 => seed = RootOf(D, r[1], m)

(* And the proof the log makes does.                                       *)
Delivers(D, m, n, r, b, seed, nodes) ==
    LET V == {RootIn(D, p) : p \in Ranges(n)}
    IN  /\ seed \in V /\ nodes \in Seq(V)
        /\ Len(nodes) = Len(LevelsIn(r, m))
        /\ SubproofIn(D, m, n)[<<r, b>>]
              = IF b /\ Start(r, m)[1] = 0 THEN nodes ELSE <<seed>> \o nodes
        /\ Start(r, m)[1] = 0 => seed = RootOf(D, r[1], m)
        /\ Recomputed(seed, LevelsIn(r, m), nodes)
              = [old |-> RootOf(D, r[1], m), new |-> RootIn(D, r)]

Connects(D, m, n, r) ==
    /\ LevelsIn(r, m) \in Seq(LevelNames)
    /\ Decides(D, m, r)
    /\ \A b \in BOOLEAN : \E seed, nodes : Delivers(D, m, n, r, b, seed, nodes)

LEMMA WholeConnects ==
    ASSUME NEW D, NEW n \in Nat, NEW m \in Nat, NEW r \in Around(m, n), m = r[2], IsPower(Size(r))
    PROVE  Connects(D, m, n, r)
<1>1. Start(r, m)[1] = 0 /\ LevelsIn(r, m) = <<>>
  BY StartWhole
<1>2. RootOf(D, r[1], m) = RootIn(D, r) /\ r \in Ranges(n)
  BY DEF RootIn, Around
<1>3. \A seed, nodes : Recomputed(seed, <<>>, nodes) = [old |-> seed, new |-> seed]
  BY RecomputedNone
<1>4. Decides(D, m, r)
  BY <1>1, <1>2, <1>3 DEF Decides
<1>5. ASSUME NEW b \in BOOLEAN PROVE Delivers(D, m, n, r, b, RootIn(D, r), <<>>)
  <2>1. SubproofIn(D, m, n)[<<r, b>>] = IF b THEN <<>> ELSE <<RootIn(D, r)>>
    BY SubproofSplits, ZenonT(40)
  <2>2. <<RootIn(D, r)>> \o <<>> = <<RootIn(D, r)>>
    OBVIOUS
  <2>3. \A V : <<>> \in Seq(V)
    OBVIOUS
  <2> QED
    BY <1>1, <1>2, <1>3, <2>1, <2>2, <2>3 DEF Delivers
<1>6. <<>> \in Seq(LevelNames)
  OBVIOUS
<1> QED
  BY <1>1, <1>4, <1>5, <1>6 DEF Connects

LEMMA LeftDecides ==
    ASSUME NEW D, NEW n \in Nat, NEW m \in Nat, NEW r \in Around(m, n), m # r[2], m <= Middle(r),
           RootIn(D, r) = hashNode(RootIn(D, Left(r)), RootIn(D, Right(r))), Decides(D, m, Left(r))
    PROVE  Decides(D, m, r)
<1> DEFINE half == LevelsIn(Left(r), m)
<1>1. /\ Start(r, m)[1] = Start(Left(r), m)[1] /\ half \in Seq(LevelNames)
      /\ LevelsIn(r, m) = Append(half, "second")
  BY StartLeft
<1>2. Left(r)[1] = r[1]
  BY DEF Left
<1> HIDE DEF half
<1>3. ASSUME NEW seed, NEW nodes, Recomputed(seed, Append(half, "second"), nodes).new = RootIn(D, r)
      PROVE  /\ Recomputed(seed, Append(half, "second"), nodes).old = RootOf(D, r[1], m)
             /\ Start(r, m)[1] = 0 => seed = RootOf(D, r[1], m)
  <2> DEFINE t == Recomputed(seed, half, nodes)
             y == nodes[Len(half) + 1]
  <2>1. Recomputed(seed, Append(half, "second"), nodes) = Joined(t, "second", y)
    <3>1. "second" \in LevelNames
      BY DEF LevelNames
    <3> QED
      BY <1>1, <3>1, RecomputedStep
  <2> HIDE DEF t, y
  <2>2. Joined(t, "second", y).old = t.old /\ Joined(t, "second", y).new = hashNode(t.new, y)
    BY DEF Joined
  <2>3. t.new = RootIn(D, Left(r))
    <3>1. \A a, b, c, d : hashNode(a, b) = hashNode(c, d) => a = c
      BY DEF hashNode
    <3> QED
      BY <1>3, <2>1, <2>2, <3>1
  <2>4. t.old = RootOf(D, r[1], m) /\ (Start(Left(r), m)[1] = 0 => seed = RootOf(D, r[1], m))
    BY <1>2, <2>3 DEF Decides, t, half
  <2> QED
    BY <1>1, <2>1, <2>2, <2>4
<1> QED
  BY <1>1, <1>3 DEF Decides

LEMMA RightDecides ==
    ASSUME NEW D, NEW n \in Nat, NEW m \in Nat, NEW r \in Around(m, n), m # r[2], ~(m <= Middle(r)),
           RootIn(D, r) = hashNode(RootIn(D, Left(r)), RootIn(D, Right(r))),
           RootOf(D, r[1], m) = hashNode(RootIn(D, Left(r)), RootOf(D, Middle(r), m)),
           Decides(D, m, Right(r))
    PROVE  Decides(D, m, r)
<1> DEFINE half == LevelsIn(Right(r), m)
<1>1. /\ Start(r, m)[1] # 0 /\ half \in Seq(LevelNames)
      /\ LevelsIn(r, m) = Append(half, "both")
  BY StartRight
<1>2. Right(r)[1] = Middle(r)
  BY DEF Right
<1> HIDE DEF half
<1>3. ASSUME NEW seed, NEW nodes, Recomputed(seed, Append(half, "both"), nodes).new = RootIn(D, r)
      PROVE  Recomputed(seed, Append(half, "both"), nodes).old = RootOf(D, r[1], m)
  <2> DEFINE t == Recomputed(seed, half, nodes)
             y == nodes[Len(half) + 1]
  <2>1. Recomputed(seed, Append(half, "both"), nodes) = Joined(t, "both", y)
    <3>1. "both" \in LevelNames
      BY DEF LevelNames
    <3> QED
      BY <1>1, <3>1, RecomputedStep
  <2> HIDE DEF t, y
  <2>2. /\ Joined(t, "both", y).old = hashNode(y, t.old)
        /\ Joined(t, "both", y).new = hashNode(y, t.new)
    BY DEF Joined
  <2>3. y = RootIn(D, Left(r)) /\ t.new = RootIn(D, Right(r))
    <3>1. \A a, b, c, d : hashNode(a, b) = hashNode(c, d) => a = c /\ b = d
      BY DEF hashNode
    <3> QED
      BY <1>3, <2>1, <2>2, <3>1
  <2>4. t.old = RootOf(D, Middle(r), m)
    BY <1>2, <2>3 DEF Decides, t, half
  <2> QED
    BY <2>1, <2>2, <2>3, <2>4
<1> QED
  BY <1>1, <1>3 DEF Decides

(* A proof node more, on the level it is for.                              *)
LEMMA DeliversMore ==
    ASSUME NEW V, NEW seed \in V, NEW nodes \in Seq(V), NEW y \in V,
           NEW half \in Seq(LevelNames), Len(nodes) = Len(half), NEW level \in LevelNames
    PROVE  /\ Append(nodes, y) \in Seq(V)
           /\ Len(Append(nodes, y)) = Len(Append(half, level))
           /\ <<seed>> \o Append(nodes, y) = Append(<<seed>> \o nodes, y)
           /\ Recomputed(seed, Append(half, level), Append(nodes, y))
                 = Joined(Recomputed(seed, half, nodes), level, y)
<1>1. /\ Append(nodes, y) \in Seq(V) /\ Len(Append(nodes, y)) = Len(Append(half, level))
      /\ Append(nodes, y)[Len(half) + 1] = y /\ <<seed>> \in Seq(V)
  OBVIOUS
<1>2. <<seed>> \o Append(nodes, y) = Append(<<seed>> \o nodes, y)
  BY <1>1, JoinAppend
<1>3. Recomputed(seed, Append(half, level), Append(nodes, y))
         = Joined(Recomputed(seed, half, Append(nodes, y)), level, y)
  <2> DEFINE more == Append(nodes, y)
  <2>1. more[Len(half) + 1] = y
    BY <1>1
  <2> HIDE DEF more
  <2>2. Recomputed(seed, Append(half, level), more)
           = Joined(Recomputed(seed, half, more), level, more[Len(half) + 1])
    BY RecomputedStep
  <2> QED
    BY <2>1, <2>2 DEF more
<1>4. Recomputed(seed, half, Append(nodes, y)) = Recomputed(seed, half, nodes)
  BY RecomputedPrefix
<1> QED
  BY <1>1, <1>2, <1>3, <1>4

LEMMA LeftConnects ==
    ASSUME NEW D, NEW n \in Nat, NEW m \in Nat, NEW r \in Around(m, n), m # r[2], m <= Middle(r),
           RootIn(D, r) = hashNode(RootIn(D, Left(r)), RootIn(D, Right(r))), Connects(D, m, n, Left(r))
    PROVE  Connects(D, m, n, r)
<1> DEFINE half == LevelsIn(Left(r), m)
           V == {RootIn(D, p) : p \in Ranges(n)}
           y == RootIn(D, Right(r))
<1>1. /\ Start(r, m)[1] = Start(Left(r), m)[1] /\ half \in Seq(LevelNames)
      /\ LevelsIn(r, m) = Append(half, "second")
  BY StartLeft
<1>2. Left(r)[1] = r[1] /\ "second" \in LevelNames
  BY DEF Left, LevelNames
<1>3. y \in V
  <2>1. Size(r) >= 2 /\ r \in Ranges(n) /\ Size(r) \in Nat
    BY AroundHalf
  <2>2. Right(r) \in Ranges(n)
    BY <2>1, HalvesInside
  <2> QED
    BY <2>2
<1>4. Decides(D, m, r)
  BY LeftDecides DEF Connects
<1>5. ASSUME NEW b \in BOOLEAN PROVE \E seed, nodes : Delivers(D, m, n, r, b, seed, nodes)
  <2>1. PICK seed, nodes : Delivers(D, m, n, Left(r), b, seed, nodes)
    BY DEF Connects
  <2>2. /\ seed \in V /\ nodes \in Seq(V) /\ Len(nodes) = Len(half)
        /\ SubproofIn(D, m, n)[<<Left(r), b>>]
              = IF b /\ Start(r, m)[1] = 0 THEN nodes ELSE <<seed>> \o nodes
        /\ Start(r, m)[1] = 0 => seed = RootOf(D, r[1], m)
        /\ Recomputed(seed, half, nodes) = [old |-> RootOf(D, r[1], m), new |-> RootIn(D, Left(r))]
    BY <1>1, <1>2, <2>1 DEF Delivers
  <2>3. SubproofIn(D, m, n)[<<r, b>>] = Append(SubproofIn(D, m, n)[<<Left(r), b>>], y)
    BY SubproofSplits
  <2> HIDE DEF half, V, y
  <2>4. /\ Append(nodes, y) \in Seq(V)
        /\ Len(Append(nodes, y)) = Len(Append(half, "second"))
        /\ <<seed>> \o Append(nodes, y) = Append(<<seed>> \o nodes, y)
        /\ Recomputed(seed, Append(half, "second"), Append(nodes, y))
              = Joined(Recomputed(seed, half, nodes), "second", y)
    BY <1>1, <1>2, <1>3, <2>2, DeliversMore
  <2>5. Joined([old |-> RootOf(D, r[1], m), new |-> RootIn(D, Left(r))], "second", y)
           = [old |-> RootOf(D, r[1], m), new |-> RootIn(D, r)]
    BY DEF Joined, y
  <2>6. SubproofIn(D, m, n)[<<r, b>>]
           = IF b /\ Start(r, m)[1] = 0 THEN Append(nodes, y) ELSE <<seed>> \o Append(nodes, y)
    BY <2>2, <2>3, <2>4
  <2>7. Delivers(D, m, n, r, b, seed, Append(nodes, y))
    BY <1>1, <2>2, <2>4, <2>5, <2>6 DEF Delivers, V
  <2> QED
    BY <2>7
<1>6. LevelsIn(r, m) \in Seq(LevelNames)
  BY <1>1, <1>2
<1> QED
  BY <1>4, <1>5, <1>6 DEF Connects

LEMMA RightConnects ==
    ASSUME NEW D, Len(D) \in Nat, NEW n \in 0..Len(D), NEW m \in Nat,
           NEW r \in Around(m, n), m # r[2], ~(m <= Middle(r)),
           RootIn(D, r) = hashNode(RootIn(D, Left(r)), RootIn(D, Right(r))), Connects(D, m, n, Right(r))
    PROVE  Connects(D, m, n, r)
<1> DEFINE half == LevelsIn(Right(r), m)
           V == {RootIn(D, p) : p \in Ranges(n)}
           y == RootIn(D, Left(r))
<1>0. n \in Nat
  OBVIOUS
<1>1. /\ Start(r, m)[1] # 0 /\ half \in Seq(LevelNames)
      /\ LevelsIn(r, m) = Append(half, "both")
  BY <1>0, StartRight
<1>2. Right(r)[1] = Middle(r) /\ "both" \in LevelNames
  BY DEF Right, LevelNames
<1>3. y \in V
  <2>1. Size(r) >= 2 /\ r \in Ranges(n) /\ Size(r) \in Nat
    BY <1>0, AroundHalf
  <2>2. Left(r) \in Ranges(n)
    BY <1>0, <2>1, HalvesInside
  <2> QED
    BY <2>2
<1>a. RootOf(D, r[1], m) = hashNode(y, RootOf(D, Middle(r), m))
  BY FirstSplits
<1>4. Decides(D, m, r)
  BY <1>0, <1>a, RightDecides DEF Connects
<1>5. ASSUME NEW b \in BOOLEAN PROVE \E seed, nodes : Delivers(D, m, n, r, b, seed, nodes)
  <2>1. PICK seed, nodes : Delivers(D, m, n, Right(r), FALSE, seed, nodes)
    BY DEF Connects
  <2>2. /\ seed \in V /\ nodes \in Seq(V) /\ Len(nodes) = Len(half)
        /\ SubproofIn(D, m, n)[<<Right(r), FALSE>>] = <<seed>> \o nodes
        /\ Recomputed(seed, half, nodes) = [old |-> RootOf(D, Middle(r), m), new |-> RootIn(D, Right(r))]
    BY <1>1, <1>2, <2>1 DEF Delivers
  <2>3. SubproofIn(D, m, n)[<<r, b>>] = Append(SubproofIn(D, m, n)[<<Right(r), FALSE>>], y)
    BY <1>0, SubproofSplits
  <2> HIDE DEF half, V, y
  <2>4. /\ Append(nodes, y) \in Seq(V)
        /\ Len(Append(nodes, y)) = Len(Append(half, "both"))
        /\ <<seed>> \o Append(nodes, y) = Append(<<seed>> \o nodes, y)
        /\ Recomputed(seed, Append(half, "both"), Append(nodes, y))
              = Joined(Recomputed(seed, half, nodes), "both", y)
    BY <1>1, <1>2, <1>3, <2>2, DeliversMore
  <2>5. Joined([old |-> RootOf(D, Middle(r), m), new |-> RootIn(D, Right(r))], "both", y)
           = [old |-> RootOf(D, r[1], m), new |-> RootIn(D, r)]
    BY <1>a DEF Joined, y
  <2>6. SubproofIn(D, m, n)[<<r, b>>] = <<seed>> \o Append(nodes, y)
    BY <2>2, <2>3, <2>4
  <2>7. Delivers(D, m, n, r, b, seed, Append(nodes, y))
    BY <1>1, <2>2, <2>4, <2>5, <2>6 DEF Delivers, V
  <2> QED
    BY <2>7
<1>6. LevelsIn(r, m) \in Seq(LevelNames)
  BY <1>1, <1>2
<1> QED
  BY <1>4, <1>5, <1>6 DEF Connects

LEMMA EveryRangeConnects ==
    ASSUME NEW D, Len(D) \in Nat, NEW n \in 0..Len(D), NEW m \in Nat
    PROVE  \A r \in Around(m, n) : m < r[2] \/ IsPower(Size(r)) => Connects(D, m, n, r)
<1> DEFINE S == {l \in Nat : \A r \in Around(m, n) :
                    (m < r[2] \/ IsPower(Size(r))) /\ Size(r) <= l => Connects(D, m, n, r)}
<1>0. n \in Nat /\ \A r \in Around(m, n) : Size(r) \in Nat /\ Size(r) >= 1 /\ r[2] \in Nat /\ Size(r) <= n
  BY DEF Around, Ranges, Size
<1>1. 0 \in S
  <2>1. \A r \in Around(m, n) : ~(Size(r) <= 0)
    BY <1>0
  <2> QED
    BY <2>1
<1>2. ASSUME NEW l \in S PROVE l + 1 \in S
  <2>0. l \in Nat /\ \A r \in Around(m, n) :
                        (m < r[2] \/ IsPower(Size(r))) /\ Size(r) <= l => Connects(D, m, n, r)
    OBVIOUS
  <2> HIDE DEF S
  <2>1. ASSUME NEW r \in Around(m, n), m < r[2] \/ IsPower(Size(r)), Size(r) <= l + 1
        PROVE  Connects(D, m, n, r)
    <3>1. CASE m = r[2]
      BY <1>0, <2>1, <3>1, WholeConnects
    <3>2. CASE m # r[2]
      <4>1. /\ m < r[2] /\ Size(r) \in Nat /\ Size(r) >= 2 /\ r \in Ranges(n)
            /\ Left(r) = <<r[1], Middle(r)>> /\ Right(r) = <<Middle(r), r[2]>>
            /\ Size(Left(r)) \in Nat /\ Size(Left(r)) < Size(r)
            /\ Size(Right(r)) \in Nat /\ Size(Right(r)) < Size(r)
            /\ m <= Middle(r) => Left(r) \in Around(m, n)
            /\ ~(m <= Middle(r)) => Right(r) \in Around(m, n)
        BY <1>0, <3>2, AroundHalf
      <4>2. RootIn(D, r) = hashNode(RootIn(D, Left(r)), RootIn(D, Right(r)))
        <5>1. r \in Ranges(Len(D)) /\ 1 <= Size(r) /\ ~(Size(r) <= 1)
          BY <4>1 DEF Ranges
        <5> QED
          BY <5>1, RootSplits
      <4>3. CASE m <= Middle(r)
        <5>1. IsPower(Size(Left(r)))
          BY <1>0, <3>2, <4>3, StartLeft
        <5>2. Connects(D, m, n, Left(r))
          BY <2>0, <2>1, <4>1, <4>3, <5>1
        <5> QED
          BY <1>0, <3>2, <4>2, <4>3, <5>2, LeftConnects
      <4>4. CASE ~(m <= Middle(r))
        <5>1. m < Right(r)[2]
          BY <4>1
        <5>2. Connects(D, m, n, Right(r))
          BY <2>0, <2>1, <4>1, <4>4, <5>1
        <5> QED
          BY <3>2, <4>2, <4>4, <5>2, RightConnects
      <4> QED
        BY <4>3, <4>4
    <3> QED
      BY <3>1, <3>2
  <2> QED
    BY <2>0, <2>1 DEF S
<1>3. n \in S
  <2>1. S \in SUBSET Nat
    OBVIOUS
  <2> HIDE DEF S
  <2> QED
    BY <1>0, <1>1, <1>2, <2>1, SetInduction
<1> QED
  BY <1>0, <1>3
-----------------------------------------------------------------------------
(* What the verifier looks at between two trees of different sizes.        *)
LEMMA VerifierStarts ==
    ASSUME NEW n \in Nat, NEW m \in Nat, 1 <= m, m < n, NEW old, NEW new, NEW proof
    PROVE  LET r     == <<0, n>>
               start == Start(r, m)[1]
               l     == LevelsIn(r, m)
           IN  /\ start > 0 =>
                     (VerifyConsistency(m, old, n, new, proof)
                         <=> /\ Len(proof) = Len(l) + 1
                             /\ Recomputed(proof[1], l, Tail(proof)).old = old
                             /\ Recomputed(proof[1], l, Tail(proof)).new = new)
               /\ ~(start > 0) =>
                     (VerifyConsistency(m, old, n, new, proof)
                         <=> /\ Len(proof) = Len(l) + 0
                             /\ Recomputed(old, l, proof).old = old
                             /\ Recomputed(old, l, proof).new = new)
<1>1. Place(<<0, n>>, m) = <<m - 1, n - 1>>
  BY DEF Place
<1>2. Start(<<0, n>>, m) = Ascended[<<m - 1, n - 1>>]
  BY <1>1 DEF Start
<1>3. m # n /\ m # 0 /\ ~(m < 0 \/ n < m)
  OBVIOUS
<1> DEFINE start == Ascended[<<m - 1, n - 1>>]
           seeded == start[1] > 0
           roots == Recomputed(IF seeded THEN proof[1] ELSE old, Levels[start],
                               IF seeded THEN Tail(proof) ELSE proof)
<1>4. VerifyConsistency(m, old, n, new, proof)
         <=> /\ Len(proof) = Len(Levels[start]) + (IF seeded THEN 1 ELSE 0)
             /\ roots.old = old
             /\ roots.new = new
  BY <1>3, Zenon DEF VerifyConsistency
<1> DEFINE l == LevelsIn(<<0, n>>, m)
<1>5. l = Levels[start]
  BY <1>2 DEF LevelsIn
<1> HIDE DEF start, l
<1>6. ASSUME seeded PROVE roots = Recomputed(proof[1], l, Tail(proof))
  BY <1>5, <1>6, Zenon
<1>7. ASSUME ~seeded PROVE roots = Recomputed(old, l, proof)
  BY <1>5, <1>7, Zenon
<1> HIDE DEF roots
<1>8. ASSUME seeded
      PROVE  VerifyConsistency(m, old, n, new, proof)
                <=> /\ Len(proof) = Len(l) + 1
                    /\ Recomputed(proof[1], l, Tail(proof)).old = old
                    /\ Recomputed(proof[1], l, Tail(proof)).new = new
  BY <1>4, <1>5, <1>6, <1>8, Zenon
<1>9. ASSUME ~seeded
      PROVE  VerifyConsistency(m, old, n, new, proof)
                <=> /\ Len(proof) = Len(l) + 0
                    /\ Recomputed(old, l, proof).old = old
                    /\ Recomputed(old, l, proof).new = new
  BY <1>4, <1>5, <1>7, <1>9, Zenon
<1>10. Start(<<0, n>>, m) = start
  BY <1>2 DEF start
<1> QED
  BY <1>8, <1>9, <1>10, Zenon DEF l

LEMMA WholeRange ==
    ASSUME NEW E, NEW D \in Seq(E), NEW n \in 1..Len(D), NEW m \in Nat, 1 <= m, m < n
    PROVE  /\ <<0, n>> \in Around(m, n) /\ Connects(D, m, n, <<0, n>>)
           /\ RootIn(D, <<0, n>>) = Root(D, n)
           /\ RootOf(D, <<0, n>>[1], m) = Root(D, m)
           /\ Start(<<0, n>>, m)[1] \in Nat
<1>1. Len(D) \in Nat /\ n \in 0..Len(D) /\ n \in Nat /\ m \in 1..Len(D)
  OBVIOUS
<1> DEFINE r == <<0, n>>
<1>2. r \in Around(m, n) /\ r[1] = 0 /\ r[2] = n
  BY DEF Around, Ranges
<1>3. RootIn(D, r) = Root(D, n) /\ RootOf(D, r[1], m) = Root(D, m)
  BY <1>1, RootOfPrefix DEF RootIn
<1> HIDE DEF r
<1>4. Connects(D, m, n, r)
  BY <1>1, <1>2, EveryRangeConnects
<1>5. Start(r, m)[1] \in Nat
  <2>1. CASE m <= Middle(r)
    <3>1. m # r[2]
      BY <1>2
    <3> QED
      BY <1>1, <1>2, <2>1, <3>1, StartLeft
  <2>2. CASE ~(m <= Middle(r))
    <3>1. m # r[2]
      BY <1>2
    <3> QED
      BY <1>1, <1>2, <2>2, <3>1, StartRight
  <2> QED
    BY <2>1, <2>2
<1> QED
  BY <1>2, <1>3, <1>4, <1>5 DEF r

(* A seed before proof nodes.                                              *)
LEMMA SeedFirst ==
    ASSUME NEW V, NEW seed \in V, NEW nodes \in Seq(V)
    PROVE  LET proof == <<seed>> \o nodes
           IN  proof[1] = seed /\ Tail(proof) = nodes /\ Len(proof) = Len(nodes) + 1
<1> DEFINE proof == <<seed>> \o nodes
<1>1. <<seed>> \in Seq(V) /\ Len(<<seed>>) = 1 /\ <<seed>>[1] = seed /\ Len(nodes) \in Nat
  OBVIOUS
<1>2. /\ proof \in Seq(V) /\ Len(proof) = 1 + Len(nodes)
      /\ \A i \in 1..(1 + Len(nodes)) : proof[i] = IF i <= 1 THEN <<seed>>[i] ELSE nodes[i - 1]
  BY <1>1, ConcatProperties
<1> HIDE DEF proof
<1>3. proof[1] = seed /\ Len(proof) = Len(nodes) + 1 /\ proof # <<>>
  BY <1>1, <1>2
<1>4. /\ Tail(proof) \in Seq(V) /\ Len(Tail(proof)) = Len(nodes)
      /\ \A i \in 1..Len(nodes) : Tail(proof)[i] = nodes[i]
  <2>1. /\ Tail(proof) \in Seq(V) /\ Len(Tail(proof)) = Len(proof) - 1
        /\ \A i \in 1..Len(Tail(proof)) : Tail(proof)[i] = proof[i + 1]
    BY <1>2, <1>3
  <2> QED
    BY <1>1, <1>2, <1>3, <2>1
<1>5. Tail(proof) = nodes
  BY <1>4, SeqEqual
<1> QED
  BY <1>3, <1>5 DEF proof

(* The proof the log makes between the roots of its first m and first n    *)
(* entries is accepted ("detect log rewrites", log.ts:242-246; b of        *)
(* SUBPROOF), whatever the entries and however many.                       *)
THEOREM ConsistencyIsComplete ==
    ASSUME NEW E, NEW D \in Seq(E), NEW n \in 0..Len(D), NEW m \in 0..n
    PROVE  VerifyConsistency(m, Root(D, m), n, Root(D, n), ConsistencyProof(D, m, n))
<1>0. m \in Nat /\ n \in Nat /\ ~(m < 0) /\ ~(n < m)
  OBVIOUS
<1>1. CASE m = n
  BY <1>0, <1>1 DEF VerifyConsistency, ConsistencyProof
<1>2. CASE m # n /\ m = 0
  BY <1>0, <1>2 DEF VerifyConsistency
<1>3. CASE m # n /\ m # 0
  <2> DEFINE r     == <<0, n>>
             proof == ConsistencyProof(D, m, n)
             start == Start(r, m)[1]
             V     == {RootIn(D, p) : p \in Ranges(n)}
  <2>1. 1 <= m /\ m < n /\ n \in 1..Len(D)
    BY <1>0, <1>3
  <2>2. /\ r \in Around(m, n) /\ Connects(D, m, n, r) /\ RootIn(D, r) = Root(D, n)
        /\ RootOf(D, r[1], m) = Root(D, m) /\ start \in Nat
    BY <1>0, <2>1, WholeRange
  <2>3. proof = SubproofIn(D, m, n)[<<r, TRUE>>]
    BY <1>3 DEF ConsistencyProof, SubproofIn, AreSubproofs
  <2>4. PICK seed, nodes : Delivers(D, m, n, r, TRUE, seed, nodes)
    BY <2>2 DEF Connects
  <2>5. /\ seed \in V /\ nodes \in Seq(V) /\ Len(nodes) = Len(LevelsIn(r, m))
        /\ proof = IF start = 0 THEN nodes ELSE <<seed>> \o nodes
        /\ start = 0 => seed = Root(D, m)
        /\ Recomputed(seed, LevelsIn(r, m), nodes) = [old |-> Root(D, m), new |-> Root(D, n)]
    BY <2>2, <2>3, <2>4 DEF Delivers
  <2>6. /\ start > 0 =>
              (VerifyConsistency(m, Root(D, m), n, Root(D, n), proof)
                  <=> /\ Len(proof) = Len(LevelsIn(r, m)) + 1
                      /\ Recomputed(proof[1], LevelsIn(r, m), Tail(proof)).old = Root(D, m)
                      /\ Recomputed(proof[1], LevelsIn(r, m), Tail(proof)).new = Root(D, n))
        /\ ~(start > 0) =>
              (VerifyConsistency(m, Root(D, m), n, Root(D, n), proof)
                  <=> /\ Len(proof) = Len(LevelsIn(r, m)) + 0
                      /\ Recomputed(Root(D, m), LevelsIn(r, m), proof).old = Root(D, m)
                      /\ Recomputed(Root(D, m), LevelsIn(r, m), proof).new = Root(D, n))
    BY <1>0, <2>1, VerifierStarts
  <2> DEFINE accepted == VerifyConsistency(m, Root(D, m), n, Root(D, n), proof)
             l == LevelsIn(r, m)
  <2> HIDE DEF r, proof, start, V, accepted, l
  <2>7. CASE start = 0
    <3>1. ~(start > 0) /\ proof = nodes /\ Len(nodes) + 0 = Len(nodes)
      BY <2>5, <2>7
    <3>2. accepted
      BY <2>5, <2>6, <2>7, <3>1 DEF accepted, l
    <3> QED
      BY <3>2 DEF accepted, proof
  <2>8. CASE start # 0
    <3>1. start > 0 /\ proof = <<seed>> \o nodes
      BY <2>2, <2>5, <2>8
    <3>2. proof[1] = seed /\ Tail(proof) = nodes /\ Len(proof) = Len(nodes) + 1
      BY <2>5, <3>1, SeedFirst
    <3>3. Recomputed(proof[1], l, Tail(proof)) = [old |-> Root(D, m), new |-> Root(D, n)]
      BY <2>5, <3>2 DEF l
    <3>4. Len(proof) = Len(l) + 1
      BY <2>5, <3>2 DEF l
    <3> DEFINE roots == Recomputed(proof[1], l, Tail(proof))
    <3>5. accepted <=> Len(proof) = Len(l) + 1 /\ roots.old = Root(D, m) /\ roots.new = Root(D, n)
      BY <2>6, <3>1, Zenon DEF accepted, l
    <3>6. roots.old = Root(D, m) /\ roots.new = Root(D, n)
      BY <3>3
    <3> HIDE DEF roots
    <3>7. accepted
      BY <3>4, <3>5, <3>6
    <3> QED
      BY <3>7 DEF accepted, proof
  <2> QED
    BY <2>7, <2>8
<1> QED
  BY <1>1, <1>2, <1>3

(* No proof of whatever length and content makes the verifier take another *)
(* root for that of the log's first m entries, if SHA-256 has no           *)
(* collisions: a head whose log was rewritten connects to none after it.   *)
THEOREM ConsistencyIsSound ==
    ASSUME NEW E, NEW D \in Seq(E), NEW n \in 1..Len(D), NEW m \in 1..n, NEW old, NEW proof,
           VerifyConsistency(m, old, n, Root(D, n), proof)
    PROVE  old = Root(D, m)
<1>0. m \in Nat /\ n \in Nat /\ 1 <= m /\ ~(m < 0) /\ ~(n < m) /\ m # 0
  OBVIOUS
<1>1. CASE m = n
  BY <1>0, <1>1 DEF VerifyConsistency
<1>2. CASE m # n
  <2> DEFINE r     == <<0, n>>
             start == Start(r, m)[1]
  <2>1. m < n
    BY <1>0, <1>2
  <2>2. /\ Connects(D, m, n, r) /\ RootIn(D, r) = Root(D, n) /\ RootOf(D, r[1], m) = Root(D, m)
    BY <1>0, <2>1, WholeRange
  <2>3. \E seed, nodes : LET roots == Recomputed(seed, LevelsIn(r, m), nodes)
                         IN  roots.old = old /\ roots.new = Root(D, n)
    <3> DEFINE accepted == VerifyConsistency(m, old, n, Root(D, n), proof)
    <3>1. /\ start > 0 =>
               (accepted <=> /\ Len(proof) = Len(LevelsIn(r, m)) + 1
                             /\ Recomputed(proof[1], LevelsIn(r, m), Tail(proof)).old = old
                             /\ Recomputed(proof[1], LevelsIn(r, m), Tail(proof)).new = Root(D, n))
          /\ ~(start > 0) =>
               (accepted <=> /\ Len(proof) = Len(LevelsIn(r, m)) + 0
                             /\ Recomputed(old, LevelsIn(r, m), proof).old = old
                             /\ Recomputed(old, LevelsIn(r, m), proof).new = Root(D, n))
      BY <1>0, <2>1, VerifierStarts
    <3>2. accepted
      OBVIOUS
    <3> HIDE DEF accepted, start, r
    <3>3. CASE start > 0
      BY <3>1, <3>2, <3>3
    <3>4. CASE ~(start > 0)
      BY <3>1, <3>2, <3>4
    <3> QED
      BY <3>3, <3>4
  <2>4. PICK seed, nodes : LET roots == Recomputed(seed, LevelsIn(r, m), nodes)
                           IN  roots.old = old /\ roots.new = Root(D, n)
    BY <2>3
  <2>5. Recomputed(seed, LevelsIn(r, m), nodes).old = RootOf(D, r[1], m)
    BY <2>2, <2>4 DEF Connects, Decides
  <2> QED
    BY <2>2, <2>4, <2>5
<1> QED
  BY <1>1, <1>2

(* The root of a log's first n entries is that of no other entries.        *)
THEOREM RootIsInjective ==
    ASSUME NEW E, NEW C \in Seq(E), NEW D \in Seq(E), NEW n \in Nat, n <= Len(C), n <= Len(D),
           Root(C, n) = Root(D, n), NEW i \in 1..n
    PROVE  C[i] = D[i]
<1> DEFINE j == i - 1
<1>1. n \in 1..Len(C) /\ n \in 1..Len(D) /\ j \in 0..(n - 1) /\ j \in Int /\ j + 1 = i
  OBVIOUS
<1> HIDE DEF j
<1>2. VerifyInclusion(C[j + 1], j, n, InclusionPath(C, j, n), Root(C, n))
  BY <1>1, InclusionIsComplete
<1>3. VerifyInclusion(C[j + 1], j, n, InclusionPath(C, j, n), Root(D, n))
  BY <1>2
<1>4. C[j + 1] = D[j + 1]
  BY <1>1, <1>3, InclusionIsSound
<1> QED
  BY <1>1, <1>4
-----------------------------------------------------------------------------
(* The nodes of a level that a range of the level above stands for.        *)
Wide(r, n) == <<2 * r[1], IF 2 * r[2] <= n THEN 2 * r[2] ELSE n>>

IsHalf(l, n) == n \in Nat /\ l \in Nat /\ n <= 2 * l /\ 2 * l <= n + 1

LEMMA HalfIs == \A n \in Nat : IsHalf((n + 1) \div 2, n)
BY DEF IsHalf

LEMMA WideFacts ==
    ASSUME NEW n, NEW l, IsHalf(l, n), NEW r \in Ranges(l), 1 <= Size(r)
    PROVE  /\ l \in Nat
           /\ r[1] \in Nat /\ r[2] \in Nat /\ r[1] < r[2] /\ r[2] <= l
           /\ Size(r) = r[2] - r[1] /\ Size(r) \in Nat
           /\ Wide(r, n) \in Ranges(n) /\ 1 <= Size(Wide(r, n)) /\ Size(Wide(r, n)) \in Nat
           /\ 2 * Size(r) - 1 <= Size(Wide(r, n)) /\ Size(Wide(r, n)) <= 2 * Size(r)
<1>1. n \in Nat /\ l \in Nat /\ n <= 2 * l /\ 2 * l <= n + 1
  BY DEF IsHalf
<1>2. /\ r[1] \in Nat /\ r[2] \in Nat /\ r[1] < r[2] /\ r[2] <= l
      /\ Size(r) = r[2] - r[1] /\ Size(r) \in Nat
  BY <1>1 DEF Ranges, Size
<1> DEFINE e == IF 2 * r[2] <= n THEN 2 * r[2] ELSE n
<1>3. e \in Nat /\ e <= n /\ 2 * r[1] < e /\ 2 * r[2] - 1 <= e /\ e <= 2 * r[2]
  BY <1>1, <1>2
<1>4. Wide(r, n) = <<2 * r[1], e>>
  BY DEF Wide
<1> HIDE DEF e
<1>5. Wide(r, n) \in Ranges(n) /\ Size(Wide(r, n)) = e - 2 * r[1]
  <2>1. 2 * r[1] \in 0..n /\ e \in 0..n
    BY <1>1, <1>2, <1>3
  <2>2. <<2 * r[1], e>> \in Ranges(n)
    BY <2>1 DEF Ranges
  <2>3. Size(<<2 * r[1], e>>) = e - 2 * r[1]
    BY DEF Size
  <2> QED
    BY <1>4, <2>2, <2>3
<1> QED
  BY <1>1, <1>2, <1>3, <1>5

LEMMA WideSplits ==
    ASSUME NEW n, NEW l, IsHalf(l, n), NEW r \in Ranges(l), Size(r) >= 2
    PROVE  /\ Left(Wide(r, n)) = Wide(Left(r), n) /\ Right(Wide(r, n)) = Wide(Right(r), n)
           /\ Middle(Wide(r, n)) = 2 * Middle(r) /\ Middle(r) \in Nat
           /\ ~(Size(Wide(r, n)) <= 1)
           /\ Left(r) \in Ranges(l) /\ 1 <= Size(Left(r)) /\ Right(r) \in Ranges(l) /\ 1 <= Size(Right(r))
<1> DEFINE w == Wide(r, n)
           k == Split(Size(r))
<1>1. /\ l \in Nat /\ n \in Nat /\ n <= 2 * l /\ 2 * l <= n + 1
      /\ r[1] \in Nat /\ r[2] \in Nat /\ r[1] < r[2] /\ r[2] <= l
      /\ Size(r) = r[2] - r[1] /\ Size(r) \in Nat /\ 1 <= Size(r) /\ ~(Size(r) <= 1)
      /\ w \in Ranges(n) /\ 1 <= Size(w) /\ Size(w) \in Nat
      /\ 2 * Size(r) - 1 <= Size(w) /\ Size(w) <= 2 * Size(r)
  <2>0. l \in Nat /\ n \in Nat /\ n <= 2 * l /\ 2 * l <= n + 1
    BY DEF IsHalf
  <2>1. 1 <= Size(r) /\ ~(Size(r) <= 1)
    BY <2>0, SizeType
  <2> QED
    BY <2>0, <2>1, WideFacts
<1>2. w[1] = 2 * r[1] /\ w[2] = IF 2 * r[2] <= n THEN 2 * r[2] ELSE n
  BY DEF Wide
<1> HIDE DEF w
<1>3. IsPower(k) /\ k < Size(r) /\ Size(r) <= 2 * k /\ k \in Nat /\ k >= 1
  BY <1>1, SplitIsPower, PowerIsNat
<1>4. Middle(r) = r[1] + k /\ Left(r) = <<r[1], r[1] + k>> /\ Right(r) = <<r[1] + k, r[2]>>
  BY DEF Left, Right, Middle
<1> HIDE DEF k
<1>5. IsPower(2 * k) /\ 2 * k < Size(w) /\ Size(w) <= 2 * (2 * k)
  BY <1>1, <1>3, DoubleIsPower
<1>6. Split(Size(w)) = 2 * k
  BY <1>1, <1>5, SplitIs
<1>7. Middle(w) = 2 * r[1] + 2 * k
  BY <1>2, <1>6 DEF Middle
<1>8. 2 * (r[1] + k) <= n /\ 2 * (r[1] + k) = 2 * r[1] + 2 * k /\ ~(Size(w) <= 1)
  BY <1>1, <1>3
<1>9. Left(w) = <<2 * r[1], 2 * r[1] + 2 * k>> /\ Right(w) = <<2 * r[1] + 2 * k, w[2]>>
  BY <1>2, <1>7 DEF Left, Right
<1>10. /\ Wide(Left(r), n) = <<2 * r[1], 2 * r[1] + 2 * k>>
       /\ Wide(Right(r), n) = <<2 * r[1] + 2 * k, w[2]>>
  <2>1. Left(r)[1] = r[1] /\ Left(r)[2] = r[1] + k /\ Right(r)[1] = r[1] + k /\ Right(r)[2] = r[2]
    BY <1>4
  <2> QED
    BY <1>2, <1>8, <2>1 DEF Wide
<1>11. Left(r) \in Ranges(l) /\ 1 <= Size(Left(r)) /\ Right(r) \in Ranges(l) /\ 1 <= Size(Right(r))
  BY <1>1, HalvesInside
<1> QED
  BY <1>1, <1>3, <1>4, <1>7, <1>8, <1>9, <1>10, <1>11 DEF w

(* A range of one node of the level above.                                 *)
LEMMA WideOne ==
    ASSUME NEW L, NEW n, n = Len(L), NEW l, IsHalf(l, n), NEW r \in Ranges(l), Size(r) = 1
    PROVE  LET w == Wide(r, n)
           IN  \/ /\ 2 * r[2] <= n /\ Size(w) = 2 /\ Middle(w) = 2 * r[2] - 1
                  /\ Left(w) \in Ranges(n) /\ Size(Left(w)) = 1 /\ RootIn(L, Left(w)) = L[2 * r[2] - 1]
                  /\ Right(w) \in Ranges(n) /\ Size(Right(w)) = 1 /\ RootIn(L, Right(w)) = L[2 * r[2]]
                  /\ RootIn(L, w) = hashNode(L[2 * r[2] - 1], L[2 * r[2]])
               \/ /\ ~(2 * r[2] <= n) /\ Size(w) = 1 /\ n = 2 * r[2] - 1
                  /\ RootIn(L, w) = L[2 * r[2] - 1]
<1> DEFINE w == Wide(r, n)
           b == r[2]
<1>1. l \in Nat /\ n \in Nat /\ n <= 2 * l /\ 2 * l <= n + 1 /\ 1 <= Size(r) /\ Size(r) = 1
  BY DEF IsHalf
<1>2. r[1] \in Nat /\ b \in Nat /\ b <= l /\ b - r[1] = 1 /\ w \in Ranges(n)
  BY <1>1, WideFacts
<1>3. w = <<2 * r[1], IF 2 * b <= n THEN 2 * b ELSE n>>
  BY DEF Wide
<1> HIDE DEF w, b
<1>4. 2 * r[1] = 2 * b - 2 /\ b >= 1 /\ 2 * b <= n + 1
  BY <1>1, <1>2, SMTT(20)
<1>5. CASE 2 * b <= n
  <2>1. w[1] = 2 * b - 2 /\ w[2] = 2 * b
    BY <1>3, <1>4, <1>5
  <2>2. Split(2) = 1
    <3>1. 1 < 2 /\ 2 <= 2 * 1 /\ 2 \in Nat
      OBVIOUS
    <3> QED
      BY <3>1, OneIsPower, SplitIs
  <2>3. Size(w) = 2
    BY <1>2, <2>1 DEF Size
  <2>4. Middle(w) = 2 * b - 1
    BY <1>2, <2>1, <2>2, <2>3 DEF Middle
  <2>5. Left(w) = <<2 * b - 2, 2 * b - 1>> /\ Right(w) = <<2 * b - 1, 2 * b>>
    BY <2>1, <2>4 DEF Left, Right
  <2>6. 2 * b - 2 \in 0..n /\ 2 * b - 1 \in 0..n /\ 2 * b \in 0..n
    BY <1>1, <1>2, <1>4, <1>5
  <2>7. Left(w) \in Ranges(n) /\ Right(w) \in Ranges(n)
    BY <2>5, <2>6 DEF Ranges
  <2>8. Left(w)[2] = 2 * b - 1 /\ Right(w)[2] = 2 * b /\ Size(Left(w)) = 1 /\ Size(Right(w)) = 1
    BY <1>2, <2>5 DEF Size
  <2>9. RootIn(L, Left(w)) = L[2 * b - 1] /\ RootIn(L, Right(w)) = L[2 * b]
    BY <1>1, <2>7, <2>8, RootSplits
  <2>10. RootIn(L, w) = hashNode(RootIn(L, Left(w)), RootIn(L, Right(w)))
    <3>1. 1 <= Size(w) /\ ~(Size(w) <= 1)
      BY <2>3
    <3> QED
      BY <1>1, <1>2, <3>1, RootSplits, Zenon
  <2> QED
    BY <1>5, <2>3, <2>4, <2>7, <2>8, <2>9, <2>10 DEF w, b
<1>6. CASE ~(2 * b <= n)
  <2>1. n = 2 * b - 1
    <3>1. \A x, y \in Nat : 2 * y <= x + 1 /\ ~(2 * y <= x) => x = 2 * y - 1
      OBVIOUS
    <3> QED
      BY <1>1, <1>2, <1>4, <1>6, <3>1
  <2>2. w[1] = 2 * b - 2 /\ w[2] = n
    BY <1>3, <1>4, <1>6
  <2>3. Size(w) = 1
    BY <1>2, <2>1, <2>2 DEF Size
  <2>4. RootIn(L, w) = L[2 * b - 1]
    BY <1>1, <1>2, <2>1, <2>2, <2>3, RootSplits
  <2> QED
    BY <1>6, <2>1, <2>3, <2>4 DEF w, b
<1> QED
  BY <1>5, <1>6

LEMMA LevelAboveIs ==
    ASSUME NEW L, Len(L) \in Nat
    PROVE  /\ Len(LevelAbove(L)) = (Len(L) + 1) \div 2
           /\ \A i \in 1..((Len(L) + 1) \div 2) :
                 LevelAbove(L)[i] = IF 2 * i <= Len(L) THEN hashNode(L[2 * i - 1], L[2 * i]) ELSE L[2 * i - 1]
<1> DEFINE l == (Len(L) + 1) \div 2
<1>1. l \in Nat
  OBVIOUS
<1>2. LevelAbove(L) = [i \in 1..l |-> IF 2 * i <= Len(L) THEN hashNode(L[2 * i - 1], L[2 * i]) ELSE L[2 * i - 1]]
  BY DEF LevelAbove
<1> HIDE DEF l
<1>3. Len(LevelAbove(L)) = l
  BY <1>1, <1>2
<1> QED
  BY <1>2, <1>3 DEF l

(* The tree over the level above is the tree over the level.               *)
LEMMA RootAbove ==
    ASSUME NEW L, Len(L) \in Nat, NEW l, l = (Len(L) + 1) \div 2
    PROVE  \A r \in Ranges(l) : 1 <= Size(r) => RootIn(LevelAbove(L), r) = RootIn(L, Wide(r, Len(L)))
<1> DEFINE A == LevelAbove(L)
           n == Len(L)
           T == {r \in Ranges(l) : RootIn(A, r) = RootIn(L, Wide(r, n))}
<1>1. l \in Nat /\ Len(A) = l /\ n \in Nat /\ IsHalf(l, n)
  BY LevelAboveIs, HalfIs
<1>2. ASSUME NEW r \in Ranges(l), Size(r) = 1 PROVE r \in T
  <2>1. r[2] \in 1..l /\ r[2] \in Nat
    BY <1>1, <1>2 DEF Ranges, Size
  <2>2. RootIn(A, r) = A[r[2]]
    BY <1>1, <1>2, RootSplits
  <2>3. A[r[2]] = IF 2 * r[2] <= n THEN hashNode(L[2 * r[2] - 1], L[2 * r[2]]) ELSE L[2 * r[2] - 1]
    BY <2>1, LevelAboveIs
  <2>4. RootIn(L, Wide(r, n)) = IF 2 * r[2] <= n THEN hashNode(L[2 * r[2] - 1], L[2 * r[2]]) ELSE L[2 * r[2] - 1]
    <3> HIDE DEF A
    <3>1. CASE 2 * r[2] <= n
      BY <1>1, <1>2, <3>1, WideOne
    <3>2. CASE ~(2 * r[2] <= n)
      BY <1>1, <1>2, <3>2, WideOne, ZenonT(40)
    <3> QED
      BY <3>1, <3>2
  <2> QED
    BY <2>2, <2>3, <2>4
<1>3. ASSUME NEW r \in Ranges(l), Size(r) >= 2, Left(r) \in T, Right(r) \in T PROVE r \in T
  <2>0. Size(r) \in Int
    BY <1>1, SizeType
  <2>a. 1 <= Size(r)
    BY <1>3, <2>0
  <2>1. RootIn(A, r) = hashNode(RootIn(A, Left(r)), RootIn(A, Right(r)))
    BY <1>1, <1>3, <2>0, RootSplits
  <2>2. /\ Wide(r, n) \in Ranges(n) /\ 1 <= Size(Wide(r, n)) /\ ~(Size(Wide(r, n)) <= 1)
        /\ Left(Wide(r, n)) = Wide(Left(r), n) /\ Right(Wide(r, n)) = Wide(Right(r), n)
    BY <1>1, <1>3, <2>a, WideFacts, WideSplits
  <2>3. RootIn(L, Wide(r, n)) = hashNode(RootIn(L, Wide(Left(r), n)), RootIn(L, Wide(Right(r), n)))
    BY <2>2, RootSplits
  <2> QED
    BY <1>3, <2>1, <2>3
<1>4. \A r \in Ranges(l) : 1 <= Size(r) => r \in T
  <2> HIDE DEF T
  <2> QED
    BY <1>1, <1>2, <1>3, RangeInduction
<1> QED
  BY <1>4
-----------------------------------------------------------------------------
(* The sibling of a node that has one, and the side it is on.              *)
First(L, i)     == IF Sibling(i) < Len(L) THEN <<L[Sibling(i) + 1]>> ELSE <<>>
FirstSide(i, n) == IF i = n - 1 /\ n % 2 = 1 THEN <<>>
                   ELSE IF i % 2 = 0 THEN <<"right">> ELSE <<"left">>

LEMMA HalvesOf ==
    \A i \in Nat : /\ i \div 2 \in Nat
                   /\ \/ i % 2 = 0 /\ i = 2 * (i \div 2) /\ Sibling(i) = i + 1
                      \/ i % 2 = 1 /\ i = 2 * (i \div 2) + 1 /\ Sibling(i) = i - 1
BY DEF Sibling

(* The node a pair of nodes is under.                                      *)
LEMMA WideHolds ==
    ASSUME NEW n, NEW l, IsHalf(l, n), NEW r \in Ranges(l), NEW i \in Nat, i < n, Holding(i \div 2, r)
    PROVE  /\ 1 <= Size(r) /\ Holding(i, Wide(r, n))
           /\ Size(r) >= 2 => (i < Middle(Wide(r, n)) <=> i \div 2 < Middle(r))
<1>1. n \in Nat /\ l \in Nat /\ n <= 2 * l /\ 2 * l <= n + 1
  BY DEF IsHalf
<1>2. i \div 2 \in Nat /\ 2 * (i \div 2) <= i /\ i <= 2 * (i \div 2) + 1
  OBVIOUS
<1> DEFINE h == i \div 2
<1>3. h \in Nat /\ 2 * h <= i /\ i <= 2 * h + 1 /\ r[1] <= h /\ h < r[2]
  BY <1>2 DEF Holding
<1> HIDE DEF h
<1>4. r[1] \in Nat /\ r[2] \in Nat
  BY <1>1 DEF Ranges
<1>5. 1 <= Size(r)
  BY <1>3, <1>4 DEF Size
<1>6. Wide(r, n)[1] <= i /\ i < Wide(r, n)[2]
  <2>1. 2 * r[1] <= i /\ i < 2 * r[2]
    BY <1>3, <1>4
  <2>2. Wide(r, n)[1] = 2 * r[1] /\ Wide(r, n)[2] = IF 2 * r[2] <= n THEN 2 * r[2] ELSE n
    BY DEF Wide
  <2> QED
    BY <2>1, <2>2
<1>7. ASSUME Size(r) >= 2 PROVE i < Middle(Wide(r, n)) <=> h < Middle(r)
  <2>1. Middle(Wide(r, n)) = 2 * Middle(r) /\ Middle(r) \in Nat
    BY <1>7, WideSplits
  <2> QED
    BY <1>3, <2>1
<1> QED
  BY <1>5, <1>6, <1>7 DEF Holding, h

(* Every root over a level is in V.                                        *)
RootsWithin(L, V) == \A r \in Ranges(Len(L)) : 1 <= Size(r) => RootIn(L, r) \in V

LEMMA FirstIn ==
    ASSUME NEW L, Len(L) \in Nat, NEW i \in Nat, NEW V, RootsWithin(L, V)
    PROVE  First(L, i) \in Seq(V)
<1>1. ASSUME Sibling(i) < Len(L) PROVE L[Sibling(i) + 1] \in V
  <2>1. Sibling(i) \in Nat
    BY DEF Sibling
  <2> DEFINE q == <<Sibling(i), Sibling(i) + 1>>
  <2>2. q \in Ranges(Len(L)) /\ Size(q) = 1 /\ q[2] = Sibling(i) + 1
    BY <1>1, <2>1 DEF Ranges, Size
  <2> HIDE DEF q
  <2>3. RootIn(L, q) = L[Sibling(i) + 1]
    BY <2>2, RootSplits
  <2> QED
    BY <2>2, <2>3 DEF RootsWithin
<1>2. \A x \in V : <<x>> \in Seq(V)
  OBVIOUS
<1>3. <<>> \in Seq(V)
  OBVIOUS
<1> QED
  BY <1>1, <1>2, <1>3 DEF First

(* What f gives for a range is what it gives for the half i is in, and an  *)
(* element more, which X or Y gives for the range.                         *)
Climbs(n, i, X, Y, f) ==
    \A r \in Ranges(n) :
       /\ Size(r) <= 1 => f[r] = <<>>
       /\ ~(Size(r) <= 1) /\ i < Middle(r) => f[r] = Append(f[Left(r)], X[r])
       /\ ~(Size(r) <= 1) /\ ~(i < Middle(r)) => f[r] = Append(f[Right(r)], Y[r])

RightRoots(L, n) == [r \in Ranges(n) |-> RootIn(L, Right(r))]
LeftRoots(L, n)  == [r \in Ranges(n) |-> RootIn(L, Left(r))]
AllSides(n, s)   == [r \in Ranges(n) |-> s]

LEMMA PathClimbs ==
    ASSUME NEW L, Len(L) \in Nat, NEW i, NEW n \in Nat
    PROVE  Climbs(n, i, RightRoots(L, n), LeftRoots(L, n), PathIn(L, i, n))
<1> DEFINE f == PathIn(L, i, n)
<1>1. \A r \in Ranges(n) :
         f[r] = IF Size(r) <= 1 THEN <<>>
                ELSE IF i < Middle(r) THEN Append(f[Left(r)], RootIn(L, Right(r)))
                ELSE Append(f[Right(r)], RootIn(L, Left(r)))
  BY PathSplits
<1> HIDE DEF f
<1>2. \A r \in Ranges(n) : RightRoots(L, n)[r] = RootIn(L, Right(r)) /\ LeftRoots(L, n)[r] = RootIn(L, Left(r))
  BY DEF RightRoots, LeftRoots
<1>3. Climbs(n, i, RightRoots(L, n), LeftRoots(L, n), f)
  BY <1>1, <1>2, Zenon DEF Climbs
<1> QED
  BY <1>3 DEF f

LEMMA SidesClimb ==
    ASSUME NEW i, NEW n \in Nat
    PROVE  Climbs(n, i, AllSides(n, "right"), AllSides(n, "left"), SidesIn(i, n))
<1> DEFINE f == SidesIn(i, n)
<1>1. \A r \in Ranges(n) :
         f[r] = IF Size(r) <= 1 THEN <<>>
                ELSE IF i < Middle(r) THEN Append(f[Left(r)], "right")
                ELSE Append(f[Right(r)], "left")
  BY SidesSplit
<1> HIDE DEF f
<1>2. \A r \in Ranges(n) : AllSides(n, "right")[r] = "right" /\ AllSides(n, "left")[r] = "left"
  BY DEF AllSides
<1>3. Climbs(n, i, AllSides(n, "right"), AllSides(n, "left"), f)
  BY <1>1, <1>2, Zenon DEF Climbs
<1> QED
  BY <1>3 DEF f

LEMMA FirstPath ==
    ASSUME NEW L, Len(L) \in Nat, NEW n, n = Len(L), NEW l, IsHalf(l, n), NEW r \in Ranges(l),
           NEW i \in Nat, i < n, Holding(i \div 2, r), Size(r) = 1
    PROVE  /\ PathIn(L, i, n)[Wide(r, n)] = First(L, i)
           /\ SidesIn(i, n)[Wide(r, n)] = FirstSide(i, n)
<1> DEFINE w == Wide(r, n)
           b == r[2]
<1>1. n \in Nat /\ l \in Nat /\ 1 <= Size(r)
  BY DEF IsHalf
<1>2. w \in Ranges(n) /\ b \in Nat /\ r[1] \in Nat
  BY <1>1, WideFacts
<1>3. i \div 2 = b - 1 /\ b >= 1
  <2>1. i \div 2 \in Nat
    OBVIOUS
  <2>2. Size(r) = b - r[1]
    BY DEF Size
  <2> QED
    BY <1>2, <2>1, <2>2 DEF Holding
<1>4. \/ i % 2 = 0 /\ i = 2 * b - 2 /\ Sibling(i) = 2 * b - 1
      \/ i % 2 = 1 /\ i = 2 * b - 1 /\ Sibling(i) = 2 * b - 2
  <2>1. \/ i % 2 = 0 /\ i = 2 * (i \div 2) /\ Sibling(i) = i + 1
        \/ i % 2 = 1 /\ i = 2 * (i \div 2) + 1 /\ Sibling(i) = i - 1
    BY HalvesOf
  <2> QED
    BY <1>2, <1>3, <2>1
<1>5. /\ Size(w) <= 1 => PathIn(L, i, n)[w] = <<>> /\ SidesIn(i, n)[w] = <<>>
      /\ ~(Size(w) <= 1) /\ i < Middle(w) =>
            /\ PathIn(L, i, n)[w] = Append(PathIn(L, i, n)[Left(w)], RootIn(L, Right(w)))
            /\ SidesIn(i, n)[w] = Append(SidesIn(i, n)[Left(w)], "right")
      /\ ~(Size(w) <= 1) /\ ~(i < Middle(w)) =>
            /\ PathIn(L, i, n)[w] = Append(PathIn(L, i, n)[Right(w)], RootIn(L, Left(w)))
            /\ SidesIn(i, n)[w] = Append(SidesIn(i, n)[Right(w)], "left")
  <2>1. Climbs(n, i, RightRoots(L, n), LeftRoots(L, n), PathIn(L, i, n))
    BY <1>1, PathClimbs
  <2>2. Climbs(n, i, AllSides(n, "right"), AllSides(n, "left"), SidesIn(i, n))
    BY <1>1, SidesClimb
  <2> DEFINE f == PathIn(L, i, n)
             g == SidesIn(i, n)
  <2> HIDE DEF f, g
  <2>3. /\ Size(w) <= 1 => f[w] = <<>>
        /\ ~(Size(w) <= 1) /\ i < Middle(w) => f[w] = Append(f[Left(w)], RootIn(L, Right(w)))
        /\ ~(Size(w) <= 1) /\ ~(i < Middle(w)) => f[w] = Append(f[Right(w)], RootIn(L, Left(w)))
    <3>1. RightRoots(L, n)[w] = RootIn(L, Right(w)) /\ LeftRoots(L, n)[w] = RootIn(L, Left(w))
      BY <1>2 DEF RightRoots, LeftRoots
    <3>2. Climbs(n, i, RightRoots(L, n), LeftRoots(L, n), f)
      BY <2>1 DEF f
    <3> QED
      BY <1>2, <3>1, <3>2, Zenon DEF Climbs
  <2>4. /\ Size(w) <= 1 => g[w] = <<>>
        /\ ~(Size(w) <= 1) /\ i < Middle(w) => g[w] = Append(g[Left(w)], "right")
        /\ ~(Size(w) <= 1) /\ ~(i < Middle(w)) => g[w] = Append(g[Right(w)], "left")
    <3>1. AllSides(n, "right")[w] = "right" /\ AllSides(n, "left")[w] = "left"
      BY <1>2 DEF AllSides
    <3>2. Climbs(n, i, AllSides(n, "right"), AllSides(n, "left"), g)
      BY <2>2 DEF g
    <3> QED
      BY <1>2, <3>1, <3>2, Zenon DEF Climbs
  <2> QED
    BY <2>3, <2>4 DEF f, g
<1>6. \A q \in Ranges(n) : Size(q) <= 1 => PathIn(L, i, n)[q] = <<>> /\ SidesIn(i, n)[q] = <<>>
  <2>1. Climbs(n, i, RightRoots(L, n), LeftRoots(L, n), PathIn(L, i, n))
    BY <1>1, PathClimbs
  <2>2. Climbs(n, i, AllSides(n, "right"), AllSides(n, "left"), SidesIn(i, n))
    BY <1>1, SidesClimb
  <2> QED
    BY <2>1, <2>2, Zenon DEF Climbs
<1>7. /\ 2 * b <= n => /\ Size(w) = 2 /\ Middle(w) = 2 * b - 1
                       /\ Left(w) \in Ranges(n) /\ Size(Left(w)) = 1 /\ RootIn(L, Left(w)) = L[2 * b - 1]
                       /\ Right(w) \in Ranges(n) /\ Size(Right(w)) = 1 /\ RootIn(L, Right(w)) = L[2 * b]
      /\ ~(2 * b <= n) => Size(w) = 1 /\ n = 2 * b - 1
  BY WideOne, SMTT(20)
<1> HIDE DEF w, b
<1>8. \A x : Append(<<>>, x) = <<x>>
  OBVIOUS
<1>9. CASE 2 * b <= n
  <2>1. ~(Size(w) <= 1) /\ Size(Left(w)) <= 1 /\ Size(Right(w)) <= 1
    BY <1>7, <1>9
  <2>2. ~(i = n - 1 /\ n % 2 = 1)
    <3>1. ~(2 * b = n /\ n % 2 = 1)
      BY <1>2
    <3> QED
      BY <1>1, <1>2, <1>4, <1>9, <3>1
  <2>3. CASE i % 2 = 0
    <3>1. i = 2 * b - 2 /\ Sibling(i) = 2 * b - 1 /\ Sibling(i) + 1 = 2 * b /\ Sibling(i) < n
      BY <1>1, <1>2, <1>4, <1>9, <2>3
    <3>2. i < Middle(w)
      BY <1>2, <1>7, <1>9, <3>1
    <3>3. PathIn(L, i, n)[w] = <<L[2 * b]>> /\ SidesIn(i, n)[w] = <<"right">>
      BY <1>5, <1>6, <1>7, <1>8, <1>9, <2>1, <3>2
    <3>4. First(L, i) = <<L[2 * b]>> /\ FirstSide(i, n) = <<"right">>
      BY <2>2, <2>3, <3>1 DEF First, FirstSide
    <3> QED
      BY <3>3, <3>4 DEF w
  <2>4. CASE i % 2 # 0
    <3>1. i = 2 * b - 1 /\ Sibling(i) = 2 * b - 2 /\ Sibling(i) + 1 = 2 * b - 1 /\ Sibling(i) < n
      BY <1>1, <1>2, <1>4, <1>9, <2>4
    <3>2. ~(i < Middle(w))
      BY <1>2, <1>7, <1>9, <3>1
    <3>3. PathIn(L, i, n)[w] = <<L[2 * b - 1]>> /\ SidesIn(i, n)[w] = <<"left">>
      BY <1>5, <1>6, <1>7, <1>8, <1>9, <2>1, <3>2
    <3>4. First(L, i) = <<L[2 * b - 1]>> /\ FirstSide(i, n) = <<"left">>
      BY <2>2, <2>4, <3>1 DEF First, FirstSide
    <3> QED
      BY <3>3, <3>4 DEF w
  <2> QED
    BY <2>3, <2>4
<1>10. CASE ~(2 * b <= n)
  <2>1. Size(w) <= 1 /\ n = 2 * b - 1
    BY <1>7, <1>10
  <2>2. i = 2 * b - 2 /\ Sibling(i) = 2 * b - 1 /\ n % 2 = 1
    <3>1. (2 * b - 1) % 2 = 1
      BY <1>2
    <3> QED
      BY <1>1, <1>2, <1>4, <2>1, <3>1
  <2>3. First(L, i) = <<>> /\ FirstSide(i, n) = <<>>
    <3>1. ~(Sibling(i) < n) /\ i = n - 1
      BY <1>1, <1>2, <2>1, <2>2
    <3> QED
      BY <2>2, <3>1 DEF First, FirstSide
  <2> QED
    BY <1>5, <2>1, <2>3 DEF w
<1> QED
  BY <1>9, <1>10

(* X and Y give elements of V, on a level what they give on the next.      *)
Lifted(n, l, X, Y, X1, Y1, V) ==
    \A r \in Ranges(l) : Size(r) >= 2 =>
       /\ X1[r] \in V /\ X[Wide(r, n)] = X1[r]
       /\ Y1[r] \in V /\ Y[Wide(r, n)] = Y1[r]

(* What f gives on a level, by what g gives on the level above.            *)
LEMMA ClimbAbove ==
    ASSUME NEW n, NEW l, IsHalf(l, n), NEW i \in Nat, i < n, NEW V, NEW F \in Seq(V),
           NEW X, NEW Y, NEW f, Climbs(n, i, X, Y, f),
           NEW X1, NEW Y1, NEW g, Climbs(l, i \div 2, X1, Y1, g),
           Lifted(n, l, X, Y, X1, Y1, V),
           \A r \in Ranges(l) : Size(r) = 1 /\ Holding(i \div 2, r) => f[Wide(r, n)] = F
    PROVE  \A r \in Ranges(l) : Holding(i \div 2, r) =>
              g[r] \in Seq(V) /\ f[Wide(r, n)] = F \o g[r]
<1> DEFINE h == i \div 2
           T == {r \in Ranges(l) : Holding(h, r) =>
                    g[r] \in Seq(V) /\ f[Wide(r, n)] = F \o g[r]}
<1>0. n \in Nat /\ l \in Nat /\ h \in Nat
  BY DEF IsHalf
<1>1. \A r \in Ranges(l) : Size(r) \in Int
  BY <1>0, SizeType
<1>2. ASSUME NEW r \in Ranges(l)
      PROVE  /\ Size(r) <= 1 => g[r] = <<>>
             /\ ~(Size(r) <= 1) /\ h < Middle(r) => g[r] = Append(g[Left(r)], X1[r])
             /\ ~(Size(r) <= 1) /\ ~(h < Middle(r)) => g[r] = Append(g[Right(r)], Y1[r])
  BY DEF Climbs
<1>3. ASSUME NEW r \in Ranges(l), Holding(h, r), Size(r) >= 2
      PROVE  i < Middle(Wide(r, n)) <=> h < Middle(r)
  BY <1>3, WideHolds
<1>4. ASSUME NEW r \in Ranges(l), Holding(h, r), Size(r) = 1 PROVE f[Wide(r, n)] = F
  BY <1>4
<1> HIDE DEF h
<1>a. \A s, t \in Seq(V) : \A x \in V : s \o Append(t, x) = Append(s \o t, x)
  BY JoinAppend
<1>5. ASSUME NEW r \in Ranges(l), Size(r) = 1 PROVE r \in T
  <2>1. ASSUME Holding(h, r) PROVE f[Wide(r, n)] = F
    BY <1>4, <1>5, <2>1
  <2>2. g[r] = <<>>
    BY <1>2, <1>5
  <2>3. F \o <<>> = F /\ <<>> \in Seq(V)
    BY ConcatEmptySeq
  <2> QED
    BY <2>1, <2>2, <2>3
<1>6. ASSUME NEW r \in Ranges(l), Size(r) >= 2, Left(r) \in T, Right(r) \in T PROVE r \in T
  <2> SUFFICES ASSUME Holding(h, r) PROVE g[r] \in Seq(V) /\ f[Wide(r, n)] = F \o g[r]
    OBVIOUS
  <2> DEFINE w == Wide(r, n)
  <2>0. ~(Size(r) <= 1) /\ 1 <= Size(r)
    BY <1>1, <1>6
  <2>1. /\ Left(w) = Wide(Left(r), n) /\ Right(w) = Wide(Right(r), n) /\ ~(Size(w) <= 1)
        /\ w \in Ranges(n)
    BY <1>6, <2>0, WideSplits, WideFacts
  <2>2. i < Middle(w) <=> h < Middle(r)
    BY <1>3, <1>6
  <2>3. X1[r] \in V /\ X[w] = X1[r] /\ Y1[r] \in V /\ Y[w] = Y1[r]
    BY <1>6 DEF Lifted
  <2>4. /\ h < Middle(r) => Holding(h, Left(r))
        /\ ~(h < Middle(r)) => Holding(h, Right(r))
    BY <1>0, <2>0, HalfHolding
  <2>5. /\ i < Middle(w) => f[w] = Append(f[Left(w)], X[w])
        /\ ~(i < Middle(w)) => f[w] = Append(f[Right(w)], Y[w])
    BY <2>1 DEF Climbs
  <2> HIDE DEF w
  <2>6. CASE h < Middle(r)
    <3>1. g[Left(r)] \in Seq(V) /\ f[Left(w)] = F \o g[Left(r)]
      BY <1>6, <2>1, <2>4, <2>6
    <3>2. g[r] = Append(g[Left(r)], X1[r]) /\ f[w] = Append(f[Left(w)], X1[r])
      BY <1>2, <2>0, <2>2, <2>3, <2>5, <2>6
    <3>3. F \o Append(g[Left(r)], X1[r]) = Append(F \o g[Left(r)], X1[r])
      BY <1>a, <2>3, <3>1
    <3>4. g[r] \in Seq(V)
      BY <2>3, <3>1, <3>2, AppendProperties
    <3> QED
      BY <3>1, <3>2, <3>3, <3>4 DEF w
  <2>7. CASE ~(h < Middle(r))
    <3>1. g[Right(r)] \in Seq(V) /\ f[Right(w)] = F \o g[Right(r)]
      BY <1>6, <2>1, <2>4, <2>7
    <3>2. g[r] = Append(g[Right(r)], Y1[r]) /\ f[w] = Append(f[Right(w)], Y1[r])
      BY <1>2, <2>0, <2>2, <2>3, <2>5, <2>7
    <3>3. F \o Append(g[Right(r)], Y1[r]) = Append(F \o g[Right(r)], Y1[r])
      BY <1>a, <2>3, <3>1
    <3>4. g[r] \in Seq(V)
      BY <2>3, <3>1, <3>2, AppendProperties
    <3> QED
      BY <3>1, <3>2, <3>3, <3>4 DEF w
  <2> QED
    BY <2>6, <2>7
<1>7. \A r \in Ranges(l) : 1 <= Size(r) => r \in T
  <2> HIDE DEF T
  <2> QED
    BY <1>0, <1>5, <1>6, RangeInduction
<1>8. \A r \in Ranges(l) : Holding(h, r) => 1 <= Size(r)
  BY <1>0, WideHolds DEF h
<1> QED
  BY <1>7, <1>8 DEF h

PathLifted(L, i, n, l, V) ==
    \A r \in Ranges(l) : Holding(i \div 2, r) =>
       /\ PathIn(LevelAbove(L), i \div 2, l)[r] \in Seq(V)
       /\ PathIn(L, i, n)[Wide(r, n)] = First(L, i) \o PathIn(LevelAbove(L), i \div 2, l)[r]

(* The siblings of a node are the first and those of the node above it, on *)
(* the level above.                                                        *)
LEMMA PathAbove ==
    ASSUME NEW L, Len(L) \in Nat, NEW n, n = Len(L), NEW l, l = (n + 1) \div 2,
           NEW i \in Nat, i < n, NEW V, RootsWithin(L, V)
    PROVE  PathLifted(L, i, n, l, V)
<1> DEFINE A == LevelAbove(L)
<1>1. n \in Nat /\ l \in Nat /\ IsHalf(l, n) /\ i \div 2 \in Nat
  <2>1. n \in Nat /\ i \div 2 \in Nat
    OBVIOUS
  <2>2. IsHalf(l, n)
    BY <2>1, HalfIs
  <2> QED
    BY <2>1, <2>2 DEF IsHalf
<1>2. Len(A) = l
  BY LevelAboveIs
<1>3. ASSUME NEW r \in Ranges(l), 1 <= Size(r) PROVE RootIn(A, r) = RootIn(L, Wide(r, n)) /\ RootIn(A, r) \in V
  <2>1. Wide(r, n) \in Ranges(n) /\ 1 <= Size(Wide(r, n))
    BY <1>1, <1>3, WideFacts
  <2> QED
    BY <1>3, <2>1, RootAbove DEF RootsWithin
<1>4. First(L, i) \in Seq(V)
  BY FirstIn
<1> HIDE DEF A
<1> DEFINE X == RightRoots(L, n)
           Y == LeftRoots(L, n)
           X1 == RightRoots(A, l)
           Y1 == LeftRoots(A, l)
           F == First(L, i)
           f == PathIn(L, i, n)
           g == PathIn(A, i \div 2, l)
<1>5. Climbs(n, i, X, Y, f)
  BY <1>1, PathClimbs
<1>6. Climbs(l, i \div 2, X1, Y1, g)
  BY <1>1, <1>2, PathClimbs
<1>7. ASSUME NEW r \in Ranges(l), Size(r) >= 2
      PROVE  /\ X1[r] \in V /\ X[Wide(r, n)] = X1[r]
             /\ Y1[r] \in V /\ Y[Wide(r, n)] = Y1[r]
  <2>1. 1 <= Size(r)
    BY <1>1, <1>7, SizeType
  <2>2. /\ Left(Wide(r, n)) = Wide(Left(r), n) /\ Right(Wide(r, n)) = Wide(Right(r), n)
        /\ Left(r) \in Ranges(l) /\ 1 <= Size(Left(r)) /\ Right(r) \in Ranges(l) /\ 1 <= Size(Right(r))
    BY <1>1, <1>7, WideSplits
  <2>3. Wide(r, n) \in Ranges(n)
    BY <1>1, <2>1, WideFacts
  <2>4. /\ X1[r] = RootIn(A, Right(r)) /\ X[Wide(r, n)] = RootIn(L, Right(Wide(r, n)))
        /\ Y1[r] = RootIn(A, Left(r)) /\ Y[Wide(r, n)] = RootIn(L, Left(Wide(r, n)))
    BY <2>3 DEF RightRoots, LeftRoots
  <2> QED
    BY <1>3, <2>2, <2>4
<1>8. ASSUME NEW r \in Ranges(l), Size(r) = 1, Holding(i \div 2, r) PROVE f[Wide(r, n)] = F
  BY <1>1, <1>8, FirstPath
<1> HIDE DEF X, Y, X1, Y1, F, f, g
<1>9. F \in Seq(V)
  BY <1>4 DEF F
<1>10. \A r \in Ranges(l) : Holding(i \div 2, r) => g[r] \in Seq(V) /\ f[Wide(r, n)] = F \o g[r]
  <2>1. Lifted(n, l, X, Y, X1, Y1, V)
    BY <1>7 DEF Lifted
  <2> QED
    BY <1>1, <1>5, <1>6, <1>8, <1>9, <2>1, ClimbAbove, SMTT(20)
<1> QED
  BY <1>10 DEF F, f, g, A, PathLifted

(* The same for the sides they are on.                                     *)
LEMMA SidesAbove ==
    ASSUME NEW n \in Nat, NEW l, l = (n + 1) \div 2, NEW i \in Nat, i < n
    PROVE  \A r \in Ranges(l) : Holding(i \div 2, r) =>
              SidesIn(i, n)[Wide(r, n)] = FirstSide(i, n) \o SidesIn(i \div 2, l)[r]
<1>1. l \in Nat /\ IsHalf(l, n) /\ i \div 2 \in Nat
  BY HalfIs
<1> DEFINE X == AllSides(n, "right")
           Y == AllSides(n, "left")
           X1 == AllSides(l, "right")
           Y1 == AllSides(l, "left")
           F == FirstSide(i, n)
           f == SidesIn(i, n)
           g == SidesIn(i \div 2, l)
<1>2. Climbs(n, i, X, Y, f)
  BY SidesClimb
<1>3. Climbs(l, i \div 2, X1, Y1, g)
  BY <1>1, SidesClimb
<1>4. ASSUME NEW r \in Ranges(l), Size(r) >= 2
      PROVE  /\ X1[r] \in SideNames /\ X[Wide(r, n)] = X1[r]
             /\ Y1[r] \in SideNames /\ Y[Wide(r, n)] = Y1[r]
  <2>1. 1 <= Size(r)
    BY <1>1, <1>4, SizeType
  <2>2. Wide(r, n) \in Ranges(n)
    BY <1>1, <2>1, WideFacts
  <2> QED
    BY <2>2 DEF AllSides, SideNames
<1>5. ASSUME NEW r \in Ranges(l), Size(r) = 1, Holding(i \div 2, r) PROVE f[Wide(r, n)] = F
  <2> DEFINE L == [j \in 1..n |-> j]
  <2>1. Len(L) = n
    OBVIOUS
  <2> HIDE DEF L
  <2> QED
    BY <1>1, <1>5, <2>1, FirstPath
<1>6. F \in Seq(SideNames)
  <2>1. <<>> \in Seq(SideNames) /\ <<"left">> \in Seq(SideNames) /\ <<"right">> \in Seq(SideNames)
    BY DEF SideNames
  <2> QED
    BY <2>1 DEF FirstSide
<1> HIDE DEF X, Y, X1, Y1, F, f, g
<1>7. \A r \in Ranges(l) : Holding(i \div 2, r) => g[r] \in Seq(SideNames) /\ f[Wide(r, n)] = F \o g[r]
  <2>1. Lifted(n, l, X, Y, X1, Y1, SideNames)
    BY <1>4 DEF Lifted
  <2> QED
    BY <1>1, <1>2, <1>3, <1>5, <1>6, <2>1, ClimbAbove
<1> QED
  BY <1>7 DEF F, f, g
-----------------------------------------------------------------------------
(* The whole of a level stands for the whole of the level below.           *)
LEMMA WideWhole == \A n, l : IsHalf(l, n) => Wide(<<0, l>>, n) = <<0, n>>
<1>1. ASSUME NEW n, NEW l, IsHalf(l, n) PROVE Wide(<<0, l>>, n) = <<0, n>>
  <2>1. n \in Nat /\ l \in Nat /\ n <= 2 * l
    BY <1>1 DEF IsHalf
  <2>2. <<0, l>>[1] = 0 /\ <<0, l>>[2] = l /\ 2 * 0 = 0
    OBVIOUS
  <2>3. 2 * l <= n => 2 * l = n
    BY <2>1
  <2> QED
    BY <2>2, <2>3 DEF Wide
<1> QED
  BY <1>1

LEMMA HalfFacts ==
    \A n, i \in Nat : i < n =>
       LET l == (n + 1) \div 2
       IN  /\ l \in Nat /\ IsHalf(l, n) /\ 1 <= l /\ l <= n /\ (2 <= n => l < n)
           /\ i \div 2 \in Nat /\ i \div 2 < l
           /\ <<0, l>> \in Ranges(l) /\ Holding(i \div 2, <<0, l>>)
<1>1. ASSUME NEW n \in Nat, NEW i \in Nat, i < n, NEW l, l = (n + 1) \div 2
      PROVE  /\ l \in Nat /\ IsHalf(l, n) /\ 1 <= l /\ l <= n /\ (2 <= n => l < n)
             /\ i \div 2 \in Nat /\ i \div 2 < l
             /\ <<0, l>> \in Ranges(l) /\ Holding(i \div 2, <<0, l>>)
  <2>1. l \in Nat /\ n <= 2 * l /\ 2 * l <= n + 1
    <3>1. IsHalf(l, n)
      BY <1>1, HalfIs
    <3> QED
      BY <3>1 DEF IsHalf
  <2>2. IsHalf(l, n)
    BY <2>1 DEF IsHalf
  <2>3. 1 <= l /\ l <= n /\ (2 <= n => l < n)
    BY <1>1, <2>1
  <2>4. i \div 2 \in Nat /\ 2 * (i \div 2) <= i
    OBVIOUS
  <2> DEFINE h == i \div 2
  <2> HIDE DEF h
  <2>5. h \in Nat /\ h < l
    <3>1. h \in Nat /\ 2 * h <= i
      BY <2>4 DEF h
    <3> QED
      BY <1>1, <2>1, <3>1
  <2>6. <<0, l>> \in Ranges(l)
    BY <2>1 DEF Ranges
  <2>7. Holding(h, <<0, l>>)
    BY <2>5 DEF Holding
  <2> QED
    BY <2>1, <2>2, <2>3, <2>5, <2>6, <2>7 DEF h
<1> QED
  BY <1>1

(* The sides of an entry of n are the first and those of its place above.  *)
LEMMA SidesUp ==
    ASSUME NEW n \in Nat, NEW i \in Nat, i < n
    PROVE  Sides(i, n) = FirstSide(i, n) \o Sides(i \div 2, (n + 1) \div 2)
<1> DEFINE l == (n + 1) \div 2
           h == i \div 2
           f == SidesIn(i, n)
           g == SidesIn(h, l)
<1>1. l \in Nat /\ IsHalf(l, n) /\ <<0, l>> \in Ranges(l) /\ Holding(h, <<0, l>>)
  BY HalfFacts
<1>2. \A r \in Ranges(l) : Holding(h, r) => f[Wide(r, n)] = FirstSide(i, n) \o g[r]
  BY SidesAbove
<1>3. Sides(i, n) = f[<<0, n>>] /\ Sides(h, l) = g[<<0, l>>]
  BY TablesUsed, ZenonT(40)
<1> HIDE DEF l, h, f, g
<1>4. Wide(<<0, l>>, n) = <<0, n>>
  BY <1>1, WideWhole
<1> QED
  BY <1>1, <1>2, <1>3, <1>4 DEF l, h

(* The sides of merkle.ts, and their recursion.                            *)
PairEnd == [p \in Pairs |-> p[2]]
PairAbove(p) == <<p[1] \div 2, (p[2] + 1) \div 2>>

LEMMA PairAboveFacts ==
    \A p \in Pairs : /\ p[1] \in Nat /\ p[2] \in Nat /\ PairAbove(p) \in Pairs
                     /\ ~(p[2] <= 1) => PairEnd[PairAbove(p)] < PairEnd[p]
<1>1. \A x \in Nat : x \div 2 \in Nat
  OBVIOUS
<1>2. \A y \in Nat : (y + 1) \div 2 \in Nat /\ (~(y <= 1) => (y + 1) \div 2 < y)
  OBVIOUS
<1>3. \A x, y \in Nat : <<x, y>> \in Pairs
  BY DEF Pairs
<1>4. \A q \in Pairs : PairEnd[q] = q[2]
  BY DEF PairEnd
<1>5. \A p \in Pairs : p[1] \in Nat /\ p[2] \in Nat
  BY DEF Pairs
<1>6. \A p \in Pairs : PairAbove(p) \in Pairs
  BY <1>1, <1>2, <1>3, <1>5 DEF PairAbove
<1>7. \A p : PairAbove(p)[2] = (p[2] + 1) \div 2
  BY DEF PairAbove
<1> QED
  BY <1>2, <1>4, <1>5, <1>6, <1>7

LEMMA BatchSidesIs ==
    \A p \in Pairs :
       BatchSides[p] = IF p[2] <= 1 THEN <<>> ELSE FirstSide(p[1], p[2]) \o BatchSides[PairAbove(p)]
<1>1. \A f, p : Turn("batch sides", 0, 0, 0, f, p)
                   = IF p[2] <= 1 THEN <<>> ELSE FirstSide(p[1], p[2]) \o f[PairAbove(p)]
  BY DEF Turn, FirstSide, PairAbove
<1>2. ASSUME NEW p \in Pairs, NEW f, NEW g,
             \A q \in Pairs : PairEnd[q] < PairEnd[p] => f[q] = g[q]
      PROVE  Equal("batch sides", 0, 0, 0, f, g, p)
  <2>1. ~(p[2] <= 1) => f[PairAbove(p)] = g[PairAbove(p)]
    BY <1>2, PairAboveFacts
  <2> QED
    BY <1>1, <2>1, Zenon DEF Equal
<1>3. PairEnd \in [Pairs -> Nat]
  BY DEF PairEnd, Pairs
<1>4. Ranked("batch sides", 0, 0, 0, Pairs, PairEnd)
  BY <1>2, <1>3 DEF Ranked
<1>5. PICK f : Solves("batch sides", 0, 0, 0, Pairs, f)
  BY <1>4, Recursion
<1> DEFINE Is(d) == d = [p \in Pairs |-> IF p[2] <= 1 THEN <<>>
                                         ELSE FirstSide(p[1], p[2]) \o d[PairAbove(p)]]
<1>6. Is(f)
  BY <1>1, <1>5, ZenonT(40) DEF Solves
<1> DEFINE d == CHOOSE e : Is(e)
<1>7. Is(d)
  BY <1>6, Zenon
<1>8. BatchSides = d
  BY DEF BatchSides, FirstSide, PairAbove, Pairs
<1> HIDE DEF d
<1> QED
  BY <1>7, <1>8

(* They are the sides of the recursive tree.                               *)
LEMMA BatchSidesAre ==
    \A n, i \in Nat : i < n => BatchSides[<<i, n>>] = Sides(i, n)
<1> DEFINE S == {m \in Nat : \A n, i \in Nat : i < n /\ n <= m => BatchSides[<<i, n>>] = Sides(i, n)}
<1>1. 0 \in S
  OBVIOUS
<1>2. ASSUME NEW m \in S PROVE m + 1 \in S
  <2>0. m \in Nat /\ \A n, i \in Nat : i < n /\ n <= m => BatchSides[<<i, n>>] = Sides(i, n)
    OBVIOUS
  <2> HIDE DEF S
  <2>1. ASSUME NEW n \in Nat, NEW i \in Nat, i < n, n <= m + 1 PROVE BatchSides[<<i, n>>] = Sides(i, n)
    <3>0. <<i, n>> \in Pairs /\ <<i, n>>[1] = i /\ <<i, n>>[2] = n
      BY DEF Pairs
    <3>1. CASE n <= 1
      <4>1. BatchSides[<<i, n>>] = <<>>
        BY <3>0, <3>1, BatchSidesIs
      <4>2. Sides(i, n) = SidesIn(i, n)[<<0, n>>]
        BY TablesUsed
      <4>3. <<0, n>> \in Ranges(n) /\ Size(<<0, n>>) <= 1
        BY <3>1 DEF Ranges, Size
      <4> QED
        BY <4>1, <4>2, <4>3, SidesSplit
    <3>2. CASE ~(n <= 1)
      <4> DEFINE l == (n + 1) \div 2
                 h == i \div 2
      <4>1. Sides(i, n) = FirstSide(i, n) \o Sides(h, l)
        BY <2>1, SidesUp
      <4>2. BatchSides[<<i, n>>] = FirstSide(i, n) \o BatchSides[<<h, l>>]
        <5>1. PairAbove(<<i, n>>) = <<h, l>>
          BY DEF PairAbove
        <5> HIDE DEF l, h
        <5> QED
          BY <3>0, <3>2, <5>1, BatchSidesIs
      <4>3. l \in Nat /\ h \in Nat /\ h < l /\ (2 <= n => l < n)
        BY <2>1, HalfFacts
      <4> HIDE DEF l, h
      <4>4. l <= m
        BY <2>0, <2>1, <3>2, <4>3
      <4> QED
        BY <2>0, <4>1, <4>2, <4>3, <4>4
    <3> QED
      BY <3>1, <3>2
  <2> QED
    BY <2>0, <2>1 DEF S
<1>3. S = Nat
  <2>1. S \in SUBSET Nat
    OBVIOUS
  <2> HIDE DEF S
  <2> QED
    BY <1>1, <1>2, <2>1, SetInduction
<1> QED
  BY <1>3

(* One level up, a path loses its first sibling and the root stays.        *)
LEMMA PathUp ==
    ASSUME NEW L, Len(L) \in Nat, NEW i \in Nat, i < Len(L), NEW V, RootsWithin(L, V)
    PROVE  LET A == LevelAbove(L)
               n == Len(L)
           IN  /\ Len(A) = (n + 1) \div 2 /\ i \div 2 \in Nat /\ i \div 2 < Len(A)
               /\ Len(A) \in Nat /\ (2 <= n => Len(A) < n) /\ 1 <= Len(A)
               /\ First(L, i) \in Seq(V) /\ InclusionPath(A, i \div 2, Len(A)) \in Seq(V)
               /\ InclusionPath(L, i, n) = First(L, i) \o InclusionPath(A, i \div 2, Len(A))
               /\ RootIn(A, <<0, Len(A)>>) = RootIn(L, <<0, n>>)
               /\ RootsWithin(A, V)
<1> DEFINE A == LevelAbove(L)
           n == Len(L)
           l == (n + 1) \div 2
           h == i \div 2
           f == PathIn(L, i, n)
           g == PathIn(A, h, l)
<1>0. n \in Nat
  OBVIOUS
<1>1. /\ l \in Nat /\ IsHalf(l, n) /\ <<0, l>> \in Ranges(l) /\ Holding(h, <<0, l>>)
      /\ h \in Nat /\ h < l /\ 1 <= l /\ (2 <= n => l < n)
  BY HalfFacts
<1>2. Len(A) = l
  BY LevelAboveIs
<1>3. \A r \in Ranges(l) : Holding(h, r) => g[r] \in Seq(V) /\ f[Wide(r, n)] = First(L, i) \o g[r]
  <2>1. n = Len(L) /\ l = (n + 1) \div 2
    OBVIOUS
  <2> HIDE DEF n, l
  <2>2. PathLifted(L, i, n, l, V)
    BY <2>1, PathAbove
  <2> QED
    BY <2>2 DEF PathLifted
<1>4. InclusionPath(L, i, n) = f[<<0, n>>] /\ InclusionPath(A, h, l) = g[<<0, l>>]
  BY TablesUsed
<1>5. First(L, i) \in Seq(V)
  BY FirstIn
<1>6. \A r \in Ranges(l) : 1 <= Size(r) => RootIn(A, r) = RootIn(L, Wide(r, n))
  BY RootAbove
<1> HIDE DEF A, l, h, f, g, n
<1>7. Wide(<<0, l>>, n) = <<0, n>>
  BY <1>1, WideWhole
<1>8. g[<<0, l>>] \in Seq(V) /\ f[<<0, n>>] = First(L, i) \o g[<<0, l>>]
  BY <1>1, <1>3, <1>7
<1>9. RootIn(A, <<0, l>>) = RootIn(L, <<0, n>>)
  <2>1. 1 <= Size(<<0, l>>)
    BY <1>1 DEF Size
  <2> QED
    BY <1>1, <1>6, <1>7, <2>1
<1>10. RootsWithin(A, V)
  <2>1. ASSUME NEW r \in Ranges(l), 1 <= Size(r) PROVE RootIn(A, r) \in V
    <3>1. Wide(r, n) \in Ranges(n) /\ 1 <= Size(Wide(r, n))
      BY <1>0, <1>1, <2>1, WideFacts
    <3> QED
      BY <1>6, <2>1, <3>1 DEF RootsWithin, n
  <2> QED
    BY <1>2, <2>1 DEF RootsWithin
<1>11. Len(A) \in Nat /\ h < Len(A) /\ (2 <= n => Len(A) < n) /\ 1 <= Len(A)
  BY <1>1, <1>2
<1>12. InclusionPath(A, h, Len(A)) \in Seq(V) /\ InclusionPath(L, i, n) = First(L, i) \o InclusionPath(A, h, Len(A))
  BY <1>2, <1>4, <1>8
<1>13. RootIn(A, <<0, Len(A)>>) = RootIn(L, <<0, n>>)
  BY <1>2, <1>9
<1> QED
  BY <1>1, <1>2, <1>5, <1>10, <1>11, <1>12, <1>13 DEF A, h, n, l
-----------------------------------------------------------------------------
(* The levels of a batch.                                                  *)
AreRows(leaves, f) ==
    f = [k \in 0..Len(leaves) |-> IF k = 0 THEN leaves ELSE LevelAbove(f[k - 1])]

Rows(leaves) == CHOOSE f : AreRows(leaves, f)

LEMMA RowsAre ==
    ASSUME NEW leaves, Len(leaves) \in Nat
    PROVE  /\ Rows(leaves)[0] = leaves
           /\ \A k \in 1..Len(leaves) : Rows(leaves)[k] = LevelAbove(Rows(leaves)[k - 1])
<1> DEFINE n == Len(leaves)
           rank == [k \in 0..n |-> k]
           rows == Rows(leaves)
<1>1. n \in Nat
  OBVIOUS
<1>2. rank \in [0..n -> Nat] /\ \A k \in 0..n : rank[k] = k
  OBVIOUS
<1> HIDE DEF rank, n
<1>3. \A f, k : Turn("batch levels", leaves, 0, 0, f, k) = IF k = 0 THEN leaves ELSE LevelAbove(f[k - 1])
  BY DEF Turn
<1>4. ASSUME NEW k \in 0..n, NEW f, NEW g, \A q \in 0..n : rank[q] < rank[k] => f[q] = g[q]
      PROVE  Equal("batch levels", leaves, 0, 0, f, g, k)
  <2>1. k # 0 => k - 1 \in 0..n /\ rank[k - 1] < rank[k]
    BY <1>1, <1>2
  <2> QED
    BY <1>3, <1>4, <2>1 DEF Equal
<1>5. Ranked("batch levels", leaves, 0, 0, 0..n, rank)
  BY <1>2, <1>4 DEF Ranked
<1>6. PICK f : Solves("batch levels", leaves, 0, 0, 0..n, f)
  BY <1>5, Recursion
<1>7. AreRows(leaves, f)
  BY <1>3, <1>6 DEF Solves, AreRows, n
<1>8. AreRows(leaves, rows)
  BY <1>7 DEF Rows
<1> HIDE DEF rows
<1>9. rows = [k \in 0..n |-> IF k = 0 THEN leaves ELSE LevelAbove(rows[k - 1])]
  BY <1>8 DEF AreRows, n
<1>10. rows[0] = leaves /\ \A k \in 1..n : rows[k] = LevelAbove(rows[k - 1])
  BY <1>1, <1>9
<1> QED
  BY <1>10 DEF rows, n

(* Every level is shorter than the one below it, down to one node.         *)
LEMMA RowsShrink ==
    ASSUME NEW leaves, Len(leaves) \in Nat, 1 <= Len(leaves), NEW k \in 0..Len(leaves)
    PROVE  /\ Len(Rows(leaves)[k]) \in Nat /\ 1 <= Len(Rows(leaves)[k])
           /\ Len(Rows(leaves)[k]) = 1 \/ Len(Rows(leaves)[k]) <= Len(leaves) - k
<1> DEFINE n == Len(leaves)
           rows == Rows(leaves)
           S == {j \in Nat : j <= n => /\ Len(rows[j]) \in Nat /\ 1 <= Len(rows[j])
                                       /\ Len(rows[j]) = 1 \/ Len(rows[j]) <= n - j}
<1>1. n \in Nat /\ 1 <= n
  OBVIOUS
<1>2. rows[0] = leaves /\ \A j \in 1..n : rows[j] = LevelAbove(rows[j - 1])
  BY RowsAre
<1>3. Len(rows[0]) = n
  BY <1>2
<1> HIDE DEF n, rows
<1>4. 0 \in S
  BY <1>1, <1>3
<1>5. ASSUME NEW j \in S PROVE j + 1 \in S
  <2>0. j \in Nat
    OBVIOUS
  <2>1. ASSUME j + 1 <= n
        PROVE  /\ Len(rows[j + 1]) \in Nat /\ 1 <= Len(rows[j + 1])
               /\ Len(rows[j + 1]) = 1 \/ Len(rows[j + 1]) <= n - (j + 1)
    <3> DEFINE x == Len(rows[j])
    <3>1. x \in Nat /\ 1 <= x /\ (x = 1 \/ x <= n - j)
      BY <1>1, <1>5, <2>0, <2>1
    <3>2. rows[j + 1] = LevelAbove(rows[j])
      <4>1. j + 1 \in 1..n /\ (j + 1) - 1 = j
        BY <1>1, <2>0, <2>1
      <4> QED
        BY <1>2, <4>1
    <3>3. Len(rows[j + 1]) = (x + 1) \div 2
      BY <3>1, <3>2, LevelAboveIs
    <3> HIDE DEF x
    <3>4. \A y \in Nat : 1 <= y => /\ (y + 1) \div 2 \in Nat /\ 1 <= (y + 1) \div 2
                                   /\ (y + 1) \div 2 = 1 \/ (y + 1) \div 2 <= y - 1
      OBVIOUS
    <3>5. x = 1 => (x + 1) \div 2 = 1
      OBVIOUS
    <3>6. /\ Len(rows[j + 1]) \in Nat /\ 1 <= Len(rows[j + 1])
          /\ Len(rows[j + 1]) = 1 \/ (Len(rows[j + 1]) <= x - 1 /\ x # 1)
      BY <3>1, <3>3, <3>4, <3>5
    <3> QED
      BY <1>1, <2>0, <3>1, <3>6
  <2>2. j + 1 \in Nat
    BY <2>0
  <2> QED
    BY <2>1, <2>2
<1>6. S = Nat
  <2>1. S \in SUBSET Nat
    OBVIOUS
  <2> HIDE DEF S
  <2> QED
    BY <1>4, <1>5, <2>1, SetInduction
<1>7. k \in Nat /\ k <= n
  BY <1>1 DEF n
<1> QED
  BY <1>6, <1>7 DEF n, rows

(* The batch has the levels up to the first of one node.                   *)
LEMMA BatchLevelsAre ==
    ASSUME NEW leaves, Len(leaves) \in Nat, 1 <= Len(leaves)
    PROVE  \E h \in 0..Len(leaves) : /\ Len(Rows(leaves)[h]) = 1
                                     /\ BatchLevels(leaves) = [k \in 1..(h + 1) |-> Rows(leaves)[k - 1]]
<1> DEFINE n == Len(leaves)
           rows == Rows(leaves)
           Top(h) == Len(rows[h]) = 1 /\ \A g \in 0..(h - 1) : Len(rows[g]) > 1
           height == CHOOSE h \in 0..n : Top(h)
<1>1. n \in Nat /\ 1 <= n
  OBVIOUS
<1>2. \A k \in 0..n : /\ Len(rows[k]) \in Nat /\ 1 <= Len(rows[k])
                      /\ Len(rows[k]) = 1 \/ Len(rows[k]) <= n - k
  BY RowsShrink
<1>3. BatchLevels(leaves) = [k \in 1..(height + 1) |-> rows[k - 1]]
  BY DEF BatchLevels, Rows, AreRows
<1> HIDE DEF n, rows
<1>4. \E h \in 0..n : Top(h)
  <2> DEFINE S == {k \in 0..n : Len(rows[k]) = 1}
  <2>1. n - 1 \in S
    <3>1. n - 1 \in 0..n /\ n - (n - 1) = 1
      BY <1>1
    <3>2. Len(rows[n - 1]) \in Nat /\ 1 <= Len(rows[n - 1]) /\ (Len(rows[n - 1]) = 1 \/ Len(rows[n - 1]) <= 1)
      BY <1>2, <3>1
    <3>3. \A x \in Nat : 1 <= x /\ (x = 1 \/ x <= 1) => x = 1
      OBVIOUS
    <3>4. Len(rows[n - 1]) = 1
      BY <3>2, <3>3, Zenon
    <3> QED
      BY <3>1, <3>4
  <2>2. S \in SUBSET Nat
    OBVIOUS
  <2> HIDE DEF S
  <2>3. PICK h \in S : \A x \in S : h <= x
    BY <2>1, <2>2, Least
  <2>4. h \in 0..n /\ h \in Nat /\ Len(rows[h]) = 1
    BY <1>1, <2>3 DEF S
  <2>5. ASSUME NEW g \in 0..(h - 1) PROVE Len(rows[g]) > 1
    <3>1. g \in 0..n /\ ~(h <= g)
      BY <1>1, <2>4
    <3>2. g \notin S
      BY <2>3, <3>1
    <3>3. Len(rows[g]) # 1
      BY <3>1, <3>2 DEF S
    <3>4. \A x \in Nat : 1 <= x /\ x # 1 => x > 1
      OBVIOUS
    <3> QED
      BY <1>2, <3>1, <3>3, <3>4, Zenon
  <2> QED
    BY <2>4, <2>5
<1>5. height \in 0..n /\ Top(height)
  <2> HIDE DEF Top
  <2> QED
    BY <1>4
<1> HIDE DEF height
<1>6. Len(rows[height]) = 1
  BY <1>5
<1> QED
  BY <1>3, <1>5, <1>6 DEF n, rows

(* The way from a leaf up.                                                 *)
Climbed(u, level) ==
    [idx  |-> u.idx \div 2,
     path |-> IF Sibling(u.idx) < Len(level) THEN Append(u.path, level[Sibling(u.idx) + 1])
              ELSE u.path]

IsWay(levels, i, f) ==
    f = [k \in 0..(Len(levels) - 1) |-> IF k = 0 THEN [idx |-> i, path |-> <<>>]
                                        ELSE Climbed(f[k - 1], levels[k])]

Way(levels, i) == CHOOSE f : IsWay(levels, i, f)

LeadsUp(leaves, levels, h, i, way) ==
    /\ BatchPath(leaves, i) = way[h].path
    /\ way[0] = [idx |-> i, path |-> <<>>]
    /\ \A k \in 1..h : way[k] = Climbed(way[k - 1], levels[k])

LEMMA WayIs ==
    ASSUME NEW leaves, NEW levels, levels = BatchLevels(leaves), NEW h \in Nat, Len(levels) = h + 1, NEW i
    PROVE  LeadsUp(leaves, levels, h, i, Way(levels, i))
<1> DEFINE rank == [k \in 0..h |-> k]
           way == Way(levels, i)
<1>1. Len(levels) - 1 = h
  OBVIOUS
<1>2. rank \in [0..h -> Nat] /\ \A k \in 0..h : rank[k] = k
  OBVIOUS
<1> HIDE DEF rank
<1>3. \A f, k : Turn("batch path", i, levels, 0, f, k)
                   = IF k = 0 THEN [idx |-> i, path |-> <<>>] ELSE Climbed(f[k - 1], levels[k])
  BY DEF Turn, Climbed
<1>4. ASSUME NEW k \in 0..h, NEW f, NEW g, \A q \in 0..h : rank[q] < rank[k] => f[q] = g[q]
      PROVE  Equal("batch path", i, levels, 0, f, g, k)
  <2>1. k # 0 => k - 1 \in 0..h /\ rank[k - 1] < rank[k]
    BY <1>2
  <2> QED
    BY <1>3, <1>4, <2>1 DEF Equal
<1>5. Ranked("batch path", i, levels, 0, 0..h, rank)
  BY <1>2, <1>4 DEF Ranked
<1>6. PICK f : Solves("batch path", i, levels, 0, 0..h, f)
  BY <1>5, Recursion
<1>7. IsWay(levels, i, f)
  BY <1>1, <1>3, <1>6, ZenonT(40) DEF Solves, IsWay
<1>8. IsWay(levels, i, way)
  BY <1>7 DEF Way
<1>9. BatchPath(leaves, i) = way[Len(levels) - 1].path
  BY DEF BatchPath, Way, IsWay, Climbed, Sibling
<1> HIDE DEF way
<1>10. way = [k \in 0..h |-> IF k = 0 THEN [idx |-> i, path |-> <<>>] ELSE Climbed(way[k - 1], levels[k])]
  BY <1>1, <1>8 DEF IsWay
<1>11. way[0] = [idx |-> i, path |-> <<>>] /\ \A k \in 1..h : way[k] = Climbed(way[k - 1], levels[k])
  BY <1>10
<1> QED
  BY <1>1, <1>9, <1>11 DEF way, LeadsUp
-----------------------------------------------------------------------------
(* What a batch's way up from a leaf keeps: the siblings so far, and those *)
(* still ahead on the level it has come to, are the whole path.            *)
OnTheWay(leaves, i, V, level, u) ==
    /\ Len(level) \in Nat /\ u.idx \in Nat /\ u.idx < Len(level)
    /\ RootsWithin(level, V)
    /\ RootIn(level, <<0, Len(level)>>) = RootIn(leaves, <<0, Len(leaves)>>)
    /\ u.path \in Seq(V) /\ InclusionPath(level, u.idx, Len(level)) \in Seq(V)
    /\ InclusionPath(leaves, i, Len(leaves)) = u.path \o InclusionPath(level, u.idx, Len(level))

LEMMA WayStarts ==
    ASSUME NEW leaves, Len(leaves) \in Nat, NEW i \in Nat, i < Len(leaves), NEW V, RootsWithin(leaves, V)
    PROVE  OnTheWay(leaves, i, V, leaves, [idx |-> i, path |-> <<>>])
<1> DEFINE u == [idx |-> i, path |-> <<>>]
           p == InclusionPath(leaves, i, Len(leaves))
           A == LevelAbove(leaves)
           F == First(leaves, i)
           P == InclusionPath(A, i \div 2, Len(A))
<1>1. F \in Seq(V) /\ P \in Seq(V) /\ p = F \o P
  BY PathUp
<1>2. u.idx = i /\ u.path = <<>>
  OBVIOUS
<1> HIDE DEF F, P, p, u
<1>3. p \in Seq(V)
  BY <1>1, ConcatProperties
<1>4. <<>> \in Seq(V)
  OBVIOUS
<1>5. p = <<>> \o p
  BY <1>3, ConcatEmptySeq
<1>6. p = u.path \o p
  BY <1>2, <1>5
<1> QED
  BY <1>2, <1>3, <1>4, <1>6 DEF OnTheWay, p, u

LEMMA WayGoesOn ==
    ASSUME NEW leaves, NEW i, NEW V, NEW level, NEW u, OnTheWay(leaves, i, V, level, u)
    PROVE  OnTheWay(leaves, i, V, LevelAbove(level), Climbed(u, level))
<1> DEFINE A == LevelAbove(level)
           F == First(level, u.idx)
           P == InclusionPath(A, u.idx \div 2, Len(A))
           p == InclusionPath(level, u.idx, Len(level))
           w == Climbed(u, level)
<1>1. /\ Len(level) \in Nat /\ u.idx \in Nat /\ u.idx < Len(level)
      /\ RootsWithin(level, V)
      /\ RootIn(level, <<0, Len(level)>>) = RootIn(leaves, <<0, Len(leaves)>>)
      /\ u.path \in Seq(V)
      /\ InclusionPath(leaves, i, Len(leaves)) = u.path \o p
  BY DEF OnTheWay
<1>2. /\ u.idx \div 2 \in Nat /\ u.idx \div 2 < Len(A) /\ Len(A) \in Nat
      /\ F \in Seq(V) /\ P \in Seq(V) /\ p = F \o P
      /\ RootIn(A, <<0, Len(A)>>) = RootIn(level, <<0, Len(level)>>)
      /\ RootsWithin(A, V)
  BY <1>1, PathUp
<1>3. w.idx = u.idx \div 2
  BY DEF Climbed
<1>4. w.path = IF Sibling(u.idx) < Len(level) THEN Append(u.path, level[Sibling(u.idx) + 1]) ELSE u.path
  BY DEF Climbed
<1>5. F = IF Sibling(u.idx) < Len(level) THEN <<level[Sibling(u.idx) + 1]>> ELSE <<>>
  BY DEF First
<1> DEFINE y == level[Sibling(u.idx) + 1]
           some == Sibling(u.idx) < Len(level)
<1>6. (some => w.path = Append(u.path, y) /\ F = <<y>>) /\ (~some => w.path = u.path /\ F = <<>>)
  BY <1>4, <1>5
<1>7. w.path = u.path \o F
  <2> HIDE DEF w, F, y, some
  <2>1. CASE some
    <3>1. y \in V
      <4>1. F = <<y>> /\ F \in Seq(V)
        BY <1>2, <1>6, <2>1
      <4>2. F[1] \in V /\ F[1] = y
        BY <4>1
      <4> QED
        BY <4>2
    <3> QED
      BY <1>1, <1>6, <2>1, <3>1, AppendIsConcat
  <2>2. CASE ~some
    BY <1>1, <1>6, <2>2, ConcatEmptySeq
  <2> QED
    BY <2>1, <2>2
<1> HIDE DEF F, P, p, w, A
<1>8. w.path \in Seq(V)
  BY <1>1, <1>2, <1>7, ConcatProperties
<1>9. u.path \o (F \o P) = (u.path \o F) \o P
  <2>1. \A s, t, v \in Seq(V) : (s \o t) \o v = s \o (t \o v)
    BY ConcatAssociative
  <2> QED
    BY <1>1, <1>2, <2>1, Zenon
<1>10. InclusionPath(leaves, i, Len(leaves)) = w.path \o P
  BY <1>1, <1>2, <1>7, <1>9
<1>11. P = InclusionPath(A, w.idx, Len(A))
  BY <1>3 DEF P
<1> QED
  BY <1>1, <1>2, <1>3, <1>8, <1>10, <1>11 DEF OnTheWay, w, A

(* At the top there is one node, which is the root, and no path left.      *)
LEMMA WayEnds ==
    ASSUME NEW leaves, NEW i, NEW V, NEW level, NEW u, OnTheWay(leaves, i, V, level, u), Len(level) = 1
    PROVE  /\ level[1] = RootIn(leaves, <<0, Len(leaves)>>)
           /\ InclusionPath(leaves, i, Len(leaves)) = u.path
<1>1. /\ u.idx \in Nat /\ RootIn(level, <<0, 1>>) = RootIn(leaves, <<0, Len(leaves)>>)
      /\ u.path \in Seq(V)
      /\ InclusionPath(leaves, i, Len(leaves)) = u.path \o InclusionPath(level, u.idx, 1)
  BY DEF OnTheWay
<1>2. <<0, 1>> \in Ranges(1) /\ Size(<<0, 1>>) = 1 /\ <<0, 1>>[2] = 1 /\ 1 \in Nat /\ 1 <= 1
  BY DEF Ranges, Size
<1>3. RootIn(level, <<0, 1>>) = level[1]
  BY <1>2, RootSplits
<1>4. InclusionPath(level, u.idx, 1) = <<>>
  <2>1. InclusionPath(level, u.idx, 1) = PathIn(level, u.idx, 1)[<<0, 1>>]
    BY TablesUsed
  <2>2. PathIn(level, u.idx, 1)[<<0, 1>>] = <<>>
    BY <1>2, PathSplits
  <2> QED
    BY <2>1, <2>2
<1> QED
  BY <1>1, <1>3, <1>4, ConcatEmptySeq

(* The batch has the paths and the root of the recursive tree.             *)
LEMMA BatchIsTree ==
    ASSUME NEW leaves, Len(leaves) \in Nat, NEW i \in Nat, i < Len(leaves)
    PROVE  /\ BatchRoot(leaves) = RootIn(leaves, <<0, Len(leaves)>>)
           /\ BatchPath(leaves, i) = InclusionPath(leaves, i, Len(leaves))
<1> DEFINE rows == Rows(leaves)
           levels == BatchLevels(leaves)
           way == Way(levels, i)
           V == {RootIn(leaves, r) : r \in Ranges(Len(leaves))}
<1>1. 1 <= Len(leaves)
  OBVIOUS
<1>2. PICK h \in 0..Len(leaves) : Len(rows[h]) = 1 /\ levels = [k \in 1..(h + 1) |-> rows[k - 1]]
  BY <1>1, BatchLevelsAre
<1>3. rows[0] = leaves /\ \A k \in 1..Len(leaves) : rows[k] = LevelAbove(rows[k - 1])
  BY RowsAre
<1>4. RootsWithin(leaves, V)
  BY DEF RootsWithin
<1>5. h \in Nat /\ h <= Len(leaves)
  OBVIOUS
<1>6. Len(levels) = h + 1 /\ \A k \in 1..(h + 1) : levels[k] = rows[k - 1]
  <2> HIDE DEF levels, rows
  <2> QED
    BY <1>2, <1>5
<1>7. /\ BatchPath(leaves, i) = way[h].path
      /\ way[0] = [idx |-> i, path |-> <<>>]
      /\ \A k \in 1..h : way[k] = Climbed(way[k - 1], levels[k])
  <2>1. levels = BatchLevels(leaves)
    OBVIOUS
  <2> HIDE DEF levels
  <2>2. LeadsUp(leaves, levels, h, i, Way(levels, i))
    BY <1>5, <1>6, <2>1, WayIs
  <2> QED
    BY <2>2 DEF LeadsUp
<1>8. BatchRoot(leaves) = rows[h][1]
  <2>1. BatchRoot(leaves) = levels[Len(levels)][1]
    BY DEF BatchRoot, Last
  <2> HIDE DEF levels, rows
  <2>2. h + 1 \in 1..(h + 1) /\ (h + 1) - 1 = h
    BY <1>5
  <2> QED
    BY <1>6, <2>1, <2>2
<1> DEFINE S == {k \in Nat : k <= h => OnTheWay(leaves, i, V, rows[k], way[k])}
<1>9. OnTheWay(leaves, i, V, rows[0], way[0])
  <2> HIDE DEF V, rows, way
  <2> QED
    BY <1>3, <1>4, <1>7, WayStarts
<1> HIDE DEF rows, levels, way, V
<1>10. ASSUME NEW k \in S PROVE k + 1 \in S
  <2>0. k \in Nat /\ k + 1 \in Nat
    OBVIOUS
  <2>1. ASSUME k + 1 <= h PROVE OnTheWay(leaves, i, V, rows[k + 1], way[k + 1])
    <3>1. k + 1 \in 1..Len(leaves) /\ k + 1 \in 1..h /\ k + 1 \in 1..(h + 1) /\ (k + 1) - 1 = k /\ k <= h
      BY <1>5, <2>0, <2>1
    <3>2. rows[k + 1] = LevelAbove(rows[k])
      BY <1>3, <3>1
    <3>3. way[k + 1] = Climbed(way[k], rows[k])
      <4>1. levels[k + 1] = rows[k]
        BY <1>6, <3>1
      <4>2. way[k + 1] = Climbed(way[(k + 1) - 1], levels[k + 1])
        BY <1>7, <3>1
      <4> QED
        BY <3>1, <4>1, <4>2
    <3>4. OnTheWay(leaves, i, V, rows[k], way[k])
      BY <3>1
    <3> QED
      BY <3>2, <3>3, <3>4, WayGoesOn
  <2> QED
    BY <2>0, <2>1
<1>11. S = Nat
  <2>1. 0 \in S /\ S \in SUBSET Nat
    BY <1>9
  <2> HIDE DEF S
  <2> QED
    BY <1>10, <2>1, SetInduction
<1>12. OnTheWay(leaves, i, V, rows[h], way[h])
  BY <1>5, <1>11
<1>13. Len(rows[h]) = 1
  BY <1>2
<1>14. /\ rows[h][1] = RootIn(leaves, <<0, Len(leaves)>>)
       /\ InclusionPath(leaves, i, Len(leaves)) = way[h].path
  BY <1>12, <1>13, WayEnds
<1> QED
  BY <1>7, <1>8, <1>14

(* A prefix of the log has the same paths.                                 *)
LEMMA PrefixPaths ==
    ASSUME NEW E, NEW D \in Seq(E), NEW n \in 1..Len(D), NEW i
    PROVE  InclusionPath(SubSeq(D, 1, n), i, n) = InclusionPath(D, i, n)
<1> DEFINE C == SubSeq(D, 1, n)
           f == PathIn(C, i, n)
           g == PathIn(D, i, n)
           T == {r \in Ranges(n) : f[r] = g[r]}
<1>1. Len(D) \in Nat /\ n \in Nat /\ n >= 1
  OBVIOUS
<1>2. Len(C) = n /\ \A r \in Ranges(n) : 1 <= Size(r) => RootIn(C, r) = RootIn(D, r)
  BY PrefixRoots
<1> HIDE DEF C
<1>3. /\ Climbs(n, i, RightRoots(C, n), LeftRoots(C, n), f)
      /\ Climbs(n, i, RightRoots(D, n), LeftRoots(D, n), g)
  BY <1>1, <1>2, PathClimbs
<1>4. InclusionPath(C, i, n) = f[<<0, n>>] /\ InclusionPath(D, i, n) = g[<<0, n>>]
  BY TablesUsed
<1> HIDE DEF f, g
<1>5. ASSUME NEW r \in Ranges(n), Size(r) = 1 PROVE r \in T
  BY <1>3, <1>5 DEF Climbs
<1>6. ASSUME NEW r \in Ranges(n), Size(r) >= 2, Left(r) \in T, Right(r) \in T PROVE r \in T
  <2>1. ~(Size(r) <= 1)
    BY <1>1, <1>6, SizeType
  <2>2. /\ Left(r) \in Ranges(n) /\ 1 <= Size(Left(r)) /\ Right(r) \in Ranges(n) /\ 1 <= Size(Right(r))
    BY <1>1, <2>1, HalvesInside
  <2>3. RightRoots(C, n)[r] = RightRoots(D, n)[r] /\ LeftRoots(C, n)[r] = LeftRoots(D, n)[r]
    BY <1>2, <2>2 DEF RightRoots, LeftRoots
  <2>4. f[Left(r)] = g[Left(r)] /\ f[Right(r)] = g[Right(r)]
    BY <1>6
  <2>5. CASE i < Middle(r)
    BY <1>3, <2>1, <2>3, <2>4, <2>5 DEF Climbs
  <2>6. CASE ~(i < Middle(r))
    BY <1>3, <2>1, <2>3, <2>4, <2>6 DEF Climbs
  <2> QED
    BY <2>5, <2>6
<1>7. \A r \in Ranges(n) : 1 <= Size(r) => r \in T
  <2> HIDE DEF T
  <2> QED
    BY <1>1, <1>5, <1>6, RangeInduction
<1>8. <<0, n>> \in Ranges(n) /\ 1 <= Size(<<0, n>>)
  BY <1>1 DEF Ranges, Size
<1>9. f[<<0, n>>] = g[<<0, n>>]
  BY <1>7, <1>8
<1> QED
  BY <1>4, <1>9 DEF C

(* The batch commitment over the first n entries of a log, however many,   *)
(* is the log's own tree: the level-by-level construction of merkle.ts     *)
(* gives its root and its audit paths, and its verifier takes them.        *)
THEOREM BatchIsExact ==
    ASSUME NEW E, NEW D \in Seq(E), NEW n \in 1..Len(D)
    PROVE  /\ BatchRoot(SubSeq(D, 1, n)) = Root(D, n)
           /\ \A i \in 0..(n - 1) :
                 /\ BatchPath(SubSeq(D, 1, n), i) = InclusionPath(D, i, n)
                 /\ VerifyBatchInclusion(SubSeq(D, 1, n)[i + 1], i, n,
                                         BatchPath(SubSeq(D, 1, n), i), Root(D, n))
<1> DEFINE C == SubSeq(D, 1, n)
<1>1. /\ Len(D) \in Nat /\ n \in Nat /\ n >= 1 /\ Len(C) = n
      /\ \A j \in 1..n : C[j] = D[j]
  OBVIOUS
<1>2. Root(D, n) = RootIn(C, <<0, n>>)
  BY DEF Root, RootIn
<1>3. \A i : InclusionPath(C, i, n) = InclusionPath(D, i, n)
  BY PrefixPaths
<1> HIDE DEF C
<1>4. \A i \in Nat : i < n => BatchRoot(C) = Root(D, n) /\ BatchPath(C, i) = InclusionPath(D, i, n)
  BY <1>1, <1>2, <1>3, BatchIsTree
<1>5. BatchRoot(C) = Root(D, n)
  <2>1. 0 \in Nat /\ 0 < n
    BY <1>1
  <2> QED
    BY <1>4, <2>1
<1>6. ASSUME NEW i \in 0..(n - 1)
      PROVE  /\ BatchPath(C, i) = InclusionPath(D, i, n)
             /\ VerifyBatchInclusion(C[i + 1], i, n, BatchPath(C, i), Root(D, n))
  <2>1. i \in Nat /\ i < n /\ i + 1 \in 1..n
    BY <1>1
  <2>2. BatchPath(C, i) = InclusionPath(D, i, n)
    BY <1>4, <2>1
  <2>3. VerifyInclusion(D[i + 1], i, n, InclusionPath(D, i, n), Root(D, n))
    BY InclusionIsComplete
  <2>4. BatchSides[<<i, n>>] = Sides(i, n)
    BY <1>1, <2>1, BatchSidesAre
  <2>5. C[i + 1] = D[i + 1]
    BY <1>1, <2>1
  <2> HIDE DEF C
  <2>6. VerifyBatchInclusion(D[i + 1], i, n, InclusionPath(D, i, n), Root(D, n))
    BY <2>3, <2>4 DEF VerifyInclusion, VerifyBatchInclusion
  <2> QED
    BY <2>2, <2>5, <2>6
<1> QED
  BY <1>5, <1>6 DEF C
-----------------------------------------------------------------------------
(* Whatever sides are named for a leaf, in or out of the tree.             *)
LEMMA BatchSidesType == \A p \in Pairs : BatchSides[p] \in Seq(SideNames)
<1> DEFINE S == {m \in Nat : \A p \in Pairs : p[2] <= m => BatchSides[p] \in Seq(SideNames)}
<1>1. <<>> \in Seq(SideNames) /\ \A i, n : FirstSide(i, n) \in Seq(SideNames)
  <2>1. <<>> \in Seq(SideNames)
    OBVIOUS
  <2>2. <<"right">> \in Seq(SideNames) /\ <<"left">> \in Seq(SideNames)
    BY DEF SideNames
  <2>3. \A i, n : FirstSide(i, n) \in {<<>>, <<"right">>, <<"left">>}
    BY DEF FirstSide
  <2> QED
    BY <2>1, <2>2, <2>3
<1>2. \A p \in Pairs : p[2] \in Nat
  BY PairFacts
<1>3. \A p \in Pairs : p[2] <= 1 => BatchSides[p] \in Seq(SideNames)
  BY <1>1, BatchSidesIs
<1>4. ASSUME NEW m \in Nat, \A p \in Pairs : p[2] <= m => BatchSides[p] \in Seq(SideNames),
             NEW p \in Pairs, p[2] <= m + 1, ~(p[2] <= 1)
      PROVE  BatchSides[p] \in Seq(SideNames)
  <2>1. PairAbove(p) \in Pairs /\ PairAbove(p)[2] = (p[2] + 1) \div 2
    BY <1>4, PairAboveFacts DEF PairAbove
  <2>2. PairAbove(p)[2] <= m
    BY <1>2, <1>4, <2>1
  <2>3. BatchSides[PairAbove(p)] \in Seq(SideNames)
    BY <1>4, <2>1, <2>2
  <2>4. BatchSides[p] = FirstSide(p[1], p[2]) \o BatchSides[PairAbove(p)]
    BY <1>4, BatchSidesIs
  <2> QED
    BY <1>1, <2>3, <2>4
<1>5. 0 \in S
  BY <1>2, <1>3
<1>6. ASSUME NEW m \in S PROVE m + 1 \in S
  <2>1. m \in Nat /\ \A p \in Pairs : p[2] <= m => BatchSides[p] \in Seq(SideNames)
    OBVIOUS
  <2>2. \A p \in Pairs : p[2] <= m + 1 => BatchSides[p] \in Seq(SideNames)
    BY <1>3, <1>4, <2>1
  <2> QED
    BY <2>1, <2>2
<1>7. S = Nat
  <2>1. S \in SUBSET Nat
    OBVIOUS
  <2> HIDE DEF S
  <2> QED
    BY <1>5, <1>6, <2>1, SetInduction
<1> QED
  BY <1>2, <1>7

(* What is hashed of two others; an entry's own hash is none.              *)
IsNode(x) == \E a, b : x = hashNode(a, b)

(* Only the siblings of an entry, on its sides, take its hash to the root  *)
(* of a range, and they take no other leaf there.                          *)
Lands(D, n, T, r) ==
    \A leaf, sides, path :
        /\ ~IsNode(leaf) /\ sides \in Seq(SideNames) /\ path \in Seq(T) /\ Len(path) = Len(sides)
        /\ Combined(leaf, sides, path) = RootIn(D, r)
        => \E i \in Nat : /\ Holding(i, r) /\ leaf = D[i + 1]
                          /\ sides = SidesIn(i, n)[r] /\ path = PathIn(D, i, n)[r]

LEMMA EntryLands ==
    ASSUME NEW D, Len(D) \in Nat, NEW n \in 1..Len(D), \A j \in 1..n : ~IsNode(D[j]),
           NEW T, NEW r \in Ranges(n), Size(r) = 1
    PROVE  Lands(D, n, T, r)
<1> SUFFICES ASSUME NEW leaf, NEW sides \in Seq(SideNames), NEW path \in Seq(T), ~IsNode(leaf),
                    Len(path) = Len(sides), Combined(leaf, sides, path) = RootIn(D, r)
             PROVE  \E i \in Nat : /\ Holding(i, r) /\ leaf = D[i + 1]
                                   /\ sides = SidesIn(i, n)[r] /\ path = PathIn(D, i, n)[r]
  BY DEF Lands
<1> DEFINE i == r[1]
<1>1. n \in Nat /\ i \in Nat /\ r[2] = i + 1 /\ r[2] \in 1..n /\ Holding(i, r) /\ r \in Ranges(Len(D))
  BY DEF Ranges, Size, Holding
<1>2. RootIn(D, r) = D[i + 1]
  BY <1>1, RootSplits
<1>3. SidesIn(i, n)[r] = <<>> /\ PathIn(D, i, n)[r] = <<>>
  BY <1>1, SidesSplit, PathSplits
<1>4. sides = <<>>
  <2> SUFFICES ASSUME sides # <<>> PROVE FALSE
    OBVIOUS
  <2>1. PICK s \in Seq(SideNames), x \in SideNames : sides = Append(s, x)
    BY SequenceEmptyOrAppend
  <2>2. Combined(leaf, sides, path) = Above(Combined(leaf, s, path), x, path[Len(s) + 1])
    BY <2>1, CombinedStep
  <2>3. IsNode(Combined(leaf, sides, path))
    BY <2>2 DEF IsNode, Above
  <2> QED
    BY <1>1, <1>2, <2>3
<1>5. path = <<>>
  BY <1>4
<1>6. leaf = D[i + 1]
  BY <1>2, <1>4, CombinedNone
<1> QED
  BY <1>1, <1>3, <1>4, <1>5, <1>6

LEMMA HalvesLand ==
    ASSUME NEW D, Len(D) \in Nat, NEW n \in 1..Len(D), NEW T, NEW r \in Ranges(n), ~(Size(r) <= 1),
           Lands(D, n, T, Left(r)), Lands(D, n, T, Right(r))
    PROVE  Lands(D, n, T, r)
<1> SUFFICES ASSUME NEW leaf, NEW sides \in Seq(SideNames), NEW path \in Seq(T), ~IsNode(leaf),
                    Len(path) = Len(sides), Combined(leaf, sides, path) = RootIn(D, r)
             PROVE  \E i \in Nat : /\ Holding(i, r) /\ leaf = D[i + 1]
                                   /\ sides = SidesIn(i, n)[r] /\ path = PathIn(D, i, n)[r]
  BY DEF Lands
<1>1. n \in Nat /\ r \in Ranges(Len(D)) /\ Size(r) \in Int
  BY SizeType DEF Ranges
<1>2. RootIn(D, r) = hashNode(RootIn(D, Left(r)), RootIn(D, Right(r)))
  BY <1>1, RootSplits
<1>3. sides # <<>>
  BY <1>2, CombinedNone DEF IsNode
<1>4. PICK s \in Seq(SideNames), x \in SideNames : sides = Append(s, x)
  BY <1>3, SequenceEmptyOrAppend
<1>5. path # <<>>
  BY <1>3
<1>6. PICK q \in Seq(T), y \in T : path = Append(q, y)
  BY <1>5, SequenceEmptyOrAppend
<1>7. /\ Len(s) \in Nat /\ Len(q) = Len(s) /\ path[Len(s) + 1] = y
  BY <1>4, <1>6
<1>8. Combined(leaf, sides, path) = Above(Combined(leaf, s, q), x, y)
  <2>1. Combined(leaf, Append(s, x), path) = Above(Combined(leaf, s, path), x, path[Len(s) + 1])
    BY CombinedStep
  <2>2. Combined(leaf, s, Append(q, y)) = Combined(leaf, s, q)
    BY <1>7, CombinedPrefix
  <2> QED
    BY <1>4, <1>6, <1>7, <2>1, <2>2, Zenon
<1>9. /\ Left(r)[1] = r[1] /\ Left(r)[2] = Middle(r) /\ Right(r)[1] = Middle(r) /\ Right(r)[2] = r[2]
      /\ Middle(r) \in Nat /\ r[1] \in Nat /\ r[2] \in Nat /\ r[1] < Middle(r) /\ Middle(r) < r[2]
  <2>1. /\ Left(r) \in Ranges(n) /\ 1 <= Size(Left(r)) /\ Right(r) \in Ranges(n) /\ 1 <= Size(Right(r))
    BY <1>1, HalvesInside
  <2>2. /\ Left(r)[1] = r[1] /\ Left(r)[2] = Middle(r) /\ Right(r)[1] = Middle(r) /\ Right(r)[2] = r[2]
    BY DEF Left, Right
  <2> QED
    BY <1>1, <2>1, <2>2 DEF Ranges, Size
<1>10. CASE x = "right"
  <2>1. Combined(leaf, s, q) = RootIn(D, Left(r)) /\ y = RootIn(D, Right(r))
    BY <1>2, <1>8, <1>10 DEF Above, hashNode
  <2>2. PICK i \in Nat : /\ Holding(i, Left(r)) /\ leaf = D[i + 1]
                         /\ s = SidesIn(i, n)[Left(r)] /\ q = PathIn(D, i, n)[Left(r)]
    BY <1>7, <2>1 DEF Lands
  <2>3. i < Middle(r) /\ Holding(i, r)
    BY <1>9, <2>2 DEF Holding
  <2>4. /\ SidesIn(i, n)[r] = Append(s, "right")
        /\ PathIn(D, i, n)[r] = Append(q, RootIn(D, Right(r)))
    BY <1>1, <2>2, <2>3, SidesSplit, PathSplits
  <2> QED
    BY <1>4, <1>6, <1>10, <2>1, <2>2, <2>3, <2>4
<1>11. CASE x = "left"
  <2>1. Combined(leaf, s, q) = RootIn(D, Right(r)) /\ y = RootIn(D, Left(r))
    BY <1>2, <1>8, <1>11 DEF Above, hashNode
  <2>2. PICK i \in Nat : /\ Holding(i, Right(r)) /\ leaf = D[i + 1]
                         /\ s = SidesIn(i, n)[Right(r)] /\ q = PathIn(D, i, n)[Right(r)]
    BY <1>7, <2>1 DEF Lands
  <2>3. ~(i < Middle(r)) /\ Holding(i, r)
    BY <1>9, <2>2 DEF Holding
  <2>4. /\ SidesIn(i, n)[r] = Append(s, "left")
        /\ PathIn(D, i, n)[r] = Append(q, RootIn(D, Left(r)))
    BY <1>1, <2>2, <2>3, SidesSplit, PathSplits
  <2> QED
    BY <1>4, <1>6, <1>11, <2>1, <2>2, <2>3, <2>4
<1> QED
  BY <1>10, <1>11 DEF SideNames

(* No hash that is not made of two others gets to the root of a log but an *)
(* entry's, and by no siblings but those of its own audit path, whatever   *)
(* sides they are said to be on: verifiers that ask neither for the index  *)
(* nor for the size of a tree (evidence-pack.ts) still take no other leaf. *)
THEOREM PathIsOwn ==
    ASSUME NEW E, NEW D \in Seq(E), NEW n \in 1..Len(D), \A j \in 1..n : ~IsNode(D[j]),
           NEW leaf, ~IsNode(leaf), NEW sides \in Seq(SideNames), NEW T, NEW path \in Seq(T),
           Len(path) = Len(sides), Combined(leaf, sides, path) = Root(D, n)
    PROVE  \E i \in 0..(n - 1) : /\ leaf = D[i + 1] /\ sides = Sides(i, n)
                                 /\ path = InclusionPath(D, i, n)
<1> DEFINE S == {r \in Ranges(n) : Lands(D, n, T, r)}
           all == <<0, n>>
<1>1. Len(D) \in Nat /\ n \in Nat /\ n >= 1
  OBVIOUS
<1>2. \A r \in Ranges(n) : Size(r) = 1 => r \in S
  BY <1>1, EntryLands
<1>3. ASSUME NEW r \in Ranges(n), Size(r) >= 2, Left(r) \in S, Right(r) \in S PROVE r \in S
  <2>1. ~(Size(r) <= 1)
    BY <1>1, <1>3, SizeType
  <2> QED
    BY <1>1, <1>3, <2>1, HalvesLand
<1>4. \A r \in Ranges(n) : 1 <= Size(r) => r \in S
  <2> HIDE DEF S
  <2> QED
    BY <1>1, <1>2, <1>3, RangeInduction
<1>5. all \in Ranges(n) /\ 1 <= Size(all) /\ all[1] = 0 /\ all[2] = n
  BY <1>1 DEF Ranges, Size
<1>6. Lands(D, n, T, all)
  BY <1>4, <1>5
<1>7. RootIn(D, all) = Root(D, n)
  BY RootOfPrefix DEF RootIn
<1>8. \A i : Sides(i, n) = SidesIn(i, n)[all] /\ InclusionPath(D, i, n) = PathIn(D, i, n)[all]
  BY TablesUsed
<1> HIDE DEF all
<1>9. PICK i \in Nat : /\ Holding(i, all) /\ leaf = D[i + 1]
                       /\ sides = SidesIn(i, n)[all] /\ path = PathIn(D, i, n)[all]
  BY <1>6, <1>7 DEF Lands
<1>10. i \in 0..(n - 1)
  BY <1>1, <1>5, <1>9 DEF Holding
<1> QED
  BY <1>8, <1>9, <1>10

(* What an audit path is made of: entries' hashes and hashes of others.    *)
LEMMA PathIsOfHashes ==
    ASSUME NEW E, NEW D \in Seq(E), NEW i \in 0..(Len(D) - 1)
    PROVE  \E V : /\ InclusionPath(D, i, Len(D)) \in Seq(V)
                  /\ \A x \in V : IsNode(x) \/ \E j \in 1..Len(D) : x = D[j]
<1> DEFINE n == Len(D)
           V == {RootIn(D, r) : r \in {q \in Ranges(n) : 1 <= Size(q)}}
           A == LevelAbove(D)
           P == InclusionPath(A, i \div 2, Len(A))
<1>1. n \in Nat /\ i \in Nat /\ i < n
  OBVIOUS
<1>2. RootsWithin(D, V)
  BY DEF RootsWithin
<1>3. ASSUME NEW r \in Ranges(n), 1 <= Size(r) PROVE IsNode(RootIn(D, r)) \/ \E j \in 1..n : RootIn(D, r) = D[j]
  <2>1. Size(r) \in Int /\ r[1] \in Nat /\ r[2] \in 0..n /\ Size(r) = r[2] - r[1]
    BY <1>1 DEF Ranges, Size
  <2>2. CASE Size(r) <= 1
    <3>1. RootIn(D, r) = D[r[2]]
      BY <1>1, <1>3, <2>2, RootSplits
    <3>2. r[2] \in 1..n
      BY <1>1, <1>3, <2>1
    <3> QED
      BY <3>1, <3>2
  <2>3. CASE ~(Size(r) <= 1)
    <3>1. RootIn(D, r) = hashNode(RootIn(D, Left(r)), RootIn(D, Right(r)))
      BY <1>1, <1>3, <2>3, RootSplits
    <3> QED
      BY <3>1 DEF IsNode
  <2> QED
    BY <2>2, <2>3
<1>4. \A x \in V : IsNode(x) \/ \E j \in 1..n : x = D[j]
  BY <1>3
<1> HIDE DEF V
<1>5. /\ First(D, i) \in Seq(V) /\ P \in Seq(V) /\ InclusionPath(D, i, n) = First(D, i) \o P
  BY <1>1, <1>2, PathUp
<1> HIDE DEF P
<1>6. InclusionPath(D, i, n) \in Seq(V)
  BY <1>5, ConcatProperties
<1> QED
  BY <1>4, <1>6

(* A batch of its own: the path made for an entry has a node for every     *)
(* side, entries' hashes and hashes of others, and takes this entry's hash *)
(* to the batch's root and no other.                                       *)
THEOREM BatchPathIsExact ==
    ASSUME NEW E, NEW D \in Seq(E), NEW i \in 0..(Len(D) - 1)
    PROVE  /\ Len(BatchPath(D, i)) = Len(BatchSides[<<i, Len(D)>>])
           /\ \E V : /\ BatchPath(D, i) \in Seq(V)
                     /\ \A x \in V : IsNode(x) \/ \E j \in 1..Len(D) : x = D[j]
           /\ \A leaf : Combined(leaf, BatchSides[<<i, Len(D)>>], BatchPath(D, i)) = BatchRoot(D)
                           <=> leaf = D[i + 1]
<1> DEFINE n == Len(D)
           path == InclusionPath(D, i, n)
           sides == Sides(i, n)
           root == Root(D, n)
<1>1. n \in Nat /\ i \in Nat /\ i < n /\ n \in 1..Len(D) /\ i \in 0..(n - 1) /\ i \in Int
  OBVIOUS
<1>2. SubSeq(D, 1, n) = D
  OBVIOUS
<1>3. BatchRoot(D) = root /\ BatchPath(D, i) = path
  BY <1>1, <1>2, BatchIsExact
<1>4. BatchSides[<<i, n>>] = sides
  BY <1>1, BatchSidesAre
<1>5. VerifyInclusion(D[i + 1], i, n, path, root)
  BY <1>1, InclusionIsComplete
<1>6. Len(path) = Len(sides) /\ Combined(D[i + 1], sides, path) = root
  BY <1>5 DEF VerifyInclusion
<1>7. ASSUME NEW leaf, Combined(leaf, sides, path) = root PROVE leaf = D[i + 1]
  <2>1. VerifyInclusion(leaf, i, n, path, root)
    BY <1>1, <1>6, <1>7 DEF VerifyInclusion
  <2> HIDE DEF path, root
  <2> QED
    BY <1>1, <2>1, InclusionIsSound DEF root
<1>8. \E V : /\ path \in Seq(V)
             /\ \A x \in V : IsNode(x) \/ \E j \in 1..Len(D) : x = D[j]
  BY PathIsOfHashes
<1> HIDE DEF path, sides, root
<1>9. \A leaf : Combined(leaf, sides, path) = root <=> leaf = D[i + 1]
  BY <1>6, <1>7
<1> QED
  BY <1>3, <1>4, <1>6, <1>8, <1>9 DEF n

(* Under a batch's root no hash is proved but a leaf's, and by its own     *)
(* path, whatever place in a tree of whatever size the proof names.        *)
OnlyOwnPaths(D, T) ==
    \A leaf : \A place \in Pairs, path \in Seq(T) :
        /\ ~IsNode(leaf) /\ Len(path) = Len(BatchSides[place])
        /\ Combined(leaf, BatchSides[place], path) = BatchRoot(D)
        => \E i \in 0..(Len(D) - 1) : leaf = D[i + 1] /\ path = BatchPath(D, i)

THEOREM BatchPathIsOwn ==
    ASSUME NEW E, NEW D \in Seq(E), D # <<>>, \A j \in 1..Len(D) : ~IsNode(D[j]), NEW T
    PROVE  OnlyOwnPaths(D, T)
<1> SUFFICES ASSUME NEW place \in Pairs, NEW leaf, NEW path \in Seq(T), ~IsNode(leaf),
                    Len(path) = Len(BatchSides[place]),
                    Combined(leaf, BatchSides[place], path) = BatchRoot(D)
             PROVE  \E i \in 0..(Len(D) - 1) : leaf = D[i + 1] /\ path = BatchPath(D, i)
  BY DEF OnlyOwnPaths
<1> DEFINE n == Len(D)
           sides == BatchSides[place]
<1>1. n \in 1..Len(D) /\ SubSeq(D, 1, n) = D
  OBVIOUS
<1>2. BatchRoot(D) = Root(D, n) /\ \A i \in 0..(n - 1) : BatchPath(D, i) = InclusionPath(D, i, n)
  BY <1>1, BatchIsExact
<1>3. sides \in Seq(SideNames)
  BY BatchSidesType
<1> HIDE DEF sides
<1>4. Len(path) = Len(sides) /\ Combined(leaf, sides, path) = Root(D, n)
  BY <1>2 DEF sides
<1>5. \A j \in 1..n : ~IsNode(D[j])
  OBVIOUS
<1> HIDE DEF n
<1>6. PICK i \in 0..(n - 1) : leaf = D[i + 1] /\ path = InclusionPath(D, i, n)
  BY <1>1, <1>3, <1>4, <1>5, PathIsOwn
<1> QED
  BY <1>2, <1>6 DEF n
===============================================================================
