-------------------------- MODULE ProvenWriteProofs --------------------------
(***************************************************************************)
(* Proofs about the proof manifests and the command that chains a sealed   *)
(* write, a create and a verify, for images and chunks of any length, any  *)
(* number of commands, edits and damaged fields.                           *)
(***************************************************************************)
EXTENDS ProvenWrite, WellFoundedInduction, TLAPS

-----------------------------------------------------------------------------
(* Induction over the natural numbers, from their well-foundedness.        *)

\* A non-empty set of numbers has a smallest one.
LEMMA HasSmallest ==
  ASSUME NEW T, T \subseteq Nat, T # {}
  PROVE  \E x \in T : \A y \in T : x <= y
<1> DEFINE R == OpToRel(<, Nat)
<1>1. IsWellFoundedOn(R, Nat)
  BY NatLessThanWellFounded
<1>2. \A x, y \in Nat : y < x => <<y, x>> \in R
  BY DEF OpToRel
<1> HIDE DEF R
<1>3. PICK x \in T : \A y \in T : <<y, x>> \notin R
  BY <1>1, WFMin
<1>4. ASSUME NEW y \in T PROVE x <= y
  <2>1. x \in Nat /\ y \in Nat /\ ~(y < x)
    BY <1>2, <1>3
  <2> QED
    BY <2>1
<1> QED
  BY <1>4

\* Induction, for a set of numbers.
LEMMA Induction ==
  ASSUME NEW T, 0 \in T, \A n \in Nat : n \in T => n + 1 \in T
  PROVE  \A n \in Nat : n \in T
<1> SUFFICES ASSUME ~ \A n \in Nat : n \in T PROVE FALSE
  OBVIOUS
<1> DEFINE U == Nat \ T
<1>1. U \subseteq Nat /\ U # {}
  OBVIOUS
<1>2. PICK m \in U : \A y \in U : m <= y
  BY <1>1, HasSmallest
<1>3. m \in Nat /\ m \notin T /\ m # 0
  BY <1>2
<1>4. m - 1 \in Nat /\ (m - 1) + 1 = m /\ ~(m <= m - 1)
  BY <1>3
<1>5. m - 1 \in T
  BY <1>2, <1>4
<1> QED
  BY <1>3, <1>4, <1>5

-----------------------------------------------------------------------------
\* g[i] are the first i parts of s, one after the other.
IsFlat(g, s, n) == g = [i \in 1..n |-> IF i = 1 THEN s[i] ELSE g[i - 1] \o s[i]]

\* There are such partial results.
LEMMA FlatExists ==
  ASSUME NEW s
  PROVE  \A n \in Nat : \E g : IsFlat(g, s, n)
<1> DEFINE T == {n \in Nat : \E g : IsFlat(g, s, n)}
<1>1. 0 \in T
  <2> DEFINE g == [i \in 1..0 |-> i]
  <2>1. IsFlat(g, s, 0)
    BY DEF IsFlat
  <2> QED
    BY <2>1
<1>2. ASSUME NEW n \in Nat, n \in T PROVE n + 1 \in T
  <2>1. PICK g : IsFlat(g, s, n)
    BY <1>2
  <2> DEFINE h == [i \in 1..(n + 1) |-> IF i <= n THEN g[i]
                                        ELSE IF i = 1 THEN s[i] ELSE g[i - 1] \o s[i]]
  <2>2. ASSUME NEW i \in 1..(n + 1)
        PROVE  h[i] = IF i = 1 THEN s[i] ELSE h[i - 1] \o s[i]
    <3>1. CASE i <= n
      <4>1. i \in 1..n /\ (i # 1 => i - 1 \in 1..n /\ i - 1 \in 1..(n + 1) /\ i - 1 <= n)
        BY <1>2, <3>1
      <4>2. g[i] = IF i = 1 THEN s[i] ELSE g[i - 1] \o s[i]
        BY <2>1, <4>1 DEF IsFlat
      <4> QED
        BY <3>1, <4>1, <4>2
    <3>2. CASE ~(i <= n)
      <4>1. i # 1 => i - 1 \in 1..n /\ i - 1 \in 1..(n + 1) /\ i - 1 <= n
        BY <1>2, <3>2
      <4> QED
        BY <3>2, <4>1
    <3> QED
      BY <3>1, <3>2
  <2>3. IsFlat(h, s, n + 1)
    <3> HIDE DEF h
    <3>1. h = [i \in 1..(n + 1) |-> h[i]]
      BY DEF h
    <3> QED
      BY <2>2, <3>1 DEF IsFlat
  <2> QED
    BY <1>2, <2>3
<1> HIDE DEF T
<1>3. \A n \in Nat : n \in T
  BY <1>1, <1>2, Induction
<1> QED
  BY <1>3 DEF T

\* FlattenSeq is the last of them.
LEMMA FlattenIsFlat ==
  ASSUME NEW s, Len(s) \in Nat, Len(s) # 0
  PROVE  \E g : IsFlat(g, s, Len(s)) /\ FlattenSeq(s) = g[Len(s)]
<1> DEFINE flatten[i \in 1..Len(s)] == IF i = 1 THEN s[i] ELSE flatten[i-1] \o s[i]
<1>1. \E g : IsFlat(g, s, Len(s))
  BY FlatExists
<1>2. IsFlat(flatten, s, Len(s))
  BY <1>1 DEF IsFlat
<1>3. FlattenSeq(s) = flatten[Len(s)]
  BY DEF FlattenSeq
<1> QED
  BY <1>2, <1>3

\* Nothing flattens to nothing.
LEMMA FlattenNone == FlattenSeq(<<>>) = <<>>
BY DEF FlattenSeq

\* Two lists of partial results agree as far as the parts do.
LEMMA FlatAgree ==
  ASSUME NEW s, NEW t, NEW m \in Nat,
         NEW g, IsFlat(g, s, m), NEW h, IsFlat(h, t, m + 1),
         \A i \in 1..m : s[i] = t[i]
  PROVE  \A i \in 1..m : g[i] = h[i]
<1> DEFINE T == {i \in Nat : i \in 1..m => g[i] = h[i]}
<1>1. 0 \in T
  OBVIOUS
<1>2. ASSUME NEW i \in Nat, i \in T PROVE i + 1 \in T
  <2>1. ASSUME i + 1 \in 1..m PROVE g[i + 1] = h[i + 1]
    <3>1. i + 1 \in 1..(m + 1) /\ s[i + 1] = t[i + 1] /\ (i + 1) - 1 = i
      BY <1>2, <2>1
    <3>2. g[i + 1] = IF i + 1 = 1 THEN s[i + 1] ELSE g[(i + 1) - 1] \o s[i + 1]
      BY <2>1 DEF IsFlat
    <3>3. h[i + 1] = IF i + 1 = 1 THEN t[i + 1] ELSE h[(i + 1) - 1] \o t[i + 1]
      BY <3>1 DEF IsFlat
    <3>4. CASE i = 0
      BY <3>1, <3>2, <3>3, <3>4
    <3>5. CASE i # 0
      <4>1. i \in 1..m
        BY <1>2, <2>1, <3>5
      <4>2. g[i] = h[i]
        BY <1>2, <4>1
      <4> QED
        BY <3>1, <3>2, <3>3, <4>2
    <3> QED
      BY <3>4, <3>5
  <2> QED
    BY <1>2, <2>1
<1> HIDE DEF T
<1>3. \A i \in Nat : i \in T
  BY <1>1, <1>2, Induction
<1> QED
  BY <1>3 DEF T

\* The partial results are sequences of what the parts are sequences of.
LEMMA FlatTyped ==
  ASSUME NEW S, NEW s, NEW n \in Nat, \A i \in 1..n : s[i] \in Seq(S),
         NEW g, IsFlat(g, s, n)
  PROVE  \A i \in 1..n : g[i] \in Seq(S)
<1> DEFINE T == {i \in Nat : i \in 1..n => g[i] \in Seq(S)}
<1>1. 0 \in T
  OBVIOUS
<1>2. ASSUME NEW i \in Nat, i \in T PROVE i + 1 \in T
  <2>1. ASSUME i + 1 \in 1..n PROVE g[i + 1] \in Seq(S)
    <3>1. (i + 1) - 1 = i /\ s[i + 1] \in Seq(S)
      BY <1>2, <2>1
    <3>2. g[i + 1] = IF i + 1 = 1 THEN s[i + 1] ELSE g[(i + 1) - 1] \o s[i + 1]
      BY <2>1 DEF IsFlat
    <3>3. CASE i = 0
      BY <3>1, <3>2, <3>3
    <3>4. CASE i # 0
      <4>1. i \in 1..n
        BY <1>2, <2>1, <3>4
      <4>2. g[i] \in Seq(S) /\ i + 1 # 1
        BY <1>2, <3>4, <4>1
      <4>3. g[i + 1] = g[i] \o s[i + 1]
        BY <3>1, <3>2, <4>2
      <4> QED
        BY <3>1, <4>2, <4>3
    <3> QED
      BY <3>3, <3>4
  <2> QED
    BY <1>2, <2>1
<1> HIDE DEF T
<1>3. \A i \in Nat : i \in T
  BY <1>1, <1>2, Induction
<1> QED
  BY <1>3 DEF T

\* What FlattenSeq returns is a sequence of the same things.
LEMMA FlattenTyped ==
  ASSUME NEW S, NEW s \in Seq(Seq(S))
  PROVE  FlattenSeq(s) \in Seq(S)
<1>1. CASE s = <<>>
  <2>1. <<>> \in Seq(S)
    OBVIOUS
  <2> QED
    BY <1>1, <2>1, FlattenNone
<1>2. CASE s # <<>>
  <2>1. Len(s) \in Nat /\ Len(s) # 0 /\ \A i \in 1..Len(s) : s[i] \in Seq(S)
    BY <1>2
  <2>2. PICK g : IsFlat(g, s, Len(s)) /\ FlattenSeq(s) = g[Len(s)]
    BY <2>1, FlattenIsFlat
  <2>3. \A i \in 1..Len(s) : g[i] \in Seq(S)
    BY <2>1, <2>2, FlatTyped
  <2>4. Len(s) \in 1..Len(s)
    BY <2>1
  <2> QED
    BY <2>2, <2>3, <2>4
<1> QED
  BY <1>1, <1>2

\* One more part goes to the end.
LEMMA FlattenAppend ==
  ASSUME NEW S, NEW s \in Seq(Seq(S)), NEW b \in Seq(S)
  PROVE  FlattenSeq(Append(s, b)) = FlattenSeq(s) \o b
<1> DEFINE t == Append(s, b)
<1>0. PICK n \in Nat : n = Len(s)
  OBVIOUS
<1>1. /\ Len(t) = n + 1 /\ t[n + 1] = b
      /\ \A i \in 1..n : t[i] = s[i]
  BY <1>0
<1>2. Len(t) \in Nat /\ Len(t) # 0
  BY <1>1
<1> HIDE DEF t
<1>3. PICK h : IsFlat(h, t, n + 1) /\ FlattenSeq(t) = h[n + 1]
  BY <1>0, <1>1, <1>2, FlattenIsFlat
<1>4. h[n + 1] = IF n + 1 = 1 THEN t[n + 1] ELSE h[(n + 1) - 1] \o t[n + 1]
  <2>1. n + 1 \in 1..(n + 1)
    BY <1>1
  <2> QED
    BY <1>3, <2>1 DEF IsFlat
<1>5. CASE s = <<>>
  <2>1. n = 0
    BY <1>0, <1>5
  <2>2. FlattenSeq(s) = <<>>
    BY <1>5, FlattenNone
  <2>3. <<>> \o b = b
    OBVIOUS
  <2> QED
    BY <1>1, <1>3, <1>4, <2>1, <2>2, <2>3 DEF t
<1>6. CASE s # <<>>
  <2>0. n # 0
    BY <1>0, <1>6
  <2>1. PICK g : IsFlat(g, s, n) /\ FlattenSeq(s) = g[n]
    BY <1>0, <2>0, FlattenIsFlat
  <2>2. \A i \in 1..n : g[i] = h[i]
    <3>1. \A i \in 1..n : s[i] = t[i]
      BY <1>1
    <3> QED
      BY <1>3, <2>1, <3>1, FlatAgree
  <2>3. n \in 1..n /\ n + 1 # 1 /\ (n + 1) - 1 = n
    BY <2>0
  <2> QED
    BY <1>1, <1>3, <1>4, <2>1, <2>2, <2>3 DEF t
<1> QED
  BY <1>5, <1>6

-----------------------------------------------------------------------------
(* The Merkle tree: lists of leaves of one length with one root are equal. *)

\* g[k] is the tree's level k, counted from the leaves.
IsTree(g, leaves, n) ==
    g = [k \in 0..n |-> IF k = 0 THEN leaves
                        ELSE IF Len(g[k - 1]) = 1 THEN g[k - 1] ELSE Parents(g[k - 1])]

\* There is such a tree.
LEMMA TreeExists ==
  ASSUME NEW s
  PROVE  \A n \in Nat : \E g : IsTree(g, s, n)
<1> DEFINE T == {n \in Nat : \E g : IsTree(g, s, n)}
<1>1. 0 \in T
  <2> DEFINE g == [k \in 0..0 |-> s]
  <2>1. IsTree(g, s, 0)
    BY DEF IsTree
  <2> QED
    BY <2>1
<1>2. ASSUME NEW n \in Nat, n \in T PROVE n + 1 \in T
  <2>1. PICK g : IsTree(g, s, n)
    BY <1>2
  <2> DEFINE Up(level) == IF Len(level) = 1 THEN level ELSE Parents(level)
             h == [k \in 0..(n + 1) |-> IF k <= n THEN g[k] ELSE Up(g[k - 1])]
  <2>2. ASSUME NEW k \in 0..(n + 1)
        PROVE  h[k] = IF k = 0 THEN s ELSE Up(h[k - 1])
    <3> HIDE DEF Up
    <3>1. CASE k <= n
      <4>1. k \in 0..n /\ (k # 0 => k - 1 \in 0..n /\ k - 1 \in 0..(n + 1) /\ k - 1 <= n)
        BY <1>2, <3>1
      <4>2. g[k] = IF k = 0 THEN s ELSE Up(g[k - 1])
        BY <2>1, <4>1 DEF IsTree, Up
      <4> QED
        BY <3>1, <4>1, <4>2
    <3>2. CASE ~(k <= n)
      <4>1. k # 0 /\ k - 1 \in 0..n /\ k - 1 \in 0..(n + 1) /\ k - 1 <= n
        BY <1>2, <3>2
      <4> QED
        BY <3>2, <4>1
    <3> QED
      BY <3>1, <3>2
  <2>3. IsTree(h, s, n + 1)
    <3>1. h = [k \in 0..(n + 1) |-> h[k]]
      OBVIOUS
    <3> HIDE DEF h
    <3> QED
      BY <2>2, <3>1 DEF IsTree
  <2> QED
    BY <1>2, <2>3
<1> HIDE DEF T
<1>3. \A n \in Nat : n \in T
  BY <1>1, <1>2, Induction
<1> QED
  BY <1>3 DEF T

\* The Merkle root is its last level.
LEMMA RootIsOfTree ==
  ASSUME NEW leaves, Len(leaves) \in Nat
  PROVE  \E g : IsTree(g, leaves, Len(leaves)) /\ MerkleRoot(leaves) = g[Len(leaves)][1]
<1> DEFINE level[n \in 0..Len(leaves)] ==
             IF n = 0 THEN leaves
             ELSE IF Len(level[n - 1]) = 1 THEN level[n - 1] ELSE Parents(level[n - 1])
<1>1. \E g : IsTree(g, leaves, Len(leaves))
  BY TreeExists
<1>2. IsTree(level, leaves, Len(leaves))
  BY <1>1 DEF IsTree
<1>3. MerkleRoot(leaves) = level[Len(leaves)][1]
  BY DEF MerkleRoot
<1> QED
  BY <1>2, <1>3

\* s is a list of n things.
IsList(s, n) == n \in Nat \ {0} /\ s = [i \in 1..n |-> s[i]] /\ Len(s) = n

\* The parents of n nodes are about half as many, each a node of three parts.
LEMMA ParentsShape ==
  ASSUME NEW s, NEW n, IsList(s, n)
  PROVE  /\ IsList(Parents(s), CeilDiv(n, 2))
         /\ CeilDiv(n, 2) \in Nat \ {0}
         /\ n # 1 => CeilDiv(n, 2) < n
         /\ \A i \in 1..CeilDiv(n, 2) :
               Parents(s)[i] = <<"node", s[2 * i - 1], Sibling(s, i)>>
<1>1. n \in Nat \ {0} /\ Len(s) = n
  BY DEF IsList
<1>2. CeilDiv(n, 2) \in Nat \ {0} /\ (n # 1 => CeilDiv(n, 2) < n)
  BY <1>1 DEF CeilDiv
<1>3. Parents(s) = [i \in 1..CeilDiv(n, 2) |-> <<"node", s[2 * i - 1], Sibling(s, i)>>]
  BY <1>1 DEF Parents
<1>4. ASSUME NEW m, m = CeilDiv(n, 2) PROVE IsList(Parents(s), m)
  <2>1. m \in Nat /\ Parents(s) = [i \in 1..m |-> <<"node", s[2 * i - 1], Sibling(s, i)>>]
    BY <1>2, <1>3, <1>4
  <2>2. Len(Parents(s)) = m /\ Parents(s) = [i \in 1..m |-> Parents(s)[i]]
    BY <2>1
  <2> QED
    BY <1>2, <1>4, <2>2 DEF IsList
<1> QED
  BY <1>2, <1>3, <1>4

\* No two lists of one length have the same parents.
LEMMA ParentsTell ==
  ASSUME NEW s, NEW t, NEW n, IsList(s, n), IsList(t, n), Parents(s) = Parents(t)
  PROVE  s = t
<1>1. n \in Nat \ {0} /\ Len(s) = n /\ Len(t) = n
  BY DEF IsList
<1>2. ASSUME NEW j \in 1..n PROVE s[j] = t[j]
  <2>1. PICK i \in 1..CeilDiv(n, 2) : j = 2 * i - 1 \/ j = 2 * i
    <3>1. /\ (j + 1) \div 2 \in 1..CeilDiv(n, 2)
          /\ j = 2 * ((j + 1) \div 2) - 1 \/ j = 2 * ((j + 1) \div 2)
      BY <1>1 DEF CeilDiv
    <3> QED
      BY <3>1
  <2>2. /\ Parents(s)[i] = <<"node", s[2 * i - 1], Sibling(s, i)>>
        /\ Parents(t)[i] = <<"node", t[2 * i - 1], Sibling(t, i)>>
    BY ParentsShape
  <2>3. s[2 * i - 1] = t[2 * i - 1] /\ Sibling(s, i) = Sibling(t, i)
    BY <2>2
  <2>4. CASE j = 2 * i - 1
    BY <2>3, <2>4
  <2>5. CASE j = 2 * i
    <3>1. 2 * i <= Len(s) /\ 2 * i <= Len(t)
      BY <1>1, <2>5
    <3> QED
      BY <2>3, <2>5, <3>1 DEF Sibling
  <2> QED
    BY <2>1, <2>4, <2>5
<1> QED
  BY <1>2 DEF IsList

\* One level up from a list of n: a shorter list, unless it is the root alone.
LEMMA LevelUp ==
  ASSUME NEW n \in Nat \ {0}, NEW leaves, NEW g, IsTree(g, leaves, n), NEW k \in 0..(n - 1),
         NEW m, IsList(g[k], m)
  PROVE  /\ m = 1 => g[k + 1] = g[k]
         /\ m # 1 => g[k + 1] = Parents(g[k]) /\ IsList(g[k + 1], CeilDiv(m, 2))
<1>1. k + 1 \in 0..n /\ k + 1 # 0 /\ (k + 1) - 1 = k
  OBVIOUS
<1>2. g[k + 1] = IF Len(g[k]) = 1 THEN g[k] ELSE Parents(g[k])
  BY <1>1 DEF IsTree
<1>3. Len(g[k]) = m
  BY DEF IsList
<1> QED
  BY <1>2, <1>3, ParentsShape

\* A level of one node is the root, and the levels above it repeat it.
LEMMA LastLevelStays ==
  ASSUME NEW n \in Nat \ {0}, NEW leaves, NEW g, IsTree(g, leaves, n), NEW k \in 0..(n - 1),
         IsList(g[k], 1)
  PROVE  g[k + 1] = g[k]
<1>1. k + 1 \in 0..n /\ k + 1 # 0 /\ (k + 1) - 1 = k
  OBVIOUS
<1>2. g[k + 1] = IF Len(g[k]) = 1 THEN g[k] ELSE Parents(g[k])
  BY <1>1 DEF IsTree
<1> QED
  BY <1>2 DEF IsList

\* The levels of two trees over as many leaves are of one length, down to one root.
Twins(g, h, k, n) ==
    \E m : IsList(g[k], m) /\ IsList(h[k], m) /\ (m = 1 \/ m <= n - k)

LEMMA LevelsShrink ==
  ASSUME NEW n, NEW s, NEW t, IsList(s, n), IsList(t, n),
         NEW g, IsTree(g, s, n), NEW h, IsTree(h, t, n)
  PROVE  \A k \in 0..n : Twins(g, h, k, n)
<1>1. n \in Nat \ {0}
  BY DEF IsList
<1> DEFINE T == {k \in Nat : k \in 0..n => Twins(g, h, k, n)}
<1>2. 0 \in T
  <2>1. g[0] = s /\ h[0] = t
    BY <1>1 DEF IsTree
  <2>2. n <= n - 0
    BY <1>1
  <2> QED
    BY <2>1, <2>2 DEF Twins
<1>3. ASSUME NEW k \in Nat, k \in T PROVE k + 1 \in T
  <2>1. ASSUME k + 1 \in 0..n PROVE Twins(g, h, k + 1, n)
    <3>1. k \in 0..(n - 1) /\ k \in 0..n
      BY <1>1, <1>3, <2>1
    <3>2. PICK m : IsList(g[k], m) /\ IsList(h[k], m) /\ (m = 1 \/ m <= n - k)
      BY <1>3, <3>1 DEF Twins
    <3>3. CASE m = 1
      <4>1. g[k + 1] = g[k] /\ h[k + 1] = h[k]
        BY <1>1, <3>1, <3>2, <3>3, LevelUp
      <4> QED
        BY <3>2, <3>3, <4>1 DEF Twins
    <3>4. CASE m # 1
      <4>1. IsList(g[k + 1], CeilDiv(m, 2)) /\ IsList(h[k + 1], CeilDiv(m, 2))
        BY <1>1, <3>1, <3>2, <3>4, LevelUp
      <4>2. m \in Nat /\ CeilDiv(m, 2) \in Nat /\ CeilDiv(m, 2) < m
        BY <3>2, <3>4, ParentsShape DEF IsList
      <4>3. m <= n - k
        BY <3>2, <3>4
      <4>4. CeilDiv(m, 2) <= n - (k + 1)
        BY <1>1, <1>3, <4>2, <4>3
      <4> QED
        BY <4>1, <4>4 DEF Twins
    <3> QED
      BY <3>3, <3>4
  <2> QED
    BY <1>3, <2>1
<1> HIDE DEF T
<1>4. \A k \in Nat : k \in T
  BY <1>2, <1>3, Induction
<1> QED
  BY <1>1, <1>4 DEF T

\* Lists of one length with one Merkle root are equal.
LEMMA RootTells ==
  ASSUME NEW n, NEW s, NEW t, IsList(s, n), IsList(t, n), MerkleRoot(s) = MerkleRoot(t)
  PROVE  s = t
<1>1. n \in Nat \ {0} /\ Len(s) = n /\ Len(t) = n
  BY DEF IsList
<1>2. PICK g : IsTree(g, s, n) /\ MerkleRoot(s) = g[n][1]
  BY <1>1, RootIsOfTree
<1>3. PICK h : IsTree(h, t, n) /\ MerkleRoot(t) = h[n][1]
  BY <1>1, RootIsOfTree
<1>4. \A k \in 0..n : Twins(g, h, k, n)
  BY <1>2, <1>3, LevelsShrink
<1>5. g[n] = h[n]
  <2>1. n \in 0..n
    BY <1>1
  <2>2. PICK m : IsList(g[n], m) /\ IsList(h[n], m) /\ (m = 1 \/ m <= n - n)
    BY <1>4, <2>1 DEF Twins
  <2>3. m = 1
    BY <1>1, <2>2 DEF IsList
  <2>4. g[n] = [i \in 1..1 |-> g[n][i]] /\ h[n] = [i \in 1..1 |-> h[n][i]]
    BY <2>2, <2>3 DEF IsList
  <2>5. g[n][1] = h[n][1]
    BY <1>2, <1>3
  <2>6. \A i \in 1..1 : g[n][i] = h[n][i]
    BY <2>5
  <2> QED
    BY <2>4, <2>6
<1> DEFINE T == {j \in Nat : j \in 0..n => g[n - j] = h[n - j]}
<1>6. 0 \in T
  BY <1>1, <1>5
<1>7. ASSUME NEW j \in Nat, j \in T PROVE j + 1 \in T
  <2>1. ASSUME j + 1 \in 0..n PROVE g[n - (j + 1)] = h[n - (j + 1)]
    <3>1. PICK k \in 0..(n - 1) : k = n - (j + 1)
      BY <1>1, <1>7, <2>1
    <3>2. k \in 0..n /\ k + 1 = n - j /\ j \in 0..n
      BY <1>1, <1>7, <2>1, <3>1
    <3>3. g[k + 1] = h[k + 1]
      BY <1>7, <3>2
    <3>4. PICK m : IsList(g[k], m) /\ IsList(h[k], m)
      BY <1>4, <3>2 DEF Twins
    <3>5. CASE m = 1
      <4>1. g[k + 1] = g[k] /\ h[k + 1] = h[k]
        BY <1>1, <1>2, <1>3, <3>1, <3>4, <3>5, LevelUp
      <4> QED
        BY <3>1, <3>3, <4>1
    <3>6. CASE m # 1
      <4>1. g[k + 1] = Parents(g[k]) /\ h[k + 1] = Parents(h[k])
        BY <1>1, <1>2, <1>3, <3>1, <3>4, <3>6, LevelUp
      <4>2. g[k] = h[k]
        BY <3>3, <3>4, <4>1, ParentsTell
      <4> QED
        BY <3>1, <4>2
    <3> QED
      BY <3>5, <3>6
  <2> QED
    BY <1>7, <2>1
<1> HIDE DEF T
<1>8. \A j \in Nat : j \in T
  BY <1>6, <1>7, Induction
<1>9. g[0] = h[0]
  <2>1. n \in T /\ n \in 0..n /\ n - n = 0
    BY <1>1, <1>8
  <2> QED
    BY <2>1 DEF T
<1>10. g[0] = s /\ h[0] = t
  BY <1>1, <1>2, <1>3 DEF IsTree
<1> QED
  BY <1>9, <1>10

\* The root of a list of chunks is never what a damaged root looks like.
LEMMA RootIsWhole ==
  ASSUME NEW n, NEW s, IsList(s, n), \A i \in 1..n : s[i] \in Seq(Bytes)
  PROVE  MerkleRoot(s) # <<"node">>
<1>1. n \in Nat \ {0} /\ Len(s) = n
  BY DEF IsList
<1>2. PICK g : IsTree(g, s, n) /\ MerkleRoot(s) = g[n][1]
  BY <1>1, RootIsOfTree
<1>3. \A k \in 0..n : Twins(g, g, k, n)
  BY <1>2, LevelsShrink
<1> DEFINE Whole(k) == \A m : IsList(g[k], m) => \A i \in 1..m : g[k][i] # <<"node">>
           T == {k \in Nat : k \in 0..n => Whole(k)}
<1>4. 0 \in T
  <2>1. g[0] = s
    BY <1>1, <1>2 DEF IsTree
  <2>2. \A i \in 1..n : s[i] # <<"node">>
    <3>1. <<"node">> \notin Seq(Bytes)
      <4>1. SUFFICES ASSUME <<"node">> \in Seq(Bytes) PROVE FALSE
        OBVIOUS
      <4>2. \A i \in 1..Len(<<"node">>) : <<"node">>[i] \in Bytes
        BY <4>1
      <4>3. <<"node">>[1] = "node" /\ Len(<<"node">>) = 1
        OBVIOUS
      <4> QED
        BY <4>2, <4>3, NodeAssumption
    <3> QED
      BY <3>1
  <2>3. \A m : IsList(s, m) => m = n
    BY <1>1 DEF IsList
  <2> QED
    BY <2>1, <2>2, <2>3
<1>5. ASSUME NEW k \in Nat, k \in T PROVE k + 1 \in T
  <2>1. ASSUME k + 1 \in 0..n PROVE Whole(k + 1)
    <3>1. k \in 0..(n - 1) /\ k \in 0..n
      BY <1>1, <1>5, <2>1
    <3>2. PICK m : IsList(g[k], m)
      BY <1>3, <3>1 DEF Twins
    <3>3. CASE m = 1
      <4>1. IsTree(g, s, n) /\ IsList(g[k], 1) /\ n \in Nat \ {0} /\ k \in 0..(n - 1)
        BY <1>1, <1>2, <3>1, <3>2, <3>3
      <4>2. g[k + 1] = g[k]
        <5> HIDE DEF T, Whole
        <5> QED
          BY ONLY <4>1, LastLevelStays
      <4> QED
        BY <1>5, <3>1, <4>2
    <3>4. CASE m # 1
      <4>1. g[k + 1] = Parents(g[k]) /\ IsList(g[k + 1], CeilDiv(m, 2))
        BY <1>1, <1>2, <3>1, <3>2, <3>4, LevelUp
      <4>2. \A i \in 1..CeilDiv(m, 2) : g[k + 1][i] # <<"node">>
        <5> DEFINE p == CeilDiv(m, 2)
        <5>1. ASSUME NEW i \in 1..p PROVE g[k + 1][i] # <<"node">>
          <6>1. g[k + 1][i] = <<"node", g[k][2 * i - 1], Sibling(g[k], i)>>
            BY <3>2, <4>1, ParentsShape
          <6> QED
            BY <6>1
        <5> QED
          BY <5>1
      <4>3. \A l : IsList(g[k + 1], l) => l = CeilDiv(m, 2)
        BY <4>1 DEF IsList
      <4> QED
        BY <4>2, <4>3
    <3> QED
      BY <3>3, <3>4
  <2> QED
    BY <1>5, <2>1
<1> HIDE DEF T
<1>6. \A k \in Nat : k \in T
  BY <1>4, <1>5, Induction
<1>7. Whole(n)
  <2>1. n \in T /\ n \in 0..n
    BY <1>1, <1>6
  <2> QED
    BY <2>1 DEF T
<1>8. PICK m : IsList(g[n], m)
  <2>1. n \in 0..n
    BY <1>1
  <2> QED
    BY <1>3, <2>1 DEF Twins
<1>9. 1 \in 1..m
  BY <1>8 DEF IsList
<1> QED
  BY <1>2, <1>7, <1>8, <1>9

-----------------------------------------------------------------------------
(* The manifest file: what is printed, what becomes of it, what loads.     *)

\* The lines of a manifest of n chunks, one by one.
LEMMA LinesAre ==
  ASSUME NEW cs, NEW n \in Nat, Len(cs) = n
  PROVE  /\ Len(Lines(cs)) = n + 7
         /\ Lines(cs) = [i \in 1..(n + 7) |-> Lines(cs)[i]]
         /\ Lines(cs)[1] = <<"magic">>
         /\ Lines(cs)[2] = <<"source_size", Len(FlattenSeq(cs))>>
         /\ Lines(cs)[3] = <<"chunk_size", ChunkSize>>
         /\ Lines(cs)[4] = <<"chunk_count", n>>
         /\ Lines(cs)[5] = <<"source_sha256", FlattenSeq(cs)>>
         /\ \A i \in 1..n : Lines(cs)[5 + i] = <<"chunk", i - 1, Len(cs[i]), cs[i]>>
         /\ Lines(cs)[n + 6] = <<"merkle_root", MerkleRoot(cs)>>
         /\ Lines(cs)[n + 7] = <<"END">>
<1> DEFINE a1 == <<"magic">>
           a2 == <<"source_size", Len(FlattenSeq(cs))>>
           a3 == <<"chunk_size", ChunkSize>>
           a4 == <<"chunk_count", n>>
           a5 == <<"source_sha256", FlattenSeq(cs)>>
           record(i) == <<"chunk", i - 1, Len(cs[i]), cs[i]>>
           z1 == <<"merkle_root", MerkleRoot(cs)>>
           z2 == <<"END">>
           a == <<a1, a2, a3, a4, a5>>
           c == [i \in 1..n |-> record(i)]
           z == <<z1, z2>>
<1>1. Lines(cs) = a \o c \o z
  BY DEF Lines
<1> HIDE DEF a1, a2, a3, a4, a5, record, z1, z2
<1>2. /\ Len(a) = 5 /\ a[1] = a1 /\ a[2] = a2 /\ a[3] = a3 /\ a[4] = a4 /\ a[5] = a5
      /\ a \in Seq({a1, a2, a3, a4, a5})
  OBVIOUS
<1>3. Len(c) = n /\ (\A i \in 1..n : c[i] = record(i)) /\ c \in Seq({record(i) : i \in 1..n})
  OBVIOUS
<1>4. Len(z) = 2 /\ z[1] = z1 /\ z[2] = z2 /\ z \in Seq({z1, z2})
  OBVIOUS
<1> DEFINE S == {a1, a2, a3, a4, a5} \cup {record(i) : i \in 1..n} \cup {z1, z2}
<1>5. a \in Seq(S) /\ c \in Seq(S) /\ z \in Seq(S)
  BY <1>2, <1>3, <1>4
<1> HIDE DEF a, c, z, S
<1>6. PICK ac : ac = a \o c
  OBVIOUS
<1>7. /\ ac \in Seq(S) /\ Len(ac) = n + 5
      /\ \A i \in 1..5 : ac[i] = a[i]
      /\ \A i \in 1..n : ac[5 + i] = c[i]
  <2>0. ac \in Seq(S) /\ Len(ac) = Len(a) + Len(c)
    BY <1>5, <1>6
  <2>1. Len(ac) = n + 5
    BY <1>2, <1>3, <2>0
  <2>2. \A i \in 1..(Len(a) + Len(c)) : ac[i] = IF i <= Len(a) THEN a[i] ELSE c[i - Len(a)]
    BY <1>5, <1>6
  <2>3. ASSUME NEW i \in 1..5 PROVE ac[i] = a[i]
    <3>1. i \in 1..(5 + n) /\ i <= 5
      OBVIOUS
    <3> QED
      BY <1>2, <1>3, <2>2, <3>1
  <2>4. ASSUME NEW i \in 1..n PROVE ac[5 + i] = c[i]
    <3>1. 5 + i \in 1..(5 + n) /\ ~(5 + i <= 5) /\ (5 + i) - 5 = i
      OBVIOUS
    <3>2. ac[5 + i] = c[(5 + i) - 5]
      BY <1>2, <1>3, <2>2, <3>1
    <3> QED
      BY <3>1, <3>2
  <2> QED
    BY <2>0, <2>1, <2>3, <2>4
<1>8. PICK l : l = ac \o z
  OBVIOUS
<1>9. /\ l \in Seq(S) /\ Len(l) = n + 7
      /\ \A i \in 1..(n + 5) : l[i] = ac[i]
      /\ l[n + 6] = z[1] /\ l[n + 7] = z[2]
  <2>0. l \in Seq(S) /\ Len(l) = Len(ac) + Len(z)
    <3>1. ac \in Seq(S) /\ z \in Seq(S)
      BY <1>5, <1>7
    <3> QED
      BY <1>8, <3>1
  <2>1. Len(l) = n + 7
    BY <1>4, <1>7, <2>0
  <2>2. \A i \in 1..(Len(ac) + Len(z)) :
          l[i] = IF i <= Len(ac) THEN ac[i] ELSE z[i - Len(ac)]
    BY <1>5, <1>7, <1>8
  <2>3. ASSUME NEW i \in 1..(n + 5) PROVE l[i] = ac[i]
    BY <1>4, <1>7, <2>2
  <2>4. ASSUME NEW i \in 1..2 PROVE l[(n + 5) + i] = z[i]
    <3>1. /\ (n + 5) + i \in 1..((n + 5) + 2) /\ ~((n + 5) + i <= n + 5)
          /\ ((n + 5) + i) - (n + 5) = i
      OBVIOUS
    <3>2. l[(n + 5) + i] = z[((n + 5) + i) - (n + 5)]
      BY <1>4, <1>7, <2>2, <3>1
    <3> QED
      BY <3>1, <3>2
  <2>5. n + 6 = (n + 5) + 1 /\ n + 7 = (n + 5) + 2
    OBVIOUS
  <2> QED
    BY <2>0, <2>1, <2>3, <2>4, <2>5
<1>10. l = Lines(cs)
  BY <1>1, <1>6, <1>8
<1>11. l = [i \in 1..(n + 7) |-> l[i]]
  BY <1>9
<1>12. /\ l[1] = a1 /\ l[2] = a2 /\ l[3] = a3 /\ l[4] = a4 /\ l[5] = a5
       /\ l[n + 6] = z1 /\ l[n + 7] = z2
  BY <1>2, <1>4, <1>7, <1>9
<1>13. ASSUME NEW i \in 1..n PROVE l[5 + i] = record(i)
  <2>1. 5 + i \in 1..(n + 5)
    OBVIOUS
  <2> QED
    BY <1>3, <1>7, <1>9, <2>1
<1> QED
  BY <1>9, <1>10, <1>11, <1>12, <1>13 DEF a1, a2, a3, a4, a5, record, z1, z2

\* What a create leaves on the disk is a manifest of its chunks, if not all of it.
LEMMA EmittedIsWorn ==
  ASSUME NEW cs \in Seq(Seq(Bytes)), NEW k \in 0..Len(Lines(cs))
  PROVE  Worn(SubSeq(Lines(cs), 1, k), cs)
<1>1. PICK n \in Nat : n = Len(cs)
  OBVIOUS
<1>2. PICK l : l = Lines(cs)
  OBVIOUS
<1>3. Len(l) = n + 7 /\ l = [i \in 1..(n + 7) |-> l[i]] /\ k \in 0..(n + 7)
  BY <1>1, <1>2, LinesAre
<1>4. PICK t : t = SubSeq(l, 1, k)
  OBVIOUS
<1>5. l \in Seq({l[i] : i \in 1..(n + 7)})
  BY <1>3
<1>6. Len(t) = k /\ t = [i \in 1..k |-> t[i]] /\ \A i \in 1..k : t[i] = l[i]
  BY <1>3, <1>4, <1>5
<1> QED
  BY <1>2, <1>3, <1>4, <1>6 DEF Worn, WornLine

LEMMA NothingIsWorn ==
  ASSUME NEW cs \in Seq(Seq(Bytes))
  PROVE  Worn(<<>>, cs)
<1>1. Len(Lines(cs)) \in Nat
  <2>1. PICK n \in Nat : n = Len(cs)
    OBVIOUS
  <2> QED
    BY <2>1, LinesAre
<1>2. Len(<<>>) = 0 /\ <<>> = [i \in 1..0 |-> <<>>[i]]
  OBVIOUS
<1> QED
  BY <1>1, <1>2 DEF Worn

\* What a create prints on a line.
PrintedLine(p) ==
    \/ p \in {<<"magic">>, <<"END">>}
    \/ p[1] \in {"source_size", "chunk_size", "chunk_count"} /\ p[2] \in Nat
    \/ p[1] = "source_sha256" /\ p[2] \in Seq(Bytes)
    \/ p[1] = "chunk" /\ p[4] \in Seq(Bytes)
    \/ p[1] = "merkle_root"

LEMMA LinesArePrinted ==
  ASSUME NEW cs \in Seq(Seq(Bytes))
  PROVE  \A j \in 1..Len(Lines(cs)) : PrintedLine(Lines(cs)[j])
<1>1. PICK n \in Nat : n = Len(cs)
  OBVIOUS
<1>2. PICK l : l = Lines(cs)
  OBVIOUS
<1>3. /\ Len(l) = n + 7
      /\ l[1] = <<"magic">> /\ l[2] = <<"source_size", Len(FlattenSeq(cs))>>
      /\ l[3] = <<"chunk_size", ChunkSize>> /\ l[4] = <<"chunk_count", n>>
      /\ l[5] = <<"source_sha256", FlattenSeq(cs)>>
      /\ \A i \in 1..n : l[5 + i] = <<"chunk", i - 1, Len(cs[i]), cs[i]>>
      /\ l[n + 6] = <<"merkle_root", MerkleRoot(cs)>> /\ l[n + 7] = <<"END">>
  BY <1>1, <1>2, LinesAre
<1>4. FlattenSeq(cs) \in Seq(Bytes)
  BY FlattenTyped
<1>5. ASSUME NEW j \in 1..(n + 7) PROVE PrintedLine(l[j])
  <2>1. CASE j = 1
    BY <1>3, <2>1 DEF PrintedLine
  <2>2. CASE j = 2
    <3>1. Len(FlattenSeq(cs)) \in Nat
      BY <1>4
    <3> QED
      BY <1>3, <2>2, <3>1 DEF PrintedLine
  <2>3. CASE j = 3
    BY <1>3, <2>3, ContentAssumption DEF PrintedLine
  <2>4. CASE j = 4
    BY <1>3, <2>4 DEF PrintedLine
  <2>5. CASE j = 5
    BY <1>3, <1>4, <2>5 DEF PrintedLine
  <2>6. CASE j \in 6..(n + 5)
    <3>1. PICK i \in 1..n : j = 5 + i
      <4>1. j - 5 \in 1..n /\ j = 5 + (j - 5)
        BY <2>6
      <4> QED
        BY <4>1
    <3>2. l[j] = <<"chunk", i - 1, Len(cs[i]), cs[i]>> /\ cs[i] \in Seq(Bytes)
      BY <1>1, <1>3, <3>1
    <3> QED
      BY <3>2 DEF PrintedLine
  <2>7. CASE j = n + 6
    BY <1>3, <2>7 DEF PrintedLine
  <2>8. CASE j = n + 7
    BY <1>3, <2>8 DEF PrintedLine
  <2> QED
    BY <2>1, <2>2, <2>3, <2>4, <2>5, <2>6, <2>7, <2>8
<1> QED
  BY <1>2, <1>3, <1>5

\* One more damaged field: still what is left of a printed line.
LEMMA DamagedIsWorn ==
  ASSUME NEW p, PrintedLine(p), NEW l, WornLine(l, p), NEW d \in Damaged(l)
  PROVE  WornLine(d, p)
<1> USE ContentAssumption
<1>1. CASE p \in {<<"magic">>, <<"END">>}
  <2>1. l \in {<<"magic">>, <<"END">>, <<"?">>} /\ p[1] \in {"magic", "END"}
    BY <1>1 DEF WornLine
  <2>2. d = <<"?">>
    BY <2>1 DEF Damaged
  <2> QED
    BY <2>1, <2>2 DEF WornLine
<1>2. CASE p[1] \in {"source_size", "chunk_size", "chunk_count"} /\ p[2] \in Nat
  <2>1. l[1] = p[1]
    BY <1>2 DEF WornLine
  <2>2. d \in {<<l[1], n>> : n \in Sizes}
    BY <1>2, <2>1 DEF Damaged
  <2>3. d[1] = p[1] /\ d[2] \in Nat
    BY <2>1, <2>2
  <2> QED
    BY <1>2, <2>3 DEF WornLine
<1>3. CASE p[1] = "source_sha256" /\ p[2] \in Seq(Bytes)
  <2>1. l[1] = p[1]
    BY <1>3 DEF WornLine
  <2>2. d \in {<<l[1], s>> : s \in Images}
    BY <1>3, <2>1 DEF Damaged
  <2>3. d[1] = p[1] /\ d[2] \in Seq(Bytes)
    BY <2>1, <2>2
  <2> QED
    BY <1>3, <2>3 DEF WornLine
<1>4. CASE p[1] = "chunk" /\ p[4] \in Seq(Bytes)
  <2>1. l[1] = "chunk" /\ l[2] = p[2] /\ l[4] \in Seq(Bytes) /\ Len(l[4]) = Len(p[4])
    BY <1>4 DEF WornLine
  <2>2. \/ d \in {<<"chunk", l[2], n, l[4]>> : n \in Sizes}
        \/ d \in {<<"chunk", l[2], l[3], b>> : b \in [DOMAIN l[4] -> Bytes]}
    BY <2>1 DEF Damaged
  <2>3. d[1] = "chunk" /\ d[2] = p[2] /\ d[4] \in Seq(Bytes) /\ Len(d[4]) = Len(p[4])
    <3>1. CASE d \in {<<"chunk", l[2], n, l[4]>> : n \in Sizes}
      BY <2>1, <3>1
    <3>2. CASE d \in {<<"chunk", l[2], l[3], b>> : b \in [DOMAIN l[4] -> Bytes]}
      <4>1. PICK b \in [DOMAIN l[4] -> Bytes] : d = <<"chunk", l[2], l[3], b>>
        BY <3>2
      <4>2. b \in Seq(Bytes) /\ Len(b) = Len(l[4])
        <5>1. PICK n \in Nat : Len(l[4]) = n /\ DOMAIN l[4] = 1..n
          BY <2>1
        <5> QED
          BY <5>1
      <4> QED
        BY <2>1, <4>1, <4>2
    <3> QED
      BY <2>2, <3>1, <3>2
  <2> QED
    BY <1>4, <2>3 DEF WornLine
<1>5. CASE p[1] = "merkle_root"
  <2>1. l[1] = "merkle_root"
    BY <1>5 DEF WornLine
  <2>2. d = <<"merkle_root", <<"node">>>>
    BY <2>1 DEF Damaged
  <2> QED
    BY <1>5, <2>2 DEF WornLine
<1> QED
  BY <1>1, <1>2, <1>3, <1>4, <1>5 DEF PrintedLine

LEMMA DamageIsWear ==
  ASSUME NEW cs \in Seq(Seq(Bytes)), NEW t, Worn(t, cs),
         NEW i \in DOMAIN t, NEW line \in Damaged(t[i])
  PROVE  Worn([t EXCEPT ![i] = line], cs)
<1>1. PICK l : l = Lines(cs)
  OBVIOUS
<1>2. PICK k \in Nat : k = Len(t)
  <2>1. PICK n \in Nat : n = Len(cs)
    OBVIOUS
  <2>2. Len(Lines(cs)) = n + 7
    BY <2>1, LinesAre
  <2> QED
    BY <2>2 DEF Worn
<1>3. /\ k \in 0..Len(l) /\ t = [j \in 1..k |-> t[j]]
      /\ \A j \in 1..k : WornLine(t[j], l[j]) /\ PrintedLine(l[j])
  <2>1. Len(l) \in Nat
    <3>1. PICK n \in Nat : n = Len(cs)
      OBVIOUS
    <3> QED
      BY <1>1, <3>1, LinesAre
  <2> QED
    BY <1>1, <1>2, <2>1, LinesArePrinted DEF Worn
<1>4. i \in 1..k
  BY <1>3
<1>5. PICK u : u = [t EXCEPT ![i] = line]
  OBVIOUS
<1>6. u = [j \in 1..k |-> IF j = i THEN line ELSE t[j]]
  BY <1>3, <1>5
<1>7. Len(u) = k /\ u = [j \in 1..k |-> u[j]]
  BY <1>6
<1>8. WornLine(line, l[i])
  BY <1>3, <1>4, DamagedIsWorn
<1>9. \A j \in 1..k : WornLine(u[j], l[j])
  BY <1>3, <1>6, <1>8
<1> QED
  BY <1>1, <1>3, <1>5, <1>7, <1>9 DEF Worn

\* A worn manifest that loads is the whole of the manifest as far as its chunks
\* go: their number is in the place of the root, and their bytes are in the root.
LEMMA LoadsGenuine ==
  ASSUME NEW cs \in Seq(Seq(Bytes)), NEW t, Worn(t, cs), Loads(t)
  PROVE  /\ ChunkHashes(t) = cs /\ Len(cs) = Header(t).count
         /\ Header(t).size \in Nat \ {0} /\ Header(t).chunk \in Nat \ {0}
         /\ Header(t).count = CeilDiv(Header(t).size, Header(t).chunk)
<1>1. PICK n \in Nat : n = Len(cs)
  OBVIOUS
<1>2. PICK l : l = Lines(cs)
  OBVIOUS
<1>3. /\ Len(l) = n + 7
      /\ l[2][1] = "source_size" /\ l[2][2] \in Nat
      /\ l[3][1] = "chunk_size" /\ l[3][2] \in Nat
      /\ l[4][1] = "chunk_count" /\ l[4][2] \in Nat
      /\ \A i \in 1..n : l[5 + i] = <<"chunk", i - 1, Len(cs[i]), cs[i]>>
      /\ l[n + 6] = <<"merkle_root", MerkleRoot(cs)>>
  <2>1. FlattenSeq(cs) \in Seq(Bytes)
    BY FlattenTyped
  <2>2. Len(FlattenSeq(cs)) \in Nat
    BY <2>1
  <2>3. /\ Len(l) = n + 7
        /\ l[2] = <<"source_size", Len(FlattenSeq(cs))>>
        /\ l[3] = <<"chunk_size", ChunkSize>>
        /\ l[4] = <<"chunk_count", n>>
        /\ \A i \in 1..n : l[5 + i] = <<"chunk", i - 1, Len(cs[i]), cs[i]>>
        /\ l[n + 6] = <<"merkle_root", MerkleRoot(cs)>>
    BY <1>1, <1>2, LinesAre
  <2>4. ChunkSize \in Nat
    BY ContentAssumption
  <2>5. l[2][1] = "source_size" /\ l[2][2] \in Nat
    BY <2>2, <2>3
  <2>6. l[3][1] = "chunk_size" /\ l[3][2] \in Nat
    BY <2>3, <2>4
  <2>7. l[4][1] = "chunk_count" /\ l[4][2] \in Nat
    BY <2>3
  <2> QED
    BY <2>3, <2>5, <2>6, <2>7
<1>4. PICK h : h = Header(t)
  OBVIOUS
<1>5. h.size = t[2][2] /\ h.chunk = t[3][2] /\ h.count = t[4][2]
  BY <1>4 DEF Header
<1>6. /\ Len(t) \in 0..(n + 7) /\ Len(t) >= 5
      /\ \A i \in 1..Len(t) : WornLine(t[i], l[i])
  BY <1>2, <1>3 DEF Worn, Loads
<1>7. h.size \in Nat /\ h.chunk \in Nat /\ h.count \in Nat
  <2>1. WornLine(t[2], l[2]) /\ WornLine(t[3], l[3]) /\ WornLine(t[4], l[4])
    BY <1>1, <1>6
  <2>2. t[2][2] \in Nat
    BY <1>3, <2>1 DEF WornLine
  <2>3. t[3][2] \in Nat
    BY <1>3, <2>1 DEF WornLine
  <2>4. t[4][2] \in Nat
    BY <1>3, <2>1 DEF WornLine
  <2> QED
    BY <1>5, <2>2, <2>3, <2>4
<1>8. /\ h.size > 0 /\ h.chunk > 0 /\ h.count > 0
      /\ h.count = CeilDiv(h.size, h.chunk)
      /\ Len(t) >= h.count + 7
      /\ t[h.count + 6][1] = "merkle_root"
      /\ MerkleRoot(ChunkHashes(t)) = t[h.count + 6][2]
  BY <1>4 DEF Loads
<1>9. h.count = n
  <2>1. SUFFICES ASSUME h.count < n PROVE FALSE
    BY <1>6, <1>7, <1>8
  <2>2. PICK i \in 1..n : h.count + 6 = 5 + i
    <3>1. h.count + 1 \in 1..n /\ h.count + 6 = 5 + (h.count + 1)
      BY <1>7, <2>1
    <3> QED
      BY <3>1
  <2>3. l[h.count + 6][1] = "chunk"
    <3>0. l[5 + i] = <<"chunk", i - 1, Len(cs[i]), cs[i]>>
      BY <1>3
    <3>1. l[5 + i][1] = "chunk"
      BY <3>0
    <3> QED
      BY <2>2, <3>1
  <2>4. WornLine(t[h.count + 6], l[h.count + 6])
    <3>1. h.count + 6 \in 1..Len(t)
      BY <1>6, <1>7, <1>8
    <3> QED
      BY <1>6, <3>1
  <2>5. t[h.count + 6][1] = "chunk"
    BY <2>3, <2>4 DEF WornLine
  <2> QED
    BY <1>8, <2>5
<1>10. ASSUME NEW i \in 1..n PROVE t[5 + i][4] \in Seq(Bytes)
  <2>1. WornLine(t[5 + i], l[5 + i])
    BY <1>6, <1>7, <1>8, <1>9
  <2>2. l[5 + i] = <<"chunk", i - 1, Len(cs[i]), cs[i]>> /\ cs[i] \in Seq(Bytes)
    BY <1>1, <1>3
  <2>3. l[5 + i][1] = "chunk" /\ l[5 + i][4] = cs[i]
    BY <2>2
  <2> QED
    BY <2>1, <2>2, <2>3 DEF WornLine
<1>11. PICK c : c = ChunkHashes(t)
  OBVIOUS
<1>12. c = [i \in 1..n |-> t[5 + i][4]]
  BY <1>4, <1>9, <1>11 DEF ChunkHashes
<1>13. IsList(c, n) /\ \A i \in 1..n : c[i] \in Seq(Bytes)
  <2>1. Len(c) = n /\ c = [i \in 1..n |-> c[i]]
    BY <1>12
  <2>2. n \in Nat \ {0}
    BY <1>8, <1>9
  <2> QED
    BY <1>10, <1>12, <2>1, <2>2 DEF IsList
<1>14. IsList(cs, n)
  BY <1>1, <1>8, <1>9 DEF IsList
<1>15. t[n + 6][2] \in {MerkleRoot(cs), <<"node">>}
  <2>1. WornLine(t[n + 6], l[n + 6])
    <3>1. n + 6 \in 1..Len(t)
      BY <1>6, <1>8, <1>9
    <3> QED
      BY <1>6, <3>1
  <2> QED
    BY <1>3, <2>1 DEF WornLine
<1>16. MerkleRoot(c) # <<"node">>
  BY <1>13, RootIsWhole
<1>17. MerkleRoot(c) = MerkleRoot(cs)
  BY <1>8, <1>9, <1>11, <1>15, <1>16
<1>18. c = cs
  BY <1>13, <1>14, <1>17, RootTells
<1> QED
  BY <1>1, <1>4, <1>7, <1>8, <1>9, <1>11, <1>18

-----------------------------------------------------------------------------
(* Where the chunks of an image lie.                                       *)

\* The chunks cover the image, and the last of them is needed for it.
LEMMA ChunksCover ==
  ASSUME NEW n \in Nat \ {0}, NEW c \in Nat \ {0}
  PROVE  /\ CeilDiv(n, c) \in Nat
         /\ n <= CeilDiv(n, c) * c
         /\ CeilDiv(n, c) * c < n + c
<1> DEFINE a == n + c - 1
           q == a \div c
<1>1. a \in Nat
  OBVIOUS
<1>2. q \in Int /\ q * c <= a /\ a < q * c + c
  BY <1>1, SMTT(30)
<1>3. q >= 0
  <2>1. SUFFICES ASSUME q <= 0 - 1 PROVE FALSE
    BY <1>2
  <2>2. (q + 1) * c <= 0
    BY <1>2, <2>1, SMTT(30)
  <2> QED
    BY <1>1, <1>2, <2>2
<1> QED
  BY <1>2, <1>3 DEF CeilDiv

\* A chunk begins where those before it end, and is not empty.
LEMMA ChunkFollows ==
  ASSUME NEW n \in Nat \ {0}, NEW c \in Nat \ {0}, NEW k \in Nat, k < CeilDiv(n, c)
  PROVE  /\ k * c \in Nat /\ k * c < n
         /\ Least(k * c, n) = k * c
         /\ ChunkLength(n, c, k + 1) \in Nat \ {0}
         /\ k * c + ChunkLength(n, c, k + 1) = Least((k + 1) * c, n)
<1>1. PICK q \in Nat : q = CeilDiv(n, c) /\ q * c < n + c
  BY ChunksCover
<1>2. k + 1 <= q
  BY <1>1
<1>3. (k + 1) * c <= q * c
  BY <1>1, <1>2, SMTT(30)
<1>4. k * c \in Nat /\ (k + 1) * c = k * c + c
  BY SMTT(30)
<1>5. k * c < n
  <2>1. q * c \in Nat
    BY <1>1, SMTT(30)
  <2> QED
    BY <1>1, <1>3, <1>4, <2>1
<1>6. PICK o \in Nat : o = k * c
  BY <1>4
<1>7. ChunkLength(n, c, k + 1) = IF n - o <= c THEN n - o ELSE c
  <2>1. (k + 1) - 1 = k
    OBVIOUS
  <2> QED
    BY <1>6, <2>1 DEF ChunkLength, Least
<1>8. Least(k * c, n) = o
  BY <1>5, <1>6 DEF Least
<1>9. Least((k + 1) * c, n) = IF o + c <= n THEN o + c ELSE n
  BY <1>4, <1>6 DEF Least
<1> QED
  BY <1>5, <1>6, <1>7, <1>8, <1>9

\* One sequence begins another when it is no longer and agrees with it.
LEMMA PrefixIs ==
  ASSUME NEW S, NEW s \in Seq(S), NEW t \in Seq(S)
  PROVE  IsPrefix(s, t) <=> Len(s) <= Len(t) /\ \A i \in 1..Len(s) : s[i] = t[i]
<1>1. PICK m \in Nat : m = Len(s)
  OBVIOUS
<1>2. CASE m <= Len(t)
  <2>1. SubSeq(s, 1, m) = [i \in 1..m |-> s[i]] /\ SubSeq(t, 1, m) = [i \in 1..m |-> t[i]]
    BY <1>1, <1>2
  <2>2. [i \in 1..m |-> s[i]] = [i \in 1..m |-> t[i]] <=> \A i \in 1..m : s[i] = t[i]
    <3>1. ASSUME [i \in 1..m |-> s[i]] = [i \in 1..m |-> t[i]], NEW j \in 1..m
          PROVE  s[j] = t[j]
      <4>1. [i \in 1..m |-> s[i]][j] = [i \in 1..m |-> t[i]][j]
        BY <3>1
      <4> QED
        BY <4>1
    <3> QED
      BY <3>1
  <2> QED
    BY <1>1, <1>2, <2>1, <2>2 DEF IsPrefix
<1>3. CASE ~(m <= Len(t))
  BY <1>1, <1>3 DEF IsPrefix
<1> QED
  BY <1>2, <1>3

\* What was read next makes the part of t that is read longer.
LEMMA PrefixGrows ==
  ASSUME NEW S, NEW s \in Seq(S), NEW t \in Seq(S), IsPrefix(s, t),
         NEW l \in Nat, Len(s) + l <= Len(t)
  PROVE  /\ SubSeq(t, Len(s) + 1, Len(s) + l) \in Seq(S)
         /\ Len(SubSeq(t, Len(s) + 1, Len(s) + l)) = l
         /\ IsPrefix(s \o SubSeq(t, Len(s) + 1, Len(s) + l), t)
<1>1. PICK m \in Nat : m = Len(s)
  OBVIOUS
<1>2. PICK b : b = SubSeq(t, m + 1, m + l)
  OBVIOUS
<1>3. b \in Seq(S) /\ Len(b) = l /\ \A i \in 1..l : b[i] = t[m + i]
  <2>1. b = [i \in 1..l |-> t[m + i]]
    <3>1. (m + l) - (m + 1) + 1 = l /\ \A i \in 1..l : i + (m + 1) - 1 = m + i
      BY <1>1
    <3>2. \A i \in 1..l : m + i \in 1..Len(t)
      BY <1>1
    <3> QED
      BY <1>1, <1>2, <3>1, <3>2
  <2>2. \A i \in 1..l : m + i \in 1..Len(t) /\ t[m + i] \in S
    BY <1>1
  <2> QED
    BY <2>1, <2>2
<1>4. PICK u : u = s \o b
  OBVIOUS
<1>5. u \in Seq(S) /\ Len(u) = m + l
  <2>1. u \in Seq(S) /\ Len(u) = Len(s) + Len(b)
    <3>1. b \in Seq(S)
      BY <1>3
    <3> QED
      BY <1>4, <3>1
  <2> QED
    BY <1>1, <1>3, <2>1
<1>6. \A i \in 1..m : s[i] = t[i]
  BY <1>1, PrefixIs
<1>7. ASSUME NEW i \in 1..(m + l) PROVE u[i] = t[i]
  <2>1. u[i] = IF i <= m THEN s[i] ELSE b[i - m]
    BY <1>1, <1>3, <1>4
  <2>2. CASE i <= m
    BY <1>6, <2>1, <2>2
  <2>3. CASE ~(i <= m)
    <3>1. i - m \in 1..l /\ m + (i - m) = i
      BY <2>3
    <3> QED
      BY <1>3, <2>1, <2>3, <3>1
  <2> QED
    BY <2>2, <2>3
<1>8. IsPrefix(u, t)
  BY <1>1, <1>5, <1>7, PrefixIs
<1> QED
  BY <1>1, <1>2, <1>3, <1>4, <1>8

\* Two parts of one beginning: one begins the other.
LEMMA PrefixesCompare ==
  ASSUME NEW S, NEW s \in Seq(S), NEW t \in Seq(S), NEW u \in Seq(S),
         IsPrefix(s, u), IsPrefix(t, u)
  PROVE  IsPrefix(s, t) \/ IsPrefix(t, s)
<1>1. /\ \A i \in 1..Len(s) : s[i] = u[i]
      /\ \A i \in 1..Len(t) : t[i] = u[i]
  BY PrefixIs
<1>2. CASE Len(s) <= Len(t)
  <2>1. \A i \in 1..Len(s) : s[i] = t[i]
    BY <1>1, <1>2
  <2> QED
    BY <1>2, <2>1, PrefixIs
<1>3. CASE Len(t) <= Len(s)
  <2>1. \A i \in 1..Len(t) : t[i] = s[i]
    BY <1>1, <1>3
  <2> QED
    BY <1>3, <2>1, PrefixIs
<1>4. Len(s) <= Len(t) \/ Len(t) <= Len(s)
  OBVIOUS
<1> QED
  BY <1>2, <1>3, <1>4

\* A beginning of the same length is the whole.
LEMMA PrefixIsWhole ==
  ASSUME NEW S, NEW s \in Seq(S), NEW t \in Seq(S), IsPrefix(s, t), Len(s) = Len(t)
  PROVE  s = t
<1>1. \A i \in 1..Len(s) : s[i] = t[i]
  BY PrefixIs
<1>2. PICK n \in Nat : n = Len(s) /\ n = Len(t)
  OBVIOUS
<1>3. s = [i \in 1..n |-> s[i]] /\ t = [i \in 1..n |-> t[i]]
  BY <1>2
<1> QED
  BY <1>1, <1>2, <1>3

-----------------------------------------------------------------------------
(* The inductive invariant, action by action.                              *)

LEMMA Initially == Init => ProofIInv
<1> SUFFICES ASSUME Init PROVE ProofIInv
  OBVIOUS
<1>1. TypeOK
  BY ContentAssumption DEF Init, TypeOK
<1>2. ManifestInv
  BY DEF Init, ManifestInv
<1>3. LoadedInv
  BY DEF Init, LoadedInv, Loaded
<1>4. ReadInv
  BY DEF Init, ReadInv, Running
<1>5. ProvenInv
  BY DEF Init, ProvenInv
<1>6. MismatchIsExact
  BY DEF Init, MismatchIsExact
<1> QED
  BY <1>1, <1>2, <1>3, <1>4, <1>5, <1>6 DEF ProofIInv

\* A step that changes nothing of the component.
LEMMA Stutters == ProofIInv /\ UNCHANGED vars => ProofIInv'
BY DEF ProofIInv, vars, world, result, observers, TypeOK, ManifestInv, LoadedInv, Loaded, ReadInv,
       Agreed, Index, Offset, Length, Running, ProvenInv, MismatchIsExact

\* A command that ends, whatever becomes of its manifest.
Ends ==
    /\ pc' = "done" /\ size' \in Nat
    /\ manifest' \in {manifest, Missing}
    /\ final_state # "failed_before_verify" => UNCHANGED <<source_moved, target_moved>>
    /\ UNCHANGED <<source, target, edits, damages, runs, operation, hashes, loaded, final_state,
                   first_bad_offset, made>>

LEMMA EndKeeps == ProofIInv /\ Ends => ProofIInv'
<1> SUFFICES ASSUME ProofIInv, Ends PROVE ProofIInv'
  OBVIOUS
<1>1. TypeOK'
  BY DEF ProofIInv, Ends, TypeOK
<1>2. ManifestInv'
  BY DEF ProofIInv, Ends, ManifestInv
<1>3. LoadedInv'
  BY DEF ProofIInv, Ends, LoadedInv, Loaded
<1>4. ReadInv'
  BY DEF Ends, ReadInv, Running
<1>5. ProvenInv'
  BY DEF ProofIInv, Ends, ProvenInv, Agreed
<1>6. MismatchIsExact'
  BY DEF ProofIInv, Ends, MismatchIsExact
<1> QED
  BY <1>1, <1>2, <1>3, <1>4, <1>5, <1>6 DEF ProofIInv

\* A command that begins.
LEMMA BeginKeeps ==
  ASSUME ProofIInv, NEW op \in {"create", "verify"}, Begin(op),
         runs' \in 0..MaxRuns, UNCHANGED <<source, target, manifest, edits, damages, made>>
  PROVE  ProofIInv'
<1>0. pc' \in {"open_image", "load"}
  BY DEF Begin
<1>1. TypeOK'
  BY <1>0 DEF ProofIInv, TypeOK, Begin
<1>2. ManifestInv'
  BY <1>0 DEF ProofIInv, ManifestInv
<1>3. LoadedInv'
  BY <1>0 DEF LoadedInv, Loaded, Begin
<1>4. ReadInv'
  BY <1>0 DEF ReadInv, Running, Begin
<1>5. ProvenInv'
  BY DEF ProvenInv, Begin
<1>6. MismatchIsExact'
  BY DEF MismatchIsExact, Begin
<1> QED
  BY <1>1, <1>2, <1>3, <1>4, <1>5, <1>6 DEF ProofIInv

\* Creating a manifest: the image opened, its chunks digested, the lines printed.
LEMMA OpenImageKeeps == ProofIInv /\ OpenImage => ProofIInv'
<1> SUFFICES ASSUME ProofIInv, OpenImage PROVE ProofIInv'
  OBVIOUS
<1>1. size \in Nat /\ Len(source) \in Nat /\ pc = "open_image"
  BY ContentAssumption DEF ProofIInv, TypeOK, OpenImage
<1>2. CASE pc' = "done"
  <2>1. Ends
    BY <1>1, <1>2 DEF OpenImage, Return, CreateFails, Discard, Ends, observers
  <2> QED
    BY <2>1, EndKeeps
<1>3. CASE pc' # "done"
  <2>1. /\ pc' = "digest" /\ size' = Len(source)
        /\ UNCHANGED <<source, target, manifest, edits, damages, runs, operation, hashes, buffer,
                       loaded, final_state, first_bad_offset, made, source_moved, target_moved>>
    BY <1>3 DEF OpenImage, Return, CreateFails, observers
  <2>2. TypeOK'
    BY <1>1, <2>1 DEF ProofIInv, TypeOK
  <2>3. ManifestInv' /\ LoadedInv' /\ ReadInv'
    <3>1. ManifestInv'
      BY <2>1 DEF ProofIInv, ManifestInv
    <3>2. LoadedInv'
      BY <2>1 DEF ProofIInv, LoadedInv, Loaded
    <3>3. ReadInv'
      BY <1>1, <2>1 DEF ProofIInv, ReadInv, Running
    <3> QED
      BY <3>1, <3>2, <3>3
  <2>4. ProvenInv' /\ MismatchIsExact'
    BY <2>1 DEF ProofIInv, ProvenInv, Agreed, MismatchIsExact
  <2> QED
    BY <2>2, <2>3, <2>4 DEF ProofIInv
<1> QED
  BY <1>2, <1>3

LEMMA DigestKeeps == ProofIInv /\ Digest => ProofIInv'
<1> SUFFICES ASSUME ProofIInv, Digest PROVE ProofIInv'
  OBVIOUS
<1>1. size \in Nat /\ pc = "digest" /\ source \in Seq(Bytes) /\ hashes \in Seq(Seq(Bytes))
  BY ContentAssumption DEF ProofIInv, TypeOK, Digest
<1>3. CASE pc' = "done"
  <2>1. Ends
    BY <1>1, <1>3 DEF Digest, Return, CreateFails, Discard, Ends, observers
  <2> QED
    BY <2>1, EndKeeps
<1>4. CASE pc' # "done"
  <2>1. /\ pc' \in {"digest", "open_manifest"}
        /\ UNCHANGED <<source, target, manifest, edits, damages, runs, operation, size, buffer,
                       loaded, final_state, first_bad_offset, made, source_moved, target_moved>>
    BY <1>1, <1>4 DEF Digest, Return, CreateFails, observers
  <2>2. hashes' \in Seq(Seq(Bytes))
    <3>1. CASE hashes' = hashes
      BY <1>1, <3>1
    <3>2. CASE hashes' # hashes
      <4> DEFINE o == Len(hashes) * ChunkSize
                 l == Least(size - o, ChunkSize)
      <4>1. o < size /\ o + l <= Len(source)
        BY <1>4, <3>2 DEF Digest, Return, CreateFails
      <4>2. hashes' = Append(hashes, SubSeq(source, o + 1, o + l))
        BY <1>4, <3>2 DEF Digest, Return, CreateFails
      <4>3. o \in Nat /\ l \in Nat
        <5>1. Len(hashes) \in Nat /\ ChunkSize \in Nat
          BY <1>1, ContentAssumption
        <5>2. o \in Nat
          BY <5>1, SMT
        <5> HIDE DEF o
        <5> QED
          BY <1>1, <4>1, <5>1, <5>2 DEF Least
      <4> HIDE DEF o, l
      <4>4. SubSeq(source, o + 1, o + l) \in Seq(Bytes)
        BY <1>1, <4>1, <4>3
      <4> QED
        BY <1>1, <4>2, <4>4
    <3> QED
      BY <3>1, <3>2
  <2>3. TypeOK'
    BY <2>1, <2>2 DEF ProofIInv, TypeOK
  <2>4. ManifestInv' /\ LoadedInv' /\ ReadInv'
    <3>1. ManifestInv'
      BY <2>1 DEF ProofIInv, ManifestInv
    <3>2. LoadedInv'
      BY <2>1 DEF ProofIInv, LoadedInv, Loaded
    <3>3. ReadInv'
      BY <1>1, <2>1 DEF ProofIInv, ReadInv, Running
    <3> QED
      BY <3>1, <3>2, <3>3
  <2>5. final_state # "success_proven"
    BY <1>1 DEF ProofIInv, ReadInv, Running
  <2>6. ProvenInv' /\ MismatchIsExact'
    BY <2>1, <2>5 DEF ProofIInv, ProvenInv, MismatchIsExact
  <2> QED
    BY <2>3, <2>4, <2>6 DEF ProofIInv
<1> QED
  BY <1>3, <1>4

LEMMA OpenManifestKeeps == ProofIInv /\ OpenManifest => ProofIInv'
<1> SUFFICES ASSUME ProofIInv, OpenManifest PROVE ProofIInv'
  OBVIOUS
<1>1. size \in Nat /\ pc = "open_manifest" /\ hashes \in Seq(Seq(Bytes))
  BY DEF ProofIInv, TypeOK, OpenManifest
<1>2. CASE pc' = "done"
  <2>1. Ends
    BY <1>1, <1>2 DEF OpenManifest, Return, CreateFails, Discard, Ends
  <2> QED
    BY <2>1, EndKeeps
<1>3. CASE pc' # "done"
  <2>1. /\ pc' = "emit" /\ manifest' = <<>> /\ made' = made \cup {hashes}
        /\ UNCHANGED <<source, target, edits, damages, runs, operation, size, hashes, buffer,
                       loaded, final_state, first_bad_offset, source_moved, target_moved>>
    BY <1>3 DEF OpenManifest, Return, CreateFails
  <2>2. TypeOK'
    BY <2>1 DEF ProofIInv, TypeOK
  <2>3. ManifestInv'
    <3>1. Worn(manifest', hashes)
      BY <1>1, <2>1, NothingIsWorn
    <3>2. made' \subseteq Seq(Seq(Bytes)) /\ hashes' \in made'
      BY <1>1, <2>1 DEF ProofIInv, ManifestInv
    <3>3. manifest' # Missing => \E cs \in made' : Worn(manifest', cs)
      BY <2>1, <3>1
    <3>4. Len(manifest') \in Nat
      BY <2>1
    <3> QED
      BY <3>2, <3>3, <3>4 DEF ManifestInv
  <2>4. LoadedInv'
    BY <2>1 DEF ProofIInv, LoadedInv, Loaded
  <2>5. ReadInv'
    BY <1>1, <2>1 DEF ProofIInv, ReadInv, Running
  <2>6. final_state # "success_proven"
    BY <1>1 DEF ProofIInv, ReadInv, Running
  <2>7. ProvenInv' /\ MismatchIsExact'
    BY <2>1, <2>6 DEF ProofIInv, ProvenInv, MismatchIsExact
  <2> QED
    BY <2>2, <2>3, <2>4, <2>5, <2>7 DEF ProofIInv
<1> QED
  BY <1>2, <1>3

LEMMA EmitKeeps == ProofIInv /\ Emit => ProofIInv'
<1> SUFFICES ASSUME ProofIInv, Emit PROVE ProofIInv'
  OBVIOUS
<1>1. size \in Nat /\ pc = "emit" /\ hashes \in made /\ made \subseteq Seq(Seq(Bytes))
  BY DEF ProofIInv, TypeOK, ManifestInv, Emit
<1>2. CASE pc' = "done"
  <2>1. Ends
    BY <1>1, <1>2 DEF Emit, Return, CreateFails, Discard, Ends, observers
  <2> QED
    BY <2>1, EndKeeps
<1>3. CASE pc' # "done"
  <2>1. /\ pc' = pc
        /\ \E k \in (Len(manifest) + 1)..Len(Lines(hashes)) :
              manifest' = SubSeq(Lines(hashes), 1, k)
        /\ UNCHANGED <<source, target, edits, damages, runs, operation, size, hashes, buffer,
                       loaded, final_state, first_bad_offset, made, source_moved, target_moved>>
    BY <1>1, <1>3 DEF Emit, Return, CreateFails, observers
  <2>2. TypeOK'
    BY <2>1 DEF ProofIInv, TypeOK
  <2>3. ManifestInv'
    <3>1. PICK k \in (Len(manifest) + 1)..Len(Lines(hashes)) :
                manifest' = SubSeq(Lines(hashes), 1, k)
      BY <2>1
    <3>2. Len(manifest) \in Nat
      BY <1>1 DEF ProofIInv, ManifestInv
    <3>3. Len(Lines(hashes)) \in Nat
      <4>1. PICK n \in Nat : n = Len(hashes)
        BY <1>1
      <4> QED
        BY <4>1, LinesAre
    <3>4. k \in 0..Len(Lines(hashes))
      BY <3>1, <3>2, <3>3
    <3>5. Worn(manifest', hashes)
      BY <1>1, <3>1, <3>4, EmittedIsWorn
    <3>6. Len(manifest') \in Nat
      BY <3>3, <3>5 DEF Worn
    <3> QED
      BY <1>1, <2>1, <3>5, <3>6 DEF ManifestInv
  <2>4. LoadedInv'
    BY <1>1, <2>1 DEF ProofIInv, LoadedInv, Loaded
  <2>5. ReadInv'
    BY <1>1, <2>1 DEF ProofIInv, ReadInv, Running
  <2>6. ProvenInv' /\ MismatchIsExact'
    BY <1>1, <2>1 DEF ProofIInv, ReadInv, Running, ProvenInv, MismatchIsExact
  <2> QED
    BY <2>2, <2>3, <2>4, <2>5, <2>6 DEF ProofIInv
<1> QED
  BY <1>2, <1>3

\* Verifying: what the types of the loaded manifest, the chunks and the media are.
LEMMA Typed ==
  ASSUME ProofIInv
  PROVE  /\ source \in Seq(Bytes) /\ target \in Seq(Bytes)
         /\ hashes \in Seq(Seq(Bytes)) /\ Agreed \in Seq(Bytes)
         /\ made \subseteq Seq(Seq(Bytes))
<1>1. hashes \in Seq(Seq(Bytes))
  BY DEF ProofIInv, TypeOK
<1>2. Agreed \in Seq(Bytes)
  BY <1>1, FlattenTyped DEF Agreed
<1>3. source \in Seq(Bytes) /\ target \in Seq(Bytes)
  BY ContentAssumption DEF ProofIInv, TypeOK
<1> QED
  BY <1>1, <1>2, <1>3 DEF ProofIInv, ManifestInv

\* A verify that neither concludes nor reads.
LEMMA LoadKeeps == ProofIInv /\ Load => ProofIInv'
<1> SUFFICES ASSUME ProofIInv, Load PROVE ProofIInv'
  OBVIOUS
<1>1. size \in Nat /\ pc = "load" /\ hashes = <<>> /\ final_state = "failed_before_verify"
  BY DEF ProofIInv, TypeOK, ReadInv, Running, Load
<1>2. CASE pc' = "done"
  <2>1. Ends
    BY <1>1, <1>2 DEF Load, Return, Ends, world, observers
  <2> QED
    BY <2>1, EndKeeps
<1>3. CASE pc' # "done"
  <2>1. /\ pc' = "open_both" /\ Loads(manifest)
        /\ loaded' = [head |-> Header(manifest), chunks |-> ChunkHashes(manifest)]
        /\ UNCHANGED <<source, target, manifest, edits, damages, runs, operation, size, hashes,
                       buffer, final_state, first_bad_offset, made, source_moved, target_moved>>
    BY <1>3 DEF Load, Return, world, observers
  <2>2. TypeOK'
    BY <2>1 DEF ProofIInv, TypeOK
  <2>3. ManifestInv'
    BY <2>1 DEF ProofIInv, ManifestInv
  <2>4. LoadedInv'
    <3>1. PICK cs \in made : Worn(manifest, cs)
      BY <2>1 DEF ProofIInv, ManifestInv, Loads
    <3>2. cs \in Seq(Seq(Bytes))
      BY Typed
    <3>3. PICK h : h = Header(manifest)
      OBVIOUS
    <3>4. /\ ChunkHashes(manifest) = cs /\ Len(cs) = h.count
          /\ h.size \in Nat \ {0} /\ h.chunk \in Nat \ {0}
          /\ h.count = CeilDiv(h.size, h.chunk)
      BY <2>1, <3>1, <3>2, <3>3, LoadsGenuine
    <3>5. loaded'.head = h /\ loaded'.chunks = cs
      BY <2>1, <3>3, <3>4
    <3> QED
      BY <2>1, <3>1, <3>4, <3>5 DEF LoadedInv
  <2>5. ReadInv'
    BY <1>1, <2>1 DEF ReadInv, Running
  <2>6. ProvenInv' /\ MismatchIsExact'
    BY <1>1, <2>1 DEF ProvenInv, MismatchIsExact
  <2> QED
    BY <2>2, <2>3, <2>4, <2>5, <2>6 DEF ProofIInv
<1> QED
  BY <1>2, <1>3

LEMMA OpenBothKeeps == ProofIInv /\ OpenBoth => ProofIInv'
<1> SUFFICES ASSUME ProofIInv, OpenBoth PROVE ProofIInv'
  OBVIOUS
<1>1. size \in Nat /\ pc = "open_both" /\ hashes = <<>> /\ final_state = "failed_before_verify"
  BY DEF ProofIInv, TypeOK, ReadInv, Running, OpenBoth
<1>2. CASE pc' = "done"
  <2>1. Ends
    BY <1>1, <1>2 DEF OpenBoth, Return, Ends, world
  <2> QED
    BY <2>1, EndKeeps
<1>3. CASE pc' # "done"
  <2>1. /\ pc' = "read_source" /\ Len(source) = loaded.head.size
        /\ UNCHANGED <<source, target, manifest, edits, damages, runs, operation, size, hashes,
                       buffer, loaded, final_state, first_bad_offset, made>>
    BY <1>3 DEF OpenBoth, Return, world
  <2>2. source_moved' = FALSE /\ target_moved' = FALSE
    BY DEF OpenBoth
  <2>3. TypeOK'
    BY <2>1 DEF ProofIInv, TypeOK
  <2>4. ManifestInv'
    BY <2>1 DEF ProofIInv, ManifestInv
  <2>5. LoadedInv'
    BY <1>1, <2>1 DEF ProofIInv, LoadedInv, Loaded
  <2>6. ReadInv'
    <3>1. /\ loaded.head.size \in Nat \ {0} /\ loaded.head.chunk \in Nat \ {0}
          /\ loaded.head.count \in Nat
      BY <1>1, ChunksCover DEF ProofIInv, LoadedInv, Loaded
    <3>2. Agreed = <<>>
      BY <1>1, FlattenNone DEF Agreed
    <3>3. IsPrefix(Agreed, source) /\ IsPrefix(Agreed, target)
      <4>1. source \in Seq(Bytes) /\ target \in Seq(Bytes) /\ Agreed \in Seq(Bytes)
        BY Typed
      <4>2. Len(Agreed) = 0 /\ Len(source) >= 0 /\ Len(target) >= 0
        BY <3>2, <4>1
      <4>3. \A i \in 1..Len(Agreed) : FALSE
        BY <4>2
      <4>4. Len(Agreed) <= Len(source) /\ Len(Agreed) <= Len(target)
        BY <4>2
      <4> QED
        BY <4>1, <4>3, <4>4, PrefixIs
    <3>4. Len(hashes) = 0 /\ Len(Agreed) = 0
      BY <1>1, <3>2
    <3>5. Len(Agreed) = Least(Len(hashes) * loaded.head.chunk, loaded.head.size)
      <4>1. 0 * loaded.head.chunk = 0
        BY <3>1
      <4> QED
        BY <3>1, <3>4, <4>1 DEF Least
    <3> QED
      BY <1>1, <2>1, <3>1, <3>3, <3>4, <3>5 DEF ReadInv, Running, Agreed
  <2>7. ProvenInv' /\ MismatchIsExact'
    BY <1>1, <2>1 DEF ProvenInv, MismatchIsExact
  <2> QED
    BY <2>3, <2>4, <2>5, <2>6, <2>7 DEF ProofIInv
<1> QED
  BY <1>2, <1>3

\* Where a verify that has a chunk to read stands.
LEMMA Reading ==
  ASSUME ProofIInv, pc \in {"read_source", "read_target"}, Index <= loaded.head.count
  PROVE  /\ Index = Len(hashes) + 1 /\ Index \in 1..loaded.head.count
         /\ Offset \in Nat /\ Length \in Nat \ {0}
         /\ Offset = Len(Agreed) /\ Offset + Length <= loaded.head.size
         /\ Offset + Length = Least(Index * loaded.head.chunk, loaded.head.size)
         /\ loaded.head.size \in Nat \ {0}
         /\ loaded.chunks \in Seq(Seq(Bytes)) /\ Len(loaded.chunks) = loaded.head.count
<1>1. PICK n, c, q : n = loaded.head.size /\ c = loaded.head.chunk /\ q = loaded.head.count
  OBVIOUS
<1>2. /\ n \in Nat \ {0} /\ c \in Nat \ {0} /\ q = CeilDiv(n, c)
      /\ loaded.chunks \in made /\ Len(loaded.chunks) = q
  BY <1>1 DEF ProofIInv, LoadedInv, Loaded
<1>3. loaded.chunks \in Seq(Seq(Bytes))
  BY <1>2, Typed
<1>4. PICK k \in Nat : k = Len(hashes)
  BY Typed
<1>5. Index = k + 1 /\ Index - 1 = k
  BY <1>4 DEF Index
<1>6. q \in Nat /\ k < q
  <2>1. q \in Nat
    BY <1>2, ChunksCover
  <2> QED
    BY <1>1, <1>5, <2>1
<1>7. Offset = k * c /\ Length = ChunkLength(n, c, k + 1)
  BY <1>1, <1>5 DEF Offset, Length
<1>8. /\ k * c \in Nat /\ Least(k * c, n) = k * c
      /\ ChunkLength(n, c, k + 1) \in Nat \ {0}
      /\ k * c + ChunkLength(n, c, k + 1) = Least((k + 1) * c, n)
  BY <1>2, <1>6, ChunkFollows
<1>9. Len(Agreed) = Least(k * c, n)
  BY <1>1, <1>4 DEF ProofIInv, ReadInv
<1>10. Least((k + 1) * c, n) <= n
  <2>1. (k + 1) * c \in Int
    BY <1>2, SMT
  <2> QED
    BY <1>2, <2>1 DEF Least
<1> QED
  BY <1>1, <1>2, <1>3, <1>4, <1>5, <1>6, <1>7, <1>8, <1>9, <1>10

\* Sequences that agree at every place are equal.
LEMMA SequencesEqual ==
  ASSUME NEW S, NEW s \in Seq(S), NEW t \in Seq(S), Len(s) = Len(t),
         \A i \in 1..Len(s) : s[i] = t[i]
  PROVE  s = t
<1>1. PICK n \in Nat : n = Len(s) /\ n = Len(t)
  OBVIOUS
<1>2. s = [i \in 1..n |-> s[i]] /\ t = [i \in 1..n |-> t[i]]
  BY <1>1
<1> QED
  BY <1>1, <1>2

\* A verify that concludes changes nothing but its result.
Concludes ==
    /\ pc' = "done"
    /\ final_state' \in {"source_changed", "target_mismatch", "success_proven"}
    /\ first_bad_offset' = None \/ first_bad_offset' \in Nat
    /\ UNCHANGED <<source, target, manifest, edits, damages, runs, operation, size, hashes,
                   loaded, made, source_moved, target_moved>>

LEMMA ConclusionKeeps ==
  ASSUME ProofIInv, pc \in {"read_source", "read_target"}, Concludes,
         ProvenInv', MismatchIsExact'
  PROVE  ProofIInv'
<1>1. TypeOK'
  BY DEF ProofIInv, Concludes, TypeOK
<1>2. ManifestInv'
  BY DEF ProofIInv, Concludes, ManifestInv
<1>3. LoadedInv'
  BY DEF ProofIInv, Concludes, LoadedInv, Loaded
<1>4. ReadInv'
  BY DEF Concludes, ReadInv, Running
<1> QED
  BY <1>1, <1>2, <1>3, <1>4 DEF ProofIInv

\* At the end of the image every chunk of the manifest has been found.
LEMMA AllFound ==
  ASSUME ProofIInv, pc = "read_source", ~(Index <= loaded.head.count)
  PROVE  /\ hashes = loaded.chunks /\ hashes \in made
         /\ ~source_moved => source = Agreed
         /\ ~target_moved => IsPrefix(Agreed, target)
<1>1. PICK n, c, q : n = loaded.head.size /\ c = loaded.head.chunk /\ q = loaded.head.count
  OBVIOUS
<1>2. /\ n \in Nat \ {0} /\ c \in Nat \ {0} /\ q = CeilDiv(n, c)
      /\ loaded.chunks \in made /\ Len(loaded.chunks) = q
  BY <1>1 DEF ProofIInv, LoadedInv, Loaded
<1>3. q \in Nat /\ n <= q * c
  BY <1>2, ChunksCover
<1>4. /\ Len(hashes) <= q
      /\ \A i \in 1..Len(hashes) : hashes[i] = loaded.chunks[i]
      /\ Len(Agreed) = Least(Len(hashes) * c, n)
      /\ ~source_moved => Len(source) = n /\ IsPrefix(Agreed, source)
      /\ ~target_moved => IsPrefix(Agreed, target)
  BY <1>1 DEF ProofIInv, ReadInv
<1>5. Len(hashes) = q
  <2>1. PICK k \in Nat : k = Len(hashes)
    BY Typed
  <2>2. ~(k + 1 <= q)
    BY <1>1, <2>1 DEF Index
  <2> QED
    BY <1>3, <1>4, <2>1, <2>2
<1>6. hashes = loaded.chunks
  BY <1>2, <1>4, <1>5, Typed, SequencesEqual
<1>7. Len(Agreed) = n
  <2>1. q * c \in Int
    BY <1>2, <1>3, SMT
  <2> QED
    BY <1>2, <1>3, <1>4, <1>5, <2>1 DEF Least
<1>8. ~source_moved => source = Agreed
  BY <1>4, <1>7, Typed, PrefixIsWhole
<1> QED
  BY <1>2, <1>4, <1>6, <1>8

LEMMA ReadSourceKeeps == ProofIInv /\ ReadSource => ProofIInv'
<1> SUFFICES ASSUME ProofIInv, ReadSource PROVE ProofIInv'
  OBVIOUS
<1>1. size \in Nat /\ pc = "read_source" /\ final_state = "failed_before_verify"
  BY DEF ProofIInv, TypeOK, ReadInv, Running, ReadSource
<1>2. /\ UNCHANGED <<source, target, manifest, edits, damages, runs, operation, size, hashes,
                     loaded, made, source_moved, target_moved>>
  BY DEF ReadSource, world, observers
<1>3. CASE Index <= loaded.head.count
  <2> DEFINE chunk == SubSeq(source, Offset + 1, Offset + Length)
  <2>1. \/ Return("io") /\ UNCHANGED <<buffer, final_state, first_bad_offset>>
        \/ /\ Offset + Length <= Len(source) /\ chunk = loaded.chunks[Index]
           /\ buffer' = chunk /\ pc' = "read_target" /\ UNCHANGED result
        \/ Conclude("identity_changed", "source_changed", Offset)
    <3>1. Index \in Int /\ loaded.head.count \in Int
      <4>1. Index \in 1..loaded.head.count /\ loaded.chunks \in Seq(Seq(Bytes))
            /\ Len(loaded.chunks) = loaded.head.count
        BY <1>1, <1>3, Reading
      <4> QED
        BY <4>1
    <3>2. ~(Index > loaded.head.count)
      BY <1>3, <3>1
    <3> QED
      BY <3>2 DEF ReadSource
  <2>2. CASE Return("io") /\ UNCHANGED <<buffer, final_state, first_bad_offset>>
    <3>1. Ends
      BY <1>1, <1>2, <2>2 DEF Return, Ends
    <3> QED
      BY <3>1, EndKeeps
  <2>3. CASE Conclude("identity_changed", "source_changed", Offset)
    <3>1. Offset \in Nat
      BY <1>1, <1>3, Reading
    <3>2. Concludes /\ final_state' = "source_changed"
      BY <1>2, <2>3, <3>1 DEF Conclude, Return, Concludes
    <3>3. ProvenInv' /\ MismatchIsExact'
      BY <3>2 DEF ProvenInv, MismatchIsExact
    <3> QED
      BY <1>1, <3>2, <3>3, ConclusionKeeps
  <2>4. CASE /\ Offset + Length <= Len(source) /\ chunk = loaded.chunks[Index]
             /\ buffer' = chunk /\ pc' = "read_target" /\ UNCHANGED result
    <3>1. PICK o, l : o = Offset /\ l = Length
      OBVIOUS
    <3>2. o \in Nat /\ l \in Nat \ {0} /\ source \in Seq(Bytes) /\ o + l <= Len(source)
      BY <1>1, <1>3, <2>4, <3>1, Reading, Typed
    <3>3. buffer' = SubSeq(source, o + 1, o + l)
      BY <2>4, <3>1
    <3>4. buffer' \in Seq(Bytes) /\ Len(buffer') = l
      BY <3>2, <3>3
    <3>5. TypeOK'
      BY <1>2, <2>4, <3>4 DEF ProofIInv, TypeOK, result
    <3>6. ManifestInv'
      BY <1>2, <2>4 DEF ProofIInv, ManifestInv
    <3>7. LoadedInv'
      BY <1>1, <1>2, <2>4 DEF ProofIInv, LoadedInv, Loaded, result
    <3>8. ReadInv'
      <4>1. Index' = Index /\ Offset' = o /\ Length' = l /\ Agreed' = Agreed
        BY <1>2, <3>1 DEF Index, Offset, Length, Agreed
      <4>2. /\ Len(hashes) <= loaded.head.count
            /\ \A i \in 1..Len(hashes) : hashes[i] = loaded.chunks[i]
            /\ Len(Agreed) = Least(Len(hashes) * loaded.head.chunk, loaded.head.size)
            /\ ~source_moved =>
                  Len(source) = loaded.head.size /\ IsPrefix(Agreed, source)
            /\ ~target_moved => IsPrefix(Agreed, target)
        BY <1>1 DEF ProofIInv, ReadInv
      <4>3. final_state' = "failed_before_verify" /\ pc' = "read_target"
        BY <1>1, <2>4 DEF result
      <4>4. buffer' = loaded.chunks[Index]
        BY <2>4
      <4> QED
        BY <1>2, <1>3, <3>3, <3>4, <4>1, <4>2, <4>3, <4>4 DEF ReadInv, Running
    <3>9. ProvenInv' /\ MismatchIsExact'
      BY <1>1, <2>4 DEF ProvenInv, MismatchIsExact, result
    <3> QED
      BY <3>5, <3>6, <3>7, <3>8, <3>9 DEF ProofIInv
  <2> QED
    BY <2>1, <2>2, <2>3, <2>4
<1>4. CASE ~(Index <= loaded.head.count)
  <2>1. \/ ImageMatches /\ Conclude("ok", "success_proven", None)
        \/ Conclude("identity_changed", "source_changed", None)
    BY <1>4 DEF ReadSource
  <2>2. CASE ImageMatches /\ Conclude("ok", "success_proven", None)
    <3>1. Concludes /\ final_state' = "success_proven"
      BY <1>2, <2>2 DEF Conclude, Return, Concludes
    <3>2. ProvenInv'
      <4>1. /\ hashes \in made
            /\ ~source_moved => source = Agreed
            /\ ~target_moved => IsPrefix(Agreed, target)
        BY <1>1, <1>4, AllFound
      <4>2. Agreed = loaded.head.digest
        BY <2>2 DEF ImageMatches, Agreed
      <4> QED
        BY <1>2, <4>1, <4>2 DEF ProvenInv, Agreed
    <3>3. MismatchIsExact'
      BY <3>1 DEF MismatchIsExact
    <3> QED
      BY <1>1, <3>1, <3>2, <3>3, ConclusionKeeps
  <2>3. CASE Conclude("identity_changed", "source_changed", None)
    <3>1. Concludes /\ final_state' = "source_changed"
      BY <1>2, <2>3 DEF Conclude, Return, Concludes
    <3>2. ProvenInv' /\ MismatchIsExact'
      BY <3>1 DEF ProvenInv, MismatchIsExact
    <3> QED
      BY <1>1, <3>1, <3>2, ConclusionKeeps
  <2> QED
    BY <2>1, <2>2, <2>3
<1> QED
  BY <1>3, <1>4

\* A chunk of the target that is not the buffer differs from it at some first byte.
LEMMA FirstDifferenceIs ==
  ASSUME NEW chunk \in Seq(Bytes), buffer \in Seq(Bytes), Len(chunk) = Length,
         Len(buffer) = Length, chunk # buffer, Offset \in Nat
  PROVE  \E i \in 1..Length :
            /\ FirstDifference(chunk) = Offset + i - 1
            /\ chunk[i] # buffer[i] /\ \A j \in 1..(i - 1) : chunk[j] = buffer[j]
<1> DEFINE T == {i \in 1..Length : chunk[i] # buffer[i]}
<1>1. T \subseteq Nat /\ T # {}
  <2>1. Length \in Nat
    OBVIOUS
  <2>2. ~ \A i \in 1..Length : chunk[i] = buffer[i]
    BY SequencesEqual
  <2> QED
    BY <2>1, <2>2
<1>2. PICK m \in T : \A j \in T : m <= j
  BY <1>1, HasSmallest
<1>3. /\ m \in 1..Length /\ chunk[m] # buffer[m]
      /\ \A j \in 1..(m - 1) : chunk[j] = buffer[j]
  <2>1. ASSUME NEW j \in 1..(m - 1) PROVE chunk[j] = buffer[j]
    <3>1. j \in 1..Length /\ ~(m <= j)
      BY <1>1, <1>2
    <3> QED
      BY <1>2, <3>1
  <2> QED
    BY <1>2, <2>1
<1>4. PICK c : c = CHOOSE i \in 1..Length :
                     chunk[i] # buffer[i] /\ \A j \in 1..(i - 1) : chunk[j] = buffer[j]
  OBVIOUS
<1>5. /\ c \in 1..Length /\ chunk[c] # buffer[c]
      /\ \A j \in 1..(c - 1) : chunk[j] = buffer[j]
  BY <1>3, <1>4
<1>6. FirstDifference(chunk) = Offset + c - 1
  BY <1>4 DEF FirstDifference
<1> QED
  BY <1>5, <1>6

\* What is read at an offset.
LEMMA PartIs ==
  ASSUME NEW S, NEW t \in Seq(S), NEW o \in Nat, NEW l \in Nat, o + l <= Len(t)
  PROVE  /\ SubSeq(t, o + 1, o + l) \in Seq(S) /\ Len(SubSeq(t, o + 1, o + l)) = l
         /\ \A i \in 1..l : SubSeq(t, o + 1, o + l)[i] = t[o + i]
<1>1. PICK b : b = SubSeq(t, o + 1, o + l)
  OBVIOUS
<1>2. b = [i \in 1..l |-> t[o + i]]
  <2>1. (o + l) - (o + 1) + 1 = l /\ \A i \in 1..l : i + (o + 1) - 1 = o + i
    OBVIOUS
  <2>2. \A i \in 1..l : o + i \in 1..Len(t)
    OBVIOUS
  <2> QED
    BY <1>1, <2>1, <2>2
<1>3. \A i \in 1..l : o + i \in 1..Len(t) /\ t[o + i] \in S
  OBVIOUS
<1> QED
  BY <1>1, <1>2, <1>3

LEMMA ReadTargetKeeps == ProofIInv /\ ReadTarget => ProofIInv'
<1> SUFFICES ASSUME ProofIInv, ReadTarget PROVE ProofIInv'
  OBVIOUS
<1>1. size \in Nat /\ pc = "read_target" /\ final_state = "failed_before_verify"
  BY DEF ProofIInv, TypeOK, ReadInv, Running, ReadTarget
<1>2. /\ UNCHANGED <<source, target, manifest, edits, damages, runs, operation, size, loaded,
                     made, source_moved, target_moved>>
      /\ buffer' = None
  BY DEF ReadTarget, world, observers
<1>3. /\ Index <= loaded.head.count
      /\ buffer = loaded.chunks[Index] /\ Len(buffer) = Length
      /\ ~source_moved => buffer = SubSeq(source, Offset + 1, Offset + Length)
      /\ Len(hashes) <= loaded.head.count
      /\ \A i \in 1..Len(hashes) : hashes[i] = loaded.chunks[i]
      /\ ~source_moved => Len(source) = loaded.head.size /\ IsPrefix(Agreed, source)
      /\ ~target_moved => IsPrefix(Agreed, target)
  BY <1>1 DEF ProofIInv, ReadInv
<1>4. PICK o, l : o = Offset /\ l = Length
  OBVIOUS
<1>5. /\ Index = Len(hashes) + 1
      /\ o \in Nat /\ l \in Nat \ {0} /\ o = Len(Agreed) /\ o + l <= loaded.head.size
      /\ o + l = Least(Index * loaded.head.chunk, loaded.head.size)
  BY <1>1, <1>3, <1>4, Reading
<1>6. /\ source \in Seq(Bytes) /\ target \in Seq(Bytes) /\ buffer \in Seq(Bytes)
      /\ hashes \in Seq(Seq(Bytes)) /\ Agreed \in Seq(Bytes)
  BY <1>1, Typed DEF ProofIInv, TypeOK
<1> DEFINE chunk == SubSeq(target, o + 1, o + l)
<1>7. \/ Return("io") /\ UNCHANGED <<hashes, final_state, first_bad_offset>>
      \/ /\ o + l <= Len(target) /\ chunk = buffer
         /\ hashes' = Append(hashes, buffer) /\ pc' = "read_source" /\ UNCHANGED result
      \/ /\ o + l <= Len(target) /\ chunk # buffer /\ UNCHANGED hashes
         /\ Conclude("verify_mismatch", "target_mismatch", FirstDifference(chunk))
  BY <1>4 DEF ReadTarget, TargetMatches, Advance
<1>8. CASE Return("io") /\ UNCHANGED <<hashes, final_state, first_bad_offset>>
  <2>1. Ends
    BY <1>1, <1>2, <1>8 DEF Return, Ends
  <2> QED
    BY <2>1, EndKeeps
<1>9. CASE /\ o + l <= Len(target) /\ chunk = buffer
           /\ hashes' = Append(hashes, buffer) /\ pc' = "read_source" /\ UNCHANGED result
  <2>1. hashes' \in Seq(Seq(Bytes)) /\ Len(hashes') = Index
    BY <1>5, <1>6, <1>9
  <2>2. TypeOK'
    BY <1>2, <1>9, <2>1 DEF ProofIInv, TypeOK, result
  <2>3. ManifestInv'
    BY <1>2, <1>9 DEF ProofIInv, ManifestInv
  <2>4. LoadedInv'
    BY <1>1, <1>2, <1>9 DEF ProofIInv, LoadedInv, Loaded, result
  <2>5. ReadInv'
    <3>1. Agreed' = Agreed \o buffer
      BY <1>6, <1>9, FlattenAppend DEF Agreed
    <3>2. Len(Agreed') = o + l
      <4>1. Agreed \in Seq(Bytes) /\ buffer \in Seq(Bytes)
        BY <1>6
      <4>2. Len(Agreed \o buffer) = Len(Agreed) + Len(buffer)
        BY <4>1
      <4>3. Len(buffer) = l /\ Len(Agreed) = o
        BY <1>3, <1>4, <1>5
      <4> QED
        BY <3>1, <4>2, <4>3
    <3>3. ASSUME NEW i \in 1..Index PROVE hashes'[i] = loaded.chunks[i]
      <4>1. CASE i \in 1..Len(hashes)
        BY <1>3, <1>6, <1>9, <4>1
      <4>2. CASE i \notin 1..Len(hashes)
        <5>1. i = Len(hashes) + 1
          BY <1>5, <1>6, <4>2
        <5> QED
          BY <1>3, <1>5, <1>6, <1>9, <5>1
      <4> QED
        BY <4>1, <4>2
    <3>4. ~source_moved => IsPrefix(Agreed', source)
      <4>1. SUFFICES ASSUME ~source_moved PROVE IsPrefix(Agreed', source)
        OBVIOUS
      <4>2. buffer = SubSeq(source, Len(Agreed) + 1, Len(Agreed) + l)
        BY <1>3, <1>4, <1>5, <4>1
      <4>3. IsPrefix(Agreed, source) /\ Len(Agreed) + l <= Len(source)
        BY <1>3, <1>5, <4>1
      <4>4. l \in Nat /\ source \in Seq(Bytes) /\ Agreed \in Seq(Bytes)
        BY <1>5, <1>6
      <4> QED
        BY <3>1, <4>2, <4>3, <4>4, PrefixGrows
    <3>5. ~target_moved => IsPrefix(Agreed', target)
      <4>1. SUFFICES ASSUME ~target_moved PROVE IsPrefix(Agreed', target)
        OBVIOUS
      <4>2. buffer = SubSeq(target, Len(Agreed) + 1, Len(Agreed) + l)
        BY <1>5, <1>9
      <4>3. IsPrefix(Agreed, target) /\ Len(Agreed) + l <= Len(target)
        BY <1>3, <1>5, <1>9, <4>1
      <4>4. l \in Nat /\ target \in Seq(Bytes) /\ Agreed \in Seq(Bytes)
        BY <1>5, <1>6
      <4> QED
        BY <3>1, <4>2, <4>3, <4>4, PrefixGrows
    <3>6. final_state' = "failed_before_verify" /\ pc' = "read_source"
      BY <1>1, <1>9 DEF result
    <3> QED
      BY <1>2, <1>3, <1>5, <2>1, <3>2, <3>3, <3>4, <3>5, <3>6 DEF ReadInv, Running
  <2>6. ProvenInv' /\ MismatchIsExact'
    BY <1>1, <1>9 DEF ProvenInv, MismatchIsExact, result
  <2> QED
    BY <2>2, <2>3, <2>4, <2>5, <2>6 DEF ProofIInv
<1>10. CASE /\ o + l <= Len(target) /\ chunk # buffer /\ UNCHANGED hashes
            /\ Conclude("verify_mismatch", "target_mismatch", FirstDifference(chunk))
  <2>1. PICK b : b = chunk
    OBVIOUS
  <2>2. b \in Seq(Bytes) /\ Len(b) = l /\ \A i \in 1..l : b[i] = target[o + i]
    BY <1>5, <1>6, <1>10, <2>1, PartIs
  <2>3. PICK i \in 1..l : /\ FirstDifference(b) = o + i - 1
                          /\ b[i] # buffer[i] /\ \A j \in 1..(i - 1) : b[j] = buffer[j]
    <3>1. Len(b) = Length /\ Len(buffer) = Length /\ b # buffer /\ Offset \in Nat
      BY <1>3, <1>4, <1>5, <1>10, <2>1, <2>2
    <3>2. \E i \in 1..Length :
            /\ FirstDifference(b) = Offset + i - 1
            /\ b[i] # buffer[i] /\ \A j \in 1..(i - 1) : b[j] = buffer[j]
      BY <1>6, <2>2, <3>1, FirstDifferenceIs
    <3> QED
      BY <1>4, <3>2
  <2>4. /\ pc' = "done" /\ final_state' = "target_mismatch" /\ first_bad_offset' = o + i - 1
    BY <1>10, <2>1, <2>3 DEF Conclude, Return
  <2>5. Concludes
    BY <1>2, <1>5, <1>10, <2>4 DEF Concludes
  <2>6. ProvenInv'
    BY <2>4 DEF ProvenInv
  <2>7. MismatchIsExact'
    <3>1. SUFFICES ASSUME ~source_moved, ~target_moved
                   PROVE  /\ source[o + i] # target[o + i]
                          /\ \A j \in 1..(o + i - 1) : source[j] = target[j]
      <4>1. (o + i - 1) + 1 = o + i
        BY <1>5
      <4> QED
        BY <1>2, <2>4, <4>1 DEF MismatchIsExact
    <3>2. \A j \in 1..l : buffer[j] = source[o + j]
      <4>1. buffer = SubSeq(source, o + 1, o + l) /\ o + l <= Len(source)
        BY <1>3, <1>4, <1>5, <3>1
      <4>2. o \in Nat /\ l \in Nat /\ source \in Seq(Bytes)
        BY <1>5, <1>6
      <4> QED
        BY <4>1, <4>2, PartIs
    <3>3. \A j \in 1..o : source[j] = Agreed[j] /\ target[j] = Agreed[j]
      BY <1>3, <1>5, <1>6, <3>1, PrefixIs
    <3>4. ASSUME NEW j \in 1..(o + i - 1) PROVE source[j] = target[j]
      <4>1. CASE j <= o
        BY <1>5, <3>3, <4>1
      <4>2. CASE ~(j <= o)
        <5>1. j - o \in 1..(i - 1) /\ j - o \in 1..l /\ o + (j - o) = j
          BY <1>5, <4>2
        <5> QED
          BY <2>2, <2>3, <3>2, <5>1
      <4> QED
        BY <4>1, <4>2
    <3> QED
      BY <2>2, <2>3, <3>2, <3>4
  <2> QED
    BY <1>1, <2>5, <2>6, <2>7, ConclusionKeeps
<1> QED
  BY <1>7, <1>8, <1>9, <1>10

\* The world moves on around a command, or between two.
Moves ==
    /\ source' \in Images /\ target' \in Targets
    /\ edits' \in 0..MaxEdits /\ damages' \in 0..MaxDamage /\ runs' \in 0..MaxRuns
    /\ UNCHANGED <<source, source_moved>> \/ source_moved' = TRUE
    /\ UNCHANGED <<target, target_moved>> \/ target_moved' = TRUE
    /\ UNCHANGED <<pc, operation, size, hashes, buffer, loaded, final_state, first_bad_offset,
                   made>>

LEMMA MoveKeeps ==
  ASSUME ProofIInv, Moves, ManifestInv'
  PROVE  ProofIInv'
<1>1. TypeOK'
  BY DEF ProofIInv, Moves, TypeOK
<1>2. LoadedInv'
  BY DEF ProofIInv, Moves, LoadedInv, Loaded
<1>3. ReadInv'
  <2>1. Agreed' = Agreed /\ Index' = Index /\ Offset' = Offset /\ Length' = Length
    BY DEF Moves, Agreed, Index, Offset, Length
  <2>2. (~source_moved' => ~source_moved /\ source' = source)
        /\ (~target_moved' => ~target_moved /\ target' = target)
    BY DEF Moves
  <2>3. UNCHANGED <<pc, hashes, buffer, loaded, final_state>>
    BY DEF Moves
  <2>4. ReadInv
    BY DEF ProofIInv
  <2> QED
    BY <2>1, <2>2, <2>3, <2>4 DEF ReadInv, Running
<1>4. ProvenInv'
  <2>1. Agreed' = Agreed
    BY DEF Moves, Agreed
  <2>2. (~source_moved' => ~source_moved /\ source' = source)
        /\ (~target_moved' => ~target_moved /\ target' = target)
    BY DEF Moves
  <2> QED
    BY <2>1, <2>2 DEF ProofIInv, Moves, ProvenInv
<1>5. MismatchIsExact'
  <2>1. (~source_moved' => ~source_moved /\ source' = source)
        /\ (~target_moved' => ~target_moved /\ target' = target)
    BY DEF Moves
  <2> QED
    BY <2>1 DEF ProofIInv, Moves, MismatchIsExact
<1> QED
  BY <1>1, <1>2, <1>3, <1>4, <1>5 DEF ProofIInv

\* The manifest file stays as it is.
LEMMA ManifestKept ==
  ProofIInv /\ UNCHANGED <<manifest, made, pc, hashes>> => ManifestInv'
BY DEF ProofIInv, ManifestInv

LEMMA EditKeeps == ProofIInv /\ (EditSource \/ EditTarget) => ProofIInv'
<1> SUFFICES ASSUME ProofIInv, EditSource \/ EditTarget PROVE ProofIInv'
  OBVIOUS
<1>1. TypeOK /\ MaxEdits \in Nat
  BY ContentAssumption DEF ProofIInv
<1>2. edits' \in 0..MaxEdits
  BY <1>1 DEF TypeOK, EditSource, EditTarget
<1>3. Moves
  BY <1>1, <1>2 DEF TypeOK, EditSource, EditTarget, program, result, Moves
<1>4. ManifestInv'
  BY ManifestKept DEF EditSource, EditTarget, program
<1> QED
  BY <1>3, <1>4, MoveKeeps

LEMMA DamageKeeps == ProofIInv /\ Damage => ProofIInv'
<1> SUFFICES ASSUME ProofIInv, Damage PROVE ProofIInv'
  OBVIOUS
<1>1. TypeOK /\ MaxDamage \in Nat
  BY ContentAssumption DEF ProofIInv
<1>2. damages' \in 0..MaxDamage
  BY <1>1 DEF TypeOK, Damage
<1>3. Moves
  BY <1>1, <1>2 DEF TypeOK, Damage, program, result, observers, Moves
<1>4. ManifestInv'
  <2>1. PICK cs \in made : Worn(manifest, cs)
    BY DEF ProofIInv, ManifestInv, Damage
  <2>2. PICK i \in DOMAIN manifest : \E line \in Damaged(manifest[i]) :
                                        manifest' = [manifest EXCEPT ![i] = line]
    BY DEF Damage
  <2>3. PICK line \in Damaged(manifest[i]) : manifest' = [manifest EXCEPT ![i] = line]
    BY <2>2
  <2>4. cs \in Seq(Seq(Bytes))
    BY Typed
  <2>5. Worn(manifest', cs)
    BY <2>1, <2>3, <2>4, DamageIsWear
  <2>6. pc = "done" /\ UNCHANGED <<pc, made>>
    BY DEF Damage, Running, program, observers
  <2> QED
    BY <2>1, <2>5, <2>6 DEF ProofIInv, ManifestInv
<1> QED
  BY <1>3, <1>4, MoveKeeps

LEMMA KillKeeps == ProofIInv /\ Kill => ProofIInv'
<1> SUFFICES ASSUME ProofIInv, Kill PROVE ProofIInv'
  OBVIOUS
<1>1. Ends
  BY DEF ProofIInv, TypeOK, Kill, world, observers, Ends
<1> QED
  BY <1>1, EndKeeps

LEMMA RunKeeps == ProofIInv /\ Run => ProofIInv'
<1> SUFFICES ASSUME ProofIInv, Run PROVE ProofIInv'
  OBVIOUS
<1>1. PICK op \in {"create", "verify"} : Begin(op)
  BY DEF Run
<1>2. runs' \in 0..MaxRuns
  BY ContentAssumption DEF ProofIInv, TypeOK, Run
<1> QED
  BY <1>1, <1>2, BeginKeeps DEF Run

LEMMA CommandKeeps == ProofIInv /\ (Create \/ Verify) => ProofIInv'
BY OpenImageKeeps, DigestKeeps, OpenManifestKeeps, EmitKeeps, LoadKeeps, OpenBothKeeps,
   ReadSourceKeeps, ReadTargetKeeps DEF Create, Verify

\* The inductive invariant of the proof manifests.
THEOREM ManifestInduction == Spec => []ProofIInv
<1>1. ProofIInv /\ [Next]_vars => ProofIInv'
  BY CommandKeeps, EditKeeps, DamageKeeps, KillKeeps, RunKeeps, Stutters DEF Next
<1> QED
  BY Initially, <1>1, PTL DEF Spec

\* What it says of a manifest that loads and of a verify that succeeds.
LEMMA LoadedIsMade == ProofIInv => LoadedIsGenuine
BY DEF ProofIInv, LoadedInv, Loaded, LoadedIsGenuine

LEMMA ProvenIsOnTarget == ProofIInv => ProvenMeansEqual
BY DEF ProofIInv, ProvenInv, Agreed, ProvenMeansEqual

-----------------------------------------------------------------------------
(* The chain of write, create and verify.                                  *)

LEMMA ChainInitially == ChainInit => ChainIInv
<1> SUFFICES ASSUME ChainInit PROVE ChainIInv
  OBVIOUS
<1>1. ProofIInv
  BY Initially DEF ChainInit
<1>2. ChainInv
  BY DEF ChainInit, Init, ChainInv, Running
<1>3. SealedIsProven
  BY DEF ChainInit, SealedIsProven
<1> QED
  BY <1>1, <1>2, <1>3 DEF ChainIInv

LEMMA StartChainKeeps == ChainIInv /\ StartChain => ChainIInv'
<1> SUFFICES ASSUME ChainIInv, StartChain PROVE ChainIInv'
  OBVIOUS
<1>1. ProofIInv'
  <2>1. runs' \in 0..MaxRuns
    BY ContentAssumption DEF ChainIInv, ProofIInv, TypeOK, StartChain
  <2>2. Moves
    BY <2>1 DEF ChainIInv, ProofIInv, TypeOK, StartChain, program, result, observers, Moves
  <2>3. ManifestInv'
    BY ManifestKept DEF ChainIInv, StartChain, program, observers
  <2> QED
    BY <2>2, <2>3, MoveKeeps DEF ChainIInv
<1>2. ChainInv'
  BY DEF StartChain, ChainInv, Running, program
<1>3. SealedIsProven'
  BY DEF StartChain, SealedIsProven
<1> QED
  BY <1>1, <1>2, <1>3 DEF ChainIInv

LEMMA CheckSealKeeps == ChainIInv /\ CheckSeal => ChainIInv'
<1> SUFFICES ASSUME ChainIInv, CheckSeal PROVE ChainIInv'
  OBVIOUS
<1>1. ProofIInv'
  BY Stutters DEF ChainIInv, CheckSeal
<1>2. source \in Seq(Bytes)
  BY Typed DEF ChainIInv
<1>3. UNCHANGED <<source, target, pc, status, final_state, source_moved, target_moved, stage,
                  exit>>
  BY DEF CheckSeal, vars, world, result, observers
<1>4. ChainInv'
  BY <1>2, <1>3 DEF ChainIInv, CheckSeal, ChainInv, Running
<1>5. SealedIsProven'
  BY <1>3 DEF ChainIInv, CheckSeal, ChainInv, SealedIsProven
<1> QED
  BY <1>1, <1>4, <1>5 DEF ChainIInv

LEMMA WriteTargetKeeps == ChainIInv /\ WriteTarget => ChainIInv'
<1> SUFFICES ASSUME ChainIInv, WriteTarget PROVE ChainIInv'
  OBVIOUS
<1>1. target' \in Targets /\ UNCHANGED <<goal, verdict>>
  BY DEF WriteTarget, Write!Modify
<1>2. ProofIInv'
  <2>1. Moves
    BY <1>1 DEF ChainIInv, ProofIInv, TypeOK, WriteTarget, program, result, Moves
  <2>2. ManifestInv'
    BY ManifestKept DEF ChainIInv, WriteTarget, program
  <2> QED
    BY <2>1, <2>2, MoveKeeps DEF ChainIInv
<1>3. ChainInv'
  BY <1>1 DEF ChainIInv, WriteTarget, program, ChainInv, Running
<1>4. SealedIsProven'
  BY DEF ChainIInv, WriteTarget, ChainInv, SealedIsProven
<1> QED
  BY <1>2, <1>3, <1>4 DEF ChainIInv

LEMMA WriteEndsKeeps == ChainIInv /\ (WriteFails \/ DieWriting) => ChainIInv'
<1> SUFFICES ASSUME ChainIInv, WriteFails \/ DieWriting PROVE ChainIInv'
  OBVIOUS
<1>1. ProofIInv'
  BY Stutters DEF ChainIInv, WriteFails, DieWriting
<1>2. ChainInv'
  BY DEF ChainIInv, WriteFails, DieWriting, ChainInv, Running
<1>3. SealedIsProven'
  BY DEF WriteFails, DieWriting, SealedIsProven
<1> QED
  BY <1>1, <1>2, <1>3 DEF ChainIInv

LEMMA WriteSucceedsKeeps == ChainIInv /\ WriteSucceeds => ChainIInv'
<1> SUFFICES ASSUME ChainIInv, WriteSucceeds PROVE ChainIInv'
  OBVIOUS
<1>1. ProofIInv'
  <2>1. UNCHANGED <<source, target, manifest, edits, damages, runs, made>> /\ Begin("create")
    BY DEF WriteSucceeds, world
  <2>2. runs' \in 0..MaxRuns
    BY <2>1 DEF ChainIInv, ProofIInv, TypeOK
  <2> QED
    BY <2>1, <2>2, BeginKeeps DEF ChainIInv
<1>2. goal # None /\ Len(goal) <= Len(target) /\ \A i \in 1..Len(goal) : target[i] = goal[i]
  BY DEF WriteSucceeds, Write!Succeed, Write!Delivered
<1>3. goal \in Seq(Bytes) /\ target \in Seq(Bytes)
  BY <1>2, Typed DEF ChainIInv, ChainInv, WriteSucceeds
<1>4. IsPrefix(goal, target)
  BY <1>2, <1>3, PrefixIs
<1>5. /\ stage = "write" /\ stage' = "create" /\ stirred' = FALSE
      /\ pc' = "open_image" /\ source_moved' = FALSE /\ target_moved' = FALSE
      /\ UNCHANGED <<source, target, goal, exit, edited>>
  BY DEF WriteSucceeds, Write!Succeed, Begin, world
<1>6. ChainInv'
  BY <1>2, <1>3, <1>4, <1>5 DEF ChainIInv, ChainInv, Running
<1>7. SealedIsProven'
  BY <1>5 DEF ChainIInv, ChainInv, SealedIsProven
<1> QED
  BY <1>1, <1>6, <1>7 DEF ChainIInv

LEMMA CreatedKeeps == ChainIInv /\ Created => ChainIInv'
<1> SUFFICES ASSUME ChainIInv, Created PROVE ChainIInv'
  OBVIOUS
<1>1. /\ stage = "create" /\ pc = "done"
      /\ UNCHANGED <<source, target, manifest, edits, damages, runs, goal, edited, stirred>>
  BY DEF Created, Running, world
<1>2. CASE stage' = "verify" /\ Begin("verify") /\ UNCHANGED <<made, exit>>
  <2>1. ProofIInv'
    <3>1. runs' \in 0..MaxRuns
      BY <1>1 DEF ChainIInv, ProofIInv, TypeOK
    <3> QED
      BY <1>1, <1>2, <3>1, BeginKeeps DEF ChainIInv
  <2>2. /\ pc' = "load" /\ status' = "running"
        /\ source_moved' = FALSE /\ target_moved' = FALSE
    BY <1>2 DEF Begin
  <2>3. ChainInv'
    BY <1>1, <1>2, <2>2 DEF ChainIInv, ChainInv, Running
  <2>4. SealedIsProven'
    BY <1>1, <1>2 DEF ChainIInv, ChainInv, SealedIsProven
  <2> QED
    BY <2>1, <2>3, <2>4 DEF ChainIInv
<1>3. CASE stage' = "idle" /\ exit' = "failed" /\ UNCHANGED <<program, observers>>
  <2>1. ProofIInv'
    BY <1>1, <1>3, Stutters DEF ChainIInv, vars, world, program, observers
  <2>2. ChainInv'
    BY <1>1, <1>3 DEF ChainIInv, ChainInv, Running, program
  <2>3. SealedIsProven'
    BY <1>3 DEF SealedIsProven
  <2> QED
    BY <2>1, <2>2, <2>3 DEF ChainIInv
<1> QED
  BY <1>2, <1>3 DEF Created

LEMMA ProvenKeeps == ChainIInv /\ Proven => ChainIInv'
<1> SUFFICES ASSUME ChainIInv, Proven PROVE ChainIInv'
  OBVIOUS
<1>1. ProofIInv'
  BY Stutters DEF ChainIInv, Proven
<1>2. /\ stage = "verify" /\ pc = "done" /\ stage' = "idle" /\ exit' = ExitCode
      /\ UNCHANGED <<source, target, pc, status, final_state, loaded, source_moved, target_moved,
                     goal, edited, stirred>>
  BY DEF Proven, Running, vars, world, result, observers
<1>3. ChainInv'
  BY <1>2 DEF ChainInv, Running
<1>4. SealedIsProven'
  <2>1. SUFFICES ASSUME exit' = "ok" PROVE SealedIsProven'
    BY DEF SealedIsProven
  <2>2. status = "ok"
    BY <1>2, <2>1 DEF ExitCode
  <2>3. /\ final_state = "success_proven"
        /\ goal \in Seq(Bytes) /\ goal # None
        /\ ~edited => source = goal /\ ~source_moved
        /\ ~stirred => IsPrefix(goal, target) /\ ~target_moved
    BY <1>2, <2>2 DEF ChainIInv, ChainInv
  <2>4. /\ Agreed = loaded.head.digest
        /\ ~source_moved => source = Agreed
        /\ ~target_moved => IsPrefix(Agreed, target)
    BY <2>3 DEF ChainIInv, ProofIInv, ProvenInv
  <2>5. (~edited /\ ~target_moved) => loaded.head.digest = goal /\ IsPrefix(goal, target)
    BY <2>3, <2>4
  <2>6. ~stirred => IsPrefix(goal, Agreed) \/ IsPrefix(Agreed, goal)
    <3>1. ProofIInv
      BY DEF ChainIInv
    <3> QED
      BY <2>3, <2>4, <3>1, Typed, PrefixesCompare
  <2> QED
    BY <1>2, <2>3, <2>4, <2>5, <2>6 DEF SealedIsProven
<1> QED
  BY <1>1, <1>3, <1>4 DEF ChainIInv

LEMMA ProceedKeeps == ChainIInv /\ Proceed => ChainIInv'
<1> SUFFICES ASSUME ChainIInv, Proceed PROVE ChainIInv'
  OBVIOUS
<1>1. ProofIInv'
  BY CommandKeeps DEF ChainIInv, Proceed
<1>2. UNCHANGED <<stage, goal, verdict, exit, edited, stirred>>
  BY DEF Proceed, chain
<1>3. UNCHANGED <<source, target>>
  BY DEF Proceed, Create, Verify, OpenImage, Digest, OpenManifest, Emit, Load, OpenBoth,
         ReadSource, ReadTarget, world
<1>4. (~source_moved => ~source_moved') /\ (~target_moved => ~target_moved')
  BY DEF Proceed, Create, Verify, OpenImage, Digest, OpenManifest, Emit, Load, OpenBoth,
         ReadSource, ReadTarget, observers
<1>5. pc # "done" /\ exit # "ok"
  <2>1. pc # "done"
    BY DEF Proceed, Create, Verify, OpenImage, Digest, OpenManifest, Emit, Load, OpenBoth,
           ReadSource, ReadTarget
  <2> QED
    BY <2>1 DEF ChainIInv, ChainInv, Running
<1>6. stage = "create" => pc' \notin {"load", "open_both", "read_source", "read_target"}
  <2>1. SUFFICES ASSUME stage = "create"
                 PROVE  pc' \in {pc, "digest", "open_manifest", "emit", "done"}
    BY DEF ChainIInv, ChainInv
  <2>2. Create
    BY <2>1 DEF ChainIInv, ChainInv, Proceed, Verify, Load, OpenBoth, ReadSource, ReadTarget
  <2> QED
    BY <2>2 DEF Create, OpenImage, Digest, OpenManifest, Emit, CreateFails, Return
<1>7. stage = "verify" =>
         /\ pc' \in {"load", "open_both", "read_source", "read_target", "done"}
         /\ status' = "ok" => final_state' = "success_proven"
  <2>1. SUFFICES ASSUME stage = "verify"
                 PROVE  /\ pc' \in {"load", "open_both", "read_source", "read_target", "done"}
                        /\ status' = "ok" => final_state' = "success_proven"
    OBVIOUS
  <2>2. /\ pc \in {"load", "open_both", "read_source", "read_target", "done"}
        /\ status = "ok" => final_state = "success_proven"
    BY <2>1 DEF ChainIInv, ChainInv
  <2>3. Load \/ OpenBoth \/ ReadSource \/ ReadTarget
    BY <2>2 DEF Proceed, Create, Verify, OpenImage, Digest, OpenManifest, Emit
  <2>4. CASE Load
    BY <2>2, <2>4 DEF Load, Return
  <2>5. CASE OpenBoth
    BY <2>2, <2>5 DEF OpenBoth, Return
  <2>6. CASE ReadSource
    BY <2>2, <2>6 DEF ReadSource, Conclude, Return, result
  <2>7. CASE ReadTarget
    BY <2>2, <2>7 DEF ReadTarget, Conclude, Return, result
  <2> QED
    BY <2>3, <2>4, <2>5, <2>6, <2>7
<1>8. stage # "write"
  BY <1>5 DEF ChainIInv, ChainInv, Running
<1>9. ChainInv'
  BY <1>2, <1>3, <1>4, <1>5, <1>6, <1>7, <1>8 DEF ChainIInv, ChainInv
<1>10. SealedIsProven'
  BY <1>2, <1>5 DEF SealedIsProven
<1> QED
  BY <1>1, <1>9, <1>10 DEF ChainIInv

LEMMA AloneKeeps == ChainIInv /\ Alone => ChainIInv'
<1> SUFFICES ASSUME ChainIInv, Alone PROVE ChainIInv'
  OBVIOUS
<1>1. ProofIInv'
  BY RunKeeps DEF ChainIInv, Alone
<1>2. ChainInv'
  BY DEF Alone, ChainInv
<1>3. SealedIsProven'
  BY DEF Alone, SealedIsProven
<1> QED
  BY <1>1, <1>2, <1>3 DEF ChainIInv

LEMMA DieKeeps == ChainIInv /\ Die => ChainIInv'
<1> SUFFICES ASSUME ChainIInv, Die PROVE ChainIInv'
  OBVIOUS
<1>1. ProofIInv'
  BY KillKeeps DEF ChainIInv, Die
<1>2. exit # "ok" /\ exit' = exit /\ stage' = "idle"
  BY DEF ChainIInv, ChainInv, Die, Kill
<1>3. ChainInv'
  BY <1>2 DEF ChainInv
<1>4. SealedIsProven'
  BY <1>2 DEF SealedIsProven
<1> QED
  BY <1>1, <1>3, <1>4 DEF ChainIInv

LEMMA InterfereKeeps == ChainIInv /\ Interfere => ChainIInv'
<1> SUFFICES ASSUME ChainIInv, Interfere PROVE ChainIInv'
  OBVIOUS
<1>1. ProofIInv'
  BY EditKeeps, DamageKeeps DEF ChainIInv, Interfere
<1>2. UNCHANGED <<pc, status, final_state, loaded, stage, goal, exit>>
  BY DEF Interfere, EditSource, EditTarget, Damage, program, result, chain
<1>3. \/ edited' = TRUE /\ UNCHANGED <<target, target_moved, stirred>>
      \/ stirred' = TRUE /\ target_moved' = TRUE /\ UNCHANGED <<source, source_moved, edited>>
      \/ UNCHANGED <<source, target, source_moved, target_moved, edited, stirred>>
  BY DEF Interfere, EditSource, EditTarget, Damage, observers, chain
<1>4. ChainInv'
  BY <1>2, <1>3 DEF ChainIInv, ChainInv, Running
<1>5. SealedIsProven'
  BY <1>2, <1>3 DEF ChainIInv, SealedIsProven
<1> QED
  BY <1>1, <1>4, <1>5 DEF ChainIInv

LEMMA ChainStutters == ChainIInv /\ UNCHANGED all_vars => ChainIInv'
<1> SUFFICES ASSUME ChainIInv, UNCHANGED all_vars PROVE ChainIInv'
  OBVIOUS
<1>1. ProofIInv'
  BY Stutters DEF ChainIInv, all_vars
<1>2. UNCHANGED <<source, target, pc, status, final_state, loaded, source_moved, target_moved,
                  stage, goal, exit, edited, stirred>>
  BY DEF all_vars, vars, chain, world, result, observers
<1>3. ChainInv' /\ SealedIsProven'
  BY <1>2 DEF ChainIInv, ChainInv, SealedIsProven, Running
<1> QED
  BY <1>1, <1>3 DEF ChainIInv

\* The inductive invariant of the chain.
THEOREM ChainInduction == ChainSpec => []ChainIInv
<1>1. ChainIInv /\ [ChainNext]_all_vars => ChainIInv'
  BY StartChainKeeps, CheckSealKeeps, WriteTargetKeeps, WriteEndsKeeps, WriteSucceedsKeeps,
     CreatedKeeps, ProvenKeeps, ProceedKeeps, AloneKeeps, DieKeeps, InterfereKeeps, ChainStutters
     DEF ChainNext, Chain
<1> QED
  BY ChainInitially, <1>1, PTL DEF ChainSpec

-----------------------------------------------------------------------------
(* The results, for the commands on their own (Spec) and for the command   *)
(* that chains them (ChainSpec, in which the others run as well).          *)

\* Every variable keeps its type (the state of src/src/proof.c).
THEOREM ManifestsAreTyped == (Spec => []TypeOK) /\ (ChainSpec => []TypeOK)
<1>1. ProofIInv => TypeOK
  BY DEF ProofIInv
<1>2. ChainIInv => TypeOK
  BY DEF ChainIInv, ProofIInv
<1> QED
  BY ManifestInduction, ChainInduction, <1>1, <1>2, PTL

\* A manifest that loads is, chunk by chunk, the one a create printed, however
\* often the file was torn, overwritten or damaged (manifest_load, merkle_root).
THEOREM LoadedManifestsAreGenuine ==
  (Spec => []LoadedIsGenuine) /\ (ChainSpec => []LoadedIsGenuine)
<1>1. ChainIInv => LoadedIsGenuine
  BY LoadedIsMade DEF ChainIInv
<1> QED
  BY ManifestInduction, ChainInduction, LoadedIsMade, <1>1, PTL

\* success_proven: the target begins with an image some create has read, unless
\* somebody wrote to the target while the verify ran (df_proof_verify).
THEOREM ProvenTargetsHoldTheImage ==
  (Spec => []ProvenMeansEqual) /\ (ChainSpec => []ProvenMeansEqual)
<1>1. ChainIInv => ProvenMeansEqual
  BY ProvenIsOnTarget DEF ChainIInv
<1> QED
  BY ManifestInduction, ChainInduction, ProvenIsOnTarget, <1>1, PTL

\* The offset a mismatch reports is that of the first byte that differs, for
\* images and chunks of every length (df_proof_verify, first_bad_offset).
THEOREM MismatchesAreExact ==
  (Spec => []MismatchIsExact) /\ (ChainSpec => []MismatchIsExact)
<1>1. ProofIInv => MismatchIsExact
  BY DEF ProofIInv
<1>2. ChainIInv => MismatchIsExact
  BY DEF ChainIInv, ProofIInv
<1> QED
  BY ManifestInduction, ChainInduction, <1>1, <1>2, PTL

\* A chain that exits with 0 has proven the sealed bytes, as far as nobody
\* touched image or target meanwhile (command_write of proof_main.c).
THEOREM TheSealedImageIsProven == ChainSpec => []SealedIsProven
<1>1. ChainIInv => SealedIsProven
  BY DEF ChainIInv
<1> QED
  BY ChainInduction, <1>1, PTL
=============================================================================
