----------------------------- MODULE BTreeProof -----------------------------
(***************************************************************************)
(* Theorems about BTree, for leaves and inner nodes of any size, any keys  *)
(* and rows, trees of any depth and any sequence of calls.                 *)
(*                                                                         *)
(* The invariant Tree does not say between which two keys a node's keys    *)
(* are.  A node is known by the keys whose searches come to it; the proof  *)
(* follows all searches at once, for every natural number, from the root   *)
(* down, and asks of a split only that each search finds on its side what  *)
(* it found before.                                                        *)
(***************************************************************************)
EXTENDS BTree, FiniteSetTheorems, WellFoundedInduction, SequenceTheorems, TLAPS

-----------------------------------------------------------------------------
(* Natural numbers: least elements and induction.                           *)

\* A set of naturals that is not empty has a least element: a smallest of the
\* intervals that end in it, which are finite.
LEMMA LeastNatural ==
  ASSUME NEW T, T \subseteq Nat, T # {}
  PROVE  \E n \in T : \A m \in T : n <= m
<1>. DEFINE Intervals == {0..n : n \in T}
<1>1. Intervals \subseteq FiniteSubsetsOf(Nat) /\ Intervals # {}
  <2>1. ASSUME NEW n \in T
        PROVE  0..n \in FiniteSubsetsOf(Nat)
    <3>1. n \in Nat /\ 0..n \subseteq Nat
      OBVIOUS
    <3>2. IsFiniteSet(0..n)
      BY <3>1, FS_Interval
    <3>. QED
      BY <3>1, <3>2 DEF FiniteSubsetsOf
  <2>. QED
    BY <2>1
<1>2. PICK X \in Intervals : \A Y \in Intervals : <<Y, X>> \notin StrictSubsetOrdering(Nat)
  <2>. HIDE DEF Intervals
  <2>. QED
    BY <1>1, FS_StrictSubsetOrderingWellFounded, WFMin
<1>3. PICK n \in T : X = 0..n
  OBVIOUS
<1>4. ASSUME NEW m \in T, m < n
      PROVE  FALSE
  <2>1. m \in Nat /\ n \in Nat /\ 0..m \in Intervals
    OBVIOUS
  <2>2. 0..m \subseteq 0..n /\ n \in 0..n /\ n \notin 0..m /\ 0..n \subseteq Nat
    BY <2>1, <1>4
  <2>. QED
    BY <1>2, <1>3, <2>1, <2>2 DEF StrictSubsetOrdering
<1>. QED
  BY <1>3, <1>4

\* Induction: a set with zero and the successors of its elements has every
\* natural number.
LEMMA Successors ==
  ASSUME NEW I, 0 \in I, \A n \in I \cap Nat : n + 1 \in I
  PROVE  Nat \subseteq I
<1>1. SUFFICES ASSUME Nat \ I # {}
               PROVE  FALSE
  OBVIOUS
<1>2. PICK n \in Nat \ I : \A m \in Nat \ I : n <= m
  BY <1>1, LeastNatural
<1>3. n - 1 \in Nat /\ n - 1 \in I
  BY <1>2
<1>. QED
  BY <1>2, <1>3

\* And downwards: what holds of a number, and below a number it holds of, holds of
\* all from zero up to it.
LEMMA Downward ==
  ASSUME NEW n \in Nat, NEW I, n \in I, \A d \in 0..(n - 1) : d + 1 \in I => d \in I
  PROVE  \A d \in 0..n : d \in I
<1>. DEFINE J == {m \in Nat : m <= n => n - m \in I}
<1>1. 0 \in J
  OBVIOUS
<1>2. ASSUME NEW m \in J \cap Nat
      PROVE  m + 1 \in J
  <2>1. SUFFICES ASSUME m + 1 <= n
                 PROVE  n - (m + 1) \in I
    OBVIOUS
  <2>2. n - (m + 1) \in 0..(n - 1) /\ (n - (m + 1)) + 1 = n - m /\ n - m \in I
    BY <2>1
  <2>. QED
    BY <2>2
<1>3. Nat \subseteq J
  <2>. HIDE DEF J
  <2>. QED
    BY <1>1, <1>2, Successors
<1>4. ASSUME NEW d \in 0..n
      PROVE  d \in I
  <2>1. n - d \in Nat /\ n - d <= n /\ n - (n - d) = d
    OBVIOUS
  <2>2. n - d \in J
    BY <1>3, <2>1
  <2>. QED
    BY <2>1, <2>2
<1>. QED
  BY <1>4
\* Least gives the least element of a set of naturals.
LEMMA LeastIs ==
  ASSUME NEW T, T \subseteq Nat, T # {}
  PROVE  Least(T) \in T /\ \A m \in T : Least(T) <= m
<1>1. PICK n \in T : \A m \in T : n <= m
  BY LeastNatural
<1>. QED
  BY <1>1 DEF Least

\* The least element is the only one below all others.
LEMMA LeastEquals ==
  ASSUME NEW T, T \subseteq Nat, NEW n \in T, \A m \in T : n <= m
  PROVE  Least(T) = n
<1>1. Least(T) \in T /\ Least(T) <= n
  BY LeastIs, n \in T, \A m \in T : n <= m
<1>2. Least(T) \in Nat /\ n <= Least(T) /\ n \in Nat
  BY <1>1
<1>. QED
  BY <1>1, <1>2

-----------------------------------------------------------------------------
(* Positions.  What the linear searches find in a node whose keys ascend.   *)

\* An inner node that fits its arrays, its keys ascending
Ascends(s) == \A i, j \in 1..Len(s) : i < j => s[i] < s[j]
InnerNode(node) ==
  /\ node \in [keys : Seq(Keys), kids : Seq(Nat)]
  /\ Len(node.keys) \in 1..N /\ Len(node.kids) = Len(node.keys) + 1
  /\ Ascends(node.keys)

\* Its keys are naturals.
LEMMA InnerTyped ==
  ASSUME NEW node, InnerNode(node)
  PROVE  /\ Len(node.keys) \in Nat
         /\ \A i \in 1..Len(node.keys) : node.keys[i] \in Keys /\ node.keys[i] \in Nat \ {0}
         /\ \A i \in 1..(Len(node.keys) + 1) : node.kids[i] \in Nat
<1>1. node.keys \in Seq(Keys) /\ node.kids \in Seq(Nat)
  BY DEF InnerNode
<1>2. /\ Len(node.keys) \in Nat
      /\ \A i \in 1..Len(node.keys) : node.keys[i] \in Keys
      /\ \A i \in 1..Len(node.kids) : node.kids[i] \in Nat
  BY <1>1
<1>. QED
  BY <1>2, TreeAssumption DEF InnerNode

\* The keys up to the position are not above the key, the next one is.
LEMMA InnerPosition ==
  ASSUME NEW node, InnerNode(node), NEW k \in Nat
  PROVE  LET p == inner_position_for(node, k)
         IN  /\ p \in 0..Len(node.keys)
             /\ \A i \in 1..p : node.keys[i] <= k
             /\ \A i \in (p + 1)..Len(node.keys) : k < node.keys[i]
<1>. DEFINE n == Len(node.keys)
            T == {i \in 0..n : i = n \/ node.keys[i + 1] > k}
            p == inner_position_for(node, k)
<1>1. /\ n \in Nat /\ T \subseteq Nat /\ n \in T
      /\ \A i \in 1..n : node.keys[i] \in Nat
  BY InnerTyped
<1>2. p = Least(T)
  BY DEF inner_position_for
<1>3. p \in T /\ \A m \in T : p <= m
  <2>. HIDE DEF T, p
  <2>. QED
    BY <1>1, <1>2, LeastIs
<1>4. ASSUME NEW i \in 1..p
      PROVE  node.keys[i] <= k
  <2>1. i - 1 \in 0..n /\ i - 1 < p /\ i \in 1..n
    BY <1>1, <1>3
  <2>. QED
    BY <1>1, <1>3, <2>1
<1>5. ASSUME NEW i \in (p + 1)..n
      PROVE  k < node.keys[i]
  <2>1. p < n /\ node.keys[p + 1] > k /\ i \in 1..n /\ p + 1 \in 1..n
    BY <1>1, <1>3
  <2>2. node.keys[p + 1] <= node.keys[i]
    BY <1>1, <2>1 DEF InnerNode, Ascends
  <2>. QED
    BY <1>1, <2>1, <2>2
<1>. QED
  BY <1>3, <1>4, <1>5

\* No other position does.
LEMMA InnerPositionIs ==
  ASSUME NEW node, InnerNode(node), NEW k \in Nat,
         NEW p \in 0..Len(node.keys),
         p > 0 => node.keys[p] <= k,
         p < Len(node.keys) => k < node.keys[p + 1]
  PROVE  inner_position_for(node, k) = p
<1>. DEFINE q == inner_position_for(node, k)
<1>1. /\ q \in 0..Len(node.keys)
      /\ \A i \in 1..q : node.keys[i] <= k
      /\ \A i \in (q + 1)..Len(node.keys) : k < node.keys[i]
  BY InnerPosition
<1>2. Len(node.keys) \in Nat /\ \A i \in 1..Len(node.keys) : node.keys[i] \in Nat
  BY InnerTyped
<1>. HIDE DEF q
<1>3. ~ q < p
  <2>1. q < p => p \in (q + 1)..Len(node.keys) /\ p > 0 /\ p \in 1..Len(node.keys)
    BY <1>1, <1>2
  <2>. QED
    BY <1>1, <1>2, <2>1
<1>4. ~ p < q
  <2>1. p < q => p + 1 \in 1..q /\ p < Len(node.keys) /\ p + 1 \in 1..Len(node.keys)
    BY <1>1, <1>2
  <2>. QED
    BY <1>1, <1>2, <2>1
<1>. QED
  BY <1>1, <1>2, <1>3, <1>4 DEF q

\* A leaf that fits its arrays, its keys ascending; the slots past them hold
\* zero or a key that no search for a key of S mistakes for its own.
Leaf(l, S) ==
  /\ l \in [n : 0..M, keys : [Slots -> Keys \union {0}], vals : [Slots -> Rows \union {Null}]]
  /\ \A i, j \in 0..(l.n - 1) : i < j => l.keys[i] < l.keys[j]
  /\ \A j \in 0..(l.n - 1) : l.keys[j] \in Keys \cap S
  /\ \A j \in l.n..(M - 1) : l.keys[j] \notin Keys \cap S

\* Its keys are naturals, and so are the slots.
LEMMA LeafTyped ==
  ASSUME NEW l, NEW S, Leaf(l, S)
  PROVE  /\ l.n \in Nat /\ l.n <= M
         /\ \A j \in 0..(M - 1) : l.keys[j] \in Nat
         /\ \A j \in 0..(l.n - 1) : l.keys[j] \in Nat
         /\ \A j \in 0..(M - 1) : l.vals[j] \in Rows \union {Null}
<1>1. /\ l.n \in 0..M /\ l.keys \in [0..(M - 1) -> Keys \union {0}]
      /\ l.vals \in [0..(M - 1) -> Rows \union {Null}]
  BY DEF Leaf, Slots
<1>2. \A j \in 0..(M - 1) : l.keys[j] \in Keys \union {0} /\ l.vals[j] \in Rows \union {Null}
  BY <1>1
<1>3. l.n \in Nat /\ l.n <= M /\ \A j \in 0..(l.n - 1) : j \in 0..(M - 1)
  BY <1>1, TreeAssumption
<1>4. \A j \in 0..(M - 1) : l.keys[j] \in Nat
  <2>1. \A x \in Keys \union {0} : x \in Nat
    BY TreeAssumption
  <2>. QED
    BY <1>2, <2>1
<1>. QED
  BY <1>2, <1>3, <1>4

\* The keys before the position are below the key, the others are not.
LEMMA LeafPosition ==
  ASSUME NEW l, NEW S, Leaf(l, S), NEW k \in Nat
  PROVE  LET p == leaf_position_for(l, k)
         IN  /\ p \in 0..l.n
             /\ \A i \in 0..(p - 1) : l.keys[i] < k
             /\ \A i \in p..(l.n - 1) : k <= l.keys[i]
<1>. DEFINE T == {i \in 0..l.n : i = l.n \/ l.keys[i] >= k}
            p == leaf_position_for(l, k)
<1>1. /\ l.n \in Nat /\ T \subseteq Nat /\ l.n \in T
      /\ \A i \in 0..(l.n - 1) : l.keys[i] \in Nat
  BY LeafTyped
<1>2. p = Least(T)
  BY DEF leaf_position_for
<1>3. p \in T /\ \A m \in T : p <= m
  <2>. HIDE DEF T, p
  <2>. QED
    BY <1>1, <1>2, LeastIs
<1>4. ASSUME NEW i \in 0..(p - 1)
      PROVE  l.keys[i] < k
  BY <1>1, <1>3
<1>5. ASSUME NEW i \in p..(l.n - 1)
      PROVE  k <= l.keys[i]
  <2>1. p < l.n /\ l.keys[p] >= k /\ i \in 0..(l.n - 1) /\ p \in 0..(l.n - 1)
    BY <1>1, <1>3
  <2>2. l.keys[p] <= l.keys[i]
    BY <1>1, <2>1 DEF Leaf
  <2>. QED
    BY <1>1, <2>1, <2>2
<1>. QED
  BY <1>3, <1>4, <1>5

\* No other position does.
LEMMA LeafPositionIs ==
  ASSUME NEW l, NEW S, Leaf(l, S), NEW k \in Nat, NEW p \in 0..l.n,
         p > 0 => l.keys[p - 1] < k,
         p < l.n => k <= l.keys[p]
  PROVE  leaf_position_for(l, k) = p
<1>. DEFINE q == leaf_position_for(l, k)
<1>1. /\ q \in 0..l.n
      /\ \A i \in 0..(q - 1) : l.keys[i] < k
      /\ \A i \in q..(l.n - 1) : k <= l.keys[i]
  BY LeafPosition
<1>2. l.n \in Nat /\ \A i \in 0..(l.n - 1) : l.keys[i] \in Nat
  BY LeafTyped
<1>. HIDE DEF q
<1>3. ~ q < p
  <2>1. q < p => p - 1 \in q..(l.n - 1) /\ p > 0 /\ p - 1 \in 0..(l.n - 1)
    BY <1>1, <1>2
  <2>. QED
    BY <1>1, <1>2, <2>1
<1>4. ~ p < q
  <2>1. p < q => p \in 0..(q - 1) /\ p < l.n /\ p \in 0..(l.n - 1)
    BY <1>1, <1>2
  <2>. QED
    BY <1>1, <1>2, <2>1
<1>. QED
  BY <1>1, <1>2, <1>3, <1>4 DEF q

-----------------------------------------------------------------------------
(* Inner nodes.  What InsertionResult of a child makes of its parent.       *)

\* An element goes in at its place and moves the later ones up.
IsInserted(r, s, p, e) ==
  /\ Len(r) = Len(s) + 1 /\ r[p + 1] = e
  /\ \A i \in 1..p : r[i] = s[i]
  /\ \A i \in (p + 2)..(Len(s) + 1) : r[i] = s[i - 1]

\* So InsertAt puts it, for the code's loop that shifts keys and children up.
LEMMA Inserted ==
  ASSUME NEW S, NEW s \in Seq(S), NEW e \in S, NEW p \in 0..Len(s)
  PROVE  InsertAt(s, p + 1, e) \in Seq(S) /\ IsInserted(InsertAt(s, p + 1, e), s, p, e)
<1>. DEFINE a == SubSeq(s, 1, p)
            c == SubSeq(s, p + 1, Len(s))
<1>1. /\ Len(s) \in Nat /\ p \in Nat
      /\ \A i \in 1..p : s[i] \in S
      /\ \A i \in (p + 1)..Len(s) : s[i] \in S
  OBVIOUS
<1>2. /\ a \in Seq(S) /\ Len(a) = p
      /\ \A i \in 1..p : a[i] = s[i]
  <2>1. /\ a \in Seq(S) /\ Len(a) = (IF 1 <= p THEN p - 1 + 1 ELSE 0)
        /\ \A i \in 1..(p - 1 + 1) : a[i] = s[1 + i - 1]
    BY <1>1, SubSeqProperties
  <2>. QED
    BY <1>1, <2>1
<1>3. /\ c \in Seq(S) /\ Len(c) = Len(s) - p
      /\ \A i \in 1..(Len(s) - p) : c[i] = s[p + i]
  <2>1. /\ c \in Seq(S) /\ Len(c) = (IF p + 1 <= Len(s) THEN Len(s) - (p + 1) + 1 ELSE 0)
        /\ \A i \in 1..(Len(s) - (p + 1) + 1) : c[i] = s[p + 1 + i - 1]
    BY <1>1, SubSeqProperties
  <2>. QED
    BY <1>1, <2>1
<1>. HIDE DEF a, c
<1>. DEFINE ae == a \o <<e>>
<1>4. /\ ae \in Seq(S) /\ Len(ae) = p + 1 /\ ae[p + 1] = e
      /\ \A i \in 1..p : ae[i] = s[i]
  BY <1>1, <1>2
<1>. HIDE DEF ae
<1>. DEFINE r == ae \o c
<1>5. /\ r \in Seq(S) /\ Len(r) = Len(s) + 1
      /\ \A i \in 1..(p + 1) : r[i] = ae[i]
      /\ \A i \in (p + 2)..(Len(s) + 1) : r[i] = c[i - (p + 1)]
  BY <1>1, <1>3, <1>4
<1>6. ASSUME NEW i \in (p + 2)..(Len(s) + 1)
      PROVE  r[i] = s[i - 1]
  <2>1. i - (p + 1) \in 1..(Len(s) - p) /\ p + (i - (p + 1)) = i - 1
    BY <1>1
  <2>. QED
    BY <1>3, <1>5, <2>1
<1>7. r = InsertAt(s, p + 1, e)
  <2>1. (p + 1) - 1 = p
    BY <1>1
  <2>2. SubSeq(s, 1, (p + 1) - 1) = a
    BY <2>1 DEF a
  <2>. QED
    BY <2>2 DEF InsertAt, ae, c
<1>8. \A i \in 1..p : r[i] = s[i]
  BY <1>1, <1>4, <1>5
<1>. HIDE DEF r
<1>. QED
  BY <1>1, <1>4, <1>5, <1>6, <1>7, <1>8 DEF IsInserted

\* A key u that belongs below the child at a position goes in after it, with the
\* address of the child's sibling: keys from u up are the sibling's now, and no
\* other child loses or gains one.
WithSibling(node, key, u, s, new) ==
  LET p == inner_position_for(node, key)
      at(k) == inner_position_for(node, k)
  IN  /\ InnerNode(new)
      /\ \A i \in 1..Len(new.keys) :
           new.keys[i] = u \/ \E j \in 1..Len(node.keys) : new.keys[i] = node.keys[j]
      /\ new.keys[1] = IF p = 0 THEN u ELSE node.keys[1]
      /\ \A k \in Nat :
           /\ inner_position_for(new, k) =
                IF at(k) < p \/ (at(k) = p /\ k < u) THEN at(k) ELSE at(k) + 1
           /\ Child(new, inner_position_for(new, k)) =
                IF at(k) = p /\ u <= k THEN s ELSE Child(node, at(k))

\* So inner_insert_nonfull puts it.
LEMMA Grows ==
  ASSUME NEW node, InnerNode(node), Len(node.keys) < N,
         NEW key \in Nat, NEW u \in Keys, NEW s \in Nat,
         inner_position_for(node, key) > 0 => node.keys[inner_position_for(node, key)] < u,
         inner_position_for(node, key) < Len(node.keys)
           => u < node.keys[inner_position_for(node, key) + 1]
  PROVE  WithSibling(node, key, u, s, inner_insert_nonfull(node, key, <<u, s>>))
<1>. DEFINE p == inner_position_for(node, key)
            new == inner_insert_nonfull(node, key, <<u, s>>)
            at(k) == inner_position_for(node, k)
            n == Len(node.keys)
<1>1. /\ n \in Nat /\ n > 0 /\ n < N /\ N \in Nat
      /\ \A i \in 1..n : node.keys[i] \in Keys /\ node.keys[i] \in Nat
      /\ Len(node.kids) = n + 1 /\ node.keys \in Seq(Keys) /\ node.kids \in Seq(Nat)
      /\ u \in Nat
  BY InnerTyped, TreeAssumption DEF InnerNode
<1>2. /\ p \in 0..n
      /\ \A i \in 1..p : node.keys[i] <= key
      /\ \A i \in (p + 1)..n : key < node.keys[i]
  BY InnerPosition
<1>3. new = [keys |-> InsertAt(node.keys, p + 1, u), kids |-> InsertAt(node.kids, p + 2, s)]
  <2>1. <<u, s>> # <<>>
    OBVIOUS
  <2>. QED
    BY <2>1 DEF inner_insert_nonfull
<1>. HIDE DEF p, new, n
<1>4. /\ new.keys \in Seq(Keys) /\ Len(new.keys) = n + 1
      /\ new.keys[p + 1] = u
      /\ \A i \in 1..p : new.keys[i] = node.keys[i]
      /\ \A i \in (p + 2)..(n + 1) : new.keys[i] = node.keys[i - 1]
  <2>1. p \in 0..Len(node.keys)
    BY <1>2 DEF n
  <2>2. new.keys = InsertAt(node.keys, p + 1, u)
    BY <1>3
  <2>. QED
    <3>1. new.keys \in Seq(Keys) /\ IsInserted(new.keys, node.keys, p, u)
      BY <1>1, <2>1, <2>2, Inserted
    <3>. QED
      BY <3>1 DEF IsInserted, n
<1>5. /\ new.kids \in Seq(Nat) /\ Len(new.kids) = n + 2
      /\ new.kids[p + 2] = s
      /\ \A i \in 1..(p + 1) : new.kids[i] = node.kids[i]
      /\ \A i \in (p + 3)..(n + 2) : new.kids[i] = node.kids[i - 1]
  <2>. DEFINE m == p + 1
  <2>1. m \in 0..Len(node.kids) /\ m + 1 = p + 2 /\ m + 2 = p + 3
    <3>1. p \in 0..n /\ n \in Nat /\ Len(node.kids) = n + 1
      BY <1>1, <1>2
    <3>. QED
      BY <3>1
  <2>2. new.kids = InsertAt(node.kids, m + 1, s)
    BY <1>3, <2>1
  <2>. HIDE DEF m
  <2>3. new.kids \in Seq(Nat) /\ IsInserted(new.kids, node.kids, m, s)
    BY <1>1, <2>1, <2>2, Inserted
  <2>. QED
    BY <1>1, <1>2, <2>1, <2>3 DEF m, IsInserted
<1>6. /\ \A i \in 1..p : node.keys[i] < u
      /\ \A i \in (p + 1)..n : u < node.keys[i]
  <2>1. /\ p > 0 => node.keys[p] < u
        /\ p < n => u < node.keys[p + 1]
    BY DEF p, n
  <2>2. ASSUME NEW i \in 1..p
        PROVE  node.keys[i] < u
    <3>1. p > 0 /\ p \in 1..n /\ i \in 1..n /\ (i = p \/ i < p)
      BY <1>1, <1>2
    <3>2. node.keys[i] \in Nat /\ node.keys[p] \in Nat /\ u \in Nat
      BY <1>1, <3>1
    <3>3. node.keys[i] <= node.keys[p]
      <4>1. i < p => node.keys[i] < node.keys[p]
        BY <3>1 DEF InnerNode, Ascends, n
      <4>. QED
        BY <3>1, <3>2, <4>1
    <3>4. node.keys[p] < u
      BY <2>1, <3>1
    <3>. QED
      BY <3>2, <3>3, <3>4
  <2>3. ASSUME NEW i \in (p + 1)..n
        PROVE  u < node.keys[i]
    <3>1. p < n /\ p + 1 \in 1..n /\ i \in 1..n /\ (i = p + 1 \/ p + 1 < i)
      BY <1>1, <1>2
    <3>2. node.keys[p + 1] <= node.keys[i] /\ node.keys[p + 1] \in Nat /\ node.keys[i] \in Nat
      <4>1. node.keys[p + 1] \in Nat /\ node.keys[i] \in Nat
        BY <1>1, <3>1
      <4>2. p + 1 < i => node.keys[p + 1] < node.keys[i]
        BY <3>1 DEF InnerNode, Ascends, n
      <4>. QED
        BY <3>1, <4>1, <4>2
    <3>3. u \in Nat /\ u < node.keys[p + 1]
      BY <1>1, <2>1, <3>1
    <3>. QED
      BY <3>2, <3>3
  <2>. QED
    BY <2>2, <2>3
<1>7. ASSUME NEW i \in 1..(n + 1)
      PROVE  \/ i \in 1..p /\ i \in 1..n /\ new.keys[i] = node.keys[i]
             \/ i = p + 1 /\ new.keys[i] = u
             \/ i \in (p + 2)..(n + 1) /\ i - 1 \in (p + 1)..n /\ i - 1 \in 1..n
                /\ new.keys[i] = node.keys[i - 1]
  <2>1. \/ i \in 1..p /\ i \in 1..n
        \/ i = p + 1
        \/ i \in (p + 2)..(n + 1) /\ i - 1 \in (p + 1)..n /\ i - 1 \in 1..n
    <3>1. p \in 0..n /\ n \in Nat
      BY <1>1, <1>2
    <3>. QED
      BY <3>1
  <2>. QED
    BY <1>4, <2>1
<1>8. Ascends(new.keys)
  <2>1. ASSUME NEW i \in 1..(n + 1), NEW j \in 1..(n + 1), i < j
        PROVE  new.keys[i] < new.keys[j]
    <3>1. /\ \A a, c \in 1..n : a < c => node.keys[a] < node.keys[c]
      BY DEF InnerNode, Ascends, n
    <3>2. /\ \A a \in 1..p : node.keys[a] \in Nat
          /\ \A a \in (p + 1)..n : node.keys[a] \in Nat
      <4>1. (\A a \in 1..p : a \in 1..n) /\ (\A a \in (p + 1)..n : a \in 1..n)
        BY <1>1, <1>2
      <4>. QED
        BY <1>1, <4>1
    <3>3. CASE i \in 1..p /\ i \in 1..n /\ new.keys[i] = node.keys[i]
      <4>1. CASE j \in 1..p /\ j \in 1..n /\ new.keys[j] = node.keys[j]
        BY <2>1, <3>1, <3>3, <4>1
      <4>2. CASE j = p + 1 /\ new.keys[j] = u
        BY <1>6, <3>3, <4>2
      <4>3. CASE /\ j \in (p + 2)..(n + 1) /\ j - 1 \in (p + 1)..n /\ j - 1 \in 1..n
                 /\ new.keys[j] = node.keys[j - 1]
        <5>1. i < j - 1
          BY <1>1, <1>2, <3>3, <4>3
        <5>. QED
          BY <3>1, <3>3, <4>3, <5>1
      <4>. QED
        BY <1>7, <4>1, <4>2, <4>3
    <3>4. CASE i = p + 1 /\ new.keys[i] = u
      <4>1. j \in (p + 2)..(n + 1)
        BY <1>1, <1>2, <2>1, <3>4
      <4>2. j - 1 \in (p + 1)..n
        BY <1>1, <1>2, <4>1
      <4>. QED
        BY <1>4, <1>6, <3>4, <4>1, <4>2
    <3>5. CASE /\ i \in (p + 2)..(n + 1) /\ i - 1 \in (p + 1)..n /\ i - 1 \in 1..n
               /\ new.keys[i] = node.keys[i - 1]
      <4>1. j \in (p + 2)..(n + 1) /\ j - 1 \in 1..n /\ i - 1 < j - 1
        BY <1>1, <1>2, <2>1, <3>5
      <4>. QED
        BY <1>4, <3>1, <3>5, <4>1
    <3>. QED
      BY <1>7, <3>3, <3>4, <3>5
  <2>. QED
    BY <2>1, <1>4 DEF Ascends
<1>9. InnerNode(new)
  <2>1. new \in [keys : Seq(Keys), kids : Seq(Nat)]
    BY <1>3, <1>4, <1>5
  <2>. QED
    BY <2>1, <1>1, <1>4, <1>5, <1>8 DEF InnerNode
<1>10. ASSUME NEW k \in Nat
       PROVE  /\ inner_position_for(new, k) =
                   IF at(k) < p \/ (at(k) = p /\ k < u) THEN at(k) ELSE at(k) + 1
              /\ Child(new, inner_position_for(new, k)) =
                   IF at(k) = p /\ u <= k THEN s ELSE Child(node, at(k))
  <2>. DEFINE q == at(k)
              r == IF q < p \/ (q = p /\ k < u) THEN q ELSE q + 1
  <2>1. /\ q \in 0..n
        /\ \A i \in 1..q : node.keys[i] <= k
        /\ \A i \in (q + 1)..n : k < node.keys[i]
    BY InnerPosition DEF n
  <2>. HIDE DEF q
  <2>2. r \in 0..(n + 1)
    BY <2>1, <1>1, <1>2
  <2>3. r > 0 => new.keys[r] <= k
    <3>1. CASE q < p \/ (q = p /\ k < u)
      <4>1. r = q /\ (r > 0 => r \in 1..p /\ r \in 1..q)
        BY <3>1, <2>1, <1>1, <1>2
      <4>. QED
        BY <4>1, <2>1, <1>4
    <3>2. CASE q = p /\ u <= k
      <4>1. r = p + 1
        BY <3>2, <2>1, <1>1, <1>2
      <4>. QED
        BY <3>2, <4>1, <1>4
    <3>3. CASE p < q
      <4>1. ~(q < p \/ (q = p /\ k < u))
        BY <3>3, <2>1, <1>1, <1>2
      <4>2. r = q + 1 /\ r \in (p + 2)..(n + 1) /\ r - 1 = q /\ q \in 1..q
        BY <4>1, <3>3, <2>1, <1>1, <1>2
      <4>. QED
        BY <4>2, <2>1, <1>4
    <3>. QED
      BY <3>1, <3>2, <3>3, <2>1, <1>1, <1>2
  <2>4. r < n + 1 => k < new.keys[r + 1]
    <3>1. CASE q < p
      <4>1. r = q /\ r + 1 \in 1..p /\ q + 1 \in (q + 1)..n
        BY <3>1, <2>1, <1>1, <1>2
      <4>. QED
        BY <4>1, <2>1, <1>4
    <3>2. CASE q = p /\ k < u
      <4>1. r = p
        BY <3>2
      <4>. QED
        BY <3>2, <4>1, <1>4
    <3>3. CASE p < q \/ (q = p /\ u <= k)
      <4>1. ~(q < p \/ (q = p /\ k < u))
        BY <3>3, <2>1, <1>1, <1>2
      <4>2. r = q + 1 /\ (r + 1) - 1 = q + 1
        BY <4>1, <2>1, <1>1
      <4>3. r < n + 1 => r + 1 \in (p + 2)..(n + 1) /\ q + 1 \in (q + 1)..n
        BY <4>2, <3>3, <2>1, <1>1, <1>2
      <4>4. r < n + 1 => new.keys[r + 1] = node.keys[(r + 1) - 1]
        <5>. HIDE DEF r
        <5>. QED
          BY <4>3, <1>4
      <4>. QED
        BY <4>2, <4>3, <4>4, <2>1
    <3>. QED
      BY <3>1, <3>2, <3>3, <2>1, <1>1, <1>2
  <2>5. inner_position_for(new, k) = r
    <3>. HIDE DEF r
    <3>. QED
      BY <2>2, <2>3, <2>4, <1>4, <1>9, InnerPositionIs
  <2>6. new.kids[r + 1] = IF q = p /\ u <= k THEN s ELSE node.kids[q + 1]
    <3>1. CASE q < p \/ (q = p /\ k < u)
      <4>1. r = q /\ q + 1 \in 1..(p + 1)
        BY <3>1, <2>1, <1>1, <1>2
      <4>2. ~(q = p /\ u <= k)
        BY <3>1, <2>1, <1>1, <1>2
      <4>. QED
        BY <4>1, <4>2, <1>5
    <3>2. CASE q = p /\ u <= k
      <4>1. r + 1 = p + 2
        BY <3>2, <2>1, <1>1, <1>2
      <4>. QED
        BY <3>2, <4>1, <1>5
    <3>3. CASE p < q
      <4>1. ~(q < p \/ (q = p /\ k < u)) /\ q # p
        BY <3>3, <2>1, <1>1, <1>2
      <4>2. r = q + 1 /\ (r + 1) - 1 = q + 1
        BY <4>1, <2>1, <1>1
      <4>3. r + 1 \in (p + 3)..(n + 2)
        <5>1. p \in 0..n /\ q \in 0..n /\ n \in Nat /\ r = q + 1 /\ p < q
          BY <3>3, <4>2, <2>1, <1>1, <1>2
        <5>. HIDE DEF r
        <5>. QED
          BY <5>1
      <4>4. new.kids[r + 1] = node.kids[(r + 1) - 1]
        <5>. HIDE DEF r
        <5>. QED
          BY <4>3, <1>5
      <4>. QED
        BY <4>1, <4>2, <4>4
    <3>. QED
      BY <3>1, <3>2, <3>3, <2>1, <1>1, <1>2
  <2>. QED
    BY <2>5, <2>6 DEF q, Child
<1>11. \A i \in 1..Len(new.keys) :
         new.keys[i] = u \/ \E j \in 1..Len(node.keys) : new.keys[i] = node.keys[j]
  BY <1>4, <1>7 DEF n
<1>12. new.keys[1] = IF p = 0 THEN u ELSE node.keys[1]
  BY <1>1, <1>2, <1>4
<1>. QED
  BY <1>9, <1>10, <1>11, <1>12 DEF p, new, WithSibling

\* A split of a child that a node can take in, and what the node is after that:
\* its keys, and the position and the child that a search for any key finds.
Fits(node, key, split) ==
  \/ split = <<>>
  \/ LET p == inner_position_for(node, key)
     IN  /\ split # <<>> /\ split = <<split[1], split[2]>> /\ split[1] \in Keys /\ split[2] \in Nat
         /\ p > 0 => node.keys[p] < split[1]
         /\ p < Len(node.keys) => split[1] < node.keys[p + 1]
Grown(node, key, split, new) ==
  LET p == inner_position_for(node, key)
      at(k) == inner_position_for(node, k)
  IN  /\ InnerNode(new)
      /\ \A i \in 1..Len(new.keys) :
           \/ split # <<>> /\ new.keys[i] = split[1]
           \/ \E j \in 1..Len(node.keys) : new.keys[i] = node.keys[j]
      /\ new.keys[1] = IF split # <<>> /\ p = 0 THEN split[1] ELSE node.keys[1]
      /\ \A k \in Nat : inner_position_for(new, k) =
           IF split # <<>> /\ (p < at(k) \/ (p = at(k) /\ split[1] <= k)) THEN at(k) + 1 ELSE at(k)
      /\ \A k \in Nat : Child(new, inner_position_for(new, k)) =
           IF split # <<>> /\ p = at(k) /\ split[1] <= k THEN split[2] ELSE Child(node, at(k))

\* inner_insert_nonfull makes a node with room into that node.
LEMMA NonfullGrown ==
  ASSUME NEW node, InnerNode(node), Len(node.keys) < N,
         NEW key \in Nat, NEW split, Fits(node, key, split)
  PROVE  Grown(node, key, split, inner_insert_nonfull(node, key, split))
<1>. DEFINE p == inner_position_for(node, key)
            new == inner_insert_nonfull(node, key, split)
            at(k) == inner_position_for(node, k)
<1>1. CASE split = <<>>
  <2>1. new = node
    BY <1>1 DEF inner_insert_nonfull
  <2>2. 1 \in 1..Len(node.keys)
    BY InnerTyped DEF InnerNode
  <2>. QED
    BY <1>1, <2>1, <2>2 DEF Grown
<1>2. CASE split # <<>>
  <2>. DEFINE u == split[1]
              s == split[2]
  <2>1. /\ split = <<u, s>> /\ u \in Keys /\ s \in Nat
        /\ p > 0 => node.keys[p] < u
        /\ p < Len(node.keys) => u < node.keys[p + 1]
    BY <1>2 DEF Fits
  <2>2. /\ u \in Nat /\ p \in Nat /\ \A k \in Nat : at(k) \in Nat
    BY <2>1, InnerPosition, TreeAssumption
  <2>. HIDE DEF u, s
  <2>3. /\ InnerNode(new)
        /\ \A i \in 1..Len(new.keys) :
             new.keys[i] = u \/ \E j \in 1..Len(node.keys) : new.keys[i] = node.keys[j]
        /\ new.keys[1] = IF p = 0 THEN u ELSE node.keys[1]
        /\ \A k \in Nat :
             /\ inner_position_for(new, k) =
                  IF at(k) < p \/ (at(k) = p /\ k < u) THEN at(k) ELSE at(k) + 1
             /\ Child(new, inner_position_for(new, k)) =
                  IF at(k) = p /\ u <= k THEN s ELSE Child(node, at(k))
    <3>1. WithSibling(node, key, u, s, inner_insert_nonfull(node, key, <<u, s>>))
      BY <2>1, Grows
    <3>2. WithSibling(node, key, u, s, new)
      BY <2>1, <3>1
    <3>. HIDE DEF new
    <3>. QED
      BY <3>2 DEF WithSibling
  <2>. HIDE DEF p, new, at
  <2>4. ASSUME NEW k \in Nat
        PROVE  inner_position_for(new, k) =
                 IF p < at(k) \/ (p = at(k) /\ u <= k) THEN at(k) + 1 ELSE at(k)
    <3>1. at(k) \in Nat /\ p \in Nat /\ u \in Nat
      BY <2>2
    <3>2. (p < at(k) \/ (p = at(k) /\ u <= k)) <=> ~(at(k) < p \/ (at(k) = p /\ k < u))
      BY <3>1
    <3>. QED
      BY <2>3, <3>2
  <2>. QED
    BY <1>2, <2>3, <2>4 DEF Grown, p, new, at, u, s
<1>. QED
  BY <1>1, <1>2

\* The two halves of a full node: each key is searched for in the half it belongs
\* to at the place, and comes to the child, that it came to in the whole.
LeftOf(node) ==
  LET t == (N + 1) \div 2
  IN  [keys |-> SubSeq(node.keys, 1, t - 1), kids |-> SubSeq(node.kids, 1, t)]
RightOf(node) ==
  LET t == (N + 1) \div 2
  IN  [keys |-> SubSeq(node.keys, t + 1, N), kids |-> SubSeq(node.kids, t + 1, N + 1)]

\* A search is in the half that UpKey says as it was in the whole.
LEMMA Halves ==
  ASSUME NEW node, InnerNode(node), Len(node.keys) = N
  PROVE  LET t == (N + 1) \div 2
             left == LeftOf(node)
             right == RightOf(node)
             at(k) == inner_position_for(node, k)
         IN  /\ t \in 2..(N - 1) /\ UpKey(node) = node.keys[t]
             /\ InnerNode(left) /\ Len(left.keys) = t - 1
             /\ InnerNode(right) /\ Len(right.keys) = N - t
             /\ \A i \in 1..(t - 1) : left.keys[i] = node.keys[i]
             /\ \A i \in 1..(N - t) : right.keys[i] = node.keys[t + i]
             /\ \A k \in Nat : k < node.keys[t] =>
                  /\ at(k) < t /\ inner_position_for(left, k) = at(k)
                  /\ Child(left, at(k)) = Child(node, at(k))
             /\ \A k \in Nat : node.keys[t] <= k =>
                  /\ t <= at(k) /\ inner_position_for(right, k) = at(k) - t
                  /\ Child(right, at(k) - t) = Child(node, at(k))
<1>. DEFINE t == (N + 1) \div 2
            left == LeftOf(node)
            right == RightOf(node)
            at(k) == inner_position_for(node, k)
<1>1. t \in 2..(N - 1) /\ N \in Nat /\ t \in Nat
  BY TreeAssumption
<1>2. UpKey(node) = node.keys[t]
  BY DEF UpKey
<1>3. /\ \A i \in 1..N : node.keys[i] \in Keys /\ node.keys[i] \in Nat
      /\ \A i \in 1..(N + 1) : node.kids[i] \in Nat
      /\ \A i, j \in 1..N : i < j => node.keys[i] < node.keys[j]
  BY InnerTyped DEF InnerNode, Ascends
<1>4. left = [keys |-> SubSeq(node.keys, 1, t - 1), kids |-> SubSeq(node.kids, 1, t)]
  BY DEF LeftOf
<1>5. right = [keys |-> SubSeq(node.keys, t + 1, N), kids |-> SubSeq(node.kids, t + 1, N + 1)]
  BY DEF RightOf
<1>. HIDE DEF t, left, right
<1>6. /\ left.keys \in Seq(Keys) /\ Len(left.keys) = t - 1
      /\ \A i \in 1..(t - 1) : left.keys[i] = node.keys[i]
  <2>1. \A i \in 1..(t - 1) : node.keys[i] \in Keys
    BY <1>1, <1>3
  <2>2. /\ SubSeq(node.keys, 1, t - 1) \in Seq(Keys)
        /\ Len(SubSeq(node.keys, 1, t - 1)) = IF 1 <= t - 1 THEN ((t - 1) - 1) + 1 ELSE 0
        /\ \A i \in 1..(((t - 1) - 1) + 1) :
             SubSeq(node.keys, 1, t - 1)[i] = node.keys[(1 + i) - 1]
    BY <1>1, <2>1, SubSeqProperties
  <2>. QED
    BY <1>1, <1>4, <2>2
<1>7. /\ left.kids \in Seq(Nat) /\ Len(left.kids) = t
      /\ \A i \in 1..t : left.kids[i] = node.kids[i]
  <2>1. \A i \in 1..t : node.kids[i] \in Nat
    BY <1>1, <1>3
  <2>2. /\ SubSeq(node.kids, 1, t) \in Seq(Nat)
        /\ Len(SubSeq(node.kids, 1, t)) = IF 1 <= t THEN (t - 1) + 1 ELSE 0
        /\ \A i \in 1..((t - 1) + 1) : SubSeq(node.kids, 1, t)[i] = node.kids[(1 + i) - 1]
    BY <1>1, <2>1, SubSeqProperties
  <2>. QED
    BY <1>1, <1>4, <2>2
<1>8. /\ right.keys \in Seq(Keys) /\ Len(right.keys) = N - t
      /\ \A i \in 1..(N - t) : right.keys[i] = node.keys[t + i]
  <2>1. \A i \in (t + 1)..N : node.keys[i] \in Keys
    BY <1>1, <1>3
  <2>2. /\ SubSeq(node.keys, t + 1, N) \in Seq(Keys)
        /\ Len(SubSeq(node.keys, t + 1, N)) = IF t + 1 <= N THEN (N - (t + 1)) + 1 ELSE 0
        /\ \A i \in 1..((N - (t + 1)) + 1) :
             SubSeq(node.keys, t + 1, N)[i] = node.keys[((t + 1) + i) - 1]
    BY <1>1, <2>1, SubSeqProperties
  <2>. QED
    BY <1>1, <1>5, <2>2
<1>9. /\ right.kids \in Seq(Nat) /\ Len(right.kids) = (N - t) + 1
      /\ \A i \in 1..((N - t) + 1) : right.kids[i] = node.kids[t + i]
  <2>1. \A i \in (t + 1)..(N + 1) : node.kids[i] \in Nat
    BY <1>1, <1>3
  <2>2. /\ SubSeq(node.kids, t + 1, N + 1) \in Seq(Nat)
        /\ Len(SubSeq(node.kids, t + 1, N + 1)) =
             IF t + 1 <= N + 1 THEN ((N + 1) - (t + 1)) + 1 ELSE 0
        /\ \A i \in 1..(((N + 1) - (t + 1)) + 1) :
             SubSeq(node.kids, t + 1, N + 1)[i] = node.kids[((t + 1) + i) - 1]
    BY <1>1, <2>1, SubSeqProperties
  <2>. QED
    BY <1>1, <1>5, <2>2
<1>10. InnerNode(left)
  <2>1. left \in [keys : Seq(Keys), kids : Seq(Nat)]
    BY <1>4, <1>6, <1>7
  <2>2. Ascends(left.keys)
    BY <1>1, <1>3, <1>6 DEF Ascends
  <2>. QED
    BY <1>1, <1>6, <1>7, <2>1, <2>2 DEF InnerNode
<1>11. InnerNode(right)
  <2>1. right \in [keys : Seq(Keys), kids : Seq(Nat)]
    BY <1>5, <1>8, <1>9
  <2>2. ASSUME NEW i \in 1..(N - t), NEW j \in 1..(N - t), i < j
        PROVE  right.keys[i] < right.keys[j]
    <3>1. t + i \in 1..N /\ t + j \in 1..N /\ t + i < t + j
      BY <1>1, <2>2
    <3>. QED
      BY <1>3, <1>8, <3>1
  <2>3. Ascends(right.keys)
    BY <1>8, <2>2 DEF Ascends
  <2>. QED
    BY <1>1, <1>8, <1>9, <2>1, <2>3 DEF InnerNode
<1>12. ASSUME NEW k \in Nat
       PROVE  /\ at(k) \in 0..N
              /\ \A i \in 1..at(k) : node.keys[i] <= k
              /\ \A i \in (at(k) + 1)..N : k < node.keys[i]
  BY InnerPosition
<1>13. ASSUME NEW k \in Nat, k < node.keys[t]
       PROVE  /\ at(k) < t /\ inner_position_for(left, k) = at(k)
              /\ Child(left, at(k)) = Child(node, at(k))
  <2>. DEFINE q == at(k)
  <2>1. /\ q \in 0..N
        /\ \A i \in 1..q : node.keys[i] <= k
        /\ \A i \in (q + 1)..N : k < node.keys[i]
    BY <1>12
  <2>. HIDE DEF q
  <2>2. q < t
    <3>1. t \in 1..N /\ node.keys[t] \in Nat
      BY <1>1, <1>3
    <3>2. t <= q => t \in 1..q
      BY <1>1, <2>1
    <3>. QED
      BY <1>1, <1>13, <2>1, <3>1, <3>2
  <2>3. q > 0 => left.keys[q] <= k
    BY <1>1, <1>6, <2>1, <2>2
  <2>4. q < t - 1 => k < left.keys[q + 1]
    BY <1>1, <1>6, <2>1, <2>2
  <2>5. inner_position_for(left, k) = q
    <3>1. q \in 0..Len(left.keys)
      BY <1>1, <1>6, <2>1, <2>2
    <3>. QED
      BY <1>6, <1>10, <2>3, <2>4, <3>1, InnerPositionIs
  <2>6. left.kids[q + 1] = node.kids[q + 1]
    BY <1>1, <1>7, <2>1, <2>2
  <2>. QED
    BY <2>2, <2>5, <2>6 DEF q, Child
<1>14. ASSUME NEW k \in Nat, node.keys[t] <= k
       PROVE  /\ t <= at(k) /\ inner_position_for(right, k) = at(k) - t
              /\ Child(right, at(k) - t) = Child(node, at(k))
  <2>. DEFINE q == at(k)
              r == q - t
  <2>1. /\ q \in 0..N
        /\ \A i \in 1..q : node.keys[i] <= k
        /\ \A i \in (q + 1)..N : k < node.keys[i]
    BY <1>12
  <2>. HIDE DEF q
  <2>2. t <= q
    <3>1. t \in 1..N /\ node.keys[t] \in Nat
      BY <1>1, <1>3
    <3>2. q < t => t \in (q + 1)..N
      BY <1>1, <2>1
    <3>. QED
      BY <1>1, <1>14, <2>1, <3>1, <3>2
  <2>3. r \in 0..(N - t) /\ t + r = q /\ t + (r + 1) = q + 1
    BY <1>1, <2>1, <2>2
  <2>. HIDE DEF r
  <2>4. r > 0 => right.keys[r] <= k
    <3>1. r > 0 => r \in 1..(N - t) /\ q \in 1..q
      BY <1>1, <2>1, <2>3
    <3>. QED
      BY <1>8, <2>1, <2>3, <3>1
  <2>5. r < N - t => k < right.keys[r + 1]
    <3>1. r < N - t => r + 1 \in 1..(N - t) /\ q + 1 \in (q + 1)..N
      BY <1>1, <2>1, <2>3
    <3>. QED
      BY <1>8, <2>1, <2>3, <3>1
  <2>6. inner_position_for(right, k) = r
    <3>1. r \in 0..Len(right.keys)
      BY <1>8, <2>3
    <3>. QED
      BY <1>8, <1>11, <2>4, <2>5, <3>1, InnerPositionIs
  <2>7. right.kids[r + 1] = node.kids[q + 1]
    <3>1. r + 1 \in 1..((N - t) + 1)
      BY <1>1, <2>3
    <3>. QED
      BY <1>9, <2>3, <3>1
  <2>. QED
    BY <2>2, <2>6, <2>7 DEF q, r, Child
<1>. QED
  BY <1>1, <1>2, <1>6, <1>8, <1>10, <1>11, <1>13, <1>14 DEF t, left, right

\* The node that a key belongs to after inner_insert, which gives new
HalfFor(node, new, k) ==
  IF Len(node.keys) = N /\ UpKey(node) <= k THEN new[2] ELSE new[1]

\* What inner_insert gives: nodes whose keys are those of the node and the key that
\* came up, on their sides of the key that goes up, in which each key is searched
\* for as before, except that the child's sibling has its part of the child.
InnerInserted(node, key, split, new) ==
  LET full == Len(node.keys) = N
      p == inner_position_for(node, key)
      at(k) == inner_position_for(node, k)
      half(k) == HalfFor(node, new, k)
  IN  /\ full => UpKey(node) \in Keys
      /\ \A k \in Nat : InnerNode(half(k))
      /\ \A k \in Nat : \A i \in 1..Len(half(k).keys) :
           /\ \/ split # <<>> /\ half(k).keys[i] = split[1]
              \/ \E j \in 1..Len(node.keys) : half(k).keys[i] = node.keys[j]
           /\ full => (UpKey(node) <= half(k).keys[i] <=> UpKey(node) <= k)
      /\ \A k \in Nat : IF full /\ UpKey(node) <= k THEN UpKey(node) < half(k).keys[1]
                        ELSE half(k).keys[1] = IF split # <<>> /\ p = 0 THEN split[1]
                                               ELSE node.keys[1]
      /\ \A k \in Nat : Child(half(k), inner_position_for(half(k), k)) =
           IF split # <<>> /\ p = at(k) /\ split[1] <= k THEN split[2] ELSE Child(node, at(k))
      /\ \A j, k \in Nat :
           at(j) = at(k) /\ (split # <<>> /\ p = at(k) => (split[1] <= j <=> split[1] <= k)) =>
             /\ full => (UpKey(node) <= j <=> UpKey(node) <= k)
             /\ inner_position_for(half(j), j) = inner_position_for(half(k), k)

\* A node with room.
LEMMA InnerInsertedNonfull ==
  ASSUME NEW node, InnerNode(node), Len(node.keys) < N,
         NEW key \in Nat, NEW split, Fits(node, key, split)
  PROVE  InnerInserted(node, key, split, inner_insert(node, key, split))
<1>. DEFINE new == inner_insert(node, key, split)
<1>1. new = <<inner_insert_nonfull(node, key, split)>>
  BY DEF inner_insert
<1>2. Len(node.keys) \in Nat /\ N \in Nat /\ Len(node.keys) # N
  BY InnerTyped, TreeAssumption
<1>3. \A k : HalfFor(node, new, k) = inner_insert_nonfull(node, key, split)
  BY <1>1, <1>2 DEF HalfFor
<1>4. Grown(node, key, split, inner_insert_nonfull(node, key, split))
  BY NonfullGrown
<1>. HIDE DEF new
<1>. DEFINE one == inner_insert_nonfull(node, key, split)
<1>. HIDE DEF one
<1>5. \A k \in Nat : inner_position_for(one, k) =
        IF split # <<>> /\ (\/ inner_position_for(node, key) < inner_position_for(node, k)
                            \/ /\ inner_position_for(node, key) = inner_position_for(node, k)
                               /\ split[1] <= k)
        THEN inner_position_for(node, k) + 1 ELSE inner_position_for(node, k)
  BY <1>4 DEF Grown, one
<1>6. ASSUME NEW j \in Nat, NEW k \in Nat,
             inner_position_for(node, j) = inner_position_for(node, k),
             split # <<>> /\ inner_position_for(node, key) = inner_position_for(node, k) =>
               (split[1] <= j <=> split[1] <= k)
      PROVE  inner_position_for(one, j) = inner_position_for(one, k)
  BY <1>5, <1>6
<1>7. /\ InnerNode(one)
      /\ \A i \in 1..Len(one.keys) :
           \/ split # <<>> /\ one.keys[i] = split[1]
           \/ \E j \in 1..Len(node.keys) : one.keys[i] = node.keys[j]
      /\ one.keys[1] = IF split # <<>> /\ inner_position_for(node, key) = 0 THEN split[1]
                       ELSE node.keys[1]
  BY <1>4 DEF Grown, one
<1>8. \A k \in Nat : Child(one, inner_position_for(one, k)) =
        IF split # <<>> /\ inner_position_for(node, key) = inner_position_for(node, k) /\ split[1] <= k
        THEN split[2] ELSE Child(node, inner_position_for(node, k))
  BY <1>4 DEF Grown, one
<1>9. \A k : HalfFor(node, new, k) = one
  BY <1>3 DEF one
<1>. DEFINE half(k) == HalfFor(node, new, k)
<1>10. \A k \in Nat : half(k) = one
  BY <1>9
<1>. HIDE DEF half
<1>11. /\ \A k \in Nat : InnerNode(half(k))
       /\ \A k \in Nat : half(k).keys[1] =
            IF split # <<>> /\ inner_position_for(node, key) = 0 THEN split[1] ELSE node.keys[1]
  BY <1>7, <1>10
<1>12. \A k \in Nat : \A i \in 1..Len(half(k).keys) :
         \/ split # <<>> /\ half(k).keys[i] = split[1]
         \/ \E j \in 1..Len(node.keys) : half(k).keys[i] = node.keys[j]
  BY <1>7, <1>10
<1>13. \A k \in Nat : Child(half(k), inner_position_for(half(k), k)) =
         IF split # <<>> /\ inner_position_for(node, key) = inner_position_for(node, k) /\ split[1] <= k
         THEN split[2] ELSE Child(node, inner_position_for(node, k))
  BY <1>8, <1>10
<1>14. \A j, k \in Nat :
         inner_position_for(node, j) = inner_position_for(node, k)
           /\ (split # <<>> /\ inner_position_for(node, key) = inner_position_for(node, k) =>
                 (split[1] <= j <=> split[1] <= k)) =>
           inner_position_for(half(j), j) = inner_position_for(half(k), k)
  BY <1>6, <1>10
<1>. QED
  BY <1>2, <1>11, <1>12, <1>13, <1>14 DEF InnerInserted, half, new

\* A full node.
LEMMA InnerInsertedFull ==
  ASSUME NEW node, InnerNode(node), Len(node.keys) = N,
         NEW key \in Nat, NEW split, Fits(node, key, split)
  PROVE  InnerInserted(node, key, split, inner_insert(node, key, split))
<1>. DEFINE new == inner_insert(node, key, split)
            t == (N + 1) \div 2
            left == LeftOf(node)
            right == RightOf(node)
            up == node.keys[t]
            p == inner_position_for(node, key)
            at(k) == inner_position_for(node, k)
            moved(k) == split # <<>> /\ (p < at(k) \/ (p = at(k) /\ split[1] <= k))
            theirs(k) == split # <<>> /\ p = at(k) /\ split[1] <= k
<1>1. /\ t \in 2..(N - 1) /\ UpKey(node) = up
      /\ InnerNode(left) /\ Len(left.keys) = t - 1
      /\ InnerNode(right) /\ Len(right.keys) = N - t
      /\ \A i \in 1..(t - 1) : left.keys[i] = node.keys[i]
      /\ \A i \in 1..(N - t) : right.keys[i] = node.keys[t + i]
      /\ \A k \in Nat : k < up =>
           /\ at(k) < t /\ inner_position_for(left, k) = at(k)
           /\ Child(left, at(k)) = Child(node, at(k))
      /\ \A k \in Nat : up <= k =>
           /\ t <= at(k) /\ inner_position_for(right, k) = at(k) - t
           /\ Child(right, at(k) - t) = Child(node, at(k))
  BY Halves
<1>2. new = IF key < up THEN <<inner_insert_nonfull(left, key, split), right>>
            ELSE <<left, inner_insert_nonfull(right, key, split)>>
  <2>1. ~(Len(node.keys) < N)
    BY TreeAssumption
  <2>. QED
    BY <2>1, <1>1 DEF inner_insert, LeftOf, RightOf
<1>3. /\ N \in Nat /\ t \in Nat /\ t > 1 /\ t < N /\ up \in Keys /\ up \in Nat
      /\ \A i \in 1..N : node.keys[i] \in Keys /\ node.keys[i] \in Nat
      /\ \A i, j \in 1..N : i < j => node.keys[i] < node.keys[j]
  <2>1. /\ \A i \in 1..N : node.keys[i] \in Keys /\ node.keys[i] \in Nat
        /\ \A i, j \in 1..N : i < j => node.keys[i] < node.keys[j]
    BY InnerTyped DEF InnerNode, Ascends
  <2>. HIDE DEF t
  <2>2. N \in Nat /\ t \in Nat /\ t > 1 /\ t < N /\ t \in 1..N
    BY <1>1, TreeAssumption
  <2>. QED
    BY <2>1, <2>2
<1>4. \A k \in Nat : at(k) \in 0..N /\ at(k) \in Nat
  <2>1. \A k \in Nat : at(k) \in 0..N
    BY InnerPosition
  <2>2. \A x \in 0..N : x \in Nat
    BY <1>3
  <2>. HIDE DEF at
  <2>. QED
    BY <2>1, <2>2
<1>5. \A k \in Nat : HalfFor(node, new, k) = IF up <= k THEN new[2] ELSE new[1]
  BY <1>1 DEF HalfFor
<1>6. split # <<>> => /\ split[1] \in Nat
                      /\ p > 0 => node.keys[p] < split[1]
                      /\ p < N => split[1] < node.keys[p + 1]
  BY TreeAssumption DEF Fits
<1>7. p \in 0..N /\ p \in Nat
  BY <1>4
<1>. HIDE DEF new, t, left, right, up, p, at
<1>8. /\ \A i \in 1..(t - 1) : node.keys[i] < up
      /\ \A i \in 1..(N - t) : up < right.keys[i] /\ right.keys[i] = node.keys[t + i] /\ t + i \in 1..N
      /\ \A i \in 1..(t - 1) : left.keys[i] < up /\ left.keys[i] = node.keys[i] /\ i \in 1..N
  <2>1. ASSUME NEW i \in 1..(N - t)
        PROVE  up < right.keys[i] /\ right.keys[i] = node.keys[t + i] /\ t + i \in 1..N
    <3>1. t \in 1..N /\ t + i \in 1..N /\ t < t + i
      BY <1>3
    <3>. QED
      BY <1>1, <1>3, <3>1 DEF up
  <2>2. ASSUME NEW i \in 1..(t - 1)
        PROVE  left.keys[i] < up /\ left.keys[i] = node.keys[i] /\ i \in 1..N /\ node.keys[i] < up
    <3>1. t \in 1..N /\ i \in 1..N /\ i < t
      BY <1>3
    <3>. QED
      BY <1>1, <1>3, <3>1 DEF up
  <2>. QED
    BY <2>1, <2>2
<1>. DEFINE InKeys(x) == \/ split # <<>> /\ x = split[1]
                         \/ \E j \in 1..Len(node.keys) : x = node.keys[j]
\* Each half, as it is when the other one is inserted into
<1>9. /\ \A i \in 1..Len(left.keys) : InKeys(left.keys[i]) /\ left.keys[i] < up
      /\ \A i \in 1..Len(right.keys) : InKeys(right.keys[i]) /\ up < right.keys[i]
      /\ left.keys[1] = node.keys[1]
  BY <1>1, <1>3, <1>8
<1>10. CASE key < up
  <2>1. p < t /\ inner_position_for(left, key) = p
    BY <1>1, <1>10 DEF p, at
  <2>2. split # <<>> => split[1] < up
    <3>1. p + 1 \in 1..t /\ t \in 1..N /\ p < N /\ p + 1 \in 1..N
      BY <1>3, <1>7, <2>1
    <3>2. node.keys[p + 1] <= up /\ node.keys[p + 1] \in Nat
      <4>1. p + 1 = t \/ p + 1 < t
        BY <3>1, <1>3, <1>7
      <4>. QED
        BY <4>1, <3>1, <1>3 DEF up
    <3>. QED
      BY <1>3, <1>6, <3>1, <3>2
  <2>3. Fits(left, key, split)
    <3>1. p > 0 => p \in 1..(t - 1)
      BY <1>3, <1>7, <2>1
    <3>2. p < t - 1 => p + 1 \in 1..(t - 1)
      BY <1>3, <1>7
    <3>3. p > 0 => left.keys[p] = node.keys[p]
      BY <1>8, <3>1
    <3>4. p < t - 1 => left.keys[p + 1] = node.keys[p + 1] /\ p < N
      BY <1>3, <1>7, <1>8, <3>2
    <3>. QED
      BY <1>1, <2>1, <3>3, <3>4 DEF Fits, p
  <2>. DEFINE one == inner_insert_nonfull(left, key, split)
  <2>4. Len(left.keys) < N
    BY <1>1, <1>3
  <2>5. Grown(left, key, split, one)
    BY <1>1, <2>3, <2>4, NonfullGrown
  <2>6. /\ new[1] = one /\ new[2] = right
    BY <1>2, <1>10
  <2>. HIDE DEF one
  <2>7. /\ InnerNode(one)
        /\ \A i \in 1..Len(one.keys) :
             \/ split # <<>> /\ one.keys[i] = split[1]
             \/ \E j \in 1..Len(left.keys) : one.keys[i] = left.keys[j]
        /\ one.keys[1] = IF split # <<>> /\ p = 0 THEN split[1] ELSE node.keys[1]
    BY <1>9, <2>1, <2>5 DEF Grown
  <2>8. \A i \in 1..Len(one.keys) : InKeys(one.keys[i]) /\ one.keys[i] < up
    <3>1. split # <<>> => InKeys(split[1])
      OBVIOUS
    <3>. HIDE DEF InKeys
    <3>. QED
      BY <1>9, <2>2, <2>7, <3>1
  <2>9. ASSUME NEW k \in Nat, k < up
        PROVE  /\ inner_position_for(one, k) = IF moved(k) THEN at(k) + 1 ELSE at(k)
               /\ Child(one, inner_position_for(one, k)) =
                    IF theirs(k) THEN split[2] ELSE Child(node, at(k))
    <3>1. inner_position_for(left, k) = at(k) /\ Child(left, at(k)) = Child(node, at(k))
      BY <1>1, <2>9
    <3>. QED
      BY <2>1, <2>5, <3>1 DEF Grown
  <2>10. ASSUME NEW k \in Nat, up <= k
         PROVE  /\ inner_position_for(right, k) = at(k) - t
                /\ Child(right, inner_position_for(right, k)) = Child(node, at(k))
                /\ ~theirs(k)
    <3>1. at(k) \in Nat /\ p \in Nat /\ t \in Nat
      BY <1>3, <1>4, <1>7
    <3>2. p # at(k)
      BY <1>1, <2>1, <2>10, <3>1
    <3>. QED
      BY <1>1, <2>10, <3>2
  <2>11. \A k \in Nat : at(k) \in Nat
    BY <1>4
  <2>12. \A k \in Nat : k < up \/ up <= k
    BY <1>3
  <2>13. \A k \in Nat : HalfFor(node, new, k) = IF up <= k THEN right ELSE one
    BY <1>5, <2>6
  <2>. HIDE DEF InKeys
  <2>14. ASSUME NEW j \in Nat, NEW k \in Nat, at(j) = at(k),
                split # <<>> /\ p = at(k) => (split[1] <= j <=> split[1] <= k)
         PROVE  /\ up <= j <=> up <= k
                /\ inner_position_for(HalfFor(node, new, j), j)
                     = inner_position_for(HalfFor(node, new, k), k)
    <3>1. ASSUME NEW i \in Nat
          PROVE  up <= i <=> t <= at(i)
      <4>1. at(i) \in Nat /\ t \in Nat /\ up \in Nat
        BY <1>3, <2>11
      <4>2. (up <= i => t <= at(i)) /\ (i < up => at(i) < t)
        BY <1>1
      <4>. QED
        BY <4>1, <4>2
    <3>2. (up <= j <=> up <= k) /\ (moved(j) <=> moved(k))
      BY <2>14, <3>1
    <3>. QED
      BY <2>9, <2>10, <2>12, <2>13, <2>14, <3>2
  <2>15. ASSUME NEW k \in Nat
         PROVE  LET half == HalfFor(node, new, k)
                IN  /\ InnerNode(half)
                    /\ \A i \in 1..Len(half.keys) :
                         InKeys(half.keys[i]) /\ (up <= half.keys[i] <=> up <= k)
                    /\ IF up <= k THEN up < half.keys[1]
                       ELSE half.keys[1] = IF split # <<>> /\ p = 0 THEN split[1] ELSE node.keys[1]
                    /\ Child(half, inner_position_for(half, k)) =
                         IF theirs(k) THEN split[2] ELSE Child(node, at(k))
    <3>1. CASE up <= k
      <4>1. HalfFor(node, new, k) = right /\ InnerNode(right)
        BY <1>1, <2>13, <3>1
      <4>2. 1 \in 1..Len(right.keys) /\ \A i \in 1..Len(right.keys) : right.keys[i] \in Nat
        BY <1>1, <1>3, InnerTyped
      <4>3. \A i \in 1..Len(right.keys) : InKeys(right.keys[i]) /\ up < right.keys[i]
        BY <1>9 DEF InKeys
      <4>. QED
        BY <1>3, <2>10, <3>1, <4>1, <4>2, <4>3
    <3>2. CASE ~(up <= k)
      <4>1. HalfFor(node, new, k) = one /\ k < up
        BY <2>12, <2>13, <3>2
      <4>2. \A i \in 1..Len(one.keys) : one.keys[i] \in Nat /\ ~(up <= one.keys[i])
        BY <1>3, <2>7, <2>8, InnerTyped
      <4>. QED
        BY <2>7, <2>8, <2>9, <3>2, <4>1, <4>2
    <3>. QED
      BY <3>1, <3>2
  <2>. QED
    BY <1>1, <1>3, <2>14, <2>15 DEF InnerInserted, new, p, at, InKeys
<1>11. CASE ~(key < up)
  <2>1. /\ t <= p /\ inner_position_for(right, key) = p - t
    BY <1>1, <1>3, <1>11 DEF p, at
  <2>2. split # <<>> => up < split[1]
    <3>1. p \in 1..N /\ t \in 1..N /\ p > 0
      BY <1>3, <1>7, <2>1
    <3>2. up <= node.keys[p] /\ node.keys[p] \in Nat
      <4>1. p = t \/ t < p
        BY <3>1, <1>3, <2>1
      <4>. QED
        BY <4>1, <3>1, <1>3 DEF up
    <3>. QED
      BY <1>3, <1>6, <3>1, <3>2
  <2>3. Fits(right, key, split)
    <3>1. p - t > 0 => p - t \in 1..(N - t) /\ t + (p - t) = p /\ p > 0
      BY <1>3, <1>7, <2>1
    <3>2. p - t < N - t => (p - t) + 1 \in 1..(N - t) /\ t + ((p - t) + 1) = p + 1 /\ p < N
      BY <1>3, <1>7, <2>1
    <3>3. p - t > 0 => right.keys[p - t] = node.keys[p]
      BY <1>8, <3>1
    <3>4. p - t < N - t => right.keys[(p - t) + 1] = node.keys[p + 1]
      BY <1>8, <3>2
    <3>. QED
      BY <1>1, <2>1, <3>1, <3>2, <3>3, <3>4 DEF Fits, p
  <2>. DEFINE one == inner_insert_nonfull(right, key, split)
  <2>4. Len(right.keys) < N
    BY <1>1, <1>3
  <2>5. Grown(right, key, split, one)
    BY <1>1, <2>3, <2>4, NonfullGrown
  <2>6. /\ new[1] = left /\ new[2] = one
    BY <1>2, <1>11
  <2>. HIDE DEF one
  <2>7. /\ InnerNode(one)
        /\ \A i \in 1..Len(one.keys) :
             \/ split # <<>> /\ one.keys[i] = split[1]
             \/ \E j \in 1..Len(right.keys) : one.keys[i] = right.keys[j]
    BY <2>5 DEF Grown
  <2>8. \A i \in 1..Len(one.keys) : InKeys(one.keys[i]) /\ up < one.keys[i]
    <3>1. split # <<>> => InKeys(split[1])
      OBVIOUS
    <3>. HIDE DEF InKeys
    <3>. QED
      BY <1>9, <2>2, <2>7, <3>1
  <2>9. ASSUME NEW k \in Nat, up <= k
        PROVE  /\ inner_position_for(one, k) = IF moved(k) THEN (at(k) - t) + 1 ELSE at(k) - t
               /\ Child(one, inner_position_for(one, k)) =
                    IF theirs(k) THEN split[2] ELSE Child(node, at(k))
    <3>1. inner_position_for(right, k) = at(k) - t /\ Child(right, at(k) - t) = Child(node, at(k))
      BY <1>1, <2>9
    <3>2. at(k) \in Nat /\ p \in Nat /\ t \in Nat
      BY <1>3, <1>4, <1>7
    <3>3. (p - t < at(k) - t <=> p < at(k)) /\ (p - t = at(k) - t <=> p = at(k))
      BY <3>2
    <3>. QED
      BY <2>1, <2>5, <3>1, <3>3 DEF Grown
  <2>10. ASSUME NEW k \in Nat, k < up
         PROVE  /\ inner_position_for(left, k) = at(k)
                /\ Child(left, inner_position_for(left, k)) = Child(node, at(k))
                /\ ~theirs(k)
    <3>1. at(k) \in Nat /\ p \in Nat /\ t \in Nat
      BY <1>3, <1>4, <1>7
    <3>2. p # at(k)
      BY <1>1, <2>1, <2>10, <3>1
    <3>. QED
      BY <1>1, <2>10, <3>2
  <2>11. \A k \in Nat : at(k) \in Nat
    BY <1>4
  <2>12. \A k \in Nat : k < up \/ up <= k
    BY <1>3
  <2>13. \A k \in Nat : HalfFor(node, new, k) = IF up <= k THEN one ELSE left
    BY <1>5, <2>6
  <2>. HIDE DEF InKeys
  <2>14. ASSUME NEW j \in Nat, NEW k \in Nat, at(j) = at(k),
                split # <<>> /\ p = at(k) => (split[1] <= j <=> split[1] <= k)
         PROVE  /\ up <= j <=> up <= k
                /\ inner_position_for(HalfFor(node, new, j), j)
                     = inner_position_for(HalfFor(node, new, k), k)
    <3>1. ASSUME NEW i \in Nat
          PROVE  up <= i <=> t <= at(i)
      <4>1. at(i) \in Nat /\ t \in Nat /\ up \in Nat
        BY <1>3, <2>11
      <4>2. (up <= i => t <= at(i)) /\ (i < up => at(i) < t)
        BY <1>1
      <4>. QED
        BY <4>1, <4>2
    <3>2. (up <= j <=> up <= k) /\ (moved(j) <=> moved(k))
      BY <2>14, <3>1
    <3>. QED
      BY <2>9, <2>10, <2>12, <2>13, <2>14, <3>2
  <2>15. ASSUME NEW k \in Nat
         PROVE  LET half == HalfFor(node, new, k)
                IN  /\ InnerNode(half)
                    /\ \A i \in 1..Len(half.keys) :
                         InKeys(half.keys[i]) /\ (up <= half.keys[i] <=> up <= k)
                    /\ IF up <= k THEN up < half.keys[1]
                       ELSE half.keys[1] = IF split # <<>> /\ p = 0 THEN split[1] ELSE node.keys[1]
                    /\ Child(half, inner_position_for(half, k)) =
                         IF theirs(k) THEN split[2] ELSE Child(node, at(k))
    <3>1. CASE up <= k
      <4>1. HalfFor(node, new, k) = one /\ InnerNode(one)
        BY <2>7, <2>13, <3>1
      <4>2. 1 \in 1..Len(one.keys)
        BY <2>7 DEF InnerNode
      <4>3. \A i \in 1..Len(one.keys) : one.keys[i] \in Nat
        BY <2>7, InnerTyped
      <4>4. \A i \in 1..Len(one.keys) : up <= one.keys[i]
        BY <1>3, <2>8, <4>3
      <4>. QED
        BY <2>8, <2>9, <3>1, <4>1, <4>2, <4>4
    <3>2. CASE ~(up <= k)
      <4>1. HalfFor(node, new, k) = left /\ k < up /\ InnerNode(left)
        BY <1>1, <2>12, <2>13, <3>2
      <4>2. \A i \in 1..Len(left.keys) : left.keys[i] \in Nat /\ ~(up <= left.keys[i])
        BY <1>1, <1>3, <1>9, InnerTyped
      <4>3. \A i \in 1..Len(left.keys) : InKeys(left.keys[i])
        BY <1>9 DEF InKeys
      <4>4. p # 0
        BY <1>3, <2>1
      <4>. QED
        BY <1>9, <2>10, <3>2, <4>1, <4>2, <4>3, <4>4
    <3>. QED
      BY <3>1, <3>2
  <2>. QED
    BY <1>1, <1>3, <2>14, <2>15 DEF InnerInserted, new, p, at, InKeys
<1>. QED
  BY <1>10, <1>11

-----------------------------------------------------------------------------
(* Leaves.  What leaf_insert leaves in a leaf, and in its sibling.          *)

\* A leaf holds a row under a key.
Has(l, k, v) == \E j \in 0..(l.n - 1) : l.keys[j] = k /\ l.vals[j] = v /\ v # Null
Puts(l, key, val, new) == \A k, v : Has(new, k, v) <=> \/ k = key /\ v = val
                                                       \/ k # key /\ Has(l, k, v)

\* A leaf with room takes the key in: it overwrites the row of a key it holds,
\* which a slot past its keys never passes for, and else moves the later keys up.
LEMMA LeafNonfull ==
  ASSUME NEW l, NEW S, Leaf(l, S), l.n < M, NEW key \in Keys \cap S, NEW val \in Rows
  PROVE  LET i == leaf_position_for(l, key)
             new == leaf_insert_nonfull(l, key, val, i)
         IN  /\ Leaf(new, S) /\ new.n > 0 /\ Puts(l, key, val, new)
             /\ new.keys[0] = IF i = 0 THEN key ELSE l.keys[0]
<1>. DEFINE i == leaf_position_for(l, key)
            new == leaf_insert_nonfull(l, key, val, i)
<1>1. /\ l.n \in Nat /\ M \in Nat /\ l.n < M
      /\ l = [n |-> l.n, keys |-> l.keys, vals |-> l.vals]
      /\ l.keys \in [0..(M - 1) -> Keys \union {0}]
      /\ l.vals \in [0..(M - 1) -> Rows \union {Null}]
      /\ \A a, c \in 0..(l.n - 1) : a < c => l.keys[a] < l.keys[c]
      /\ \A j \in 0..(l.n - 1) : l.keys[j] \in Keys \cap S
      /\ \A j \in l.n..(M - 1) : l.keys[j] \notin Keys \cap S
  BY LeafTyped, TreeAssumption DEF Leaf, Slots
<1>2. /\ i \in 0..l.n
      /\ \A j \in 0..(i - 1) : l.keys[j] < key
      /\ \A j \in i..(l.n - 1) : key <= l.keys[j]
  BY LeafPosition, TreeAssumption
<1>3. i \in 0..(M - 1) /\ i \in Nat /\ val # Null /\ key \in Nat /\ key # 0
  BY <1>1, <1>2, TreeAssumption DEF Null
<1>4. \A j \in 0..(l.n - 1) : l.keys[j] \in Nat
  BY LeafTyped
<1>. HIDE DEF i
<1>5. CASE l.keys[i] = key
  <2>1. i \in 0..(l.n - 1)
    <3>1. i # l.n
      BY <1>1, <1>3, <1>5
    <3>. QED
      BY <1>1, <1>2, <3>1
  <2>2. /\ new = [l EXCEPT !.vals = [l.vals EXCEPT ![i] = val]]
    BY <1>5 DEF leaf_insert_nonfull
  <2>3. /\ new = [n |-> l.n, keys |-> l.keys, vals |-> [l.vals EXCEPT ![i] = val]]
    BY <1>1, <2>2
  <2>. HIDE DEF new
  <2>4. [l.vals EXCEPT ![i] = val] \in [0..(M - 1) -> Rows \union {Null}]
    BY <1>1
  <2>5. /\ new.n = l.n /\ new.keys = l.keys
        /\ new.vals[i] = val /\ \A j \in 0..(M - 1) : j # i => new.vals[j] = l.vals[j]
    BY <1>1, <1>3, <2>3
  <2>6. Leaf(new, S)
    <3>1. new \in [n : 0..M, keys : [Slots -> Keys \union {0}], vals : [Slots -> Rows \union {Null}]]
      BY <1>1, <2>3, <2>4 DEF Slots
    <3>. QED
      BY <1>1, <2>5, <3>1 DEF Leaf
  <2>7. ASSUME NEW k, NEW v
        PROVE  Has(new, k, v) <=> (k = key /\ v = val) \/ (k # key /\ Has(l, k, v))
    <3>1. ASSUME NEW j \in 0..(l.n - 1), l.keys[j] = key
          PROVE  j = i
      <4>1. ~(j < i) /\ ~(i < j)
        BY <1>1, <1>4, <1>5, <2>1, <3>1
      <4>. QED
        BY <1>1, <1>3, <4>1
    <3>2. \A j \in 0..(l.n - 1) : j \in 0..(M - 1)
      BY <1>1
    <3>3. CASE k = key
      BY <1>3, <1>5, <2>1, <2>5, <3>1, <3>3 DEF Has
    <3>4. CASE k # key
      BY <1>5, <2>5, <3>2, <3>4 DEF Has
    <3>. QED
      BY <3>3, <3>4
  <2>8. new.keys[0] = IF i = 0 THEN key ELSE l.keys[0]
    BY <1>5, <2>5
  <2>9. new.n > 0
    BY <1>1, <2>1, <2>5
  <2>. QED
    BY <2>6, <2>7, <2>8, <2>9 DEF i, new, Puts
<1>6. CASE l.keys[i] # key
  <2>. DEFINE shift(a, x) == [j \in Slots |-> IF j = i THEN x
                                              ELSE IF j > i /\ j <= l.n THEN a[j - 1] ELSE a[j]]
              nk == shift(l.keys, key)
              nv == shift(l.vals, val)
  <2>1. new = [n |-> l.n + 1, keys |-> nk, vals |-> nv]
    BY <1>6 DEF leaf_insert_nonfull
  <2>2. nk \in [0..(M - 1) -> Keys \union {0}]
    <3>1. ASSUME NEW j \in 0..(M - 1)
          PROVE  (IF j = i THEN key ELSE IF j > i /\ j <= l.n THEN l.keys[j - 1] ELSE l.keys[j])
                   \in Keys \union {0}
      <4>1. j > i /\ j <= l.n => j - 1 \in 0..(M - 1)
        BY <1>1, <1>3
      <4>. QED
        BY <1>1, <4>1
    <3>. QED
      BY <3>1 DEF Slots
  <2>3. nv \in [0..(M - 1) -> Rows \union {Null}]
    <3>1. ASSUME NEW j \in 0..(M - 1)
          PROVE  (IF j = i THEN val ELSE IF j > i /\ j <= l.n THEN l.vals[j - 1] ELSE l.vals[j])
                   \in Rows \union {Null}
      <4>1. j > i /\ j <= l.n => j - 1 \in 0..(M - 1)
        BY <1>1, <1>3
      <4>. QED
        BY <1>1, <4>1
    <3>. QED
      BY <3>1 DEF Slots
  <2>4. /\ \A j \in 0..(M - 1) : j < i => nk[j] = l.keys[j] /\ nv[j] = l.vals[j]
        /\ nk[i] = key /\ nv[i] = val
        /\ \A j \in 0..(M - 1) : i < j /\ j <= l.n => nk[j] = l.keys[j - 1] /\ nv[j] = l.vals[j - 1]
        /\ \A j \in 0..(M - 1) : l.n < j => nk[j] = l.keys[j] /\ nv[j] = l.vals[j]
    BY <1>1, <1>2, <1>3 DEF Slots
  <2>. HIDE DEF nk, nv, new
  <2>5. new.n = l.n + 1 /\ new.keys = nk /\ new.vals = nv
    BY <2>1
  <2>6. /\ \A j \in 0..(i - 1) : j \in 0..(M - 1) /\ j \in 0..(l.n - 1) /\ l.keys[j] \in Nat
        /\ \A j \in i..(l.n - 1) : j \in 0..(M - 1) /\ j \in 0..(l.n - 1) /\ l.keys[j] \in Nat
    <3>1. \A j \in 0..(i - 1) : j \in 0..(M - 1) /\ j \in 0..(l.n - 1)
      BY <1>1, <1>2
    <3>2. \A j \in i..(l.n - 1) : j \in 0..(M - 1) /\ j \in 0..(l.n - 1)
      BY <1>1, <1>2
    <3>. QED
      BY <1>4, <3>1, <3>2
  <2>7. /\ \A j \in 0..(i - 1) : l.keys[j] < key
        /\ \A j \in i..(l.n - 1) : key < l.keys[j]
    <3>1. ASSUME NEW j \in i..(l.n - 1)
          PROVE  key < l.keys[j]
      <4>1. key <= l.keys[i] /\ i \in i..(l.n - 1) /\ i \in 0..(l.n - 1)
        BY <1>1, <1>2, <1>3, <3>1
      <4>2. key < l.keys[i] /\ l.keys[i] \in Nat
        BY <1>3, <1>6, <2>6, <4>1
      <4>3. j = i \/ i < j
        BY <1>1, <1>3, <3>1
      <4>4. l.keys[i] <= l.keys[j] /\ l.keys[j] \in Nat
        BY <1>1, <2>6, <3>1, <4>1, <4>2, <4>3
      <4>. QED
        BY <1>3, <4>2, <4>4
    <3>. QED
      BY <1>2, <3>1
\* The slots of the new keys, and where each comes from
  <2>8. ASSUME NEW j \in 0..l.n
        PROVE  \/ j \in 0..(i - 1) /\ nk[j] = l.keys[j] /\ nv[j] = l.vals[j]
               \/ j = i /\ nk[j] = key /\ nv[j] = val
               \/ j - 1 \in i..(l.n - 1) /\ nk[j] = l.keys[j - 1] /\ nv[j] = l.vals[j - 1]
    <3>1. j \in 0..(M - 1)
      BY <1>1
    <3>2. CASE j < i
      BY <1>3, <2>4, <3>1, <3>2
    <3>3. CASE j = i
      BY <2>4, <3>3
    <3>4. CASE i < j
      <4>1. j <= l.n /\ j - 1 \in i..(l.n - 1)
        BY <1>1, <1>3, <3>4
      <4>. QED
        BY <2>4, <3>1, <3>4, <4>1
    <3>. QED
      BY <1>1, <1>3, <3>2, <3>3, <3>4
  <2>9. /\ \A j \in 0..(i - 1) : j \in 0..l.n /\ nk[j] = l.keys[j] /\ nv[j] = l.vals[j]
        /\ \A j \in i..(l.n - 1) : j + 1 \in 0..l.n /\ nk[j + 1] = l.keys[j] /\ nv[j + 1] = l.vals[j]
    <3>1. ASSUME NEW j \in 0..(i - 1)
          PROVE  j \in 0..l.n /\ nk[j] = l.keys[j] /\ nv[j] = l.vals[j]
      <4>1. j \in 0..(M - 1) /\ j < i /\ j \in 0..l.n
        BY <1>1, <1>2, <1>3
      <4>. QED
        BY <2>4, <4>1
    <3>2. ASSUME NEW j \in i..(l.n - 1)
          PROVE  j + 1 \in 0..l.n /\ nk[j + 1] = l.keys[j] /\ nv[j + 1] = l.vals[j]
      <4>1. j + 1 \in 0..(M - 1) /\ i < j + 1 /\ j + 1 <= l.n /\ j + 1 \in 0..l.n /\ (j + 1) - 1 = j
        BY <1>1, <1>2, <1>3
      <4>2. nk[j + 1] = l.keys[(j + 1) - 1] /\ nv[j + 1] = l.vals[(j + 1) - 1]
        BY <2>4, <4>1
      <4>. QED
        BY <4>1, <4>2
    <3>. QED
      BY <3>1, <3>2
  <2>10. Leaf(new, S)
    <3>1. new \in [n : 0..M, keys : [Slots -> Keys \union {0}], vals : [Slots -> Rows \union {Null}]]
      <4>1. l.n + 1 \in 0..M
        BY <1>1
      <4>. QED
        BY <2>1, <2>2, <2>3, <4>1 DEF Slots
    <3>2. ASSUME NEW a \in 0..l.n, NEW c \in 0..l.n, a < c
          PROVE  nk[a] < nk[c]
      <4>1. CASE a \in 0..(i - 1) /\ nk[a] = l.keys[a]
        <5>1. CASE c \in 0..(i - 1) /\ nk[c] = l.keys[c]
          BY <1>1, <2>6, <3>2, <4>1, <5>1
        <5>2. CASE c = i /\ nk[c] = key
          BY <2>7, <4>1, <5>2
        <5>3. CASE c - 1 \in i..(l.n - 1) /\ nk[c] = l.keys[c - 1]
          <6>1. l.keys[a] < key /\ key < l.keys[c - 1] /\ l.keys[a] \in Nat /\ l.keys[c - 1] \in Nat
            BY <2>6, <2>7, <4>1, <5>3
          <6>. QED
            BY <1>3, <4>1, <5>3, <6>1
        <5>. QED
          BY <2>8, <5>1, <5>2, <5>3
      <4>2. CASE a = i /\ nk[a] = key
        <5>1. c - 1 \in i..(l.n - 1) /\ nk[c] = l.keys[c - 1]
          BY <1>3, <2>8, <3>2, <4>2
        <5>. QED
          BY <2>7, <4>2, <5>1
      <4>3. CASE a - 1 \in i..(l.n - 1) /\ nk[a] = l.keys[a - 1]
        <5>1. c - 1 \in i..(l.n - 1) /\ nk[c] = l.keys[c - 1] /\ a - 1 < c - 1
          BY <1>3, <2>8, <3>2, <4>3
        <5>. QED
          BY <1>1, <2>6, <4>3, <5>1
      <4>. QED
        BY <2>8, <4>1, <4>2, <4>3
    <3>3. ASSUME NEW j \in 0..l.n
          PROVE  nk[j] \in Keys \cap S
      BY <1>1, <2>6, <2>8
    <3>4. ASSUME NEW j \in (l.n + 1)..(M - 1)
          PROVE  nk[j] \notin Keys \cap S
      <4>1. j \in 0..(M - 1) /\ l.n < j /\ j \in l.n..(M - 1)
        BY <1>1
      <4>. QED
        BY <1>1, <2>4, <4>1
    <3>5. (l.n + 1) - 1 = l.n
      BY <1>1
    <3>. QED
      BY <2>5, <3>1, <3>2, <3>3, <3>4, <3>5 DEF Leaf
  <2>11. ASSUME NEW k, NEW v
         PROVE  Has(new, k, v) <=> (k = key /\ v = val) \/ (k # key /\ Has(l, k, v))
    <3>1. (l.n + 1) - 1 = l.n
      BY <1>1
    <3>2. ASSUME NEW j \in 0..l.n, nk[j] = k, nv[j] = v, v # Null
          PROVE  (k = key /\ v = val) \/ (k # key /\ Has(l, k, v))
      <4>1. CASE j \in 0..(i - 1) /\ nk[j] = l.keys[j] /\ nv[j] = l.vals[j]
        <5>1. l.keys[j] # key /\ j \in 0..(l.n - 1)
          BY <1>3, <2>6, <2>7, <4>1
        <5>. QED
          BY <3>2, <4>1, <5>1 DEF Has
      <4>2. CASE j = i /\ nk[j] = key /\ nv[j] = val
        BY <3>2, <4>2
      <4>3. CASE j - 1 \in i..(l.n - 1) /\ nk[j] = l.keys[j - 1] /\ nv[j] = l.vals[j - 1]
        <5>1. l.keys[j - 1] # key /\ j - 1 \in 0..(l.n - 1)
          BY <1>3, <2>6, <2>7, <4>3
        <5>. QED
          BY <3>2, <4>3, <5>1 DEF Has
      <4>. QED
        BY <2>8, <4>1, <4>2, <4>3
    <3>3. i \in 0..l.n /\ nk[i] = key /\ nv[i] = val /\ val # Null
      BY <1>2, <1>3, <2>4
    <3>4. ASSUME NEW j \in 0..(l.n - 1), l.keys[j] = k, l.vals[j] = v, v # Null, k # key
          PROVE  \E m \in 0..l.n : nk[m] = k /\ nv[m] = v /\ v # Null
      <4>1. j \in 0..(i - 1) \/ j \in i..(l.n - 1)
        BY <1>1, <1>2, <1>3
      <4>. QED
        BY <2>9, <3>4, <4>1
    <3>. QED
      BY <2>5, <3>1, <3>2, <3>3, <3>4 DEF Has
  <2>12. new.keys[0] = IF i = 0 THEN key ELSE l.keys[0]
    BY <1>1, <1>2, <1>3, <2>4, <2>5
  <2>13. new.n > 0
    BY <1>1, <2>5
  <2>. QED
    BY <2>10, <2>11, <2>12, <2>13 DEF i, new, Puts
<1>. QED
  BY <1>5, <1>6

\* The leaf that a key belongs to after leaf_insert, which gives new: the sibling's
\* first key goes up.
LeafHalf(l, new, k) == IF l.n = M /\ new[2].keys[0] <= k THEN new[2] ELSE new[1]
Side(S, u, k) == {j \in S : u <= j <=> u <= k}

\* What leaf_insert gives: leaves whose keys are on their sides of the key that goes
\* up, which is below none of the sibling's, and between them the rows and the new one.
LeafInserted(l, S, key, val, new) ==
  LET full == l.n = M
      u == new[2].keys[0]
      half(k) == LeafHalf(l, new, k)
  IN  /\ full => u \in Keys \cap S /\ \E k \in S : k < u
      /\ \A k \in Nat : Leaf(half(k), IF full THEN Side(S, u, k) ELSE S)
      /\ \A k \in Nat : /\ half(k).n > 0
                        /\ half(k).keys[0] = IF full /\ u <= k THEN u
                                             ELSE IF leaf_position_for(l, key) = 0 THEN key
                                             ELSE l.keys[0]
      /\ \A k \in Nat : \A v : Has(half(k), k, v) <=> \/ k = key /\ v = val
                                                      \/ k # key /\ Has(l, k, v)

\* A leaf with room.
LEMMA LeafInsertedNonfull ==
  ASSUME NEW l, NEW S, Leaf(l, S), l.n < M, NEW key \in Keys \cap S, NEW val \in Rows
  PROVE  LeafInserted(l, S, key, val, leaf_insert(l, key, val))
<1>. DEFINE new == leaf_insert(l, key, val)
            one == leaf_insert_nonfull(l, key, val, leaf_position_for(l, key))
<1>1. new = <<one>>
  BY DEF leaf_insert
<1>2. l.n # M
  BY LeafTyped, TreeAssumption
<1>3. /\ Leaf(one, S) /\ one.n > 0 /\ Puts(l, key, val, one)
      /\ one.keys[0] = IF leaf_position_for(l, key) = 0 THEN key ELSE l.keys[0]
  BY LeafNonfull
<1>. HIDE DEF new, one
<1>4. \A k : LeafHalf(l, new, k) = one
  BY <1>1, <1>2 DEF LeafHalf
<1>. QED
  BY <1>2, <1>3, <1>4 DEF LeafInserted, Puts, new

\* The lower keys of a full leaf stay, and its upper keys, which the slots past the
\* lower ones still hold, are the sibling's: any key u between them divides them.
LowerOf(l) == [l EXCEPT !.n = (M + 1) \div 2]
UpperOf(l) ==
  LET t == (M + 1) \div 2
      move(a, z) == [j \in Slots |-> IF j < M - t THEN a[t + j] ELSE z]
  IN  [n |-> Moved(l), keys |-> move(l.keys, 0), vals |-> move(l.vals, Null)]

Halved(l, S, u, t, lower, upper) ==
  /\ Leaf(lower, {j \in S : j < u}) /\ lower.n = t /\ lower.keys = l.keys
  /\ Leaf(upper, {j \in S : u <= j}) /\ upper.n = M - t
  /\ \A j \in 0..((M - t) - 1) : upper.keys[j] = l.keys[t + j]
  /\ \A k, v : Has(l, k, v) <=> Has(lower, k, v) \/ Has(upper, k, v)

\* The rows of the whole are those of the two parts.
LEMMA LeafHalves ==
  ASSUME NEW l, NEW S, Leaf(l, S), S \subseteq Nat, l.n = M, NEW u \in Nat,
         l.keys[((M + 1) \div 2) - 1] < u, u <= l.keys[(M + 1) \div 2]
  PROVE  Halved(l, S, u, (M + 1) \div 2, LowerOf(l), UpperOf(l))
<1>. DEFINE t == (M + 1) \div 2
            lower == LowerOf(l)
            upper == UpperOf(l)
            uk == [j \in Slots |-> IF j < M - t THEN l.keys[t + j] ELSE 0]
            uv == [j \in Slots |-> IF j < M - t THEN l.vals[t + j] ELSE Null]
<1>1. M \in Nat /\ t \in 1..(M - 1) /\ t \in Nat /\ M - t \in 1..(M - 1) /\ M - t \in Nat
  BY TreeAssumption
<1>2. /\ l = [n |-> l.n, keys |-> l.keys, vals |-> l.vals]
      /\ l.keys \in [0..(M - 1) -> Keys \union {0}]
      /\ l.vals \in [0..(M - 1) -> Rows \union {Null}]
      /\ \A a, c \in 0..(M - 1) : a < c => l.keys[a] < l.keys[c]
      /\ \A j \in 0..(M - 1) : l.keys[j] \in Keys \cap S /\ l.keys[j] \in Nat
  BY LeafTyped DEF Leaf, Slots
<1>3. lower = [n |-> t, keys |-> l.keys, vals |-> l.vals]
  BY <1>2 DEF LowerOf
<1>4. upper = [n |-> M - t, keys |-> uk, vals |-> uv]
  BY DEF UpperOf, Moved
<1>5. l.keys[t - 1] < u /\ u <= l.keys[t]
  OBVIOUS
<1>. HIDE DEF t, lower, upper
<1>6. /\ \A j \in 0..(t - 1) : j \in 0..(M - 1) /\ l.keys[j] < u
      /\ \A j \in t..(M - 1) : j \in 0..(M - 1) /\ u <= l.keys[j]
  <2>1. ASSUME NEW j \in 0..(t - 1)
        PROVE  j \in 0..(M - 1) /\ l.keys[j] < u
    <3>1. j \in 0..(M - 1) /\ t - 1 \in 0..(M - 1) /\ (j = t - 1 \/ j < t - 1)
      BY <1>1
    <3>2. l.keys[j] <= l.keys[t - 1] /\ l.keys[j] \in Nat /\ l.keys[t - 1] \in Nat
      BY <1>2, <3>1
    <3>. QED
      BY <1>5, <3>1, <3>2
  <2>2. ASSUME NEW j \in t..(M - 1)
        PROVE  j \in 0..(M - 1) /\ u <= l.keys[j]
    <3>1. j \in 0..(M - 1) /\ t \in 0..(M - 1) /\ (j = t \/ t < j)
      BY <1>1
    <3>2. l.keys[t] <= l.keys[j] /\ l.keys[j] \in Nat /\ l.keys[t] \in Nat
      BY <1>2, <3>1
    <3>. QED
      BY <1>5, <3>1, <3>2
  <2>. QED
    BY <2>1, <2>2
<1>7. /\ uk \in [Slots -> Keys \union {0}] /\ uv \in [Slots -> Rows \union {Null}]
      /\ \A j \in 0..((M - t) - 1) : uk[j] = l.keys[t + j] /\ uv[j] = l.vals[t + j]
      /\ \A j \in (M - t)..(M - 1) : uk[j] = 0
  <2>1. \A j \in Slots : j < M - t => t + j \in 0..(M - 1)
    BY <1>1 DEF Slots
  <2>2. ASSUME NEW j \in Slots
        PROVE  /\ (IF j < M - t THEN l.keys[t + j] ELSE 0) \in Keys \union {0}
               /\ (IF j < M - t THEN l.vals[t + j] ELSE Null) \in Rows \union {Null}
    BY <1>2, <2>1
  <2>3. \A j \in 0..((M - t) - 1) : j \in Slots /\ j < M - t
    BY <1>1 DEF Slots
  <2>4. \A j \in (M - t)..(M - 1) : j \in Slots /\ ~(j < M - t)
    BY <1>1 DEF Slots
  <2>. QED
    BY <2>2, <2>3, <2>4
<1>. HIDE DEF uk, uv
<1>8. ASSUME NEW j \in 0..((M - t) - 1)
      PROVE  t + j \in t..(M - 1) /\ t + j \in 0..(M - 1)
  BY <1>1
<1>9. Leaf(lower, {j \in S : j < u})
  <2>1. lower \in [n : 0..M, keys : [Slots -> Keys \union {0}], vals : [Slots -> Rows \union {Null}]]
    BY <1>1, <1>2, <1>3 DEF Slots
  <2>2. \A j \in 0..(t - 1) : l.keys[j] \in Keys \cap {k \in S : k < u}
    BY <1>2, <1>6
  <2>3. \A j \in t..(M - 1) : l.keys[j] \notin Keys \cap {k \in S : k < u}
    BY <1>2, <1>6
  <2>4. \A a, c \in 0..(t - 1) : a < c => l.keys[a] < l.keys[c]
    BY <1>2, <1>6
  <2>. QED
    BY <1>3, <2>1, <2>2, <2>3, <2>4 DEF Leaf
<1>10. Leaf(upper, {j \in S : u <= j})
  <2>1. upper \in [n : 0..M, keys : [Slots -> Keys \union {0}], vals : [Slots -> Rows \union {Null}]]
    BY <1>1, <1>4, <1>7
  <2>2. \A j \in 0..((M - t) - 1) : uk[j] \in Keys \cap {k \in S : u <= k}
    BY <1>2, <1>6, <1>7, <1>8
  <2>3. \A j \in (M - t)..(M - 1) : uk[j] \notin Keys \cap {k \in S : u <= k}
    BY <1>7, TreeAssumption
  <2>4. ASSUME NEW a \in 0..((M - t) - 1), NEW c \in 0..((M - t) - 1), a < c
        PROVE  uk[a] < uk[c]
    <3>1. t + a < t + c
      BY <1>1, <2>4
    <3>. QED
      BY <1>2, <1>7, <1>8, <3>1
  <2>. QED
    BY <1>4, <2>1, <2>2, <2>3, <2>4 DEF Leaf
<1>11. ASSUME NEW k, NEW v
       PROVE  Has(l, k, v) <=> Has(lower, k, v) \/ Has(upper, k, v)
  <2>1. ASSUME NEW j \in 0..(M - 1)
        PROVE  j \in 0..(t - 1) \/ (j - t \in 0..((M - t) - 1) /\ t + (j - t) = j)
    BY <1>1
  <2>2. Has(l, k, v) <=> \E j \in 0..(M - 1) : l.keys[j] = k /\ l.vals[j] = v /\ v # Null
    BY DEF Has
  <2>3. Has(lower, k, v) <=> \E j \in 0..(t - 1) : l.keys[j] = k /\ l.vals[j] = v /\ v # Null
    BY <1>3 DEF Has
  <2>4. Has(upper, k, v) <=> \E j \in 0..((M - t) - 1) : uk[j] = k /\ uv[j] = v /\ v # Null
    BY <1>4 DEF Has
  <2>5. ASSUME NEW j \in 0..(M - 1), l.keys[j] = k, l.vals[j] = v, v # Null
        PROVE  Has(lower, k, v) \/ Has(upper, k, v)
    <3>1. CASE j \in 0..(t - 1)
      BY <2>3, <2>5, <3>1
    <3>2. CASE j - t \in 0..((M - t) - 1) /\ t + (j - t) = j
      <4>1. uk[j - t] = l.keys[t + (j - t)] /\ uv[j - t] = l.vals[t + (j - t)]
        BY <1>7, <3>2
      <4>. QED
        BY <2>4, <2>5, <3>2, <4>1
    <3>. QED
      BY <2>1, <3>1, <3>2
  <2>. QED
    BY <1>6, <1>7, <1>8, <2>2, <2>3, <2>4, <2>5
<1>12. lower.n = t /\ lower.keys = l.keys /\ upper.n = M - t /\ upper.keys = uk
  BY <1>3, <1>4
<1>. QED
  BY <1>7, <1>9, <1>10, <1>11, <1>12 DEF t, lower, upper, Halved

\* A full leaf: a key below one that stays goes into the leaf, any other into the
\* sibling, where it may come first and so be the key that goes up.
LEMMA LeafInsertedFull ==
  ASSUME NEW l, NEW S, Leaf(l, S), S \subseteq Nat, l.n = M, NEW key \in Keys \cap S, NEW val \in Rows
  PROVE  LeafInserted(l, S, key, val, leaf_insert(l, key, val))
<1>. DEFINE new == leaf_insert(l, key, val)
            t == (M + 1) \div 2
            i == leaf_position_for(l, key)
            lower == LowerOf(l)
            upper == UpperOf(l)
            u == IF i = t THEN key ELSE l.keys[t]
<1>1. M \in Nat /\ t \in 1..(M - 1) /\ t \in Nat /\ M - t \in 1..(M - 1) /\ M - t \in Nat
  BY TreeAssumption
<1>2. /\ \A a, c \in 0..(M - 1) : a < c => l.keys[a] < l.keys[c]
      /\ \A j \in 0..(M - 1) : l.keys[j] \in Keys \cap S /\ l.keys[j] \in Nat
  BY LeafTyped DEF Leaf, Slots
<1>3. /\ i \in 0..M /\ i \in Nat
      /\ \A j \in 0..(i - 1) : l.keys[j] < key
      /\ \A j \in i..(M - 1) : key <= l.keys[j]
  <2>1. /\ i \in 0..M
        /\ \A j \in 0..(i - 1) : l.keys[j] < key
        /\ \A j \in i..(M - 1) : key <= l.keys[j]
    BY LeafPosition, TreeAssumption
  <2>. HIDE DEF i
  <2>. QED
    BY <1>1, <2>1
<1>4. new = IF i < t THEN <<leaf_insert_nonfull(lower, key, val, i), upper>>
            ELSE <<lower, leaf_insert_nonfull(upper, key, val, i - t)>>
  <2>1. ~(l.n < M)
    BY <1>1
  <2>. QED
    BY <2>1 DEF leaf_insert, LowerOf, UpperOf
<1>5. key \in Nat /\ key # 0 /\ key \in Keys /\ key \in S
  BY TreeAssumption
<1>. HIDE DEF new, t, i, lower, upper
<1>6. /\ u \in Nat /\ u \in Keys \cap S /\ l.keys[t - 1] < u /\ u <= l.keys[t]
      /\ l.keys[t - 1] \in S /\ l.keys[t - 1] \in Nat /\ l.keys[t] \in Nat
      /\ i < t <=> key < u
  <2>1. t - 1 \in 0..(M - 1) /\ t \in 0..(M - 1) /\ t - 1 < t
    BY <1>1
  <2>2. /\ l.keys[t - 1] < l.keys[t] /\ l.keys[t - 1] \in Nat /\ l.keys[t] \in Nat
        /\ l.keys[t - 1] \in S /\ l.keys[t] \in Keys \cap S
    BY <1>2, <2>1
  <2>3. CASE i = t
    <3>1. i - 1 \in 0..(i - 1) /\ i \in i..(M - 1)
      BY <1>1, <1>3, <2>3
    <3>. QED
      BY <1>1, <1>3, <1>5, <2>2, <2>3, <3>1
  <2>4. CASE i < t
    <3>1. t - 1 \in i..(M - 1)
      BY <1>1, <1>3, <2>4
    <3>2. key <= l.keys[t - 1]
      BY <1>3, <3>1
    <3>. QED
      BY <1>1, <1>3, <1>5, <2>2, <2>4, <3>2
  <2>5. CASE t < i
    <3>1. t \in 0..(i - 1)
      BY <1>1, <1>3, <2>5
    <3>. QED
      BY <1>1, <1>3, <1>5, <2>2, <2>5, <3>1
  <2>. QED
    BY <1>1, <1>3, <2>3, <2>4, <2>5
<1>. DEFINE Low == {j \in S : j < u}
            High == {j \in S : u <= j}
<1>7. /\ Leaf(lower, Low) /\ lower.n = t /\ lower.keys = l.keys
      /\ Leaf(upper, High) /\ upper.n = M - t
      /\ \A j \in 0..((M - t) - 1) : upper.keys[j] = l.keys[t + j]
      /\ \A k, v : Has(l, k, v) <=> Has(lower, k, v) \/ Has(upper, k, v)
  <2>. HIDE DEF u
  <2>1. Halved(l, S, u, t, lower, upper)
    BY <1>6, LeafHalves DEF t, lower, upper
  <2>. QED
    BY <2>1 DEF Halved
<1>8. /\ \A k, v : Has(lower, k, v) => k \in Low
      /\ \A k, v : Has(upper, k, v) => k \in High
  BY <1>7 DEF Has, Leaf
<1>9. /\ \A k \in Nat : k < u => Side(S, u, k) = Low
      /\ \A k \in Nat : u <= k => Side(S, u, k) = High
  <2>. HIDE DEF u
  <2>1. \A j \in Nat : j < u <=> ~(u <= j)
    BY <1>6
  <2>2. \A j \in S : j \in Nat
    OBVIOUS
  <2>3. ASSUME NEW k \in Nat, k < u
        PROVE  Side(S, u, k) = Low
    BY <2>1, <2>2, <2>3 DEF Side
  <2>4. ASSUME NEW k \in Nat, u <= k
        PROVE  Side(S, u, k) = High
    BY <2>4 DEF Side
  <2>. QED
    BY <2>3, <2>4
<1>10. /\ \A k \in Nat : k < u \/ u <= k
       /\ \A k \in Nat : k < u <=> ~(u <= k)
  BY <1>6
<1>11. CASE i < t
  <2>. DEFINE one == leaf_insert_nonfull(lower, key, val, i)
  <2>1. leaf_position_for(lower, key) = i
    <3>1. i \in 0..lower.n
      BY <1>1, <1>3, <1>7, <1>11
    <3>2. i > 0 => lower.keys[i - 1] < key
      <4>1. i > 0 => i - 1 \in 0..(i - 1)
        BY <1>3
      <4>. QED
        BY <1>3, <1>7, <4>1
    <3>3. i < lower.n => key <= lower.keys[i]
      <4>1. i \in i..(M - 1)
        BY <1>1, <1>3, <1>11
      <4>. QED
        BY <1>3, <1>7, <4>1
    <3>. QED
      BY <1>5, <1>7, <3>1, <3>2, <3>3, LeafPositionIs
  <2>2. lower.n < M /\ key \in Keys \cap Low
    BY <1>1, <1>5, <1>6, <1>7, <1>11
  <2>3. /\ Leaf(one, Low) /\ one.n > 0 /\ Puts(lower, key, val, one)
        /\ one.keys[0] = IF i = 0 THEN key ELSE lower.keys[0]
    <3>. HIDE DEF Low
    <3>. QED
      BY <1>7, <2>1, <2>2, LeafNonfull
  <2>4. new[1] = one /\ new[2] = upper
    BY <1>4, <1>11
  <2>5. upper.keys[0] = u /\ upper.n > 0
    <3>1. 0 \in 0..((M - t) - 1) /\ t + 0 = t /\ i # t
      BY <1>1, <1>3, <1>11
    <3>. QED
      BY <1>1, <1>7, <3>1
  <2>. HIDE DEF one, u, Low, High
  <2>6. \A k \in Nat : LeafHalf(l, new, k) = IF u <= k THEN upper ELSE one
    BY <2>4, <2>5 DEF LeafHalf
  <2>7. ASSUME NEW k \in Nat
        PROVE  LET half == LeafHalf(l, new, k)
               IN  /\ Leaf(half, Side(S, u, k)) /\ half.n > 0
                   /\ half.keys[0] = IF u <= k THEN u ELSE IF i = 0 THEN key ELSE l.keys[0]
                   /\ \A v : Has(half, k, v) <=> (k = key /\ v = val) \/ (k # key /\ Has(l, k, v))
    <3>1. CASE u <= k
      <4>1. LeafHalf(l, new, k) = upper /\ Side(S, u, k) = High
        BY <1>9, <2>6, <3>1
      <4>2. k # key /\ \A v : ~Has(lower, k, v)
        BY <1>6, <1>8, <1>10, <1>11, <3>1 DEF Low
      <4>. QED
        BY <1>7, <2>5, <3>1, <4>1, <4>2
    <3>2. CASE ~(u <= k)
      <4>1. LeafHalf(l, new, k) = one /\ Side(S, u, k) = Low
        BY <1>9, <1>10, <2>6, <3>2
      <4>2. \A v : ~Has(upper, k, v)
        BY <1>8, <3>2 DEF High
      <4>. QED
        BY <1>7, <2>3, <3>2, <4>1, <4>2 DEF Puts
    <3>. QED
      BY <3>1, <3>2
  <2>8. new[2].keys[0] = u
    BY <2>4, <2>5
  <2>. QED
    BY <1>6, <2>7, <2>8 DEF LeafInserted, new, i
<1>12. CASE ~(i < t)
  <2>. DEFINE one == leaf_insert_nonfull(upper, key, val, i - t)
  <2>1. leaf_position_for(upper, key) = i - t
    <3>1. i - t \in 0..upper.n /\ t + (i - t) = i
      BY <1>1, <1>3, <1>7, <1>12
    <3>2. i - t > 0 => upper.keys[(i - t) - 1] < key
      <4>1. i - t > 0 => /\ (i - t) - 1 \in 0..((M - t) - 1)
                         /\ t + ((i - t) - 1) = i - 1 /\ i - 1 \in 0..(i - 1)
        BY <1>1, <1>3, <1>12
      <4>2. i - t > 0 => upper.keys[(i - t) - 1] = l.keys[i - 1]
        BY <1>7, <4>1
      <4>. QED
        BY <1>3, <4>1, <4>2
    <3>3. i - t < upper.n => key <= upper.keys[i - t]
      <4>1. i - t < M - t => i - t \in 0..((M - t) - 1) /\ i \in i..(M - 1)
        BY <1>1, <1>3, <1>12
      <4>2. i - t < M - t => upper.keys[i - t] = l.keys[i]
        BY <1>7, <3>1, <4>1
      <4>. QED
        BY <1>3, <1>7, <4>1, <4>2
    <3>. QED
      BY <1>5, <1>7, <3>1, <3>2, <3>3, LeafPositionIs
  <2>2. upper.n < M /\ key \in Keys \cap High
    BY <1>1, <1>5, <1>6, <1>7, <1>10, <1>12
  <2>3. /\ Leaf(one, High) /\ one.n > 0 /\ Puts(upper, key, val, one)
        /\ one.keys[0] = IF i - t = 0 THEN key ELSE upper.keys[0]
    <3>. HIDE DEF High
    <3>. QED
      BY <1>7, <2>1, <2>2, LeafNonfull
  <2>4. new[1] = lower /\ new[2] = one
    BY <1>4, <1>12
  <2>5. one.keys[0] = u
    <3>1. 0 \in 0..((M - t) - 1) /\ t + 0 = t /\ (i - t = 0 <=> i = t)
      BY <1>1, <1>3
    <3>2. upper.keys[0] = l.keys[t]
      BY <1>7, <3>1
    <3>. QED
      BY <2>3, <3>1, <3>2
  <2>. HIDE DEF one, u, Low, High
  <2>6. \A k \in Nat : LeafHalf(l, new, k) = IF u <= k THEN one ELSE lower
    BY <2>4, <2>5 DEF LeafHalf
  <2>7. ASSUME NEW k \in Nat
        PROVE  LET half == LeafHalf(l, new, k)
               IN  /\ Leaf(half, Side(S, u, k)) /\ half.n > 0
                   /\ half.keys[0] = IF u <= k THEN u ELSE IF i = 0 THEN key ELSE l.keys[0]
                   /\ \A v : Has(half, k, v) <=> (k = key /\ v = val) \/ (k # key /\ Has(l, k, v))
    <3>1. CASE u <= k
      <4>1. LeafHalf(l, new, k) = one /\ Side(S, u, k) = High
        BY <1>9, <2>6, <3>1
      <4>2. \A v : ~Has(lower, k, v)
        BY <1>6, <1>8, <1>10, <3>1 DEF Low
      <4>. QED
        BY <1>7, <2>3, <2>5, <3>1, <4>1, <4>2 DEF Puts
    <3>2. CASE ~(u <= k)
      <4>1. LeafHalf(l, new, k) = lower /\ Side(S, u, k) = Low
        BY <1>9, <1>10, <2>6, <3>2
      <4>2. k # key /\ \A v : ~Has(upper, k, v)
        BY <1>5, <1>6, <1>8, <1>10, <1>12, <3>2 DEF High
      <4>3. i # 0 /\ lower.n > 0
        BY <1>1, <1>7, <1>12
      <4>. QED
        BY <1>7, <3>2, <4>1, <4>2, <4>3
    <3>. QED
      BY <3>1, <3>2
  <2>8. new[2].keys[0] = u
    BY <2>4, <2>5
  <2>. QED
    BY <1>6, <2>7, <2>8 DEF LeafInserted, new, i
<1>. QED
  BY <1>11, <1>12

-----------------------------------------------------------------------------
(* The way down.                                                            *)

\* A search's step from a node to its child: fast_find's, or with back that of
\* fast_findLastLessThan; and all its steps, in a heap h of depth n under r.
StepDown(h, back, x, k) ==
  LET p == inner_position_for(h[x], k)
  IN  Child(h[x], IF back THEN Rewind(h[x], p, k) ELSE p)
Steps(h, r, n, back, k, f) ==
  [d \in 0..n |-> IF d = n THEN r ELSE StepDown(h, back, f[d + 1], k)]
WayIn(h, r, n, back, k) == CHOOSE f : f = Steps(h, r, n, back, k, f)

\* The steps are a function: one for the levels from the root down to any.
LEMMA WayExists ==
  ASSUME NEW h, NEW r, NEW n \in Nat, NEW back, NEW k
  PROVE  \E f : f = Steps(h, r, n, back, k, f)
<1>. DEFINE Solves(f, m) ==
              f = [d \in (n - m)..n |-> IF d = n THEN r ELSE StepDown(h, back, f[d + 1], k)]
            Solved == {m \in Nat : \E f : Solves(f, m)}
<1>1. 0 \in Solved
  <2>. DEFINE f == [d \in (n - 0)..n |-> r]
  <2>1. \A d \in (n - 0)..n : d = n
    OBVIOUS
  <2>2. Solves(f, 0)
    BY <2>1
  <2>. HIDE DEF f, Solves
  <2>. QED
    BY <2>2
<1>2. ASSUME NEW m \in Nat, m \in Solved
      PROVE  m + 1 \in Solved
  <2>1. PICK f : Solves(f, m)
    BY <1>2
  <2>. DEFINE g == [d \in (n - (m + 1))..n |-> IF d = n THEN r ELSE StepDown(h, back, f[d + 1], k)]
  <2>2. ASSUME NEW d \in (n - (m + 1))..n, d # n
        PROVE  g[d + 1] = f[d + 1]
    <3>1. d + 1 \in (n - m)..n /\ d + 1 \in (n - (m + 1))..n
      BY <2>2
    <3>. QED
      BY <2>1, <3>1
  <2>3. Solves(g, m + 1)
    BY <2>2
  <2>. HIDE DEF g, Solves
  <2>. QED
    BY <2>3
<1>3. Nat \subseteq Solved
  <2>. HIDE DEF Solved
  <2>. QED
    BY <1>1, <1>2, Successors
<1>4. PICK f : Solves(f, n)
  BY <1>3
<1>5. n - n = 0
  OBVIOUS
<1>. QED
  BY <1>4, <1>5 DEF Steps

\* The steps one by one.
IsWay(way, h, r, n, back, k) ==
  /\ way[n] = r
  /\ \A d \in 0..(n - 1) : way[d] = StepDown(h, back, way[d + 1], k)

\* WayIn takes them, from the root to a leaf.
LEMMA WayInDef ==
  ASSUME NEW h, NEW r, NEW n \in Nat, NEW back, NEW k
  PROVE  IsWay(WayIn(h, r, n, back, k), h, r, n, back, k)
<1>. DEFINE way == WayIn(h, r, n, back, k)
<1>1. way = [d \in 0..n |-> IF d = n THEN r ELSE StepDown(h, back, way[d + 1], k)]
  <2>1. \E f : f = Steps(h, r, n, back, k, f)
    BY WayExists
  <2>2. way = Steps(h, r, n, back, k, way)
    BY <2>1, Zenon DEF WayIn
  <2>. QED
    BY <2>2 DEF Steps
<1>. HIDE DEF way
<1>2. /\ n \in 0..n
      /\ \A d \in 0..(n - 1) : d \in 0..n /\ d # n
  OBVIOUS
<1>3. \A d \in 0..n : way[d] = IF d = n THEN r ELSE StepDown(h, back, way[d + 1], k)
  BY <1>1
<1>. QED
  BY <1>2, <1>3 DEF way, IsWay

\* The steps of find and of findLastLessThan are these, before and after a step.
LEMMA WayIs ==
  /\ \A k : Way(k) = WayIn(heap, root, depth, FALSE, k)
  /\ \A k : Way(k)' = WayIn(heap', root', depth', FALSE, k)
  /\ \A k : WayBefore(k) = WayIn(heap, root, depth, TRUE, k)
<1>1. \A k : Way(k) = WayIn(heap, root, depth, FALSE, k)
  BY Zenon DEF Way, WayIn, Steps, StepDown
<1>2. \A k : Way(k)' = WayIn(heap', root', depth', FALSE, k)
  BY Zenon DEF Way, WayIn, Steps, StepDown
<1>3. \A k : WayBefore(k) = WayIn(heap, root, depth, TRUE, k)
  BY Zenon DEF WayBefore, WayIn, Steps, StepDown
<1>. QED
  BY <1>1, <1>2, <1>3

-----------------------------------------------------------------------------
(* The inductive invariant.  A node is known by the keys whose searches come *)
(* to it; nothing else says which keys it may hold.                          *)

Bounds == top \in Nat /\ depth \in Nat /\ changes \in 0..MaxChanges

\* The nodes are those that searches come to, and none is where the next will be.
Addressed ==
  /\ DOMAIN heap = {Way(k)[d] : k \in Nat, d \in 0..depth}
  /\ \A x \in DOMAIN heap : x \in Nat /\ x < top

\* It is a tree: searches that meet came the same way, and by the same positions.
OneWay ==
  \A d, e \in 0..depth : \A j, k \in Nat : Way(j)[d] = Way(k)[e] =>
    /\ d = e
    /\ d < depth =>
         /\ Way(j)[d + 1] = Way(k)[d + 1]
         /\ inner_position_for(heap[Way(j)[d + 1]], j) = inner_position_for(heap[Way(k)[d + 1]], k)

\* An inner node's keys are found in it, and so is a key below them all.
Inner(x, d) ==
  /\ InnerNode(heap[x])
  /\ \A i \in 1..Len(heap[x].keys) : \A q \in Nat : q = heap[x].keys[i] => Way(q)[d] = x
  /\ \E j \in Nat : Way(j)[d] = x /\ j < heap[x].keys[1]
Inners == \A k \in Nat : \A d \in 1..depth : Inner(Way(k)[d], d)

\* A leaf's keys are found in it, and the first is the lowest that is: unless the
\* search for zero comes to it, which no key equals.
Lowest(x) ==
  Way(0)[0] # x => heap[x].n > 0 /\ \A j \in Nat : Way(j)[0] = x => heap[x].keys[0] <= j
Found0(x) == {j \in Nat : Way(j)[0] = x}
Leaves == \A k \in Nat : Leaf(heap[Way(k)[0]], Found0(Way(k)[0])) /\ Lowest(Way(k)[0])

Tree == Bounds /\ Addressed /\ OneWay /\ Inners /\ Leaves

\* The steps of a search in such a tree.
LEMMA WayNow ==
  ASSUME Tree, NEW k \in Nat
  PROVE  /\ Way(k)[depth] = root
         /\ \A d \in 0..depth : Way(k)[d] \in DOMAIN heap
         /\ \A d \in 0..(depth - 1) :
              Way(k)[d] = Child(heap[Way(k)[d + 1]], inner_position_for(heap[Way(k)[d + 1]], k))
<1>1. depth \in Nat
  BY DEF Tree, Bounds
<1>2. /\ Way(k)[depth] = root
      /\ \A d \in 0..(depth - 1) : Way(k)[d] = StepDown(heap, FALSE, Way(k)[d + 1], k)
  <2>1. Way(k) = WayIn(heap, root, depth, FALSE, k)
    BY WayIs
  <2>. QED
    <3>1. IsWay(Way(k), heap, root, depth, FALSE, k)
      BY <1>1, <2>1, WayInDef
    <3>. QED
      BY <3>1 DEF IsWay
<1>3. \A d \in 0..depth : Way(k)[d] \in DOMAIN heap
  BY DEF Tree, Addressed
<1>. QED
  BY <1>2, <1>3 DEF StepDown

\* And after a step of the tree.
LEMMA WayNext ==
  ASSUME depth' \in Nat, NEW k \in Nat
  PROVE  /\ Way(k)'[depth'] = root'
         /\ \A d \in 0..(depth' - 1) :
              Way(k)'[d] = Child(heap'[Way(k)'[d + 1]],
                                 inner_position_for(heap'[Way(k)'[d + 1]], k))
<1>1. Way(k)' = WayIn(heap', root', depth', FALSE, k)
  BY WayIs
<1>2. /\ Way(k)'[depth'] = root'
      /\ \A d \in 0..(depth' - 1) : Way(k)'[d] = StepDown(heap', FALSE, Way(k)'[d + 1], k)
  <2>1. IsWay(Way(k)', heap', root', depth', FALSE, k)
    BY <1>1, WayInDef
  <2>. QED
    BY <2>1 DEF IsWay
<1>. QED
  BY <1>2 DEF StepDown

\* The first state: one leaf, which every search comes to.
LEMMA InitTree == Init => Tree
<1>. SUFFICES ASSUME Init
              PROVE  Tree
  OBVIOUS
<1>1. /\ depth = 0 /\ root = 1 /\ top = 2 /\ changes = 0
      /\ DOMAIN heap = {1} /\ heap[1] = NewLeaf
  BY DEF Init
<1>2. \A k \in Nat : Way(k)[0] = 1
  <2>1. ASSUME NEW k \in Nat
        PROVE  Way(k)[0] = 1
    <3>1. Way(k) = WayIn(heap, root, depth, FALSE, k)
      BY WayIs
    <3>2. Way(k)[depth] = root
      <4>1. IsWay(Way(k), heap, root, depth, FALSE, k) /\ depth \in Nat
        BY <1>1, <3>1, WayInDef
      <4>. QED
        BY <4>1 DEF IsWay
    <3>. QED
      BY <1>1, <3>2
  <2>. QED
    BY <2>1
<1>3. Bounds
  BY <1>1, TreeAssumption DEF Bounds
<1>4. Addressed
  <2>1. 0..depth = {0} /\ 0 \in Nat
    BY <1>1
  <2>. QED
    BY <1>1, <1>2, <2>1 DEF Addressed
<1>5. OneWay
  <2>1. \A d \in 0..depth : d = 0 /\ ~(d < depth)
    BY <1>1
  <2>. QED
    BY <2>1 DEF OneWay
<1>6. Inners
  <2>1. 1..depth = {}
    BY <1>1
  <2>. QED
    BY <2>1 DEF Inners
<1>7. Leaves
  <2>1. NewLeaf.n = 0 /\ \A j \in 0..(M - 1) : NewLeaf.keys[j] = 0
    BY DEF NewLeaf, Slots
  <2>2. NewLeaf \in [n : 0..M, keys : [Slots -> Keys \union {0}], vals : [Slots -> Rows \union {Null}]]
    BY TreeAssumption DEF NewLeaf
  <2>3. Leaf(NewLeaf, Nat)
    BY <2>1, <2>2, TreeAssumption DEF Leaf
  <2>4. Found0(1) = Nat
    BY <1>2 DEF Found0
  <2>. QED
    BY <1>1, <1>2, <2>3, <2>4 DEF Leaves, Lowest
<1>. QED
  BY <1>3, <1>4, <1>5, <1>6, <1>7 DEF Tree

-----------------------------------------------------------------------------
(* insert, level by level.                                                  *)

\* The key that goes up from a full node belongs to it, and is not its lowest.
LEMMA UpBelongs ==
  ASSUME Tree, NEW key \in Keys, NEW val \in Rows, NEW d \in 0..depth, Full(key, d)
  PROVE  LET u == Up(key, val, d)
         IN  /\ u \in Keys /\ u \in Nat /\ Way(u)[d] = Way(key)[d]
             /\ \E j \in Nat : Way(j)[d] = Way(key)[d] /\ j < u
<1>. DEFINE u == Up(key, val, d)
            x == Way(key)[d]
<1>1. key \in Nat /\ depth \in Nat
  BY TreeAssumption DEF Tree, Bounds
<1>2. CASE d = 0
  <2>1. Leaf(heap[x], Found0(x)) /\ heap[x].n = M /\ key \in Keys \cap Found0(x)
    BY <1>1, <1>2 DEF Tree, Leaves, Full, Node, Found0
  <2>2. LeafInserted(heap[x], Found0(x), key, val, leaf_insert(heap[x], key, val))
    <3>1. Found0(x) \subseteq Nat
      BY DEF Found0
    <3>. HIDE DEF x
    <3>. QED
      BY <2>1, <3>1, LeafInsertedFull
  <2>3. u = leaf_insert(heap[x], key, val)[2].keys[0]
    BY <1>2 DEF Up, SplitKey, Node
  <2>4. u \in Keys \cap Found0(x) /\ \E j \in Found0(x) : j < u
    BY <2>1, <2>2, <2>3 DEF LeafInserted
  <2>. HIDE DEF u
  <2>. QED
    BY <1>2, <2>4 DEF Found0, u
<1>3. CASE d # 0
  <2>1. d \in 1..depth
    BY <1>1, <1>3
  <2>2. Inner(x, d)
    BY <1>1, <2>1 DEF Tree, Inners
  <2>3. u = heap[x].keys[(N + 1) \div 2] /\ Len(heap[x].keys) = N
    BY <1>3 DEF Up, UpKey, Node, Full
  <2>4. (N + 1) \div 2 \in 2..(N - 1) /\ (N + 1) \div 2 \in 1..N /\ 1 \in 1..N /\ 1 < (N + 1) \div 2
    BY TreeAssumption
  <2>. DEFINE t == (N + 1) \div 2
  <2>. HIDE DEF t
  <2>5. heap[x].keys[1] < heap[x].keys[t] /\ heap[x].keys[1] \in Nat /\ heap[x].keys[t] \in Nat
        /\ heap[x].keys[t] \in Keys
    BY <2>2, <2>3, <2>4, InnerTyped DEF Inner, InnerNode, Ascends, t
  <2>6. PICK j \in Nat : Way(j)[d] = x /\ j < heap[x].keys[1]
    BY <2>2 DEF Inner
  <2>7. j < u /\ u \in Nat /\ u \in Keys
    <3>1. u = heap[x].keys[t]
      BY <2>3 DEF t
    <3>2. u \in Nat /\ u \in Keys /\ heap[x].keys[1] < u /\ heap[x].keys[1] \in Nat
      BY <2>5, <3>1
    <3>. HIDE DEF u, x
    <3>. QED
      BY <2>6, <3>2
  <2>8. Way(u)[d] = x
    BY <2>2, <2>3, <2>4, <2>7 DEF Inner
  <2>. QED
    BY <2>6, <2>7, <2>8
<1>. QED
  BY <1>2, <1>3

\* So its parent can take the key in.
LEMMA SplitFits ==
  ASSUME Tree, NEW key \in Keys, NEW val \in Rows, NEW d \in 1..depth
  PROVE  Fits(Node(key, d), key, Split(key, val, d - 1))
<1>1. key \in Nat /\ depth \in Nat /\ top \in Nat /\ d - 1 \in 0..depth /\ (d - 1) + 1 = d /\ d - 1 < depth
      /\ d \in 0..depth
  BY TreeAssumption DEF Tree, Bounds
<1>2. CASE ~Full(key, d - 1)
  BY <1>2 DEF Split, Fits
<1>3. CASE Full(key, d - 1)
  <2>. DEFINE u == Up(key, val, d - 1)
              node == Node(key, d)
              p == inner_position_for(node, key)
  <2>1. /\ u \in Keys /\ u \in Nat /\ Way(u)[d - 1] = Way(key)[d - 1]
        /\ \E j \in Nat : Way(j)[d - 1] = Way(key)[d - 1] /\ j < u
    BY <1>1, <1>3, UpBelongs
  <2>2. PICK j \in Nat : Way(j)[d - 1] = Way(key)[d - 1] /\ j < u
    BY <2>1
  <2>. HIDE DEF u
  <2>3. ASSUME NEW k \in Nat, Way(k)[d - 1] = Way(key)[d - 1]
        PROVE  inner_position_for(node, k) = p
    <3>1. /\ Way(k)[d] = Way(key)[d]
          /\ inner_position_for(heap[Way(k)[d]], k) = inner_position_for(heap[Way(key)[d]], key)
      BY <1>1, <2>3 DEF Tree, OneWay
    <3>. QED
      BY <3>1 DEF Node
  <2>4. InnerNode(node)
    BY <1>1 DEF Tree, Inners, Inner, Node
  <2>5. /\ p \in 0..Len(node.keys)
        /\ \A i \in 1..p : node.keys[i] <= j
        /\ \A i \in (p + 1)..Len(node.keys) : u < node.keys[i]
    <3>1. inner_position_for(node, j) = p /\ inner_position_for(node, u) = p
      BY <2>1, <2>2, <2>3
    <3>. HIDE DEF p, node
    <3>2. /\ p \in 0..Len(node.keys)
          /\ \A i \in 1..p : node.keys[i] <= j
      BY <2>4, <3>1, InnerPosition
    <3>3. \A i \in (p + 1)..Len(node.keys) : u < node.keys[i]
      BY <2>1, <2>4, <3>1, InnerPosition
    <3>. QED
      BY <3>2, <3>3
  <2>. HIDE DEF p, node
  <2>6. \A i \in 1..Len(node.keys) : node.keys[i] \in Nat
    BY <2>4, InnerTyped
  <2>7. Len(node.keys) \in Nat
    BY <2>4, InnerTyped
  <2>8. p > 0 => node.keys[p] < u
    <3>1. p > 0 => p \in 1..p /\ p \in 1..Len(node.keys)
      BY <2>5, <2>7
    <3>. QED
      BY <2>1, <2>2, <2>5, <2>6, <3>1
  <2>9. p < Len(node.keys) => u < node.keys[p + 1]
    <3>1. p < Len(node.keys) => p + 1 \in (p + 1)..Len(node.keys)
      BY <2>5, <2>7
    <3>. QED
      BY <2>5, <3>1
  <2>10. Split(key, val, d - 1) = <<u, Sibling(d - 1)>> /\ Sibling(d - 1) \in Nat
    BY <1>1, <1>3 DEF Split, Sibling, u
  <2>. DEFINE split == Split(key, val, d - 1)
  <2>11. split # <<>> /\ split = <<split[1], split[2]>> /\ split[1] = u /\ split[2] \in Nat
    BY <2>10
  <2>. QED
    BY <2>1, <2>8, <2>9, <2>11 DEF Fits, p, node
<1>. QED
  BY <1>2, <1>3

\* What insert makes of each node it comes to.
LEMMA InnerAfter ==
  ASSUME Tree, NEW key \in Keys, NEW val \in Rows, NEW d \in 1..depth
  PROVE  /\ InnerInserted(Node(key, d), key, Split(key, val, d - 1), After(key, val, d))
         /\ Full(key, d) <=> Len(Node(key, d).keys) = N
         /\ Full(key, d) => UpKey(Node(key, d)) = Up(key, val, d)
<1>1. key \in Nat /\ depth \in Nat /\ d # 0 /\ d \in 0..depth
  BY TreeAssumption DEF Tree, Bounds
<1>. DEFINE node == Node(key, d)
            split == Split(key, val, d - 1)
<1>2. InnerNode(node) /\ Fits(node, key, split)
  BY <1>1, SplitFits DEF Tree, Inners, Inner, Node
<1>3. After(key, val, d) = inner_insert(node, key, split)
  BY <1>1 DEF After
<1>. HIDE DEF node, split
<1>4. Len(node.keys) < N \/ Len(node.keys) = N
  BY <1>2, TreeAssumption DEF InnerNode
<1>5. InnerInserted(node, key, split, After(key, val, d))
  BY <1>1, <1>2, <1>3, <1>4, InnerInsertedNonfull, InnerInsertedFull
<1>. QED
  BY <1>1, <1>5 DEF Full, Up, node, split

\* And of the leaf.
LEMMA LeafAfter ==
  ASSUME Tree, NEW key \in Keys, NEW val \in Rows
  PROVE  /\ LeafInserted(Node(key, 0), Found0(Way(key)[0]), key, val, After(key, val, 0))
         /\ Full(key, 0) <=> Node(key, 0).n = M
         /\ Up(key, val, 0) = After(key, val, 0)[2].keys[0]
<1>. DEFINE l == Node(key, 0)
            S == Found0(Way(key)[0])
<1>1. Leaf(l, S) /\ key \in Keys \cap S /\ S \subseteq Nat
  BY TreeAssumption DEF Tree, Leaves, Node, Found0
<1>2. After(key, val, 0) = leaf_insert(l, key, val)
  BY DEF After
<1>3. Up(key, val, 0) = leaf_insert(l, key, val)[2].keys[0]
  BY DEF Up, SplitKey
<1>. HIDE DEF l, S
<1>4. l.n < M \/ l.n = M
  BY <1>1, LeafTyped, TreeAssumption
<1>5. LeafInserted(l, S, key, val, leaf_insert(l, key, val))
  BY <1>1, <1>4, LeafInsertedNonfull, LeafInsertedFull
<1>. QED
  BY <1>2, <1>3, <1>5 DEF Full, l, S

\* The heap after it.
LEMMA HeapAfter ==
  ASSUME Tree, NEW key \in Keys, NEW val \in Rows, Insert(key, val)
  PROVE  LET new == top + depth + 1
         IN  /\ \A x \in DOMAIN heap : (\A d \in 0..depth : Way(key)[d] # x) => heap'[x] = heap[x]
             /\ \A d \in 0..depth : heap'[Way(key)[d]] = After(key, val, d)[1]
             /\ \A d \in 0..depth : Full(key, d) => heap'[Sibling(d)] = After(key, val, d)[2]
             /\ DOMAIN heap' = DOMAIN heap \union {Sibling(d) : d \in {e \in 0..depth : Full(key, e)}}
                                 \union (IF Full(key, depth) THEN {new} ELSE {})
             /\ Full(key, depth) =>
                  /\ root' = new /\ depth' = depth + 1
                  /\ heap'[new] = [keys |-> <<Up(key, val, depth)>>, kids |-> <<root, Sibling(depth)>>]
             /\ ~Full(key, depth) => root' = root /\ depth' = depth
             /\ top' = IF \A d \in 0..depth : ~Full(key, d) THEN top ELSE new + 1
             /\ changes' \in 0..MaxChanges
<1>. DEFINE new == top + depth + 1
            full == {d \in 0..depth : Full(key, d)}
            way == Way(key)
            D == DOMAIN heap \union {Sibling(d) : d \in full}
                   \union (IF depth \in full THEN {new} ELSE {})
            at(x) == IF x = new
                     THEN [keys |-> <<Up(key, val, depth)>>, kids |-> <<root, Sibling(depth)>>]
                     ELSE IF x >= top THEN After(key, val, x - top)[2]
                     ELSE IF \E d \in 0..depth : way[d] = x
                          THEN After(key, val, CHOOSE d \in 0..depth : way[d] = x)[1]
                     ELSE heap[x]
<1>1. /\ heap' = [x \in D |-> at(x)]
      /\ top' = IF full = {} THEN top ELSE new + 1
      /\ IF depth \in full THEN root' = new /\ depth' = depth + 1 ELSE root' = root /\ depth' = depth
      /\ \/ changes < MaxChanges /\ changes' = changes + 1
         \/ changes' = changes
  BY DEF Insert
<1>2. /\ key \in Nat /\ top \in Nat /\ depth \in Nat /\ new \in Nat /\ new > top + depth
      /\ depth \in 0..depth /\ changes \in 0..MaxChanges
  BY TreeAssumption DEF Tree, Bounds
<1>3. \A x \in DOMAIN heap : x \in Nat /\ x < top
  BY DEF Tree, Addressed
<1>4. \A d \in 0..depth : way[d] \in DOMAIN heap
  BY <1>2, WayNow
<1>5. \A d, e \in 0..depth : way[d] = way[e] => d = e
  BY <1>2 DEF Tree, OneWay
<1>6. \A d \in 0..depth : Sibling(d) = top + d
  BY DEF Sibling
<1>. HIDE DEF D, at, full, new
<1>7. \A x \in D : heap'[x] = at(x)
  BY <1>1
<1>8. \A x \in DOMAIN heap : x # new /\ ~(x >= top) /\ x \in D
  BY <1>2, <1>3 DEF D
<1>9. ASSUME NEW x \in DOMAIN heap, \A d \in 0..depth : way[d] # x
      PROVE  heap'[x] = heap[x]
  <2>1. at(x) = heap[x]
    BY <1>8, <1>9 DEF at
  <2>. QED
    BY <1>7, <1>8, <2>1
<1>10. ASSUME NEW d \in 0..depth
       PROVE  heap'[way[d]] = After(key, val, d)[1]
  <2>1. (CHOOSE e \in 0..depth : way[e] = way[d]) = d
    BY <1>5
  <2>2. way[d] \in D /\ way[d] # new /\ ~(way[d] >= top)
    BY <1>4, <1>8
  <2>3. at(way[d]) = After(key, val, d)[1]
    BY <2>1, <2>2 DEF at
  <2>. QED
    BY <1>7, <2>2, <2>3
<1>11. ASSUME NEW d \in 0..depth, Full(key, d)
       PROVE  heap'[Sibling(d)] = After(key, val, d)[2]
  <2>1. Sibling(d) # new /\ Sibling(d) >= top /\ Sibling(d) - top = d
    BY <1>2, <1>6 DEF new
  <2>2. Sibling(d) \in D
    BY <1>11 DEF D, full
  <2>3. at(Sibling(d)) = After(key, val, d)[2]
    BY <2>1 DEF at
  <2>. QED
    BY <1>7, <2>2, <2>3
<1>12. ASSUME Full(key, depth)
       PROVE  /\ root' = new /\ depth' = depth + 1
              /\ heap'[new] = [keys |-> <<Up(key, val, depth)>>, kids |-> <<root, Sibling(depth)>>]
  <2>1. depth \in full /\ new \in D
    BY <1>2, <1>12 DEF D, full
  <2>. QED
    BY <1>1, <1>7, <2>1 DEF at
<1>13. ~Full(key, depth) => root' = root /\ depth' = depth
  BY <1>1 DEF full
<1>14. /\ top' = IF \A d \in 0..depth : ~Full(key, d) THEN top ELSE new + 1
       /\ changes' \in 0..MaxChanges
  <2>1. full = {} <=> \A d \in 0..depth : ~Full(key, d)
    BY DEF full
  <2>2. changes' \in 0..MaxChanges
    BY <1>1, <1>2, TreeAssumption
  <2>. QED
    BY <1>1, <2>1, <2>2
<1>15. DOMAIN heap' = DOMAIN heap \union {Sibling(d) : d \in {e \in 0..depth : Full(key, e)}}
                        \union (IF Full(key, depth) THEN {new} ELSE {})
  <2>1. depth \in full <=> Full(key, depth)
    BY <1>2 DEF full
  <2>2. DOMAIN heap' = D
    BY <1>1
  <2>. QED
    BY <2>1, <2>2 DEF D, full
<1>. QED
  BY <1>9, <1>10, <1>11, <1>12, <1>13, <1>14, <1>15 DEF new

\* A search comes to the sibling of the node it came to, in its part of the keys.
Passed(key, val, k, d) ==
  Full(key, d) /\ Way(k)[d] = Way(key)[d] /\ Up(key, val, d) <= k
NowAt(key, val, k, d) == IF Passed(key, val, k, d) THEN Sibling(d) ELSE Way(k)[d]

\* What it finds there: its half of an inner node that insert came to, or of the
\* leaf, or a node that is as it was.
LEMMA FoundAfter ==
  ASSUME Tree, NEW key \in Keys, NEW val \in Rows, Insert(key, val),
         NEW k \in Nat, NEW d \in 0..depth
  PROVE  /\ Way(k)[d] = Way(key)[d] /\ d > 0 =>
              heap'[NowAt(key, val, k, d)] = HalfFor(Node(key, d), After(key, val, d), k)
         /\ Way(k)[d] = Way(key)[d] /\ d = 0 =>
              heap'[NowAt(key, val, k, d)] = LeafHalf(Node(key, 0), After(key, val, 0), k)
         /\ Way(k)[d] # Way(key)[d] =>
              NowAt(key, val, k, d) = Way(k)[d] /\ heap'[Way(k)[d]] = heap[Way(k)[d]]
<1>1. key \in Nat /\ depth \in Nat
  BY TreeAssumption DEF Tree, Bounds
<1>2. /\ \A x \in DOMAIN heap : (\A e \in 0..depth : Way(key)[e] # x) => heap'[x] = heap[x]
      /\ heap'[Way(key)[d]] = After(key, val, d)[1]
      /\ Full(key, d) => heap'[Sibling(d)] = After(key, val, d)[2]
  BY HeapAfter
<1>3. CASE Way(k)[d] = Way(key)[d] /\ d > 0
  <2>1. d \in 1..depth
    BY <1>1, <1>3
  <2>2. /\ Full(key, d) <=> Len(Node(key, d).keys) = N
        /\ Full(key, d) => UpKey(Node(key, d)) = Up(key, val, d)
    BY <2>1, InnerAfter
  <2>. QED
    BY <1>2, <1>3, <2>2 DEF HalfFor, NowAt, Passed
<1>4. CASE Way(k)[d] = Way(key)[d] /\ d = 0
  <2>1. /\ Full(key, 0) <=> Node(key, 0).n = M
        /\ Up(key, val, 0) = After(key, val, 0)[2].keys[0]
    BY LeafAfter
  <2>. QED
    BY <1>2, <1>4, <2>1 DEF LeafHalf, NowAt, Passed
<1>5. CASE Way(k)[d] # Way(key)[d]
  <2>1. Way(k)[d] \in DOMAIN heap
    BY <1>1, WayNow
  <2>2. \A e \in 0..depth : Way(key)[e] # Way(k)[d]
    BY <1>1, <1>5 DEF Tree, OneWay
  <2>. QED
    BY <1>2, <1>5, <2>1, <2>2 DEF NowAt, Passed
<1>. QED
  BY <1>1, <1>3, <1>4, <1>5

\* Searches that agree at a level agree on the position above it, and only they.
LEMMA SamePosition ==
  ASSUME Tree, NEW j \in Nat, NEW k \in Nat, NEW d \in 0..(depth - 1),
         Way(j)[d + 1] = Way(k)[d + 1]
  PROVE  Way(j)[d] = Way(k)[d] <=>
           inner_position_for(heap[Way(j)[d + 1]], j) = inner_position_for(heap[Way(j)[d + 1]], k)
<1>1. depth \in Nat
  BY DEF Tree, Bounds
<1>2. d \in 0..depth /\ d < depth
  BY <1>1
<1>3. /\ Way(j)[d] = Child(heap[Way(j)[d + 1]], inner_position_for(heap[Way(j)[d + 1]], j))
      /\ Way(k)[d] = Child(heap[Way(k)[d + 1]], inner_position_for(heap[Way(k)[d + 1]], k))
  BY WayNow
<1>4. Way(j)[d] = Way(k)[d] =>
        inner_position_for(heap[Way(j)[d + 1]], j) = inner_position_for(heap[Way(k)[d + 1]], k)
  BY <1>2 DEF Tree, OneWay
<1>. QED
  BY <1>3, <1>4

\* Where every search comes to, after insert.
LEMMA WayAfter ==
  ASSUME Tree, NEW key \in Keys, NEW val \in Rows, Insert(key, val), NEW k \in Nat
  PROVE  /\ depth' \in Nat
         /\ \A d \in 0..depth : Way(k)'[d] = NowAt(key, val, k, d)
         /\ Full(key, depth) => Way(k)'[depth + 1] = top + depth + 1
<1>1. key \in Nat /\ depth \in Nat /\ top \in Nat
  BY TreeAssumption DEF Tree, Bounds
<1>. DEFINE new == top + depth + 1
<1>2. /\ Full(key, depth) =>
           /\ root' = new /\ depth' = depth + 1
           /\ heap'[new] = [keys |-> <<Up(key, val, depth)>>, kids |-> <<root, Sibling(depth)>>]
      /\ ~Full(key, depth) => root' = root /\ depth' = depth
  BY HeapAfter
<1>. HIDE DEF new
<1>3. depth' \in Nat
  BY <1>1, <1>2
<1>4. /\ Way(k)'[depth'] = root'
      /\ \A d \in 0..(depth' - 1) :
           Way(k)'[d] = Child(heap'[Way(k)'[d + 1]], inner_position_for(heap'[Way(k)'[d + 1]], k))
  BY <1>3, WayNext
<1>5. Way(k)[depth] = root /\ Way(key)[depth] = root
  BY <1>1, WayNow
<1>6. Way(k)'[depth] = NowAt(key, val, k, depth)
  <2>1. CASE ~Full(key, depth)
    BY <1>2, <1>4, <1>5, <2>1 DEF NowAt, Passed
  <2>2. CASE Full(key, depth)
    <3>. DEFINE u == Up(key, val, depth)
                node == [keys |-> <<u>>, kids |-> <<root, Sibling(depth)>>]
    <3>1. u \in Keys /\ u \in Nat
      BY <1>1, <2>2, UpBelongs
    <3>. HIDE DEF u
    <3>2. root \in Nat /\ Sibling(depth) \in Nat
      <4>1. Way(k)[depth] \in DOMAIN heap
        BY <1>1, WayNow
      <4>. QED
        BY <1>1, <1>5, <4>1 DEF Tree, Addressed, Sibling
    <3>3. /\ node.keys = <<u>> /\ Len(node.keys) = 1 /\ node.keys[1] = u
          /\ node.kids[1] = root /\ node.kids[2] = Sibling(depth)
      OBVIOUS
    <3>4. InnerNode(node)
      <4>1. node \in [keys : Seq(Keys), kids : Seq(Nat)]
        BY <3>1, <3>2
      <4>2. Len(node.kids) = 2 /\ 1 \in 1..N
        BY TreeAssumption
      <4>3. \A i, j \in 1..1 : ~(i < j)
        OBVIOUS
      <4>. QED
        BY <3>3, <4>1, <4>2, <4>3 DEF InnerNode, Ascends
    <3>. HIDE DEF node
    <3>5. inner_position_for(node, k) = IF u <= k THEN 1 ELSE 0
      <4>1. CASE u <= k
        <5>1. /\ 1 \in 0..Len(node.keys)
              /\ 1 > 0 => node.keys[1] <= k
              /\ 1 < Len(node.keys) => k < node.keys[1 + 1]
          BY <3>3, <4>1
        <5>. QED
          BY <3>4, <4>1, <5>1, InnerPositionIs
      <4>2. CASE ~(u <= k)
        <5>1. /\ 0 \in 0..Len(node.keys)
              /\ 0 > 0 => node.keys[0] <= k
              /\ 0 < Len(node.keys) => k < node.keys[0 + 1]
          BY <3>1, <3>3, <4>2
        <5>. QED
          BY <3>4, <4>2, <5>1, InnerPositionIs
      <4>. QED
        BY <4>1, <4>2
    <3>6. depth \in 0..(depth' - 1) /\ Way(k)'[depth + 1] = new /\ heap'[new] = node
      BY <1>1, <1>2, <1>4, <2>2 DEF node, u
    <3>7. Way(k)'[depth] = Child(node, inner_position_for(node, k))
      BY <1>4, <3>6
    <3>8. Way(k)'[depth] = IF u <= k THEN Sibling(depth) ELSE root
      BY <3>3, <3>5, <3>7 DEF Child
    <3>. QED
      BY <1>5, <2>2, <3>8 DEF NowAt, Passed, u
  <2>. QED
    BY <2>1, <2>2
<1>7. ASSUME NEW d \in 0..(depth - 1), Way(k)'[d + 1] = NowAt(key, val, k, d + 1)
      PROVE  Way(k)'[d] = NowAt(key, val, k, d)
  <2>1. d \in 0..depth /\ d + 1 \in 1..depth /\ d + 1 \in 0..depth /\ d + 1 > 0 /\ (d + 1) - 1 = d
        /\ d \in 0..(depth' - 1)
    BY <1>1, <1>2
  <2>. DEFINE node == heap[Way(k)[d + 1]]
              there == heap'[NowAt(key, val, k, d + 1)]
  <2>2. Way(k)'[d] = Child(there, inner_position_for(there, k))
    BY <1>4, <1>7, <2>1
  <2>3. Way(k)[d] = Child(node, inner_position_for(node, k))
    BY <2>1, WayNow
  <2>4. CASE Way(k)[d + 1] # Way(key)[d + 1]
    <3>1. there = node
      BY <2>1, <2>4, FoundAfter
    <3>2. Way(k)[d] # Way(key)[d]
      BY <1>1, <2>1, <2>4 DEF Tree, OneWay
    <3>. QED
      BY <2>2, <2>3, <3>1, <3>2 DEF NowAt, Passed
  <2>5. CASE Way(k)[d + 1] = Way(key)[d + 1]
    <3>. DEFINE split == Split(key, val, d)
                half == HalfFor(node, After(key, val, d + 1), k)
    <3>1. node = Node(key, d + 1) /\ there = half
      BY <2>1, <2>5, FoundAfter DEF Node
    <3>2. InnerInserted(node, key, split, After(key, val, d + 1))
      BY <2>1, <3>1, InnerAfter
    <3>3. Child(half, inner_position_for(half, k)) =
            IF split # <<>> /\ inner_position_for(node, key) = inner_position_for(node, k)
               /\ split[1] <= k
            THEN split[2] ELSE Child(node, inner_position_for(node, k))
      BY <3>2 DEF InnerInserted
    <3>4. Way(k)[d] = Way(key)[d] <=> inner_position_for(node, k) = inner_position_for(node, key)
      BY <1>1, <2>5, SamePosition
    <3>5. /\ Full(key, d) => split # <<>> /\ split[1] = Up(key, val, d) /\ split[2] = Sibling(d)
          /\ ~Full(key, d) => split = <<>>
      BY DEF Split
    <3>. HIDE DEF node, there, split, half
    <3>. QED
      BY <2>2, <2>3, <3>1, <3>3, <3>4, <3>5 DEF NowAt, Passed
  <2>. QED
    BY <2>4, <2>5
<1>8. \A d \in 0..depth : Way(k)'[d] = NowAt(key, val, k, d)
  <2>. DEFINE I == {d \in 0..depth : Way(k)'[d] = NowAt(key, val, k, d)}
  <2>1. depth \in I /\ \A d \in 0..(depth - 1) : d + 1 \in I => d \in I
    BY <1>1, <1>6, <1>7
  <2>2. \A d \in 0..depth : d \in I
    <3>. HIDE DEF I
    <3>. QED
      BY <1>1, <2>1, Downward
  <2>. QED
    BY <2>2
<1>9. Full(key, depth) => Way(k)'[depth + 1] = new
  BY <1>2, <1>4
<1>. QED
  BY <1>3, <1>8, <1>9 DEF new

\* Searches meet after insert where they met before, on one side of the key that
\* went up.
LEMMA MeetAfter ==
  ASSUME Tree, NEW key \in Keys, NEW val \in Rows,
         NEW j \in Nat, NEW k \in Nat, NEW d \in 0..depth, NEW e \in 0..depth
  PROVE  NowAt(key, val, j, d) = NowAt(key, val, k, e) <=>
           /\ d = e /\ Way(j)[d] = Way(k)[d]
           /\ Passed(key, val, j, d) <=> Passed(key, val, k, d)
<1>1. key \in Nat /\ depth \in Nat /\ top \in Nat
  BY TreeAssumption DEF Tree, Bounds
<1>2. /\ Way(j)[d] \in Nat /\ Way(j)[d] < top
      /\ Way(k)[e] \in Nat /\ Way(k)[e] < top
  <2>1. Way(j)[d] \in DOMAIN heap /\ Way(k)[e] \in DOMAIN heap
    BY WayNow
  <2>. QED
    BY <2>1 DEF Tree, Addressed
<1>3. Sibling(d) = top + d /\ Sibling(e) = top + e
  BY DEF Sibling
<1>4. Way(j)[d] = Way(k)[e] => d = e
  BY DEF Tree, OneWay
<1>5. /\ Sibling(d) # Way(j)[d] /\ Sibling(d) # Way(k)[e] /\ Sibling(e) # Way(j)[d]
      /\ Sibling(d) = Sibling(e) => d = e
  BY <1>1, <1>2, <1>3
<1>. QED
  BY <1>4, <1>5 DEF NowAt, Passed

\* The new root, when the old one was full.
LEMMA NewRoot ==
  ASSUME Tree, NEW key \in Keys, NEW val \in Rows, Insert(key, val), Full(key, depth)
  PROVE  LET x == top + depth + 1
             u == Up(key, val, depth)
         IN  /\ InnerNode(heap'[x]) /\ Len(heap'[x].keys) = 1 /\ heap'[x].keys[1] = u
             /\ u \in Nat \ {0}
             /\ \A k \in Nat : inner_position_for(heap'[x], k) = IF u <= k THEN 1 ELSE 0
<1>. DEFINE u == Up(key, val, depth)
            x == top + depth + 1
            node == [keys |-> <<u>>, kids |-> <<root, Sibling(depth)>>]
<1>1. key \in Nat /\ depth \in Nat /\ top \in Nat /\ 0 \in Nat
  BY TreeAssumption DEF Tree, Bounds
<1>2. heap'[x] = node
  BY HeapAfter
<1>3. u \in Keys /\ u \in Nat \ {0}
  BY <1>1, UpBelongs, TreeAssumption
<1>. HIDE DEF u, x
<1>4. root \in Nat /\ Sibling(depth) \in Nat
  <2>1. Way(0)[depth] \in DOMAIN heap /\ Way(0)[depth] = root
    BY <1>1, WayNow
  <2>. QED
    BY <1>1, <2>1 DEF Tree, Addressed, Sibling
<1>5. node.keys = <<u>> /\ Len(node.keys) = 1 /\ node.keys[1] = u
  OBVIOUS
<1>6. InnerNode(node)
  <2>1. node \in [keys : Seq(Keys), kids : Seq(Nat)]
    BY <1>3, <1>4
  <2>2. Len(node.kids) = 2 /\ 1 \in 1..N
    BY TreeAssumption
  <2>3. \A i, j \in 1..1 : ~(i < j)
    OBVIOUS
  <2>. QED
    BY <1>5, <2>1, <2>2, <2>3 DEF InnerNode, Ascends
<1>. HIDE DEF node
<1>7. ASSUME NEW k \in Nat
      PROVE  inner_position_for(node, k) = IF u <= k THEN 1 ELSE 0
  <2>1. CASE u <= k
    <3>1. /\ 1 \in 0..Len(node.keys)
          /\ 1 > 0 => node.keys[1] <= k
          /\ 1 < Len(node.keys) => k < node.keys[1 + 1]
      BY <1>5, <2>1
    <3>. QED
      BY <1>6, <2>1, <3>1, InnerPositionIs
  <2>2. CASE ~(u <= k)
    <3>1. /\ 0 \in 0..Len(node.keys)
          /\ 0 > 0 => node.keys[0] <= k
          /\ 0 < Len(node.keys) => k < node.keys[0 + 1]
      BY <1>3, <1>5, <2>2
    <3>. QED
      BY <1>6, <2>2, <3>1, InnerPositionIs
  <2>. QED
    BY <2>1, <2>2
<1>. QED
  BY <1>2, <1>3, <1>5, <1>6, <1>7 DEF u, x

\* insert keeps the nodes those that searches come to.
LEMMA InsertAddressed ==
  ASSUME Tree, NEW key \in Keys, NEW val \in Rows, Insert(key, val)
  PROVE  Bounds' /\ Addressed'
<1>. DEFINE new == top + depth + 1
            full == {d \in 0..depth : Full(key, d)}
<1>1. key \in Nat /\ depth \in Nat /\ top \in Nat /\ depth \in 0..depth /\ 0 \in Nat
  BY TreeAssumption DEF Tree, Bounds
<1>2. /\ DOMAIN heap' = DOMAIN heap \union {Sibling(d) : d \in full}
                          \union (IF Full(key, depth) THEN {new} ELSE {})
      /\ depth' = IF Full(key, depth) THEN depth + 1 ELSE depth
      /\ top' = IF full = {} THEN top ELSE new + 1
      /\ changes' \in 0..MaxChanges
  BY HeapAfter
<1>3. new \in Nat /\ top < new /\ \A d \in 0..depth : Sibling(d) \in Nat /\ Sibling(d) < new
  BY <1>1 DEF Sibling
<1>4. /\ \A k \in Nat : \A d \in 0..depth : Way(k)'[d] = NowAt(key, val, k, d)
      /\ \A k \in Nat : Full(key, depth) => Way(k)'[depth + 1] = new
      /\ depth' \in Nat
  BY <1>1, WayAfter
<1>. HIDE DEF new, full
<1>5. Bounds'
  BY <1>1, <1>2, <1>3, <1>4 DEF Bounds
<1>6. \A x \in DOMAIN heap' : x \in Nat /\ x < top'
  <2>1. ASSUME NEW x \in DOMAIN heap
        PROVE  x \in Nat /\ x < top'
    <3>1. x \in Nat /\ x < top
      BY DEF Tree, Addressed
    <3>. QED
      BY <1>1, <1>2, <1>3, <3>1
  <2>2. ASSUME NEW d \in full
        PROVE  Sibling(d) \in Nat /\ Sibling(d) < top'
    <3>1. d \in 0..depth /\ full # {}
      BY DEF full
    <3>. QED
      BY <1>2, <1>3, <3>1
  <2>3. Full(key, depth) => new < top'
    <3>1. Full(key, depth) => full # {}
      BY <1>1 DEF full
    <3>. QED
      BY <1>2, <1>3, <3>1
  <2>. QED
    BY <1>2, <1>3, <2>1, <2>2, <2>3
<1>7. ASSUME NEW k \in Nat, NEW d \in 0..depth'
      PROVE  Way(k)'[d] \in DOMAIN heap'
  <2>1. CASE d \in 0..depth
    <3>1. Way(k)'[d] = NowAt(key, val, k, d)
      BY <1>4, <2>1
    <3>2. Way(k)[d] \in DOMAIN heap
      BY <1>1, <2>1, WayNow
    <3>3. Passed(key, val, k, d) => d \in full
      BY <2>1 DEF Passed, full
    <3>. QED
      BY <1>2, <3>1, <3>2, <3>3 DEF NowAt
  <2>2. CASE d \notin 0..depth
    <3>1. d = depth + 1 /\ Full(key, depth)
      BY <1>1, <1>2, <2>2
    <3>. QED
      BY <1>2, <1>4, <3>1
  <2>. QED
    BY <2>1, <2>2
<1>8. ASSUME NEW x \in DOMAIN heap'
      PROVE  \E k \in Nat : \E d \in 0..depth' : x = Way(k)'[d]
  <2>1. \A d \in 0..depth : d \in 0..depth'
    BY <1>1, <1>2
  <2>2. CASE x \in DOMAIN heap
    <3>1. PICK k \in Nat, d \in 0..depth : x = Way(k)[d]
      BY <2>2 DEF Tree, Addressed
    <3>2. CASE Way(k)[d] # Way(key)[d] \/ ~Full(key, d)
      <4>1. NowAt(key, val, k, d) = x
        BY <3>1, <3>2 DEF NowAt, Passed
      <4>. QED
        BY <1>4, <2>1, <4>1
    <3>3. CASE Way(k)[d] = Way(key)[d] /\ Full(key, d)
      <4>1. /\ Up(key, val, d) \in Nat
            /\ \E j \in Nat : Way(j)[d] = Way(key)[d] /\ j < Up(key, val, d)
        BY <3>3, UpBelongs
      <4>2. PICK j \in Nat : Way(j)[d] = Way(key)[d] /\ j < Up(key, val, d)
        BY <4>1
      <4>3. ~(Up(key, val, d) <= j)
        BY <4>1, <4>2
      <4>4. NowAt(key, val, j, d) = x
        BY <3>1, <3>3, <4>2, <4>3 DEF NowAt, Passed
      <4>. QED
        BY <1>4, <2>1, <4>4
    <3>. QED
      BY <3>2, <3>3
  <2>3. CASE x \in {Sibling(d) : d \in full}
    <3>1. PICK d \in 0..depth : Full(key, d) /\ x = Sibling(d)
      BY <2>3 DEF full
    <3>2. Up(key, val, d) \in Nat /\ Way(Up(key, val, d))[d] = Way(key)[d]
      BY <3>1, UpBelongs
    <3>3. NowAt(key, val, Up(key, val, d), d) = x
      BY <3>1, <3>2 DEF NowAt, Passed
    <3>. QED
      BY <1>4, <2>1, <3>2, <3>3
  <2>4. CASE Full(key, depth) /\ x = new
    <3>1. Way(0)'[depth + 1] = x /\ depth + 1 \in 0..depth'
      BY <1>1, <1>2, <1>4, <2>4
    <3>. QED
      BY <1>1, <3>1
  <2>. QED
    BY <1>2, <2>2, <2>3, <2>4
<1>9. DOMAIN heap' = {Way(k)'[d] : k \in Nat, d \in 0..depth'}
  <2>. DEFINE reached == {Way(k)'[d] : k \in Nat, d \in 0..depth'}
  <2>1. reached \subseteq DOMAIN heap'
    BY <1>7
  <2>2. DOMAIN heap' \subseteq reached
    BY <1>8
  <2>3. DOMAIN heap' = reached
    <3>. HIDE DEF reached
    <3>. QED
      BY <2>1, <2>2
  <2>. QED
    BY <2>3
<1>. QED
  BY <1>5, <1>6, <1>9 DEF Addressed

\* insert keeps it a tree.
LEMMA InsertOneWay ==
  ASSUME Tree, NEW key \in Keys, NEW val \in Rows, Insert(key, val)
  PROVE  OneWay'
<1>. DEFINE new == top + depth + 1
<1>1. key \in Nat /\ depth \in Nat /\ top \in Nat /\ depth \in 0..depth
  BY TreeAssumption DEF Tree, Bounds
<1>2. depth' = IF Full(key, depth) THEN depth + 1 ELSE depth
  BY HeapAfter
<1>3. /\ \A k \in Nat : \A d \in 0..depth : Way(k)'[d] = NowAt(key, val, k, d)
      /\ \A k \in Nat : Full(key, depth) => Way(k)'[depth + 1] = new
  BY <1>1, WayAfter
<1>. HIDE DEF new
<1>4. ASSUME NEW k \in Nat, NEW d \in 0..depth
      PROVE  NowAt(key, val, k, d) # new
  <2>1. Way(k)[d] \in Nat /\ Way(k)[d] < top
    <3>1. Way(k)[d] \in DOMAIN heap
      BY WayNow
    <3>. QED
      BY <3>1 DEF Tree, Addressed
  <2>. QED
    BY <1>1, <2>1 DEF NowAt, Sibling, new
<1>5. SUFFICES ASSUME NEW d \in 0..depth', NEW e \in 0..depth', NEW j \in Nat, NEW k \in Nat,
                      Way(j)'[d] = Way(k)'[e]
               PROVE  /\ d = e
                      /\ d < depth' =>
                           /\ Way(j)'[d + 1] = Way(k)'[d + 1]
                           /\ inner_position_for(heap'[Way(j)'[d + 1]], j)
                                = inner_position_for(heap'[Way(k)'[d + 1]], k)
  BY Zenon DEF OneWay
<1>6. /\ d \in 0..depth \/ (d = depth + 1 /\ Full(key, depth) /\ ~(d < depth'))
      /\ e \in 0..depth \/ (e = depth + 1 /\ Full(key, depth))
  BY <1>1, <1>2
<1>7. CASE d \in 0..depth /\ e \in 0..depth
  <2>1. /\ d = e /\ Way(j)[d] = Way(k)[d]
        /\ Passed(key, val, j, d) <=> Passed(key, val, k, d)
    BY <1>3, <1>5, <1>7, MeetAfter
  <2>2. CASE d = depth
    <3>1. SUFFICES ASSUME d < depth'
                   PROVE  /\ Way(j)'[d + 1] = Way(k)'[d + 1]
                          /\ inner_position_for(heap'[Way(j)'[d + 1]], j)
                               = inner_position_for(heap'[Way(k)'[d + 1]], k)
      BY <2>1
    <3>2. Full(key, depth) /\ Way(j)'[d + 1] = new /\ Way(k)'[d + 1] = new
      BY <1>1, <1>2, <1>3, <2>2, <3>1
    <3>3. /\ Up(key, val, depth) \in Nat
          /\ \A i \in Nat : inner_position_for(heap'[new], i) = IF Up(key, val, depth) <= i THEN 1 ELSE 0
      BY <3>2, NewRoot DEF new
    <3>4. Way(j)[depth] = Way(key)[depth] /\ Way(k)[depth] = Way(key)[depth]
      BY <1>1, WayNow
    <3>5. Up(key, val, depth) <= j <=> Up(key, val, depth) <= k
      BY <2>1, <2>2, <3>2, <3>4 DEF Passed
    <3>. QED
      BY <3>2, <3>3, <3>5
  <2>3. CASE d # depth
    <3>1. d \in 0..(depth - 1) /\ d < depth /\ d + 1 \in 0..depth /\ d + 1 \in 1..depth /\ d + 1 > 0
          /\ (d + 1) - 1 = d
      BY <1>1, <1>7, <2>3
    <3>. DEFINE node == heap[Way(k)[d + 1]]
    <3>2. /\ Way(j)[d + 1] = Way(k)[d + 1]
          /\ inner_position_for(node, j) = inner_position_for(node, k)
      BY <1>7, <2>1, <3>1 DEF Tree, OneWay
    <3>3. Way(j)'[d + 1] = NowAt(key, val, j, d + 1) /\ Way(k)'[d + 1] = NowAt(key, val, k, d + 1)
      BY <1>3, <3>1
    <3>4. CASE Way(k)[d + 1] # Way(key)[d + 1]
      <4>1. /\ NowAt(key, val, k, d + 1) = Way(k)[d + 1] /\ NowAt(key, val, j, d + 1) = Way(k)[d + 1]
            /\ heap'[Way(k)[d + 1]] = node
        BY <3>1, <3>2, <3>4, FoundAfter
      <4>. QED
        BY <2>1, <3>2, <3>3, <4>1
    <3>5. CASE Way(k)[d + 1] = Way(key)[d + 1]
      <4>. DEFINE split == Split(key, val, d)
                  half(i) == HalfFor(node, After(key, val, d + 1), i)
      <4>1. /\ node = Node(key, d + 1)
            /\ heap'[NowAt(key, val, j, d + 1)] = half(j) /\ heap'[NowAt(key, val, k, d + 1)] = half(k)
        BY <3>1, <3>2, <3>5, FoundAfter DEF Node
      <4>2. /\ InnerInserted(node, key, split, After(key, val, d + 1))
            /\ Full(key, d + 1) <=> Len(node.keys) = N
            /\ Full(key, d + 1) => UpKey(node) = Up(key, val, d + 1)
        BY <3>1, <4>1, InnerAfter
      <4>3. Way(k)[d] = Way(key)[d] <=> inner_position_for(node, k) = inner_position_for(node, key)
        BY <1>1, <3>1, <3>5, SamePosition
      <4>4. /\ Full(key, d) => split # <<>> /\ split[1] = Up(key, val, d)
            /\ ~Full(key, d) => split = <<>>
        BY DEF Split
      <4>. HIDE DEF node, split
      <4>5. split # <<>> /\ inner_position_for(node, key) = inner_position_for(node, k) =>
              (split[1] <= j <=> split[1] <= k)
        BY <2>1, <4>3, <4>4 DEF Passed
      <4>6. /\ Full(key, d + 1) => (Up(key, val, d + 1) <= j <=> Up(key, val, d + 1) <= k)
            /\ inner_position_for(half(j), j) = inner_position_for(half(k), k)
        BY <3>2, <4>2, <4>5 DEF InnerInserted
      <4>7. NowAt(key, val, j, d + 1) = NowAt(key, val, k, d + 1)
        BY <3>2, <4>6 DEF NowAt, Passed
      <4>. QED
        BY <2>1, <3>3, <4>1, <4>6, <4>7
    <3>. QED
      BY <3>4, <3>5
  <2>. QED
    BY <2>2, <2>3
<1>8. CASE d \notin 0..depth \/ e \notin 0..depth
  <2>1. d \notin 0..depth => Way(j)'[d] = new
    BY <1>3, <1>6
  <2>2. e \notin 0..depth => Way(k)'[e] = new
    BY <1>3, <1>6
  <2>3. d \notin 0..depth /\ e \notin 0..depth
    BY <1>3, <1>4, <1>5, <1>8, <2>1, <2>2
  <2>. QED
    BY <1>6, <2>3
<1>. QED
  BY <1>7, <1>8


\* insert keeps an inner node's keys among those whose searches come to it, and
\* another key below them.
LEMMA InsertInners ==
  ASSUME Tree, NEW key \in Keys, NEW val \in Rows, Insert(key, val)
  PROVE  Inners'
<1>. DEFINE new == top + depth + 1
<1>1. key \in Nat /\ depth \in Nat /\ top \in Nat /\ depth \in 0..depth /\ 0 \in Nat
  BY TreeAssumption DEF Tree, Bounds
<1>2. depth' = IF Full(key, depth) THEN depth + 1 ELSE depth
  BY HeapAfter
<1>3. /\ \A k \in Nat : \A d \in 0..depth : Way(k)'[d] = NowAt(key, val, k, d)
      /\ \A k \in Nat : Full(key, depth) => Way(k)'[depth + 1] = new
  BY <1>1, WayAfter
<1>4. SUFFICES ASSUME NEW k \in Nat, NEW d \in 1..depth'
               PROVE  /\ InnerNode(heap'[Way(k)'[d]])
                      /\ \A i \in 1..Len(heap'[Way(k)'[d]].keys) : \A q \in Nat :
                           q = heap'[Way(k)'[d]].keys[i] => Way(q)'[d] = Way(k)'[d]
                      /\ \E j \in Nat : Way(j)'[d] = Way(k)'[d] /\ j < heap'[Way(k)'[d]].keys[1]
  BY Zenon DEF Inners, Inner
<1>. DEFINE y == Way(k)'[d]
<1>5. CASE d = depth + 1
  <2>1. Full(key, depth)
    BY <1>1, <1>2, <1>5
  <2>2. y = new /\ \A j \in Nat : Way(j)'[d] = new
    BY <1>3, <1>5, <2>1
  <2>3. /\ InnerNode(heap'[new]) /\ Len(heap'[new].keys) = 1
        /\ heap'[new].keys[1] = Up(key, val, depth) /\ Up(key, val, depth) \in Nat \ {0}
    BY <2>1, NewRoot
  <2>4. 0 < heap'[new].keys[1]
    BY <2>3
  <2>. HIDE DEF new
  <2>. QED
    BY <1>1, <2>2, <2>3, <2>4
<1>6. CASE d \in 1..depth
  <2>. DEFINE x == Way(k)[d]
              node == heap[x]
              there == heap'[y]
  <2>1. d \in 0..depth /\ d - 1 \in 0..depth /\ d - 1 < depth /\ (d - 1) + 1 = d /\ d > 0
    BY <1>1, <1>6
  <2>2. y = NowAt(key, val, k, d) /\ \A j \in Nat : Way(j)'[d] = NowAt(key, val, j, d)
    BY <1>3, <2>1
  <2>3. /\ InnerNode(node)
        /\ \A i \in 1..Len(node.keys) : \A q \in Nat : q = node.keys[i] => Way(q)[d] = x
        /\ \E j \in Nat : Way(j)[d] = x /\ j < node.keys[1]
    BY <1>6 DEF Tree, Inners, Inner
  <2>4. \A i \in 1..Len(node.keys) : node.keys[i] \in Nat
    BY <2>3, InnerTyped
  <2>. HIDE DEF y
  <2>5. CASE x # Way(key)[d]
    <3>1. y = x /\ there = node
      BY <2>1, <2>2, <2>5, FoundAfter
    <3>2. \A j \in Nat : Way(j)[d] = x => NowAt(key, val, j, d) = y
      BY <2>5, <3>1 DEF NowAt, Passed
    <3>. HIDE DEF x, node, there
    <3>. QED
      BY <2>2, <2>3, <2>4, <3>1, <3>2 DEF y, there
  <2>6. CASE x = Way(key)[d]
    <3>. DEFINE split == Split(key, val, d - 1)
                u == Up(key, val, d)
                w == Up(key, val, d - 1)
    <3>1. node = Node(key, d) /\ there = HalfFor(node, After(key, val, d), k)
      BY <2>1, <2>2, <2>6, FoundAfter DEF Node
    <3>2. /\ InnerInserted(node, key, split, After(key, val, d))
          /\ Full(key, d) <=> Len(node.keys) = N
          /\ Full(key, d) => UpKey(node) = u
      BY <1>6, <3>1, InnerAfter
    <3>3. /\ split # <<>> => Full(key, d - 1) /\ split[1] = w
      BY DEF Split
    <3>. HIDE DEF node, there, split, u
    <3>4. /\ InnerNode(there)
          /\ \A i \in 1..Len(there.keys) :
               /\ \/ split # <<>> /\ there.keys[i] = split[1]
                  \/ \E j \in 1..Len(node.keys) : there.keys[i] = node.keys[j]
               /\ Full(key, d) => (u <= there.keys[i] <=> u <= k)
          /\ IF Full(key, d) /\ u <= k THEN u < there.keys[1]
             ELSE \/ split # <<>> /\ there.keys[1] = split[1]
                  \/ there.keys[1] = node.keys[1]
      <4>. DEFINE new2 == After(key, val, d)
      <4>1. there = HalfFor(node, new2, k) /\ InnerInserted(node, key, split, new2)
        BY <3>1, <3>2
      <4>. HIDE DEF new2
      <4>2. InnerNode(there)
        BY <4>1 DEF InnerInserted
      <4>3. \A i \in 1..Len(there.keys) :
              /\ \/ split # <<>> /\ there.keys[i] = split[1]
                 \/ \E j \in 1..Len(node.keys) : there.keys[i] = node.keys[j]
              /\ Len(node.keys) = N => (UpKey(node) <= there.keys[i] <=> UpKey(node) <= k)
        BY <4>1 DEF InnerInserted
      <4>4. IF Len(node.keys) = N /\ UpKey(node) <= k THEN UpKey(node) < there.keys[1]
            ELSE \/ split # <<>> /\ there.keys[1] = split[1]
                 \/ there.keys[1] = node.keys[1]
        BY <4>1 DEF InnerInserted
      <4>. QED
        BY <3>2, <4>2, <4>3, <4>4
    <3>5. /\ Full(key, d) => /\ u \in Nat /\ Way(u)[d] = x
          /\ Full(key, d - 1) => /\ w \in Nat /\ Way(w)[d - 1] = Way(key)[d - 1]
                                 /\ \E j \in Nat : Way(j)[d - 1] = Way(key)[d - 1] /\ j < w
      BY <2>1, <2>6, UpBelongs DEF u
    <3>6. ASSUME NEW j \in Nat, Way(j)[d - 1] = Way(key)[d - 1]
          PROVE  Way(j)[d] = x
      BY <1>1, <2>1, <2>6, <3>6 DEF Tree, OneWay
    <3>7. ASSUME NEW j \in Nat, Way(j)[d] = x, Full(key, d) => (u <= j <=> u <= k)
          PROVE  NowAt(key, val, j, d) = y
      BY <2>2, <2>6, <3>7 DEF NowAt, Passed, u
    <3>8. ASSUME NEW i \in 1..Len(there.keys), NEW q \in Nat, q = there.keys[i]
          PROVE  NowAt(key, val, q, d) = y
      <4>. HIDE DEF w
      <4>1. Way(q)[d] = x
        BY <2>3, <3>3, <3>4, <3>5, <3>6, <3>8 DEF node
      <4>. QED
        BY <3>4, <3>7, <3>8, <4>1
    <3>9. \E j \in Nat : NowAt(key, val, j, d) = y /\ j < there.keys[1]
      <4>. HIDE DEF w, x
      <4>1. CASE Full(key, d) /\ u <= k
        <5>1. NowAt(key, val, u, d) = y
          BY <3>5, <3>7, <4>1
        <5>. QED
          BY <3>4, <3>5, <4>1, <5>1
      <4>2. CASE ~(Full(key, d) /\ u <= k)
        <5>1. \E j \in Nat : Way(j)[d] = x /\ j < there.keys[1]
          BY <2>3, <3>3, <3>4, <3>5, <3>6, <4>2 DEF node
        <5>2. PICK j \in Nat : Way(j)[d] = x /\ j < there.keys[1]
          BY <5>1
        <5>3. there.keys[1] \in Nat /\ 1 \in 1..Len(there.keys)
          <6>1. InnerNode(there)
            BY <3>4
          <6>. HIDE DEF there
          <6>2. Len(there.keys) \in 1..N
            BY <6>1 DEF InnerNode
          <6>. QED
            BY <6>1, <6>2, InnerTyped
        <5>4. Full(key, d) => (u <= j <=> u <= k)
          BY <3>4, <3>5, <4>2, <5>2, <5>3
        <5>. QED
          BY <3>7, <5>2, <5>4
      <4>. QED
        BY <4>1, <4>2
    <3>. QED
      BY <2>2, <3>4, <3>8, <3>9 DEF y, there
  <2>. QED
    BY <2>5, <2>6
<1>7. d = depth + 1 \/ d \in 1..depth
  BY <1>1, <1>2
<1>. QED
  BY <1>5, <1>6, <1>7

\* insert keeps a leaf's keys among those whose searches come to it, and the slots
\* past them free of such keys; and its first key the lowest of them.
LEMMA InsertLeaves ==
  ASSUME Tree, NEW key \in Keys, NEW val \in Rows, Insert(key, val)
  PROVE  Leaves'
<1>1. key \in Nat /\ depth \in Nat /\ 0 \in 0..depth /\ 0 \in Nat
  BY TreeAssumption DEF Tree, Bounds
<1>2. \A k \in Nat : Way(k)'[0] = NowAt(key, val, k, 0)
  BY <1>1, WayAfter
<1>3. SUFFICES ASSUME NEW k \in Nat
               PROVE  /\ Leaf(heap'[Way(k)'[0]], {j \in Nat : Way(j)'[0] = Way(k)'[0]})
                      /\ Way(0)'[0] # Way(k)'[0] =>
                           /\ heap'[Way(k)'[0]].n > 0
                           /\ \A j \in Nat : Way(j)'[0] = Way(k)'[0] => heap'[Way(k)'[0]].keys[0] <= j
  BY Zenon DEF Leaves, Lowest, Found0
<1>. DEFINE x == Way(k)[0]
            y == Way(k)'[0]
            F == {j \in Nat : Way(j)'[0] = y}
            S == Found0(x)
<1>4. y = NowAt(key, val, k, 0)
  BY <1>2
<1>5. \A j \in Nat : j \in F <=> /\ j \in S
                                 /\ Passed(key, val, j, 0) <=> Passed(key, val, k, 0)
  <2>1. ASSUME NEW j \in Nat
        PROVE  Way(j)'[0] = y <=> /\ Way(j)[0] = x
                                  /\ Passed(key, val, j, 0) <=> Passed(key, val, k, 0)
    BY <1>1, <1>2, MeetAfter
  <2>. QED
    BY <2>1 DEF Found0
<1>6. F \subseteq Nat /\ S \subseteq Nat
  BY DEF Found0
<1>7. /\ Leaf(heap[x], S)
      /\ Way(0)[0] # x => heap[x].n > 0 /\ \A j \in S : heap[x].keys[0] <= j
  BY DEF Tree, Leaves, Lowest, Found0
<1>8. CASE x # Way(key)[0]
  <2>1. y = x /\ heap'[y] = heap[x]
    BY <1>1, <1>4, <1>8, FoundAfter
  <2>2. \A j \in Nat : j \in F <=> j \in S
    <3>1. \A j \in S : Way(j)[0] = x
      BY DEF Found0
    <3>2. ~Passed(key, val, k, 0) /\ \A j \in S : ~Passed(key, val, j, 0)
      BY <1>8, <3>1 DEF Passed
    <3>. HIDE DEF F, S
    <3>. QED
      BY <1>5, <3>2
  <2>3. F = S
    <3>. HIDE DEF F, S
    <3>. QED
      BY <1>6, <2>2
  <2>4. Way(0)'[0] # y => Way(0)[0] # x
    BY <1>1, <2>2 DEF Found0
  <2>5. \A j \in Nat : Way(j)'[0] = y => j \in S
    BY <2>2
  <2>. HIDE DEF S, x
  <2>. QED
    BY <1>7, <2>1, <2>3, <2>4, <2>5
<1>9. CASE x = Way(key)[0]
  <2>. DEFINE l == Node(key, 0)
              new == After(key, val, 0)
              half == LeafHalf(l, new, k)
              full == Full(key, 0)
              u == Up(key, val, 0)
  <2>1. /\ l = heap[x] /\ heap'[y] = half
    BY <1>1, <1>4, <1>9, FoundAfter DEF Node
  <2>2. /\ LeafInserted(l, S, key, val, new)
        /\ full <=> l.n = M
        /\ u = new[2].keys[0]
    BY <1>9, LeafAfter
  <2>3. key \in S /\ \A j \in Nat : j \in F <=> j \in S /\ (full => (u <= j <=> u <= k))
    <3>1. \A j \in Nat : j \in S <=> Way(j)[0] = x
      BY DEF Found0
    <3>. HIDE DEF S, F
    <3>2. key \in S /\ \A j \in S : Way(j)[0] = Way(key)[0]
      BY <1>1, <1>6, <1>9, <3>1
    <3>. QED
      BY <1>5, <1>9, <3>2 DEF Passed
  <2>. HIDE DEF l, new, half, full, u, S, F, y, x
  <2>4. /\ Leaf(half, IF full THEN Side(S, u, k) ELSE S)
        /\ half.n > 0
        /\ half.keys[0] = IF full /\ u <= k THEN u
                          ELSE IF leaf_position_for(l, key) = 0 THEN key ELSE l.keys[0]
        /\ full => u \in Keys
    BY <2>2 DEF LeafInserted, half
  <2>5. F = IF full THEN Side(S, u, k) ELSE S
    BY <1>6, <2>3 DEF Side
  <2>6. Leaf(half, F)
    BY <2>4, <2>5
  <2>7. ASSUME 0 \notin F, NEW j \in F
        PROVE  half.keys[0] <= j
    <3>1. j \in S /\ (full => (u <= j <=> u <= k)) /\ j \in Nat
      BY <1>6, <2>3
    <3>2. full => u \in Nat /\ ~(u <= 0)
      <4>1. full => u \in Keys
        BY <2>4
      <4>2. u \in Keys => u \in Nat /\ ~(u <= 0)
        BY TreeAssumption
      <4>. QED
        BY <4>1, <4>2
    <3>3. CASE full /\ u <= k
      BY <2>4, <3>1, <3>3
    <3>4. CASE ~(full /\ u <= k)
      <4>1. 0 \notin S
        BY <1>1, <2>3, <2>7, <3>2, <3>4
      <4>2. l.n > 0 /\ l.keys[0] <= j /\ l.keys[0] <= key
        <5>1. Way(0)[0] # x
          BY <1>1, <4>1 DEF S, Found0
        <5>. QED
          BY <1>7, <2>1, <2>3, <3>1, <5>1
      <4>3. Leaf(l, S) /\ l.n \in Nat /\ l.keys[0] \in Nat
        <5>1. Leaf(l, S)
          BY <1>7, <2>1
        <5>2. 0 \in 0..(M - 1)
          BY TreeAssumption
        <5>. QED
          BY <5>1, <5>2, LeafTyped
      <4>4. leaf_position_for(l, key) = 0 => key <= l.keys[0]
        <5>1. 0 \in 0..(l.n - 1)
          BY <4>2, <4>3
        <5>. QED
          BY <1>1, <4>3, <5>1, LeafPosition
      <4>5. half.keys[0] = IF leaf_position_for(l, key) = 0 THEN key ELSE l.keys[0]
        BY <2>4, <3>4
      <4>. QED
        BY <1>1, <3>1, <4>2, <4>3, <4>4, <4>5
    <3>. QED
      BY <3>3, <3>4
  <2>8. /\ Way(0)'[0] # y => 0 \notin F
        /\ \A j \in Nat : Way(j)'[0] = y => j \in F
    BY DEF F
  <2>. QED
    BY <2>1, <2>4, <2>6, <2>7, <2>8 DEF y, F
<1>. QED
  BY <1>8, <1>9

\* So insert keeps the whole invariant.
LEMMA InsertTree ==
  ASSUME Tree, NEW key \in Keys, NEW val \in Rows, Insert(key, val)
  PROVE  Tree'
BY InsertAddressed, InsertOneWay, InsertInners, InsertLeaves DEF Tree

-----------------------------------------------------------------------------
(* del: rows change, and neither the keys nor the ways to them.             *)

\* What stays the same for the searches when no key and no child changes.
SameNodes ==
  /\ UNCHANGED <<top, root, depth>> /\ DOMAIN heap' = DOMAIN heap
  /\ \A k \in Nat : \A d \in 1..depth : heap'[Way(k)[d]] = heap[Way(k)[d]]

\* Then every search comes to the nodes it came to.
LEMMA SameWay ==
  ASSUME Tree, SameNodes
  PROVE  \A k \in Nat : \A d \in 0..depth : Way(k)'[d] = Way(k)[d]
<1>. TAKE k \in Nat
<1>1. depth \in Nat /\ depth' = depth /\ root' = root
  BY DEF Tree, Bounds, SameNodes
<1>2. Way(k)[depth] = root /\ Way(k)'[depth] = root
  BY <1>1, WayNow, WayNext
<1>3. ASSUME NEW d \in 0..(depth - 1), Way(k)'[d + 1] = Way(k)[d + 1]
      PROVE  Way(k)'[d] = Way(k)[d]
  <2>1. d + 1 \in 1..depth
    BY <1>1
  <2>2. heap'[Way(k)[d + 1]] = heap[Way(k)[d + 1]]
    BY <2>1 DEF SameNodes
  <2>3. Way(k)[d] = Child(heap[Way(k)[d + 1]], inner_position_for(heap[Way(k)[d + 1]], k))
    BY WayNow
  <2>4. Way(k)'[d] = Child(heap'[Way(k)'[d + 1]], inner_position_for(heap'[Way(k)'[d + 1]], k))
    BY <1>1, WayNext
  <2>. QED
    BY <1>3, <2>2, <2>3, <2>4
<1>. DEFINE I == {d \in 0..depth : Way(k)'[d] = Way(k)[d]}
<1>4. depth \in I /\ \A d \in 0..(depth - 1) : d + 1 \in I => d \in I
  BY <1>1, <1>2, <1>3
<1>5. \A d \in 0..depth : d \in I
  <2>. HIDE DEF I
  <2>. QED
    BY <1>1, <1>4, Downward
<1>. QED
  BY <1>5

\* Nor does the invariant depend on the rows.
LEMMA SameTree ==
  ASSUME Tree, SameNodes, changes' \in 0..MaxChanges,
         \A k \in Nat : LET l == heap[Way(k)[0]]
                            m == heap'[Way(k)[0]]
                        IN  /\ m \in [n : 0..M, keys : [Slots -> Keys \union {0}],
                                      vals : [Slots -> Rows \union {Null}]]
                            /\ m.n = l.n /\ m.keys = l.keys
  PROVE  Tree'
<1>1. depth \in Nat /\ 0 \in 0..depth /\ depth' = depth /\ top' = top /\ DOMAIN heap' = DOMAIN heap /\ 0 \in Nat
  BY DEF Tree, Bounds, SameNodes
<1>2. \A k \in Nat : \A d \in 0..depth : Way(k)'[d] = Way(k)[d]
  BY SameWay
<1>3. \A k \in Nat : \A d \in 1..depth : d \in 0..depth /\ heap'[Way(k)[d]] = heap[Way(k)[d]]
  BY <1>1 DEF SameNodes
<1>4. Bounds'
  BY <1>1 DEF Tree, Bounds
<1>5. Addressed'
  <2>. DEFINE reached == {Way(k)[d] : k \in Nat, d \in 0..depth}
              reached2 == {Way(k)'[d] : k \in Nat, d \in 0..depth'}
  <2>1. reached2 = reached
    <3>1. \A x : x \in reached2 <=> \E k \in Nat : \E d \in 0..depth' : x = Way(k)'[d]
      OBVIOUS
    <3>2. \A x : x \in reached <=> \E k \in Nat : \E d \in 0..depth : x = Way(k)[d]
      OBVIOUS
    <3>. HIDE DEF reached, reached2
    <3>3. \A x : x \in reached2 <=> x \in reached
      BY <1>1, <1>2, <3>1, <3>2
    <3>. QED
      BY <3>3
  <2>2. DOMAIN heap = reached /\ \A x \in DOMAIN heap : x \in Nat /\ x < top
    BY DEF Tree, Addressed
  <2>3. DOMAIN heap' = reached2 /\ \A x \in DOMAIN heap' : x \in Nat /\ x < top'
    <3>. HIDE DEF reached, reached2
    <3>. QED
      BY <1>1, <2>1, <2>2
  <2>. QED
    BY <2>3 DEF Addressed
<1>6. OneWay'
  <2>1. SUFFICES ASSUME NEW d \in 0..depth', NEW e \in 0..depth', NEW j \in Nat, NEW k \in Nat,
                        Way(j)'[d] = Way(k)'[e]
                 PROVE  /\ d = e
                        /\ d < depth' =>
                             /\ Way(j)'[d + 1] = Way(k)'[d + 1]
                             /\ inner_position_for(heap'[Way(j)'[d + 1]], j)
                                  = inner_position_for(heap'[Way(k)'[d + 1]], k)
    BY Zenon DEF OneWay
  <2>2. Way(j)[d] = Way(k)[e] /\ d \in 0..depth /\ e \in 0..depth
    BY <1>1, <1>2, <2>1
  <2>3. /\ d = e
        /\ d < depth =>
             /\ Way(j)[d + 1] = Way(k)[d + 1]
             /\ inner_position_for(heap[Way(j)[d + 1]], j) = inner_position_for(heap[Way(k)[d + 1]], k)
    BY <2>2 DEF Tree, OneWay
  <2>4. d < depth => d + 1 \in 1..depth
    BY <1>1, <2>2
  <2>. QED
    BY <1>1, <1>2, <1>3, <2>3, <2>4
<1>7. Inners'
  <2>1. SUFFICES ASSUME NEW k \in Nat, NEW d \in 1..depth'
                 PROVE  /\ InnerNode(heap'[Way(k)'[d]])
                        /\ \A i \in 1..Len(heap'[Way(k)'[d]].keys) : \A q \in Nat :
                             q = heap'[Way(k)'[d]].keys[i] => Way(q)'[d] = Way(k)'[d]
                        /\ \E j \in Nat : Way(j)'[d] = Way(k)'[d] /\ j < heap'[Way(k)'[d]].keys[1]
    BY Zenon DEF Inners, Inner
  <2>2. d \in 1..depth
    BY <1>1
  <2>. DEFINE x == Way(k)[d]
  <2>3. Inner(x, d)
    BY <2>2 DEF Tree, Inners
  <2>4. Way(k)'[d] = x /\ heap'[x] = heap[x] /\ \A j \in Nat : Way(j)'[d] = Way(j)[d]
    BY <1>2, <1>3, <2>2
  <2>. HIDE DEF x
  <2>. QED
    BY <2>3, <2>4 DEF Inner
<1>8. Leaves'
  <2>1. SUFFICES ASSUME NEW k \in Nat
                 PROVE  /\ Leaf(heap'[Way(k)'[0]], {j \in Nat : Way(j)'[0] = Way(k)'[0]})
                        /\ Way(0)'[0] # Way(k)'[0] =>
                             /\ heap'[Way(k)'[0]].n > 0
                             /\ \A j \in Nat : Way(j)'[0] = Way(k)'[0] => heap'[Way(k)'[0]].keys[0] <= j
    BY Zenon DEF Leaves, Lowest, Found0
  <2>. DEFINE x == Way(k)[0]
              F == {j \in Nat : Way(j)'[0] = Way(k)'[0]}
  <2>2. \A j \in Nat : Way(j)'[0] = Way(j)[0]
    BY <1>1, <1>2
  <2>3. F = Found0(x)
    BY <2>2 DEF Found0
  <2>4. Leaf(heap[x], Found0(x)) /\ Lowest(x)
    BY DEF Tree, Leaves
  <2>5. /\ heap'[x] \in [n : 0..M, keys : [Slots -> Keys \union {0}], vals : [Slots -> Rows \union {Null}]]
        /\ heap'[x].n = heap[x].n /\ heap'[x].keys = heap[x].keys
    OBVIOUS
  <2>. HIDE DEF F
  <2>6. Leaf(heap'[x], F)
    BY <2>3, <2>4, <2>5 DEF Leaf
  <2>. QED
    BY <1>1, <2>2, <2>4, <2>5, <2>6 DEF Lowest, F
<1>. QED
  BY <1>4, <1>5, <1>6, <1>7, <1>8 DEF Tree

\* The leaf that del changes, and the heap.  A slot past the last key is not what
\* del comes to: none holds a key that is looked for there.
LEMMA DelAfter ==
  ASSUME Tree, NEW key \in Keys, Del(key)
  PROVE  LET id == Way(key)[0]
             l == heap[id]
             i == leaf_position_for(l, key)
         IN  /\ key \in Nat /\ i \in 0..(l.n - 1) /\ i \in Slots /\ l.keys[i] = key
             /\ SameNodes /\ changes' \in 0..MaxChanges
             /\ heap'[id] = [l EXCEPT !.vals = [@ EXCEPT ![i] = Null]]
             /\ \A x \in DOMAIN heap : x # id => heap'[x] = heap[x]
<1>. DEFINE id == Way(key)[0]
            l == heap[id]
            i == leaf_position_for(l, key)
<1>1. key \in Nat /\ depth \in Nat /\ 0 \in 0..depth /\ changes \in 0..MaxChanges
  BY TreeAssumption DEF Tree, Bounds
<1>2. Leaf(l, Found0(id))
  BY <1>1 DEF Tree, Leaves
<1>3. i \in Slots /\ l.keys[i] = key
  BY DEF Del
<1>4. i \in 0..l.n /\ l.n \in Nat /\ l.n <= M
  <2>. HIDE DEF l, id
  <2>. QED
    BY <1>1, <1>2, LeafPosition, LeafTyped
<1>5. i \in 0..(l.n - 1) /\ i \in Slots
  <2>1. key \in Keys \cap Found0(id) /\ \A j \in l.n..(M - 1) : l.keys[j] \notin Keys \cap Found0(id)
    BY <1>1, <1>2 DEF Leaf, Found0
  <2>2. i \in 0..(M - 1)
    BY <1>3 DEF Slots
  <2>. HIDE DEF i, l, id
  <2>3. i # l.n
    <3>1. i = l.n => i \in l.n..(M - 1)
      BY <1>4, <2>2, TreeAssumption
    <3>. QED
      BY <1>3, <2>1, <3>1
  <2>. QED
    BY <1>3, <1>4, <2>3
<1>6. /\ heap' = [heap EXCEPT ![id] = [l EXCEPT !.vals = [@ EXCEPT ![i] = Null]]]
      /\ changes' = changes + 1 /\ changes < MaxChanges /\ UNCHANGED <<top, root, depth>>
  BY DEF Del
<1>7. id \in DOMAIN heap
  BY <1>1, WayNow
<1>8. /\ DOMAIN heap' = DOMAIN heap
      /\ heap'[id] = [l EXCEPT !.vals = [@ EXCEPT ![i] = Null]]
      /\ \A x \in DOMAIN heap : x # id => heap'[x] = heap[x]
  BY <1>6, <1>7
<1>9. changes' \in 0..MaxChanges
  BY <1>1, <1>6, TreeAssumption
<1>10. SameNodes
  <2>1. ASSUME NEW k \in Nat, NEW d \in 1..depth
        PROVE  heap'[Way(k)[d]] = heap[Way(k)[d]]
    <3>1. d \in 0..depth /\ d # 0
      BY <1>1
    <3>2. Way(k)[d] # id
      BY <1>1, <3>1 DEF Tree, OneWay
    <3>3. Way(k)[d] \in DOMAIN heap
      BY <3>1, WayNow
    <3>. QED
      BY <1>8, <3>2, <3>3
  <2>. QED
    BY <1>6, <1>8, <2>1 DEF SameNodes
<1>. QED
  BY <1>1, <1>3, <1>5, <1>8, <1>9, <1>10

\* So del keeps the invariant.
LEMMA DelTree ==
  ASSUME Tree, NEW key \in Keys, Del(key)
  PROVE  Tree'
<1>. DEFINE id == Way(key)[0]
            i == leaf_position_for(heap[id], key)
<1>1. /\ i \in Slots /\ SameNodes /\ changes' \in 0..MaxChanges
      /\ heap'[id] = [heap[id] EXCEPT !.vals = [@ EXCEPT ![i] = Null]]
      /\ \A x \in DOMAIN heap : x # id => heap'[x] = heap[x]
  BY DelAfter
<1>. HIDE DEF i, id
<1>2. ASSUME NEW k \in Nat
      PROVE  /\ heap'[Way(k)[0]] \in [n : 0..M, keys : [Slots -> Keys \union {0}],
                                      vals : [Slots -> Rows \union {Null}]]
             /\ heap'[Way(k)[0]].n = heap[Way(k)[0]].n /\ heap'[Way(k)[0]].keys = heap[Way(k)[0]].keys
  <2>. DEFINE x == Way(k)[0]
  <2>1. 0 \in 0..depth
    BY DEF Tree, Bounds
  <2>2. x \in DOMAIN heap
    BY <2>1, WayNow
  <2>3. heap[x] \in [n : 0..M, keys : [Slots -> Keys \union {0}], vals : [Slots -> Rows \union {Null}]]
    BY DEF Tree, Leaves, Leaf
  <2>. HIDE DEF x
  <2>4. CASE x # id
    BY <1>1, <2>2, <2>3, <2>4 DEF x
  <2>5. CASE x = id
    BY <1>1, <2>3, <2>5 DEF x
  <2>. QED
    BY <2>4, <2>5
<1>. QED
  BY <1>1, <1>2, SameTree

\* And so does a step of nothing.
LEMMA StutterTree ==
  ASSUME Tree, UNCHANGED vars
  PROVE  Tree'
<1>1. heap' = heap /\ SameNodes /\ changes' \in 0..MaxChanges
  BY DEF vars, SameNodes, Tree, Bounds
<1>2. \A k \in Nat : heap[Way(k)[0]] \in [n : 0..M, keys : [Slots -> Keys \union {0}],
                                         vals : [Slots -> Rows \union {Null}]]
  BY DEF Tree, Leaves, Leaf
<1>. QED
  BY <1>1, <1>2, SameTree

\* The invariant holds in every state.
THEOREM TreeInvariant == Spec => []Tree
<1>1. ASSUME Tree, [Next]_vars
      PROVE  Tree'
  <2>1. ASSUME NEW key \in Keys, NEW val \in Rows, Insert(key, val)
        PROVE  Tree'
    BY <1>1, <2>1, InsertTree
  <2>2. ASSUME NEW key \in Keys, Del(key)
        PROVE  Tree'
    BY <1>1, <2>2, DelTree
  <2>3. CASE UNCHANGED vars
    BY <1>1, <2>3, StutterTree
  <2>. QED
    BY <1>1, <2>1, <2>2, <2>3 DEF Next
<1>. QED
  BY InitTree, <1>1, PTL DEF Spec

-----------------------------------------------------------------------------
(* The levels.  What is below a node is what the searches that come to it    *)
(* come to later.                                                           *)

\* Searches that meet came the same way from the root.
LEMMA MeetUp ==
  ASSUME Tree, NEW j \in Nat, NEW k \in Nat, NEW e \in 0..depth, Way(j)[e] = Way(k)[e]
  PROVE  \A d \in e..depth : Way(j)[d] = Way(k)[d]
<1>1. depth \in Nat
  BY DEF Tree, Bounds
<1>. DEFINE I == {n \in Nat : e + n <= depth => Way(j)[e + n] = Way(k)[e + n]}
<1>2. 0 \in I
  BY <1>1
<1>3. ASSUME NEW n \in Nat, n \in I
      PROVE  n + 1 \in I
  <2>1. SUFFICES ASSUME e + (n + 1) <= depth
                 PROVE  Way(j)[e + (n + 1)] = Way(k)[e + (n + 1)]
    OBVIOUS
  <2>2. e + n \in 0..depth /\ e + n < depth /\ (e + n) + 1 = e + (n + 1)
    BY <1>1, <2>1
  <2>3. Way(j)[e + n] = Way(k)[e + n]
    BY <1>3, <2>2
  <2>4. Way(j)[(e + n) + 1] = Way(k)[(e + n) + 1]
    BY <2>2, <2>3 DEF Tree, OneWay
  <2>. QED
    BY <2>2, <2>4
<1>4. Nat \subseteq I
  <2>. HIDE DEF I
  <2>. QED
    BY <1>2, <1>3, Successors
<1>5. ASSUME NEW d \in e..depth
      PROVE  Way(j)[d] = Way(k)[d]
  <2>1. d - e \in Nat /\ e + (d - e) = d /\ d <= depth
    BY <1>1
  <2>2. d - e \in I
    BY <1>4, <2>1
  <2>. QED
    BY <2>1, <2>2
<1>. QED
  BY <1>5

\* A search comes to each child of a node: those for its keys to the later ones, and
\* one for a key below them to the first.
LEMMA KidIs ==
  ASSUME Tree, NEW k \in Nat, NEW d \in 1..depth, NEW i \in 1..(Len(heap[Way(k)[d]].keys) + 1)
  PROVE  \E j \in Nat : /\ Way(j)[d] = Way(k)[d]
                        /\ inner_position_for(heap[Way(k)[d]], j) = i - 1
                        /\ Way(j)[d - 1] = heap[Way(k)[d]].kids[i]
<1>. DEFINE x == Way(k)[d]
            node == heap[x]
<1>1. depth \in Nat /\ d - 1 \in 0..(depth - 1) /\ (d - 1) + 1 = d
  BY DEF Tree, Bounds
<1>2. /\ InnerNode(node)
      /\ \A m \in 1..Len(node.keys) : \A q \in Nat : q = node.keys[m] => Way(q)[d] = x
      /\ \E j \in Nat : Way(j)[d] = x /\ j < node.keys[1]
  BY DEF Tree, Inners, Inner
<1>. HIDE DEF x
<1>3. Len(node.keys) \in Nat /\ \A m \in 1..Len(node.keys) : node.keys[m] \in Nat
  BY <1>2, InnerTyped
<1>4. \E j \in Nat : Way(j)[d] = x /\ inner_position_for(node, j) = i - 1
  <2>1. CASE i = 1
    <3>1. PICK j \in Nat : Way(j)[d] = x /\ j < node.keys[1]
      BY <1>2
    <3>2. /\ 0 \in 0..Len(node.keys)
          /\ 0 > 0 => node.keys[0] <= j
          /\ 0 < Len(node.keys) => j < node.keys[0 + 1]
      BY <1>3, <3>1
    <3>3. inner_position_for(node, j) = 0
      <4>. HIDE DEF node
      <4>. QED
        BY <1>2, <3>2, InnerPositionIs
    <3>. QED
      BY <2>1, <3>1, <3>3
  <2>2. CASE i # 1
    <3>. DEFINE p == i - 1
                q == node.keys[p]
    <3>1. p \in 1..Len(node.keys) /\ p \in 0..Len(node.keys)
      BY <1>3, <2>2 DEF x
    <3>2. q \in Nat /\ Way(q)[d] = x
      BY <1>2, <1>3, <3>1
    <3>3. p < Len(node.keys) => q < node.keys[p + 1]
      <4>1. p < Len(node.keys) => p + 1 \in 1..Len(node.keys) /\ p < p + 1
        BY <1>3, <3>1
      <4>. QED
        BY <1>2, <3>1, <4>1 DEF InnerNode, Ascends
    <3>. HIDE DEF p
    <3>4. p > 0 => node.keys[p] <= q
      BY <3>2
    <3>5. inner_position_for(node, q) = p
      <4>. HIDE DEF node
      <4>. QED
        BY <1>2, <3>1, <3>2, <3>3, <3>4, InnerPositionIs
    <3>. QED
      BY <3>2, <3>5 DEF p
  <2>. QED
    BY <2>1, <2>2
<1>5. PICK j \in Nat : Way(j)[d] = x /\ inner_position_for(node, j) = i - 1
  BY <1>4
<1>6. Way(j)[d - 1] = Child(node, i - 1)
  <2>1. Way(j)[d - 1] = Child(heap[Way(j)[(d - 1) + 1]], inner_position_for(heap[Way(j)[(d - 1) + 1]], j))
    BY <1>1, WayNow
  <2>. QED
    BY <1>1, <1>5, <2>1
<1>7. (i - 1) + 1 = i
  BY <1>3 DEF x
<1>. QED
  BY <1>5, <1>6, <1>7 DEF Child, x

\* The levels one by one: there is such a function, and Below is it.
Kids(S) == UNION {{heap[x].kids[i] : i \in DOMAIN heap[x].kids} : x \in S}
BelowSteps(id, d, f) == [e \in 0..d |-> IF e = d THEN {id} ELSE Kids(f[e + 1])]

\* Their equation has a solution, built from the node down.
LEMMA BelowExists ==
  ASSUME NEW id, NEW n \in Nat
  PROVE  \E f : f = BelowSteps(id, n, f)
<1>. DEFINE Solves(f, m) == f = [e \in (n - m)..n |-> IF e = n THEN {id} ELSE Kids(f[e + 1])]
            Solved == {m \in Nat : \E f : Solves(f, m)}
<1>1. 0 \in Solved
  <2>. DEFINE f == [e \in (n - 0)..n |-> {id}]
  <2>1. \A e \in (n - 0)..n : e = n
    OBVIOUS
  <2>2. Solves(f, 0)
    BY <2>1
  <2>. HIDE DEF f, Solves
  <2>. QED
    BY <2>2
<1>2. ASSUME NEW m \in Nat, m \in Solved
      PROVE  m + 1 \in Solved
  <2>1. PICK f : Solves(f, m)
    BY <1>2
  <2>. DEFINE g == [e \in (n - (m + 1))..n |-> IF e = n THEN {id} ELSE Kids(f[e + 1])]
  <2>2. ASSUME NEW e \in (n - (m + 1))..n, e # n
        PROVE  g[e + 1] = f[e + 1]
    <3>1. e + 1 \in (n - m)..n /\ e + 1 \in (n - (m + 1))..n
      BY <2>2
    <3>. QED
      BY <2>1, <3>1
  <2>3. Solves(g, m + 1)
    BY <2>2
  <2>. HIDE DEF g, Solves
  <2>. QED
    BY <2>3
<1>3. Nat \subseteq Solved
  <2>. HIDE DEF Solved
  <2>. QED
    BY <1>1, <1>2, Successors
<1>4. PICK f : Solves(f, n)
  BY <1>3
<1>5. n - n = 0
  OBVIOUS
<1>. QED
  BY <1>4, <1>5 DEF BelowSteps

\* Below starts with the node and goes from a level to its children.
LEMMA BelowDef ==
  ASSUME NEW id, NEW n \in Nat
  PROVE  /\ Below(id, n)[n] = {id}
         /\ \A e \in 0..(n - 1) : Below(id, n)[e] = Kids(Below(id, n)[e + 1])
<1>. DEFINE below == CHOOSE f : f = BelowSteps(id, n, f)
<1>1. below = BelowSteps(id, n, below)
  BY BelowExists, Zenon
<1>2. Below(id, n) = below
  BY Zenon DEF Below, BelowSteps, Kids
<1>. HIDE DEF below
<1>3. below = [e \in 0..n |-> IF e = n THEN {id} ELSE Kids(below[e + 1])]
  BY <1>1 DEF BelowSteps
<1>4. n \in 0..n /\ \A e \in 0..(n - 1) : e \in 0..n /\ e # n
  OBVIOUS
<1>5. \A e \in 0..n : below[e] = IF e = n THEN {id} ELSE Kids(below[e + 1])
  BY <1>3
<1>. QED
  BY <1>2, <1>4, <1>5

\* What is below a node.
Reaches(k, d, e, y) == \E j \in Nat : Way(j)[d] = Way(k)[d] /\ Way(j)[e] = y

\* A node is below another just when a search comes to both.
LEMMA BelowIs ==
  ASSUME Tree, NEW k \in Nat, NEW d \in 0..depth
  PROVE  \A e \in 0..d : \A y : y \in Below(Way(k)[d], d)[e] <=> Reaches(k, d, e, y)
<1>. DEFINE below == Below(Way(k)[d], d)
<1>1. depth \in Nat /\ d \in Nat
  BY DEF Tree, Bounds
<1>2. below[d] = {Way(k)[d]} /\ \A e \in 0..(d - 1) : below[e] = Kids(below[e + 1])
  BY <1>1, BelowDef
<1>. HIDE DEF below
<1>3. \A y : y \in below[d] <=> Reaches(k, d, d, y)
  BY <1>2 DEF Reaches
<1>4. ASSUME NEW e \in 0..(d - 1), \A y : y \in below[e + 1] <=> Reaches(k, d, e + 1, y), NEW y
      PROVE  y \in below[e] <=> Reaches(k, d, e, y)
  <2>1. /\ e \in 0..depth /\ e \in 0..(depth - 1) /\ e + 1 \in 1..depth /\ e + 1 \in 0..depth
        /\ (e + 1) - 1 = e /\ d \in (e + 1)..depth
    BY <1>1
  <2>2. y \in below[e] <=> \E x \in below[e + 1] : \E i \in DOMAIN heap[x].kids : y = heap[x].kids[i]
    BY <1>2 DEF Kids
  <2>3. ASSUME NEW j \in Nat
        PROVE  /\ DOMAIN heap[Way(j)[e + 1]].kids = 1..(Len(heap[Way(j)[e + 1]].keys) + 1)
               /\ inner_position_for(heap[Way(j)[e + 1]], j) + 1
                    \in 1..(Len(heap[Way(j)[e + 1]].keys) + 1)
    <3>. DEFINE node == heap[Way(j)[e + 1]]
    <3>1. InnerNode(node)
      BY <2>1 DEF Tree, Inners, Inner
    <3>. HIDE DEF node
    <3>2. inner_position_for(node, j) \in 0..Len(node.keys)
      BY <3>1, InnerPosition
    <3>3. DOMAIN node.kids = 1..Len(node.kids) /\ Len(node.kids) = Len(node.keys) + 1
          /\ Len(node.keys) \in Nat
      BY <3>1 DEF InnerNode
    <3>4. DOMAIN node.kids = 1..(Len(node.keys) + 1)
      BY <3>3
    <3>5. inner_position_for(node, j) + 1 \in 1..(Len(node.keys) + 1)
      BY <3>2, <3>3
    <3>. QED
      BY <3>4, <3>5 DEF node
  <2>4. ASSUME NEW x \in below[e + 1], NEW i \in DOMAIN heap[x].kids, y = heap[x].kids[i]
        PROVE  Reaches(k, d, e, y)
    <3>1. PICK j \in Nat : Way(j)[d] = Way(k)[d] /\ Way(j)[e + 1] = x
      BY <1>4 DEF Reaches
    <3>2. PICK m \in Nat : Way(m)[e + 1] = Way(j)[e + 1] /\ Way(m)[e] = heap[Way(j)[e + 1]].kids[i]
      <4>1. i \in 1..(Len(heap[Way(j)[e + 1]].keys) + 1)
        BY <2>3, <3>1
      <4>2. \E m \in Nat : /\ Way(m)[e + 1] = Way(j)[e + 1]
                           /\ Way(m)[(e + 1) - 1] = heap[Way(j)[e + 1]].kids[i]
        BY <2>1, <4>1, KidIs
      <4>. QED
        BY <2>1, <4>2
    <3>3. Way(m)[d] = Way(j)[d]
      BY <2>1, <3>2, MeetUp
    <3>. QED
      BY <2>4, <3>1, <3>2, <3>3 DEF Reaches
  <2>5. ASSUME Reaches(k, d, e, y)
        PROVE  \E x \in below[e + 1] : \E i \in DOMAIN heap[x].kids : y = heap[x].kids[i]
    <3>1. PICK j \in Nat : Way(j)[d] = Way(k)[d] /\ Way(j)[e] = y
      BY <2>5 DEF Reaches
    <3>. DEFINE x == Way(j)[e + 1]
                i == inner_position_for(heap[x], j) + 1
    <3>2. x \in below[e + 1]
      BY <1>4, <3>1 DEF Reaches
    <3>3. y = heap[x].kids[i]
      BY <2>1, <3>1, WayNow DEF Child
    <3>4. i \in DOMAIN heap[x].kids
      BY <2>3
    <3>. QED
      BY <3>2, <3>3, <3>4
  <2>. QED
    BY <2>2, <2>4, <2>5
<1>. DEFINE Same(e) == \A y : y \in below[e] <=> Reaches(k, d, e, y)
            I == {e \in 0..d : Same(e)}
<1>5. \A e \in 0..(d - 1) : Same(e + 1) => Same(e)
  BY <1>4
<1>6. Same(d)
  BY <1>3
<1>. HIDE DEF Same
<1>7. d \in I /\ \A e \in 0..(d - 1) : e + 1 \in I => e \in I
  BY <1>1, <1>5, <1>6
<1>8. \A e \in 0..d : e \in I
  <2>. HIDE DEF I
  <2>. QED
    BY <1>1, <1>7, Downward
<1>9. \A e \in 0..d : Same(e)
  BY <1>8
<1>. QED
  BY <1>9 DEF Same, below

\* So a level is what all searches come to there.
LEMMA LevelsAre ==
  ASSUME Tree, NEW d \in 0..depth
  PROVE  \A y : y \in Levels[d] <=> \E k \in Nat : y = Way(k)[d]
<1>1. depth \in Nat /\ depth \in 0..depth /\ 0 \in Nat
  BY DEF Tree, Bounds
<1>2. \A k \in Nat : Way(k)[depth] = root
  BY WayNow
<1>3. \A y : y \in Below(Way(0)[depth], depth)[d] <=> Reaches(0, depth, d, y)
  BY <1>1, BelowIs
<1>4. Levels = Below(Way(0)[depth], depth)
  BY <1>1, <1>2 DEF Levels
<1>. QED
  BY <1>1, <1>2, <1>3, <1>4 DEF Reaches

-----------------------------------------------------------------------------
(* Every node fits its arrays and every key is where its separators say.     *)

\* The types, from the invariant.
LEMMA TreeTypeOK == Tree => TypeOK
<1>. SUFFICES ASSUME Tree
              PROVE  TypeOK
  OBVIOUS
<1>1. depth \in Nat /\ changes \in 0..MaxChanges /\ top \in Nat /\ 0 \in 0..depth
  BY DEF Tree, Bounds
<1>2. UNION {Levels[d] : d \in 0..depth} = DOMAIN heap
  <2>1. DOMAIN heap = {Way(k)[d] : k \in Nat, d \in 0..depth}
    BY DEF Tree, Addressed
  <2>2. \A y : y \in DOMAIN heap <=> \E d \in 0..depth : \E k \in Nat : y = Way(k)[d]
    BY <2>1
  <2>3. \A y : y \in UNION {Levels[d] : d \in 0..depth} <=> \E d \in 0..depth : y \in Levels[d]
    OBVIOUS
  <2>4. \A y : y \in UNION {Levels[d] : d \in 0..depth} <=> y \in DOMAIN heap
    BY <2>2, <2>3, LevelsAre
  <2>. QED
    <3>. DEFINE reached == UNION {Levels[d] : d \in 0..depth}
    <3>1. \A y : y \in reached <=> y \in DOMAIN heap
      BY <2>4
    <3>2. reached = DOMAIN heap
      <4>. HIDE DEF reached
      <4>. QED
        BY <3>1
    <3>. QED
      BY <3>2
<1>3. \A x \in DOMAIN heap : x < top
  BY DEF Tree, Addressed
<1>4. ASSUME NEW x \in Levels[0]
      PROVE  /\ heap[x].n \in 0..M /\ DOMAIN heap[x].keys = Slots /\ DOMAIN heap[x].vals = Slots
             /\ \A j \in Slots :
                  heap[x].keys[j] \in Keys \union {0} /\ heap[x].vals[j] \in Rows \union {Null}
  <2>1. PICK k \in Nat : x = Way(k)[0]
    BY <1>1, LevelsAre
  <2>2. heap[x] \in [n : 0..M, keys : [Slots -> Keys \union {0}], vals : [Slots -> Rows \union {Null}]]
    BY <2>1 DEF Tree, Leaves, Leaf
  <2>. QED
    BY <2>2
<1>5. ASSUME NEW d \in 1..depth, NEW x \in Levels[d]
      PROVE  /\ Len(heap[x].keys) \in 1..N /\ Len(heap[x].kids) = Len(heap[x].keys) + 1
             /\ \A i \in DOMAIN heap[x].keys : heap[x].keys[i] \in Keys
  <2>1. d \in 0..depth
    BY <1>1
  <2>2. PICK k \in Nat : x = Way(k)[d]
    BY <2>1, LevelsAre
  <2>3. InnerNode(heap[x])
    BY <2>2 DEF Tree, Inners, Inner
  <2>. QED
    BY <2>3 DEF InnerNode
<1>. QED
  BY <1>1, <1>2, <1>3, <1>4, <1>5 DEF TypeOK

\* A key in a leaf below a node was searched for by way of that node, and the first
\* one is the lowest of those that are.
LEMMA KeysBelowIs ==
  ASSUME Tree, NEW k \in Nat, NEW d \in 0..depth
  PROVE  /\ \A c \in KeysBelow(Way(k)[d], d) : c \in Keys /\ c \in Nat /\ Way(c)[d] = Way(k)[d]
         /\ Way(0)[d] # Way(k)[d] => \E c \in KeysBelow(Way(k)[d], d) : c <= k
<1>1. depth \in Nat /\ 0 \in 0..d /\ 0 \in 0..depth /\ 0 \in Nat /\ d \in 0..depth
  BY DEF Tree, Bounds
<1>2. \A y : y \in Below(Way(k)[d], d)[0] <=> Reaches(k, d, 0, y)
  BY <1>1, BelowIs
<1>3. \A c : c \in KeysBelow(Way(k)[d], d) <=>
        \E y : Reaches(k, d, 0, y) /\ \E m \in 0..(heap[y].n - 1) : c = heap[y].keys[m]
  BY <1>2 DEF KeysBelow, KeysIn
<1>4. ASSUME NEW c \in KeysBelow(Way(k)[d], d)
      PROVE  c \in Keys /\ c \in Nat /\ Way(c)[d] = Way(k)[d]
  <2>1. PICK y : Reaches(k, d, 0, y) /\ \E m \in 0..(heap[y].n - 1) : c = heap[y].keys[m]
    BY <1>3
  <2>2. PICK j \in Nat : Way(j)[d] = Way(k)[d] /\ Way(j)[0] = y
    BY <2>1 DEF Reaches
  <2>3. c \in Keys \cap Found0(y)
    BY <2>1, <2>2 DEF Tree, Leaves, Leaf
  <2>4. c \in Nat /\ Way(c)[0] = Way(j)[0]
    BY <2>2, <2>3 DEF Found0
  <2>5. Way(c)[d] = Way(j)[d]
    BY <1>1, <2>4, MeetUp
  <2>. QED
    BY <2>2, <2>3, <2>4, <2>5
<1>5. ASSUME Way(0)[d] # Way(k)[d]
      PROVE  \E c \in KeysBelow(Way(k)[d], d) : c <= k
  <2>. DEFINE y == Way(k)[0]
              c == heap[y].keys[0]
  <2>1. Way(0)[0] # y
    BY <1>1, <1>5, MeetUp
  <2>2. heap[y].n > 0 /\ c <= k
    BY <2>1 DEF Tree, Leaves, Lowest
  <2>3. 0 \in 0..(heap[y].n - 1)
    <3>1. heap[y].n \in Nat
      BY DEF Tree, Leaves, Leaf
    <3>. QED
      BY <2>2, <3>1
  <2>4. Reaches(k, d, 0, y)
    BY DEF Reaches
  <2>5. c \in KeysBelow(Way(k)[d], d)
    BY <1>3, <2>3, <2>4
  <2>. QED
    BY <2>2, <2>5
<1>. QED
  BY <1>4, <1>5

\* The separators, from the invariant.
LEMMA TreeSeparatorsHold == Tree => SeparatorsHold
<1>. SUFFICES ASSUME Tree
              PROVE  SeparatorsHold
  OBVIOUS
<1>1. depth \in Nat /\ 0 \in 0..depth /\ 0 \in Nat
  BY DEF Tree, Bounds
<1>2. ASSUME NEW x \in Levels[0]
      PROVE  \A i, j \in 0..(heap[x].n - 1) : i < j => heap[x].keys[i] < heap[x].keys[j]
  <2>1. PICK k \in Nat : x = Way(k)[0]
    BY <1>1, LevelsAre
  <2>. QED
    BY <2>1 DEF Tree, Leaves, Leaf
<1>3. ASSUME NEW d \in 1..depth, NEW x \in Levels[d], NEW i \in DOMAIN heap[x].keys
      PROVE  /\ Least(KeysBelow(heap[x].kids[i + 1], d - 1)) = heap[x].keys[i]
             /\ \A k \in KeysBelow(heap[x].kids[i], d - 1) : k < heap[x].keys[i]
  <2>1. d \in 0..depth /\ d - 1 \in 0..depth /\ (d - 1) + 1 = d /\ d - 1 < depth
    BY <1>1
  <2>2. PICK h \in Nat : x = Way(h)[d]
    BY <2>1, LevelsAre
  <2>. DEFINE node == heap[x]
              q == node.keys[i]
  <2>3. /\ InnerNode(node)
        /\ \A m \in 1..Len(node.keys) : \A p \in Nat : p = node.keys[m] => Way(p)[d] = x
    <3>1. Inner(x, d)
      BY <2>2 DEF Tree, Inners
    <3>. QED
      BY <3>1 DEF Inner
  <2>. HIDE DEF node
  <2>4. /\ Len(node.keys) \in Nat /\ i \in 1..Len(node.keys) /\ q \in Nat \ {0}
        /\ i \in 1..(Len(node.keys) + 1) /\ i + 1 \in 1..(Len(node.keys) + 1)
    <3>1. DOMAIN node.keys = 1..Len(node.keys) /\ i \in DOMAIN node.keys
      BY <2>3 DEF InnerNode, node
    <3>2. Len(node.keys) \in Nat /\ i \in 1..Len(node.keys)
      BY <2>3, <3>1, InnerTyped
    <3>3. q \in Nat \ {0}
      BY <2>3, <3>2, InnerTyped
    <3>. QED
      BY <3>2, <3>3
  <2>5. ASSUME NEW m \in 1..(Len(node.keys) + 1)
        PROVE  \E j \in Nat : /\ Way(j)[d] = x /\ inner_position_for(node, j) = m - 1
                              /\ Way(j)[d - 1] = node.kids[m]
    BY <2>2, KidIs DEF node
  <2>6. ASSUME NEW m \in 1..(Len(node.keys) + 1), NEW c \in KeysBelow(node.kids[m], d - 1)
        PROVE  c \in Nat /\ inner_position_for(node, c) = m - 1
    <3>1. PICK j \in Nat : /\ Way(j)[d] = x /\ inner_position_for(node, j) = m - 1
                           /\ Way(j)[d - 1] = node.kids[m]
      BY <2>5
    <3>2. c \in Nat /\ Way(c)[d - 1] = Way(j)[d - 1]
      BY <2>1, <2>6, <3>1, KeysBelowIs
    <3>3. /\ Way(c)[(d - 1) + 1] = Way(j)[(d - 1) + 1]
          /\ inner_position_for(heap[Way(c)[(d - 1) + 1]], c)
               = inner_position_for(heap[Way(j)[(d - 1) + 1]], j)
      BY <2>1, <3>2 DEF Tree, OneWay
    <3>. QED
      BY <2>1, <3>1, <3>2, <3>3 DEF node
  <2>7. ASSUME NEW c \in KeysBelow(node.kids[i], d - 1)
        PROVE  c < q
    <3>1. c \in Nat /\ inner_position_for(node, c) = i - 1
      BY <2>4, <2>6
    <3>2. i \in ((i - 1) + 1)..Len(node.keys)
      BY <2>4
    <3>. QED
      BY <2>3, <3>1, <3>2, InnerPosition
  <2>. DEFINE kid == node.kids[i + 1]
              B == KeysBelow(kid, d - 1)
  <2>8. ASSUME NEW c \in B
        PROVE  c \in Nat /\ q <= c
    <3>1. c \in Nat /\ inner_position_for(node, c) = i
      BY <2>4, <2>6
    <3>2. i \in 1..i
      BY <2>4
    <3>. QED
      BY <2>3, <3>1, <3>2, InnerPosition
  <2>9. q \in B
    <3>1. inner_position_for(node, q) = i
      <4>1. i < Len(node.keys) => q < node.keys[i + 1]
        <5>1. i < Len(node.keys) => i + 1 \in 1..Len(node.keys) /\ i < i + 1
          BY <2>4
        <5>. QED
          BY <2>3, <2>4, <5>1 DEF InnerNode, Ascends
      <4>2. i \in 0..Len(node.keys) /\ q <= q
        BY <2>4
      <4>. QED
        BY <2>3, <2>4, <4>1, <4>2, InnerPositionIs
    <3>2. Way(q)[d] = x
      BY <2>3, <2>4
    <3>3. Way(q)[d - 1] = kid
      <4>1. Way(q)[d - 1] = Child(heap[Way(q)[(d - 1) + 1]],
                                  inner_position_for(heap[Way(q)[(d - 1) + 1]], q))
        <5>1. q \in Nat /\ d - 1 \in 0..(depth - 1)
          BY <1>1, <2>1, <2>4
        <5>. HIDE DEF q
        <5>. QED
          BY <5>1, WayNow
      <4>. QED
        BY <2>1, <3>1, <3>2, <4>1 DEF Child, node
    <3>4. Way(0)[d - 1] # kid
      <4>1. ASSUME Way(0)[d - 1] = Way(q)[d - 1]
            PROVE  FALSE
        <5>1. /\ Way(0)[(d - 1) + 1] = Way(q)[(d - 1) + 1]
              /\ inner_position_for(heap[Way(0)[(d - 1) + 1]], 0)
                   = inner_position_for(heap[Way(q)[(d - 1) + 1]], q)
          BY <1>1, <2>1, <2>4, <4>1 DEF Tree, OneWay
        <5>2. inner_position_for(node, 0) = i
          BY <2>1, <3>1, <3>2, <5>1 DEF node
        <5>3. q <= 0
          <6>1. i \in 1..i
            BY <2>4
          <6>. QED
            BY <1>1, <2>3, <5>2, <6>1, InnerPosition
        <5>. QED
          BY <2>4, <5>3
      <4>. QED
        BY <3>3, <4>1
    <3>5. PICK c \in B : c <= q
      BY <2>1, <2>4, <3>3, <3>4, KeysBelowIs
    <3>6. c = q
      BY <2>4, <2>8, <3>5
    <3>. QED
      BY <3>5, <3>6
  <2>10. Least(B) = q
    <3>. HIDE DEF B, q
    <3>1. B \subseteq Nat
      BY <2>8
    <3>. QED
      BY <2>8, <2>9, <3>1, LeastEquals
  <2>. QED
    BY <2>7, <2>10 DEF node
<1>. QED
  BY <1>2, <1>3 DEF SeparatorsHold

\* WellFormed: no split, at any depth and in any order of calls, breaks a node's
\* arrays, the order of its keys or the separators above it.
THEOREM AlwaysWellFormed == Spec => []WellFormed
<1>1. Tree => WellFormed
  BY TreeTypeOK, TreeSeparatorsHold DEF WellFormed
<1>. QED
  BY TreeInvariant, <1>1, PTL

-----------------------------------------------------------------------------
(* The map.  A pair is present when the leaf that the key's search comes to  *)
(* holds it, so each call changes one pair.                                 *)

\* No two of a leaf's keys are the same.
LEMMA LeafUnique ==
  ASSUME NEW l, NEW S, Leaf(l, S), NEW i \in 0..(l.n - 1), NEW j \in 0..(l.n - 1), l.keys[i] = l.keys[j]
  PROVE  i = j
<1>1. l.n \in Nat /\ l.keys[i] \in Nat /\ l.keys[j] \in Nat
  BY LeafTyped
<1>2. (i < j => l.keys[i] < l.keys[j]) /\ (j < i => l.keys[j] < l.keys[i])
  BY DEF Leaf
<1>. QED
  BY <1>1, <1>2

\* Which pairs are present, before and after a step.
HeldBy(k, v) == k \in Nat /\ Has(heap[Way(k)[0]], k, v)
PresentHeld ==
  /\ \A p \in Present : p = <<p[1], p[2]>>
  /\ \A k, v : <<k, v>> \in Present <=> HeldBy(k, v)

\* In a tree, a key's row is looked for in one leaf and is in no other.
LEMMA PresentIs == Tree => PresentHeld
<1>. SUFFICES ASSUME Tree
              PROVE  PresentHeld
  OBVIOUS
<1>1. 0 \in 0..depth
  BY DEF Tree, Bounds
<1>2. \A p : p \in Present <=>
        \E m \in Nat : \E j \in 0..(heap[Way(m)[0]].n - 1) :
          /\ heap[Way(m)[0]].vals[j] # Null
          /\ p = <<heap[Way(m)[0]].keys[j], heap[Way(m)[0]].vals[j]>>
  <2>1. \A p : p \in Present <=> \E x \in Levels[0] : p \in Pairs(heap[x])
    BY DEF Present
  <2>2. \A p : p \in Present <=> \E m \in Nat : p \in Pairs(heap[Way(m)[0]])
    BY <1>1, <2>1, LevelsAre
  <2>3. ASSUME NEW p, NEW m \in Nat
        PROVE  p \in Pairs(heap[Way(m)[0]]) <=>
                 \E j \in 0..(heap[Way(m)[0]].n - 1) :
                   /\ heap[Way(m)[0]].vals[j] # Null
                   /\ p = <<heap[Way(m)[0]].keys[j], heap[Way(m)[0]].vals[j]>>
    BY DEF Pairs
  <2>. QED
    BY <2>2, <2>3
<1>3. \A p \in Present : p = <<p[1], p[2]>>
  BY <1>2
<1>4. ASSUME NEW k, NEW v, <<k, v>> \in Present
      PROVE  HeldBy(k, v)
  <2>0. PICK m \in Nat : \E j \in 0..(heap[Way(m)[0]].n - 1) :
          /\ heap[Way(m)[0]].vals[j] # Null
          /\ <<k, v>> = <<heap[Way(m)[0]].keys[j], heap[Way(m)[0]].vals[j]>>
    BY <1>2, <1>4
  <2>1. PICK j \in 0..(heap[Way(m)[0]].n - 1) :
          /\ heap[Way(m)[0]].vals[j] # Null
          /\ <<k, v>> = <<heap[Way(m)[0]].keys[j], heap[Way(m)[0]].vals[j]>>
    BY <2>0
  <2>2. k = heap[Way(m)[0]].keys[j] /\ v = heap[Way(m)[0]].vals[j] /\ v # Null
    BY <2>1
  <2>3. k \in Found0(Way(m)[0])
    BY <2>2 DEF Tree, Leaves, Leaf
  <2>4. k \in Nat /\ Way(k)[0] = Way(m)[0]
    BY <2>3 DEF Found0
  <2>. QED
    BY <2>2, <2>4 DEF HeldBy, Has
<1>5. ASSUME NEW k, NEW v, HeldBy(k, v)
      PROVE  <<k, v>> \in Present
  BY <1>2, <1>5 DEF HeldBy, Has
<1>. QED
  BY <1>3, <1>4, <1>5 DEF PresentHeld

\* And after a step that leaves a tree.
LEMMA PresentNext ==
  ASSUME Tree'
  PROVE  /\ \A p \in Present' : p = <<p[1], p[2]>>
         /\ \A k, v : <<k, v>> \in Present' <=> HeldBy(k, v)'
<1>1. Tree' => PresentHeld'
  BY PresentIs, PTL
<1>. QED
  BY <1>1, Zenon DEF PresentHeld

\* Two sets of pairs with the same pairs are the same.
LEMMA SamePairs ==
  ASSUME NEW P, NEW Q, \A p \in P \union Q : p = <<p[1], p[2]>>,
         \A k, v : <<k, v>> \in P <=> <<k, v>> \in Q
  PROVE  P = Q
<1>1. ASSUME NEW p \in P
      PROVE  p \in Q
  <2>1. p = <<p[1], p[2]>>
    OBVIOUS
  <2>2. <<p[1], p[2]>> \in P <=> <<p[1], p[2]>> \in Q
    OBVIOUS
  <2>. QED
    BY <2>1, <2>2
<1>2. ASSUME NEW p \in Q
      PROVE  p \in P
  <2>1. p = <<p[1], p[2]>>
    OBVIOUS
  <2>2. <<p[1], p[2]>> \in P <=> <<p[1], p[2]>> \in Q
    OBVIOUS
  <2>. QED
    BY <2>1, <2>2
<1>. QED
  BY <1>1, <1>2

\* insert puts the pair in the place of the key's other one.
LEMMA InsertPuts ==
  ASSUME Tree, NEW key \in Keys, NEW val \in Rows, Insert(key, val)
  PROVE  Map!Put(key, val)
<1>1. key \in Nat /\ depth \in Nat /\ 0 \in 0..depth /\ Tree'
  BY InsertTree, TreeAssumption DEF Tree, Bounds
<1>2. /\ \A p \in Present : p = <<p[1], p[2]>>
      /\ \A k, v : <<k, v>> \in Present <=> HeldBy(k, v)
  BY PresentIs DEF PresentHeld
<1>3. /\ \A p \in Present' : p = <<p[1], p[2]>>
      /\ \A k, v : <<k, v>> \in Present' <=> HeldBy(k, v)'
  BY <1>1, PresentNext
<1>4. ASSUME NEW k \in Nat, NEW v
      PROVE  HeldBy(k, v)' <=> \/ k = key /\ v = val
                               \/ k # key /\ HeldBy(k, v)
  <2>. DEFINE l == heap'[Way(k)'[0]]
  <2>1. HeldBy(k, v)' <=> Has(l, k, v)
    BY DEF HeldBy
  <2>2. Way(k)'[0] = NowAt(key, val, k, 0)
    BY <1>1, WayAfter
  <2>3. CASE Way(k)[0] # Way(key)[0]
    <3>1. l = heap[Way(k)[0]]
      BY <1>1, <2>2, <2>3, FoundAfter
    <3>. QED
      BY <2>1, <2>3, <3>1 DEF HeldBy
  <2>4. CASE Way(k)[0] = Way(key)[0]
    <3>1. l = LeafHalf(Node(key, 0), After(key, val, 0), k)
      BY <1>1, <2>2, <2>4, FoundAfter
    <3>2. Has(l, k, v) <=> \/ k = key /\ v = val
                           \/ k # key /\ Has(Node(key, 0), k, v)
      BY <3>1, LeafAfter DEF LeafInserted
    <3>. QED
      BY <2>1, <2>4, <3>2 DEF HeldBy, Node
  <2>. QED
    BY <2>3, <2>4
<1>5. \A k, v : <<k, v>> \in Present' <=> \/ k = key /\ v = val
                                          \/ k # key /\ <<k, v>> \in Present
  <2>1. ASSUME NEW k, NEW v, k \notin Nat
        PROVE  <<k, v>> \notin Present' /\ <<k, v>> \notin Present /\ k # key
    BY <1>1, <1>2, <1>3, <2>1 DEF HeldBy
  <2>. QED
    BY <1>2, <1>3, <1>4, <2>1
<1>. DEFINE Q == Map!Without(key) \union {<<key, val>>}
<1>6. /\ \A p \in Q : p = <<p[1], p[2]>>
      /\ \A k, v : <<k, v>> \in Q <=> \/ k = key /\ v = val
                                      \/ k # key /\ <<k, v>> \in Present
  BY <1>2 DEF Map!Without
<1>. HIDE DEF Q
<1>7. Present' = Q
  BY <1>3, <1>5, <1>6, SamePairs
<1>. QED
  BY <1>7 DEF Map!Put, Q

\* del takes away the key's pair, if it is there.
LEMMA DelDeletes ==
  ASSUME Tree, NEW key \in Keys, Del(key)
  PROVE  Map!Delete(key) \/ Present' = Present
<1>. DEFINE id == Way(key)[0]
            l == heap[id]
            i == leaf_position_for(l, key)
<1>1. /\ key \in Nat /\ i \in 0..(l.n - 1) /\ i \in Slots /\ l.keys[i] = key
      /\ SameNodes
      /\ heap'[id] = [l EXCEPT !.vals = [@ EXCEPT ![i] = Null]]
      /\ \A x \in DOMAIN heap : x # id => heap'[x] = heap[x]
  BY DelAfter
<1>2. /\ \A p \in Present : p = <<p[1], p[2]>>
      /\ \A k, v : <<k, v>> \in Present <=> HeldBy(k, v)
  BY PresentIs DEF PresentHeld
<1>3. /\ \A p \in Present' : p = <<p[1], p[2]>>
      /\ \A k, v : <<k, v>> \in Present' <=> HeldBy(k, v)'
  BY DelTree, PresentNext
<1>4. Leaf(l, Found0(id)) /\ 0 \in 0..depth
  BY <1>1 DEF Tree, Bounds, Leaves
<1>. HIDE DEF i, l, id
<1>5. ASSUME NEW k \in Nat, NEW v
      PROVE  HeldBy(k, v)' <=> k # key /\ HeldBy(k, v)
  <2>1. HeldBy(k, v)' <=> Has(heap'[Way(k)'[0]], k, v)
    BY DEF HeldBy
  <2>2. Way(k)'[0] = Way(k)[0] /\ Way(k)[0] \in DOMAIN heap
    BY <1>1, <1>4, SameWay, WayNow
  <2>3. CASE Way(k)[0] # id
    BY <1>1, <2>1, <2>2, <2>3 DEF HeldBy, id
  <2>4. CASE Way(k)[0] = id
    <3>. DEFINE m == heap'[id]
    <3>1. /\ l.vals \in [Slots -> Rows \union {Null}] /\ l.n \in 0..M
          /\ l \in [n : 0..M, keys : [Slots -> Keys \union {0}], vals : [Slots -> Rows \union {Null}]]
      BY <1>4 DEF Leaf
    <3>2. /\ m.n = l.n /\ m.keys = l.keys
          /\ \A j \in 0..(l.n - 1) : m.vals[j] = IF j = i THEN Null ELSE l.vals[j]
      <4>1. \A j \in 0..(l.n - 1) : j \in Slots
        BY <3>1, TreeAssumption DEF Slots
      <4>. QED
        BY <1>1, <3>1, <4>1
    <3>. HIDE DEF m
    <3>3. \A j \in 0..(l.n - 1) : l.keys[j] = key => j = i
      BY <1>1, <1>4, LeafUnique
    <3>4. Has(m, k, v) <=> k # key /\ Has(l, k, v)
      BY <1>1, <3>2, <3>3 DEF Has
    <3>. QED
      BY <2>1, <2>2, <2>4, <3>4 DEF HeldBy, m, l
  <2>. QED
    BY <2>3, <2>4
<1>6. \A k, v : <<k, v>> \in Present' <=> k # key /\ <<k, v>> \in Present
  <2>1. ASSUME NEW k, NEW v, k \notin Nat
        PROVE  <<k, v>> \notin Present' /\ <<k, v>> \notin Present
    BY <1>2, <1>3, <2>1 DEF HeldBy
  <2>. QED
    BY <1>2, <1>3, <1>5, <2>1
<1>. DEFINE Q == Map!Without(key)
<1>7. /\ \A p \in Q : p = <<p[1], p[2]>>
      /\ \A k, v : <<k, v>> \in Q <=> k # key /\ <<k, v>> \in Present
  BY <1>2 DEF Map!Without
<1>. HIDE DEF Q
<1>8. Present' = Q
  BY <1>3, <1>6, <1>7, SamePairs
<1>. QED
  BY <1>8 DEF Map!Delete, Q

\* ImplementsMap: the tree, whatever it has split, and whatever keys it keeps only as
\* deleted, does for every call what a map from keys to rows does.
THEOREM RefinesMap == Spec => ImplementsMap
<1>1. Init => Map!Init
  <2>. SUFFICES ASSUME Init
                PROVE  Present = {}
    BY DEF Map!Init
  <2>1. Tree
    BY InitTree
  <2>2. DOMAIN heap = {1} /\ heap[1].n = 0 /\ 0 \in 0..depth
    BY DEF Init, NewLeaf
  <2>3. \A k, v : ~HeldBy(k, v)
    <3>1. \A k \in Nat : Way(k)[0] = 1
      BY <2>1, <2>2, WayNow
    <3>. QED
      BY <2>2, <3>1 DEF HeldBy, Has
  <2>. QED
    BY <2>1, <2>3, PresentIs DEF PresentHeld
<1>2. ASSUME Tree, [Next]_vars
      PROVE  [Map!Next]_Present
  <2>1. ASSUME NEW key \in Keys, NEW val \in Rows, Insert(key, val)
        PROVE  Map!Next
    BY <1>2, <2>1, InsertPuts DEF Map!Next
  <2>2. ASSUME NEW key \in Keys, Del(key)
        PROVE  [Map!Next]_Present
    BY <1>2, <2>2, DelDeletes DEF Map!Next
  <2>3. CASE UNCHANGED vars
    <3>1. heap' = heap /\ SameNodes /\ Tree' /\ 0 \in 0..depth
      BY <1>2, <2>3, StutterTree DEF vars, SameNodes, Tree, Bounds
    <3>2. \A k \in Nat : Way(k)'[0] = Way(k)[0]
      BY <1>2, <3>1, SameWay
    <3>3. \A k, v : HeldBy(k, v)' <=> HeldBy(k, v)
      BY <3>1, <3>2 DEF HeldBy
    <3>4. /\ \A p \in Present : p = <<p[1], p[2]>>
          /\ \A k, v : <<k, v>> \in Present <=> HeldBy(k, v)
      BY <1>2, PresentIs DEF PresentHeld
    <3>5. /\ \A p \in Present' : p = <<p[1], p[2]>>
          /\ \A k, v : <<k, v>> \in Present' <=> HeldBy(k, v)'
      BY <3>1, PresentNext
    <3>. QED
      BY <3>3, <3>4, <3>5, SamePairs
  <2>. QED
    BY <1>2, <2>1, <2>2, <2>3 DEF Next
<1>. QED
  BY <1>1, <1>2, TreeInvariant, PTL DEF Spec, ImplementsMap, Map!Spec

-----------------------------------------------------------------------------
(* The lookups.                                                             *)

\* find comes to the slot that holds the key, when one does; and an answer it does
\* not return could be any row, or none.
LEMMA FindsIs ==
  ASSUME Tree, NEW key \in Keys, NEW val \in Rows
  PROVE  Finds(key) = {val} <=> <<key, val>> \in Present
<1>. DEFINE l == heap[Way(key)[0]]
            i == leaf_position_for(l, key)
<1>1. key \in Nat /\ val # Null
  BY TreeAssumption DEF Null
<1>2. Leaf(l, Found0(Way(key)[0]))
  BY <1>1 DEF Tree, Leaves
<1>3. <<key, val>> \in Present <=> Has(l, key, val)
  BY <1>1, PresentIs DEF PresentHeld, HeldBy
<1>4. Finds(key) = IF i = l.n THEN {Null}
                   ELSE IF l.keys[i] = key THEN {l.vals[i]} ELSE Rows \union {Null}
  BY DEF Finds
<1>5. /\ i \in 0..l.n
      /\ \A j \in 0..(i - 1) : l.keys[j] < key
      /\ \A j \in i..(l.n - 1) : key <= l.keys[j]
  <2>. HIDE DEF l
  <2>. QED
    BY <1>1, <1>2, LeafPosition
<1>6. l.n \in Nat /\ \A j \in 0..(l.n - 1) : l.keys[j] \in Nat
  BY <1>2, LeafTyped
<1>. HIDE DEF l, i
<1>7. ASSUME Finds(key) = {val}
      PROVE  Has(l, key, val)
  <2>0. Null \notin Finds(key)
    BY <1>1, <1>7
  <2>1. i < l.n /\ l.keys[i] = key /\ l.vals[i] = val
    BY <1>4, <1>5, <1>6, <1>7, <2>0
  <2>2. i \in 0..(l.n - 1)
    BY <1>5, <1>6, <2>1
  <2>. QED
    BY <1>1, <2>1, <2>2 DEF Has
<1>8. ASSUME Has(l, key, val)
      PROVE  Finds(key) = {val}
  <2>1. PICK j \in 0..(l.n - 1) : l.keys[j] = key /\ l.vals[j] = val
    BY <1>8 DEF Has
  <2>2. ~(j \in 0..(i - 1))
    BY <1>1, <1>5, <2>1
  <2>3. i \in 0..(l.n - 1) /\ i <= j
    BY <1>5, <1>6, <2>1, <2>2
  <2>4. i = j
    <3>1. key <= l.keys[i] /\ (i < j => l.keys[i] < l.keys[j])
      <4>1. i \in i..(l.n - 1)
        BY <2>3
      <4>. QED
        BY <1>2, <1>5, <2>3, <4>1 DEF Leaf
    <3>2. l.keys[i] \in Nat
      BY <1>6, <2>3
    <3>. QED
      BY <1>1, <2>1, <2>3, <3>1, <3>2
  <2>. QED
    BY <1>4, <1>6, <2>1, <2>3, <2>4
<1>. QED
  BY <1>3, <1>7, <1>8

\* A position that is rewound from a key's own separator is that of the key before it.
LEMMA RewindIs ==
  ASSUME NEW node, InnerNode(node), NEW k \in Nat \ {0}
  PROVE  Rewind(node, inner_position_for(node, k), k) = inner_position_for(node, k - 1)
<1>. DEFINE p == inner_position_for(node, k)
            n == Len(node.keys)
<1>1. /\ p \in 0..n
      /\ \A i \in 1..p : node.keys[i] <= k
      /\ \A i \in (p + 1)..n : k < node.keys[i]
  BY InnerPosition
<1>2. n \in Nat /\ \A i \in 1..n : node.keys[i] \in Nat
  BY InnerTyped
<1>3. k - 1 \in Nat
  OBVIOUS
<1>. HIDE DEF p
<1>4. p < n => k - 1 < node.keys[p + 1]
  <2>1. p < n => p + 1 \in (p + 1)..n /\ p + 1 \in 1..n
    BY <1>1, <1>2
  <2>. QED
    BY <1>1, <1>2, <2>1
<1>5. CASE p > 0 /\ node.keys[p] = k
  <2>1. p - 1 \in 0..n /\ (p - 1) + 1 = p /\ p \in 1..n
    BY <1>1, <1>2, <1>5
  <2>2. p - 1 > 0 => node.keys[p - 1] <= k - 1
    <3>1. p - 1 > 0 => p - 1 \in 1..n /\ p - 1 < p
      BY <1>1, <1>2
    <3>2. p - 1 > 0 => node.keys[p - 1] < k
      BY <1>5, <2>1, <3>1 DEF InnerNode, Ascends
    <3>. QED
      BY <1>2, <3>1, <3>2
  <2>3. k - 1 < node.keys[(p - 1) + 1]
    BY <1>5, <2>1
  <2>4. inner_position_for(node, k - 1) = p - 1
    BY <1>3, <2>1, <2>2, <2>3, InnerPositionIs
  <2>. QED
    BY <1>5, <2>4 DEF Rewind, p
<1>6. CASE ~(p > 0 /\ node.keys[p] = k)
  <2>1. p > 0 => node.keys[p] <= k - 1
    <3>1. p > 0 => p \in 1..p /\ p \in 1..n
      BY <1>1, <1>2
    <3>. QED
      BY <1>1, <1>2, <1>6, <3>1
  <2>2. inner_position_for(node, k - 1) = p
    BY <1>1, <1>3, <1>4, <2>1, InnerPositionIs
  <2>. QED
    BY <1>6, <2>2 DEF Rewind, p
<1>. QED
  BY <1>5, <1>6

\* So findLastLessThan comes to the leaf where the key before it would be.
LEMMA WayBeforeIs ==
  ASSUME Tree, NEW k \in Nat \ {0}
  PROVE  WayBefore(k)[0] = Way(k - 1)[0]
<1>1. depth \in Nat /\ k - 1 \in Nat
  BY DEF Tree, Bounds
<1>2. /\ WayBefore(k)[depth] = root
      /\ \A d \in 0..(depth - 1) : WayBefore(k)[d] = StepDown(heap, TRUE, WayBefore(k)[d + 1], k)
  <2>1. WayBefore(k) = WayIn(heap, root, depth, TRUE, k)
    BY WayIs
  <2>. QED
    <3>1. IsWay(WayBefore(k), heap, root, depth, TRUE, k)
      BY <1>1, <2>1, WayInDef
    <3>. QED
      BY <3>1 DEF IsWay
<1>3. ASSUME NEW d \in 0..(depth - 1), WayBefore(k)[d + 1] = Way(k - 1)[d + 1]
      PROVE  WayBefore(k)[d] = Way(k - 1)[d]
  <2>. DEFINE node == heap[Way(k - 1)[d + 1]]
  <2>1. d + 1 \in 1..depth
    BY <1>1
  <2>2. InnerNode(node)
    BY <1>1, <2>1 DEF Tree, Inners, Inner
  <2>3. WayBefore(k)[d] = Child(node, Rewind(node, inner_position_for(node, k), k))
    BY <1>2, <1>3 DEF StepDown
  <2>4. Way(k - 1)[d] = Child(node, inner_position_for(node, k - 1))
    BY <1>1, WayNow
  <2>. HIDE DEF node
  <2>. QED
    BY <2>2, <2>3, <2>4, RewindIs
<1>. DEFINE I == {d \in 0..depth : WayBefore(k)[d] = Way(k - 1)[d]}
<1>4. Way(k - 1)[depth] = root
  BY <1>1, WayNow
<1>5. depth \in I /\ \A d \in 0..(depth - 1) : d + 1 \in I => d \in I
  BY <1>1, <1>2, <1>3, <1>4
<1>6. \A d \in 0..depth : d \in I
  <2>. HIDE DEF I
  <2>. QED
    BY <1>1, <1>5, Downward
<1>7. 0 \in 0..depth
  BY <1>1
<1>. QED
  BY <1>6, <1>7

\* Searches come to a node for all the keys between two.
LEMMA Between ==
  ASSUME Tree, NEW a \in Nat, NEW b \in Nat, NEW c \in Nat, a <= c, c <= b, Way(a)[0] = Way(b)[0]
  PROVE  Way(c)[0] = Way(a)[0]
<1>1. depth \in Nat /\ 0 \in 0..depth
  BY DEF Tree, Bounds
<1>2. \A d \in 0..depth : Way(a)[d] = Way(b)[d]
  BY <1>1, MeetUp
<1>3. ASSUME NEW d \in 0..(depth - 1), Way(c)[d + 1] = Way(a)[d + 1]
      PROVE  Way(c)[d] = Way(a)[d]
  <2>. DEFINE node == heap[Way(a)[d + 1]]
              at(k) == inner_position_for(node, k)
  <2>1. d + 1 \in 1..depth /\ d \in 0..depth /\ d + 1 \in 0..depth
    BY <1>1
  <2>2. InnerNode(node)
    BY <2>1 DEF Tree, Inners, Inner
  <2>3. at(a) = at(b)
    BY <1>2, <2>1, SamePosition
  <2>4. Way(c)[d] = Way(a)[d] <=> at(c) = at(a)
    BY <1>3, SamePosition
  <2>. HIDE DEF node
  <2>5. /\ at(a) \in 0..Len(node.keys) /\ \A i \in 1..at(a) : node.keys[i] <= a
        /\ \A i \in (at(a) + 1)..Len(node.keys) : b < node.keys[i]
    <3>1. /\ at(a) \in 0..Len(node.keys)
          /\ \A i \in 1..at(a) : node.keys[i] <= a
      BY <2>2, InnerPosition
    <3>2. \A i \in (at(b) + 1)..Len(node.keys) : b < node.keys[i]
      BY <2>2, InnerPosition
    <3>. QED
      BY <2>3, <3>1, <3>2
  <2>6. Len(node.keys) \in Nat /\ \A i \in 1..Len(node.keys) : node.keys[i] \in Nat
    BY <2>2, InnerTyped
  <2>. DEFINE p == at(a)
  <2>. HIDE DEF at
  <2>7. /\ p > 0 => node.keys[p] <= c
        /\ p < Len(node.keys) => c < node.keys[p + 1]
    <3>1. /\ p > 0 => p \in 1..p /\ p \in 1..Len(node.keys)
          /\ p < Len(node.keys) => p + 1 \in (p + 1)..Len(node.keys) /\ p + 1 \in 1..Len(node.keys)
      BY <2>5, <2>6
    <3>. QED
      BY <2>5, <2>6, <3>1
  <2>8. inner_position_for(node, c) = p
    BY <2>2, <2>5, <2>7, InnerPositionIs
  <2>. QED
    BY <2>4, <2>8 DEF at
<1>. DEFINE I == {d \in 0..depth : Way(c)[d] = Way(a)[d]}
<1>4. Way(c)[depth] = root /\ Way(a)[depth] = root
  BY <1>1, WayNow
<1>5. depth \in I /\ \A d \in 0..(depth - 1) : d + 1 \in I => d \in I
  BY <1>1, <1>3, <1>4
<1>6. \A d \in 0..depth : d \in I
  <2>. HIDE DEF I
  <2>. QED
    BY <1>1, <1>5, Downward
<1>. QED
  BY <1>1, <1>6

\* The key before a key, if the leaf has one, is the last before it in the tree: a
\* search for a key between the two comes to this leaf.
LEMMA LastInLeaf ==
  ASSUME Tree, NEW k \in Nat \ {0}
  PROVE  LET l == heap[Way(k - 1)[0]]
             pos == leaf_position_for(l, k) - 1
         IN  /\ pos < 0 => \A c, v : HeldBy(c, v) => ~(c < k)
             /\ ~(pos < 0) =>
                  /\ pos \in 0..(l.n - 1) /\ l.keys[pos] \in Nat \ {0} /\ l.keys[pos] < k
                  /\ Way(l.keys[pos])[0] = Way(k - 1)[0]
                  /\ \A c, v : HeldBy(c, v) => (c < k <=> c <= l.keys[pos])
<1>. DEFINE x == Way(k - 1)[0]
            l == heap[x]
            pos == leaf_position_for(l, k) - 1
<1>1. k - 1 \in Nat /\ k \in Nat /\ 0 \in Nat
  OBVIOUS
<1>2. /\ Leaf(l, Found0(x))
      /\ Way(0)[0] # x => l.n > 0 /\ l.keys[0] <= k - 1
  BY <1>1 DEF Tree, Leaves, Lowest
<1>3. l.n \in Nat /\ \A j \in 0..(l.n - 1) : l.keys[j] \in Nat
  BY <1>2, LeafTyped
<1>4. /\ pos \in Int /\ pos + 1 \in 0..l.n
      /\ \A j \in 0..pos : l.keys[j] < k
      /\ \A j \in (pos + 1)..(l.n - 1) : k <= l.keys[j]
  <2>. DEFINE p == leaf_position_for(l, k)
  <2>1. /\ p \in 0..l.n
        /\ \A j \in 0..(p - 1) : l.keys[j] < k
        /\ \A j \in p..(l.n - 1) : k <= l.keys[j]
    <3>. HIDE DEF l
    <3>. QED
      BY <1>1, <1>2, LeafPosition
  <2>2. pos \in Int /\ pos + 1 = p /\ pos = p - 1
    BY <1>3, <2>1
  <2>. HIDE DEF p, l, pos
  <2>. QED
    BY <2>1, <2>2
<1>5. ASSUME NEW c \in Nat, NEW v, HeldBy(c, v), Way(c)[0] = x
      PROVE  \E j \in 0..(l.n - 1) : l.keys[j] = c
  BY <1>5 DEF HeldBy, Has
<1>. HIDE DEF l, x, pos
<1>6. ASSUME pos < 0, NEW c, NEW v, HeldBy(c, v), c < k
      PROVE  FALSE
  <2>1. pos + 1 = 0 /\ c \in Nat
    BY <1>3, <1>4, <1>6 DEF HeldBy
  <2>2. Way(0)[0] = x
    <3>1. l.n > 0 => 0 \in (pos + 1)..(l.n - 1) /\ 0 \in 0..(l.n - 1)
      BY <1>3, <2>1
    <3>2. l.n > 0 => k <= l.keys[0] /\ l.keys[0] \in Nat
      BY <1>3, <1>4, <3>1
    <3>. QED
      BY <1>1, <1>2, <3>2
  <2>3. Way(c)[0] = x
    <3>1. 0 <= c /\ c <= k - 1
      BY <1>1, <1>6, <2>1
    <3>. QED
      BY <1>1, <2>1, <2>2, <3>1, Between DEF x
  <2>4. PICK j \in 0..(l.n - 1) : l.keys[j] = c
    BY <1>5, <1>6, <2>1, <2>3
  <2>5. k <= l.keys[j]
    BY <1>4, <2>1, <2>4
  <2>. QED
    BY <1>1, <1>6, <2>1, <2>4, <2>5
<1>7. ASSUME ~(pos < 0)
      PROVE  /\ pos \in 0..(l.n - 1) /\ l.keys[pos] \in Nat \ {0} /\ l.keys[pos] < k
             /\ Way(l.keys[pos])[0] = x
             /\ \A c, v : HeldBy(c, v) => (c < k <=> c <= l.keys[pos])
  <2>. DEFINE q == l.keys[pos]
  <2>1. pos \in 0..(l.n - 1) /\ pos \in 0..pos
    BY <1>3, <1>4, <1>7
  <2>2. q < k /\ q \in Keys \cap Found0(x)
    BY <1>2, <1>4, <2>1 DEF Leaf
  <2>3. q \in Nat \ {0} /\ Way(q)[0] = x
    BY <2>2, TreeAssumption DEF Found0
  <2>4. ASSUME NEW c, NEW v, HeldBy(c, v), c < k
        PROVE  c <= q
    <3>1. c \in Nat
      BY <2>4 DEF HeldBy
    <3>2. SUFFICES ASSUME q <= c
                   PROVE  c <= q
      BY <2>3, <3>1
    <3>3. Way(c)[0] = x
      <4>1. c <= k - 1
        BY <1>1, <2>4, <3>1
      <4>. HIDE DEF q
      <4>. QED
        BY <1>1, <2>3, <3>1, <3>2, <4>1, Between DEF x
    <3>4. PICK j \in 0..(l.n - 1) : l.keys[j] = c
      BY <1>5, <2>4, <3>1, <3>3
    <3>5. ~(j \in (pos + 1)..(l.n - 1))
      BY <1>1, <1>4, <2>4, <3>1, <3>4
    <3>6. j < pos \/ j = pos
      BY <1>3, <2>1, <3>4, <3>5
    <3>7. j < pos => l.keys[j] < q
      BY <1>2, <2>1, <3>4 DEF Leaf
    <3>. QED
      BY <2>3, <3>1, <3>4, <3>6, <3>7
  <2>5. ASSUME NEW c, NEW v, HeldBy(c, v), c <= q
        PROVE  c < k
    <3>1. c \in Nat
      BY <2>5 DEF HeldBy
    <3>. QED
      BY <1>1, <2>2, <2>3, <2>5, <3>1
  <2>. QED
    BY <2>1, <2>2, <2>3, <2>4, <2>5
<1>. QED
  BY <1>6, <1>7 DEF l, x, pos

\* A step of findLastLessThan: it ends with the answer, or goes on from a deleted key
\* that has the same one.
LEMMA BackStep ==
  ASSUME Tree, NEW k \in Nat \ {0}
  PROVE  LET l == heap[Way(k - 1)[0]]
             pos == leaf_position_for(l, k) - 1
         IN  \/ pos < 0 /\ Map!LastBefore(k) = 0
             \/ ~(pos < 0) /\ l.vals[pos] # Null /\ Map!LastBefore(k) = l.keys[pos]
             \/ /\ ~(pos < 0) /\ l.vals[pos] = Null
                /\ l.keys[pos] \in Nat \ {0} /\ l.keys[pos] < k
                /\ Map!LastBefore(k) = Map!LastBefore(l.keys[pos])
<1>. DEFINE x == Way(k - 1)[0]
            l == heap[x]
            pos == leaf_position_for(l, k) - 1
            q == l.keys[pos]
<1>1. /\ pos < 0 => \A c, v : HeldBy(c, v) => ~(c < k)
      /\ ~(pos < 0) => /\ pos \in 0..(l.n - 1) /\ q \in Nat \ {0} /\ q < k /\ Way(q)[0] = x
                       /\ \A c, v : HeldBy(c, v) => (c < k <=> c <= q)
  BY LastInLeaf
<1>2. k - 1 \in Nat
  OBVIOUS
<1>3. Leaf(l, Found0(x))
  BY <1>2 DEF Tree, Leaves
<1>. HIDE DEF pos, l, x
<1>4. \A h, c : c \in Map!Before(h) <=> c < h /\ \E v : HeldBy(c, v)
  <2>1. /\ \A p \in Present : p = <<p[1], p[2]>>
        /\ \A c, v : <<c, v>> \in Present <=> HeldBy(c, v)
    BY PresentIs DEF PresentHeld
  <2>2. ASSUME NEW h, NEW c
        PROVE  c \in Map!Before(h) <=> \E p \in Present : p[1] < h /\ c = p[1]
    BY DEF Map!Before
  <2>3. ASSUME NEW h, NEW c, NEW p \in Present, p[1] < h, c = p[1]
        PROVE  c < h /\ \E v : HeldBy(c, v)
    <3>1. p = <<c, p[2]>>
      BY <2>1, <2>3
    <3>2. <<c, p[2]>> \in Present
      BY <3>1
    <3>. QED
      BY <2>1, <2>3, <3>2
  <2>4. ASSUME NEW h, NEW c, NEW v, c < h, HeldBy(c, v)
        PROVE  \E p \in Present : p[1] < h /\ c = p[1]
    <3>1. <<c, v>> \in Present /\ <<c, v>>[1] = c
      BY <2>1, <2>4
    <3>. QED
      BY <2>4, <3>1
  <2>. QED
    BY <2>2, <2>3, <2>4
<1>5. CASE pos < 0
  <2>1. Map!Before(k) = {}
    BY <1>1, <1>4, <1>5
  <2>. QED
    BY <1>5, <2>1 DEF Map!LastBefore, pos, l, x
<1>6. CASE ~(pos < 0) /\ l.vals[pos] # Null
  <2>1. HeldBy(q, l.vals[pos])
    BY <1>1, <1>6 DEF HeldBy, Has, l
  <2>2. q \in Map!Before(k) /\ \A c \in Map!Before(k) : c <= q
    BY <1>1, <1>4, <1>6, <2>1
  <2>3. \A c \in Map!Before(k) : c \in Nat
    BY <1>4 DEF HeldBy
  <2>4. \A c \in Map!Before(k) : q <= c => c = q
    BY <1>1, <1>6, <2>2, <2>3
  <2>5. Map!LastBefore(k) = q
    <3>. HIDE DEF q
    <3>1. Map!LastBefore(k) = CHOOSE j \in Map!Before(k) : \A i \in Map!Before(k) : i <= j
      BY <2>2 DEF Map!LastBefore
    <3>. QED
      BY <2>2, <2>4, <3>1
  <2>. QED
    BY <1>6, <2>5 DEF pos, l, x
<1>7. CASE ~(pos < 0) /\ l.vals[pos] = Null
  <2>1. ASSUME NEW v
        PROVE  ~HeldBy(q, v)
    <3>1. SUFFICES ASSUME NEW j \in 0..(l.n - 1), l.keys[j] = q, l.vals[j] = v, v # Null
                   PROVE  FALSE
      BY <1>1, <1>7 DEF HeldBy, Has, l
    <3>2. j = pos
      BY <1>1, <1>3, <1>7, <3>1, LeafUnique
    <3>. QED
      BY <1>7, <3>1, <3>2
  <2>2. \A c : c \in Map!Before(k) <=> c \in Map!Before(q)
    <3>1. ASSUME NEW c, NEW v, HeldBy(c, v)
          PROVE  c < k <=> c < q
      <4>1. c \in Nat /\ c # q
        BY <2>1, <3>1 DEF HeldBy
      <4>2. (c < k <=> c <= q) /\ q \in Nat
        BY <1>1, <1>7, <3>1
      <4>. QED
        BY <4>1, <4>2
    <3>. HIDE DEF q
    <3>. QED
      BY <1>4, <3>1
  <2>3. Map!Before(k) = Map!Before(q)
    BY <2>2
  <2>4. Map!LastBefore(k) = Map!LastBefore(q)
    BY <2>3 DEF Map!LastBefore
  <2>. QED
    BY <1>1, <1>7, <2>4 DEF pos, l, x
<1>. QED
  BY <1>5, <1>6, <1>7 DEF pos, l, x

\* The recursion of findLastLessThan ends, each step being to a lower key: any
\* function with its equation is Map's.
LastStep(k, f) ==
  LET l == heap[WayBefore(k)[0]]
      pos == leaf_position_for(l, k) - 1
  IN  IF pos < 0 THEN 0
      ELSE IF l.vals[pos] # Null THEN l.keys[pos] ELSE f[l.keys[pos]]
LastSteps(key, f) == [k \in 1..key |-> LastStep(k, f)]

\* So findLastLessThan gives the last key of the map before its argument.
LEMMA LastBeforeIs ==
  ASSUME Tree, NEW key \in Nat \ {0}
  PROVE  findLastLessThan(key) = Map!LastBefore(key)
<1>. DEFINE g == [k \in 1..key |-> Map!LastBefore(k)]
            last == CHOOSE f : f = LastSteps(key, f)
<1>1. ASSUME NEW k \in 1..key
      PROVE  \/ \A f : LastStep(k, f) = Map!LastBefore(k)
             \/ \E j \in 1..key : /\ j < k /\ Map!LastBefore(k) = Map!LastBefore(j)
                                  /\ \A f : LastStep(k, f) = f[j]
  <2>. DEFINE l == heap[Way(k - 1)[0]]
              pos == leaf_position_for(l, k) - 1
  <2>1. k \in Nat \ {0}
    OBVIOUS
  <2>2. ASSUME NEW f
        PROVE  LastStep(k, f) = IF pos < 0 THEN 0
                                ELSE IF l.vals[pos] # Null THEN l.keys[pos] ELSE f[l.keys[pos]]
    BY <2>1, WayBeforeIs DEF LastStep
  <2>3. \/ pos < 0 /\ Map!LastBefore(k) = 0
        \/ ~(pos < 0) /\ l.vals[pos] # Null /\ Map!LastBefore(k) = l.keys[pos]
        \/ /\ ~(pos < 0) /\ l.vals[pos] = Null
           /\ l.keys[pos] \in Nat \ {0} /\ l.keys[pos] < k
           /\ Map!LastBefore(k) = Map!LastBefore(l.keys[pos])
    BY <2>1, BackStep
  <2>. HIDE DEF l, pos
  <2>4. CASE pos < 0 /\ Map!LastBefore(k) = 0
    BY <2>2, <2>4
  <2>5. CASE ~(pos < 0) /\ l.vals[pos] # Null /\ Map!LastBefore(k) = l.keys[pos]
    BY <2>2, <2>5
  <2>6. CASE /\ ~(pos < 0) /\ l.vals[pos] = Null
             /\ l.keys[pos] \in Nat \ {0} /\ l.keys[pos] < k
             /\ Map!LastBefore(k) = Map!LastBefore(l.keys[pos])
    <3>1. l.keys[pos] \in 1..key
      BY <2>6
    <3>2. \A f : LastStep(k, f) = f[l.keys[pos]]
      BY <2>2, <2>6
    <3>. QED
      BY <2>6, <3>1, <3>2
  <2>. QED
    BY <2>3, <2>4, <2>5, <2>6
<1>. HIDE DEF g
<1>2. \A k \in 1..key : g[k] = Map!LastBefore(k)
  BY DEF g
<1>3. g = LastSteps(key, g)
  <2>1. ASSUME NEW k \in 1..key
        PROVE  LastStep(k, g) = Map!LastBefore(k)
    BY <1>1, <1>2
  <2>. QED
    BY <2>1 DEF g, LastSteps
<1>4. last = LastSteps(key, last)
  BY <1>3, Zenon
<1>5. findLastLessThan(key) = last[key]
  BY Zenon DEF findLastLessThan, LastSteps, LastStep
<1>. HIDE DEF last
<1>6. \A k \in 1..key : last[k] = LastStep(k, last)
  BY <1>4 DEF LastSteps
<1>7. \A k \in 1..key : last[k] = Map!LastBefore(k)
  <2>. DEFINE wrong == {k \in 1..key : last[k] # Map!LastBefore(k)}
  <2>1. SUFFICES ASSUME wrong # {}
                 PROVE  FALSE
    OBVIOUS
  <2>2. PICK k \in wrong : \A j \in wrong : k <= j
    <3>1. wrong \subseteq Nat
      OBVIOUS
    <3>. HIDE DEF wrong
    <3>. QED
      BY <2>1, <3>1, LeastNatural
  <2>3. ASSUME NEW j \in 1..key, j < k
        PROVE  last[j] = Map!LastBefore(j)
    <3>1. j \notin wrong
      BY <2>2, <2>3
    <3>. QED
      BY <3>1
  <2>4. k \in 1..key /\ last[k] # Map!LastBefore(k)
    OBVIOUS
  <2>. HIDE DEF wrong
  <2>. QED
    BY <1>1, <1>6, <2>3, <2>4
<1>8. key \in 1..key
  OBVIOUS
<1>. QED
  BY <1>5, <1>7, <1>8

\* LookupsAgree: find is sure to answer with a row exactly when the map has it, and
\* findLastLessThan answers as the map does, for each key.
THEOREM LookupsAlwaysAgree == Spec => []LookupsAgree
<1>1. Tree => LookupsAgree
  <2>. SUFFICES ASSUME Tree, NEW key \in Keys
                PROVE  /\ \A val \in Rows : Finds(key) = {val} <=> <<key, val>> \in Present
                       /\ findLastLessThan(key) = Map!LastBefore(key)
    BY DEF LookupsAgree
  <2>1. key \in Nat \ {0}
    BY TreeAssumption
  <2>. QED
    BY <2>1, FindsIs, LastBeforeIs
<1>. QED
  BY TreeInvariant, <1>1, PTL
=============================================================================
