------------------------------- MODULE BTree -------------------------------
(***************************************************************************)
(* The B+ tree of benchmarks/tpcc/code/btree.h that holds each TPC-C       *)
(* table.  A call runs inside one section of the lock, so it is one step   *)
(* here; what is checked is what the steps leave behind: splits on the way *)
(* up and down, keys that are only marked deleted, and the slots past      *)
(* num_keys, which keep what was in them and are compared with new keys.   *)
(* The fast_ and slow_ forms of a call are the same once expanded.         *)
(***************************************************************************)
EXTENDS Integers, SequencesExt

CONSTANTS
  M, N,         \* template parameters: keys of a leaf, of an inner node
  Keys,         \* KEY, the tables' packed keys: all above zero
  Rows,         \* VALUE, pointers: none of them NULL
  MaxChanges    \* bound: deletions, and insertions of a key that is in a leaf

\* BOOST_STATIC_ASSERT asks for M > 0, but a split of a leaf of one key has no
\* room for the other.
ASSUME TreeAssumption ==
  /\ M \in Nat /\ M > 1 /\ N \in Nat /\ N > 2 /\ MaxChanges \in Nat
  /\ Keys \subseteq Nat \ {0} /\ Rows \subseteq Nat \ {0}

VARIABLES
  heap,         \* the nodes, by address; none is freed
  top,          \* the addresses from here on have not been given out
  root, depth,
  changes

vars == <<heap, top, root, depth, changes>>
Null == 0
Slots == 0..(M - 1)

\* initLeafNode sets the keys to zero; an inner node is the keys and children in use.
NewLeaf == [n |-> 0, keys |-> [j \in Slots |-> 0], vals |-> [j \in Slots |-> Null]]

Init == heap = <<NewLeaf>> /\ top = 2 /\ root = 1 /\ depth = 0 /\ changes = 0

----------------------------------------------------------------------------
(* Positions, and the way down. *)

Least(S) == CHOOSE k \in S : \A j \in S : k <= j
leaf_position_for(l, key) == Least({k \in 0..l.n : k = l.n \/ l.keys[k] >= key})
inner_position_for(node, key) ==
  LET n == Len(node.keys) IN Least({k \in 0..n : k = n \/ node.keys[k + 1] > key})
Child(node, pos) == node.kids[pos + 1]

\* The nodes the loop of fast_find comes to, by level: a leaf is at level 0.
Way(key) ==
  LET way[d \in 0..depth] ==
        IF d = depth THEN root
        ELSE LET node == heap[way[d + 1]] IN Child(node, inner_position_for(node, key))
  IN  way

----------------------------------------------------------------------------
(* insert: an operator gives a node as insertion leaves it, followed by its  *)
(* new right sibling when the node was full.                                *)

leaf_insert_nonfull(l, key, val, i) ==
  IF l.keys[i] = key THEN [l EXCEPT !.vals[i] = val]
  ELSE LET shift(a, x) == [j \in Slots |-> IF j = i THEN x
                                           ELSE IF j > i /\ j <= l.n THEN a[j - 1] ELSE a[j]]
       IN  [n |-> l.n + 1, keys |-> shift(l.keys, key), vals |-> shift(l.vals, val)]

BugSplitKey(l, right, key) == l.keys[(M + 1) \div 2]
SplitKey(l, right, key) == right.keys[0]
BugMoved(l) == l.n - (M + 1) \div 2 - 1
Moved(l) == l.n - (M + 1) \div 2
leaf_insert(l, key, val) ==
  LET i == leaf_position_for(l, key)
      t == (M + 1) \div 2     \* treshold
      move(a, z) == [j \in Slots |-> IF j < M - t THEN a[t + j] ELSE z]
      sibling == [n |-> Moved(l), keys |-> move(l.keys, 0), vals |-> move(l.vals, Null)]
      old == [l EXCEPT !.n = t]
  IN  IF l.n < M THEN <<leaf_insert_nonfull(l, key, val, i)>>
      ELSE IF i < t THEN <<leaf_insert_nonfull(old, key, val, i), sibling>>
      ELSE <<old, leaf_insert_nonfull(sibling, key, val, i - t)>>

\* split: the key and the address of the child's new sibling, if it has one
inner_insert_nonfull(node, key, split) ==
  LET i == inner_position_for(node, key)
  IN  IF split = <<>> THEN node
      ELSE [keys |-> InsertAt(node.keys, i + 1, split[1]), kids |-> InsertAt(node.kids, i + 2, split[2])]
\* A full node is split before it is known whether its child splits.
UpKey(node) == node.keys[(N + 1) \div 2]
inner_insert(node, key, split) ==
  LET t == (N + 1) \div 2     \* treshold: the key at its place goes up
      left == [keys |-> SubSeq(node.keys, 1, t - 1), kids |-> SubSeq(node.kids, 1, t)]
      right == [keys |-> SubSeq(node.keys, t + 1, N), kids |-> SubSeq(node.kids, t + 1, N + 1)]
  IN  IF Len(node.keys) < N THEN <<inner_insert_nonfull(node, key, split)>>
      ELSE IF key < UpKey(node) THEN <<inner_insert_nonfull(left, key, split), right>>
      ELSE <<left, inner_insert_nonfull(right, key, split)>>

InLeaf(key) == LET l == heap[Way(key)[0]]
               IN  \E j \in 0..(l.n - 1) : l.keys[j] = key

\* Whether a node splits, and the key that goes up, are its own business; each
\* level of the way down is told of a split of the one below (InsertionResult).
Node(key, d) == heap[Way(key)[d]]
Full(key, d) == IF d = 0 THEN Node(key, 0).n = M ELSE Len(Node(key, d).keys) = N
Sibling(d) == top + d     \* where the right half of the node at level d goes
Up(key, val, d) ==
  IF d = 0 THEN SplitKey(Node(key, 0), leaf_insert(Node(key, 0), key, val)[2], key)
  ELSE UpKey(Node(key, d))
Split(key, val, d) == IF Full(key, d) THEN <<Up(key, val, d), Sibling(d)>> ELSE <<>>
After(key, val, d) ==
  IF d = 0 THEN leaf_insert(Node(key, 0), key, val)
  ELSE inner_insert(Node(key, d), key, Split(key, val, d - 1))

Insert(key, val) ==
  LET way == Way(key)
      full == {d \in 0..depth : Full(key, d)}
      rootProxy == top + depth + 1
  IN  /\ IF InLeaf(key) THEN changes < MaxChanges /\ changes' = changes + 1
         ELSE UNCHANGED changes
      /\ heap' = [x \in DOMAIN heap \union {Sibling(d) : d \in full}
                          \union (IF depth \in full THEN {rootProxy} ELSE {}) |->
                    IF x = rootProxy
                    THEN [keys |-> <<Up(key, val, depth)>>, kids |-> <<root, Sibling(depth)>>]
                    ELSE IF x >= top THEN After(key, val, x - top)[2]
                    ELSE IF \E d \in 0..depth : way[d] = x
                         THEN After(key, val, CHOOSE d \in 0..depth : way[d] = x)[1]
                    ELSE heap[x]]
      /\ top' = IF full = {} THEN top ELSE rootProxy + 1
      /\ IF depth \in full THEN root' = rootProxy /\ depth' = depth + 1
         ELSE UNCHANGED <<root, depth>>

----------------------------------------------------------------------------
(* find, del, findLastLessThan. *)

\* What find may answer, Null standing for false.  A row that is deleted is NULL.
\* Where the leaf holds only a larger key, the function ends without a return.
Finds(key) ==
  LET l == heap[Way(key)[0]]
      i == leaf_position_for(l, key)
  IN  IF i = l.n THEN {Null} ELSE IF l.keys[i] = key THEN {l.vals[i]} ELSE Rows \union {Null}

\* del looks at the slot of the key's position, past the last key too.  (In a
\* full leaf that may be past the array, where no key is.)
Del(key) ==
  LET id == Way(key)[0]
      i == leaf_position_for(heap[id], key)
  IN  /\ i \in Slots /\ heap[id].keys[i] = key
      /\ changes < MaxChanges /\ changes' = changes + 1
      /\ heap' = [heap EXCEPT ![id].vals[i] = Null]
      /\ UNCHANGED <<top, root, depth>>

BugNoRewind(node, pos, key) == pos
Rewind(node, pos, key) == IF pos > 0 /\ node.keys[pos] = key THEN pos - 1 ELSE pos
WayBefore(key) ==
  LET way[d \in 0..depth] ==
        IF d = depth THEN root
        ELSE LET node == heap[way[d + 1]]
             IN  Child(node, Rewind(node, inner_position_for(node, key), key))
  IN  way
\* The last key before key, passing those deleted; zero when there is none
findLastLessThan(key) ==
  LET last[k \in 1..key] ==
        LET l == heap[WayBefore(k)[0]]
            pos == leaf_position_for(l, k) - 1    \* below zero: unsigned, and not < num_keys
        IN  IF pos < 0 THEN 0
            ELSE IF l.vals[pos] # Null THEN l.keys[pos] ELSE last[l.keys[pos]]
  IN  last[key]

Next == \E key \in Keys : Del(key) \/ \E val \in Rows : Insert(key, val)
Spec == Init /\ [][Next]_vars

----------------------------------------------------------------------------
(* Properties. *)

\* The nodes below id, which is at level d, by level
Below(id, d) ==
  LET below[e \in 0..d] ==
        IF e = d THEN {id}
        ELSE UNION {{heap[x].kids[i] : i \in DOMAIN heap[x].kids} : x \in below[e + 1]}
  IN  below
KeysIn(l) == {l.keys[j] : j \in 0..(l.n - 1)}
KeysBelow(id, d) == UNION {KeysIn(heap[x]) : x \in Below(id, d)[0]}
Levels == Below(root, depth)

\* Every node is reached, at its level, and fits its arrays: no node over its
\* N or M keys, each inner node one child more than keys.
TypeOK ==
  /\ depth \in Nat /\ changes \in 0..MaxChanges /\ top \in Nat
  /\ UNION {Levels[d] : d \in 0..depth} = DOMAIN heap /\ \A x \in DOMAIN heap : x < top
  /\ \A x \in Levels[0] :
       /\ heap[x].n \in 0..M /\ DOMAIN heap[x].keys = Slots /\ DOMAIN heap[x].vals = Slots
       /\ \A j \in Slots : heap[x].keys[j] \in Keys \union {0} /\ heap[x].vals[j] \in Rows \union {Null}
  /\ \A d \in 1..depth : \A x \in Levels[d] :
       /\ Len(heap[x].keys) \in 1..N /\ Len(heap[x].kids) = Len(heap[x].keys) + 1
       /\ \A i \in DOMAIN heap[x].keys : heap[x].keys[i] \in Keys

\* The keys of a leaf ascend, and a separator is the first key to its right and
\* above every key to its left, at each depth, whatever has been split.
SeparatorsHold ==
  /\ \A x \in Levels[0] : \A i, j \in 0..(heap[x].n - 1) : i < j => heap[x].keys[i] < heap[x].keys[j]
  /\ \A d \in 1..depth : \A x \in Levels[d] : \A i \in DOMAIN heap[x].keys :
       /\ Least(KeysBelow(heap[x].kids[i + 1], d - 1)) = heap[x].keys[i]
       /\ \A k \in KeysBelow(heap[x].kids[i], d - 1) : k < heap[x].keys[i]

\* Every node fits its arrays and every key is where its separators say.
WellFormed == TypeOK /\ SeparatorsHold

Pairs(l) == {<<l.keys[j], l.vals[j]>> : j \in {i \in 0..(l.n - 1) : l.vals[i] # Null}}
Present == UNION {Pairs(heap[x]) : x \in Levels[0]}
Map == INSTANCE OrderedMap WITH map <- Present

\* find is sure to give a key's row exactly when the key is present: it comes to
\* each by the separators, and where it returns at all takes no stale slot, deleted
\* row or other key for it.  findLastLessThan gives the last key before the one
\* asked for, although it looks into one leaf and that leaf's keys may be deleted or
\* all too large: as delivery and order status rely on, and the warning before it denies.
LookupsAgree ==
  \A key \in Keys :
    /\ \A val \in Rows : Finds(key) = {val} <=> <<key, val>> \in Present
    /\ findLastLessThan(key) = Map!LastBefore(key)

\* Every call does to the tree what it does to a map: no split loses, doubles or
\* hides another key, and a key deleted comes back only when inserted again.
ImplementsMap == Map!Spec
=============================================================================
