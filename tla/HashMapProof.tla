---------------------------- MODULE HashMapProof ----------------------------
(***************************************************************************)
(* Theorems about HashMap, for any number of threads, buckets, values,     *)
(* addresses, lookups per call and calls.                                  *)
(***************************************************************************)
EXTENDS HashMap, WellFoundedInduction, TLAPS

----------------------------------------------------------------------------
(* The lists, as they stand in a memory m.                                 *)

Memory == [Data -> Nodes]
UsedIn(m) == {d \in Data : m[d].used}
Keyed(m) == UsedIn(m) \ Sentinels
BucketIn(m, d) == IF d \in Sentinels THEN d ELSE Sentinel(m[d].val)

\* The set of values the lists hold
Vals(m) == {m[d].val : d \in Keyed(m)}

Rooted(m) == \A s \in Sentinels : m[s].used /\ m[s].val = 0
Valued(m) == \A d \in Keyed(m) : m[d].val \in Values
Chained(m) ==
  \A d \in UsedIn(m) : m[d].next # Null =>
    /\ m[d].next \in Keyed(m)
    /\ BucketIn(m, m[d].next) = BucketIn(m, d) /\ m[d].val < m[m[d].next].val
OneBefore(m) ==
  \A d \in Keyed(m) : \E e \in UsedIn(m) : {f \in UsedIn(m) : m[f].next = d} = {e}
\* A node's successor is the next of its bucket: nothing in use lies between,
\* and nothing behind a last node.
Gapless(m) ==
  \A d \in UsedIn(m), x \in Keyed(m) :
    BucketIn(m, x) = BucketIn(m, d) /\ m[x].val > m[d].val =>
      m[d].next # Null /\ m[m[d].next].val <= m[x].val
Distinct(m) == \A x, y \in Keyed(m) : m[x].val = m[y].val => x = y
Sound(m) ==
  /\ m \in Memory /\ Rooted(m) /\ Valued(m) /\ Chained(m) /\ OneBefore(m)
  /\ Gapless(m) /\ Distinct(m)

\* A walk for v has come to p, whose successor is c.
At(m, p, v) == p \in UsedIn(m) /\ BucketIn(m, p) = Sentinel(v) /\ m[p].val < v
Absent(m, p, c, v) == At(m, p, v) /\ m[p].next = c /\ (c # Null => m[c].val > v)
Found(m, p, c, v) == At(m, p, v) /\ m[p].next = c /\ c # Null /\ m[c].val = v

\* The memory after the insertion of v in n between p and c, and after the
\* removal of c behind p
Linked(m, n, p, c, v) ==
  [d \in Data |-> IF d = n THEN [val |-> v, next |-> c, used |-> TRUE]
                  ELSE IF d = p THEN [m[d] EXCEPT !.next = n] ELSE m[d]]
Unlinked(m, p, c) ==
  [d \in Data |-> IF d = p THEN [m[d] EXCEPT !.next = m[c].next]
                  ELSE IF d = c THEN Free ELSE m[d]]

\* A sentinel heads each bucket, and is no value's node.
LEMMA SentinelType ==
  /\ Sentinels \subseteq Data /\ Data \subseteq Nat /\ Null \notin Data
  /\ \A v \in Nat : Sentinel(v) \in Sentinels
BY MemoryAssumption DEF Sentinels, Data, Null, Sentinel

\* Where a walk has found a gap, the value is in no list.
LEMMA AbsentMeans ==
  ASSUME NEW m, NEW p, NEW c, NEW v \in Values, Sound(m), Absent(m, p, c, v)
  PROVE  v \notin Vals(m)
<1>1. ASSUME NEW x \in Keyed(m), m[x].val = v
      PROVE  FALSE
  <2>1. BucketIn(m, x) = BucketIn(m, p) /\ p \in UsedIn(m) /\ m[p].val < v /\ m[p].next = c
    BY <1>1 DEF Absent, At, BucketIn, Keyed
  <2>2. m[p].val \in Int /\ v \in Int
    BY <2>1 DEF Sound, Memory, Nodes, UsedIn, Values
  <2>3. c # Null /\ m[c].val <= v
    BY <1>1, <2>1, <2>2 DEF Sound, Gapless
  <2>4. c \in Data
    BY <2>1, <2>3 DEF Sound, Chained, Keyed, UsedIn
  <2>. QED
    BY <2>2, <2>3, <2>4 DEF Absent, Sound, Memory, Nodes
<1>. QED
  BY <1>1 DEF Vals

\* Where a walk has found its node, the value is in its list.
LEMMA FoundMeans ==
  ASSUME NEW m, NEW p, NEW c, NEW v \in Values, Sound(m), Found(m, p, c, v)
  PROVE  c \in Keyed(m) /\ v \in Vals(m) /\ p # c
<1>1. c \in Keyed(m)
  BY DEF Found, At, Sound, Chained
<1>2. p # c
  <2>1. m[p].val < v /\ m[c].val = v /\ v \in Int
    BY DEF Found, At, Values
  <2>. QED
    BY <2>1
<1>. QED
  BY <1>1, <1>2 DEF Found, Vals

\* Inserting keeps the lists sound and adds the value.
LEMMA LinkSound ==
  ASSUME NEW m, NEW n \in Data, NEW p, NEW c, NEW v \in Values,
         Sound(m), Absent(m, p, c, v), ~m[n].used
  PROVE  /\ Sound(Linked(m, n, p, c, v))
         /\ Vals(Linked(m, n, p, c, v)) = Vals(m) \union {v}
<1>. DEFINE w == Linked(m, n, p, c, v)
<1>. HIDE DEF w
<1>1. /\ p \in Data /\ m[p].used /\ n # p /\ m[p].next = c /\ m[p].val < v
      /\ BucketIn(m, p) = Sentinel(v) /\ p \in UsedIn(m)
  BY DEF Absent, At, UsedIn
<1>2. n \notin Sentinels /\ n # Null /\ n \notin UsedIn(m)
  BY SentinelType DEF Sound, Rooted, UsedIn
<1>3. c # Null => c \in Keyed(m) /\ c \in Data /\ m[c].val > v /\ BucketIn(m, c) = Sentinel(v) /\ c # n
  BY <1>1, <1>2 DEF Sound, Chained, Absent, Keyed, UsedIn
<1>4. /\ w[n] = [val |-> v, next |-> c, used |-> TRUE]
      /\ w[n].val = v /\ w[n].next = c /\ w[n].used
      /\ w[p] = [m[p] EXCEPT !.next = n]
      /\ \A d \in Data \ {n, p} : w[d] = m[d]
  BY <1>1 DEF w, Linked
<1>41. \A d \in Data : m[d] \in Nodes
  BY DEF Sound, Memory
<1>5. /\ w[p].val = m[p].val /\ w[p].next = n /\ w[p].used = m[p].used
      /\ \A d \in Data \ {n} : w[d].val = m[d].val /\ w[d].used = m[d].used
      /\ \A d \in Data \ {n, p} : w[d].next = m[d].next
  <2>1. m[p] = [val |-> m[p].val, next |-> m[p].next, used |-> m[p].used]
    BY <1>1, <1>41 DEF Nodes
  <2>2. w[p].val = m[p].val /\ w[p].next = n /\ w[p].used = m[p].used
    BY <1>4, <2>1
  <2>. QED
    BY <1>1, <1>4, <2>2
<1>6. UsedIn(w) = UsedIn(m) \union {n} /\ Keyed(w) = Keyed(m) \union {n}
  <2>1. UsedIn(w) = UsedIn(m) \union {n}
    BY <1>4, <1>5 DEF UsedIn
  <2>. QED
    BY <1>2, <2>1 DEF Keyed
<1>7. BucketIn(w, n) = Sentinel(v) /\ \A d \in UsedIn(m) : BucketIn(w, d) = BucketIn(m, d)
  BY <1>2, <1>4, <1>5 DEF BucketIn, UsedIn
<1>8. /\ \A d \in UsedIn(m) : d \in Data /\ m[d].val \in Int /\ w[d].val = m[d].val
      /\ v \in Int /\ Keyed(m) \subseteq UsedIn(m)
  BY <1>2, <1>5, <1>41 DEF UsedIn, Keyed, Nodes, Values
<1>9. v \notin Vals(m)
  BY AbsentMeans
<1>10. w \in Memory
  <2>1. c \in Data \union {Null} /\ v \in 0..Range
    BY <1>3, MemoryAssumption DEF Values
  <2>2. w[n] \in Nodes
    BY <1>4, <2>1 DEF Nodes
  <2>3. w[p] \in Nodes
    BY <1>1, <1>4, <1>41 DEF Nodes
  <2>. QED
    BY <1>4, <1>41, <2>2, <2>3 DEF w, Memory, Linked
<1>11. Rooted(w)
  BY <1>2, <1>5, SentinelType DEF Sound, Rooted
<1>12. Valued(w)
  BY <1>4, <1>6, <1>8 DEF Sound, Valued
<1>13. Chained(w)
  <2>1. ASSUME NEW d \in UsedIn(m), d # p, w[d].next # Null
        PROVE  /\ w[d].next \in Keyed(w)
               /\ BucketIn(w, w[d].next) = BucketIn(w, d) /\ w[d].val < w[w[d].next].val
    <3>1. w[d].next = m[d].next /\ d \in Data
      BY <1>2, <1>5, <2>1 DEF UsedIn
    <3>2. /\ m[d].next \in Keyed(m) /\ BucketIn(m, m[d].next) = BucketIn(m, d)
          /\ m[d].val < m[m[d].next].val
      BY <2>1, <3>1 DEF Sound, Chained
    <3>. QED
      BY <1>6, <1>7, <1>8, <3>1, <3>2
  <2>2. /\ w[p].next \in Keyed(w)
        /\ BucketIn(w, w[p].next) = BucketIn(w, p) /\ w[p].val < w[w[p].next].val
    BY <1>1, <1>4, <1>5, <1>6, <1>7
  <2>3. ASSUME c # Null
        PROVE  /\ w[n].next \in Keyed(w)
               /\ BucketIn(w, w[n].next) = BucketIn(w, n) /\ w[n].val < w[w[n].next].val
    <3>1. c \in UsedIn(m) /\ w[n].next = c /\ w[c].val = m[c].val
      BY <1>3, <1>4, <1>8, <2>3
    <3>. QED
      BY <1>3, <1>4, <1>6, <1>7, <2>3, <3>1
  <2>4. w[n].next = c
    BY <1>4
  <2>. QED
    BY <1>6, <2>1, <2>2, <2>3, <2>4 DEF Chained
<1>14. OneBefore(w)
  <2>1. {f \in UsedIn(w) : w[f].next = n} = {p}
    <3>1. ASSUME NEW f \in UsedIn(m), f # p
          PROVE  w[f].next # n
      BY <1>2, <1>5, <3>1 DEF Sound, Chained, Keyed, UsedIn
    <3>2. w[n].next # n
      BY <1>2, <1>3, <1>4
    <3>. QED
      BY <1>1, <1>5, <1>6, <3>1, <3>2
  <2>2. ASSUME NEW d \in Keyed(m)
        PROVE  \E e \in UsedIn(w) : {f \in UsedIn(w) : w[f].next = d} = {e}
    <3>1. PICK e \in UsedIn(m) : {f \in UsedIn(m) : m[f].next = d} = {e}
      BY DEF Sound, OneBefore
    <3>2. d # n /\ d # Null /\ d \in Data
      BY <1>2, SentinelType DEF Keyed, UsedIn
    <3>3. CASE d = c
      <4>1. e = p
        BY <1>1, <3>1, <3>3
      <4>2. {f \in UsedIn(w) : w[f].next = d} = {n}
        <5>1. w[n].next = d /\ n \in UsedIn(w)
          BY <1>4, <1>6, <3>3
        <5>2. ASSUME NEW f \in UsedIn(m), w[f].next = d
              PROVE  FALSE
          <6>1. f # p
            BY <1>5, <3>2, <5>2
          <6>2. m[f].next = d
            BY <1>2, <1>5, <1>8, <5>2, <6>1
          <6>. QED
            BY <3>1, <4>1, <5>2, <6>1, <6>2
        <5>. QED
          BY <1>6, <5>1, <5>2
      <4>. QED
        BY <1>6, <4>2
    <3>4. CASE d # c
      <4>1. {f \in UsedIn(w) : w[f].next = d} = {f \in UsedIn(m) : m[f].next = d}
        BY <1>1, <1>4, <1>5, <1>6, <3>2, <3>4 DEF UsedIn
      <4>. QED
        BY <1>6, <3>1, <4>1
    <3>. QED
      BY <3>3, <3>4
  <2>. QED
    BY <1>1, <1>6, <2>1, <2>2 DEF OneBefore
<1>15. Gapless(w)
  <2>1. ASSUME NEW d \in UsedIn(m), NEW x \in Keyed(m),
               BucketIn(w, x) = BucketIn(w, d), w[x].val > w[d].val
        PROVE  w[d].next # Null /\ w[w[d].next].val <= w[x].val
    <3>1. m[d].next # Null /\ m[m[d].next].val <= m[x].val
      BY <1>7, <1>8, <2>1 DEF Sound, Gapless
    <3>2. m[d].next \in UsedIn(m)
      BY <3>1 DEF Sound, Chained, Keyed
    <3>3. CASE d # p
      BY <1>2, <1>5, <1>8, <3>1, <3>2, <3>3
    <3>4. CASE d = p
      <4>1. c # Null /\ m[c].val <= m[x].val /\ v \in Int
        BY <1>1, <1>8, <3>1, <3>4
      <4>2. w[d].next = n /\ w[n].val = v /\ w[x].val = m[x].val
        BY <1>4, <1>5, <1>8, <3>4
      <4>3. n # Null /\ v < m[c].val /\ m[c].val \in Int /\ m[x].val \in Int
        BY <1>2, <1>3, <1>8, <4>1
      <4>. QED
        BY <4>1, <4>2, <4>3
    <3>. QED
      BY <3>3, <3>4
  <2>2. ASSUME NEW x \in Keyed(m), BucketIn(w, x) = Sentinel(v), w[x].val > v
        PROVE  c # Null /\ w[c].val <= w[x].val
    <3>1. m[x].val > m[p].val /\ BucketIn(m, x) = BucketIn(m, p)
      BY <1>1, <1>7, <1>8, <2>2
    <3>2. c # Null /\ m[c].val <= m[x].val
      BY <1>1, <3>1 DEF Sound, Gapless
    <3>. QED
      BY <1>3, <1>8, <3>2
  <2>3. ASSUME NEW d \in UsedIn(m), BucketIn(w, d) = Sentinel(v), v > w[d].val
        PROVE  w[d].next # Null /\ w[w[d].next].val <= v
    <3>1. CASE d = p
      <4>1. w[d].next = n /\ w[n].val = v
        BY <1>4, <1>5, <3>1
      <4>. QED
        BY <1>2, <1>8, <4>1
    <3>2. CASE d # p
      <4>1. d \in Data /\ w[d].next = m[d].next /\ m[d].val < v /\ BucketIn(m, d) = Sentinel(v)
        BY <1>2, <1>5, <1>7, <1>8, <2>3, <3>2 DEF UsedIn
      <4>2. ASSUME p \in Keyed(m), m[d].val < m[p].val
            PROVE  w[d].next # Null /\ w[w[d].next].val <= v
        <5>1. m[d].next # Null /\ m[m[d].next].val <= m[p].val
          BY <1>1, <4>1, <4>2 DEF Sound, Gapless
        <5>2. m[d].next \in UsedIn(m)
          BY <5>1 DEF Sound, Chained, Keyed
        <5>. QED
          BY <1>1, <1>8, <4>1, <5>1, <5>2
      <4>3. ASSUME d \in Keyed(m), m[p].val < m[d].val
            PROVE  FALSE
        <5>1. c # Null /\ m[c].val <= m[d].val
          BY <1>1, <4>1, <4>3 DEF Sound, Gapless
        <5>. QED
          BY <1>3, <1>8, <4>1, <5>1
      <4>4. ASSUME d \in Keyed(m), p \in Keyed(m), m[p].val = m[d].val
            PROVE  FALSE
        BY <3>2, <4>4 DEF Sound, Distinct
      <4>5. ASSUME d \in Sentinels, p \in Keyed(m)
            PROVE  m[d].val < m[p].val
        <5>1. m[d].val = 0 /\ m[p].val \in Values
          BY <4>5 DEF Sound, Rooted, Valued
        <5>. QED
          BY <5>1 DEF Values
      <4>6. ASSUME p \in Sentinels, d \in Keyed(m)
            PROVE  m[p].val < m[d].val
        <5>1. m[p].val = 0 /\ m[d].val \in Values
          BY <4>6 DEF Sound, Rooted, Valued
        <5>. QED
          BY <5>1 DEF Values
      <4>7. ~(d \in Sentinels /\ p \in Sentinels)
        BY <1>1, <3>2, <4>1 DEF BucketIn
      <4>. QED
        BY <1>1, <1>8, <4>2, <4>3, <4>4, <4>5, <4>6, <4>7 DEF Keyed
    <3>. QED
      BY <3>1, <3>2
  <2>. QED
    BY <1>4, <1>6, <1>7, <1>8, <2>1, <2>2, <2>3 DEF Gapless
<1>16. Distinct(w)
  BY <1>4, <1>6, <1>8, <1>9 DEF Sound, Distinct, Vals
<1>17. Vals(w) = Vals(m) \union {v}
  BY <1>4, <1>6, <1>8 DEF Vals
<1>. QED
  BY <1>10, <1>11, <1>12, <1>13, <1>14, <1>15, <1>16, <1>17 DEF w, Sound

\* Removing keeps the lists sound and takes the value away.
LEMMA UnlinkSound ==
  ASSUME NEW m, NEW p, NEW c, NEW v \in Values, Sound(m), Found(m, p, c, v)
  PROVE  /\ Sound(Unlinked(m, p, c))
         /\ Vals(Unlinked(m, p, c)) = Vals(m) \ {v}
<1>. DEFINE w == Unlinked(m, p, c)
            g == m[c].next
<1>. HIDE DEF w, g
<1>1. /\ p \in Data /\ m[p].used /\ m[p].next = c /\ m[p].val < v /\ p \in UsedIn(m)
      /\ BucketIn(m, p) = Sentinel(v) /\ c # Null /\ m[c].val = v /\ p # c
      /\ c \in Keyed(m) /\ c \in Data /\ c \in UsedIn(m) /\ c \notin Sentinels /\ m[c].used
      /\ BucketIn(m, c) = Sentinel(v)
  BY FoundMeans DEF Found, At, UsedIn, Keyed, Sound, Chained
<1>2. \A d \in Data : m[d] \in Nodes
  BY DEF Sound, Memory
<1>3. g # Null => g \in Keyed(m) /\ g \in UsedIn(m) /\ g \in Data /\ v < m[g].val
                  /\ BucketIn(m, g) = Sentinel(v)
  BY <1>1 DEF g, Sound, Chained, Keyed, UsedIn
<1>4. /\ w[p] = [m[p] EXCEPT !.next = g] /\ w[c] = Free
      /\ \A d \in Data \ {p, c} : w[d] = m[d]
  BY <1>1 DEF w, g, Unlinked
<1>5. /\ \A d \in Data \ {c} : w[d].val = m[d].val /\ w[d].used = m[d].used
      /\ w[p].next = g /\ ~w[c].used
      /\ \A d \in Data \ {p, c} : w[d].next = m[d].next
  <2>1. m[p] = [val |-> m[p].val, next |-> m[p].next, used |-> m[p].used]
    BY <1>1, <1>2 DEF Nodes
  <2>2. w[p].val = m[p].val /\ w[p].next = g /\ w[p].used = m[p].used
    BY <1>4, <2>1
  <2>. QED
    <3>1. w[c].used = FALSE
      BY <1>4 DEF Free
    <3>2. ASSUME NEW d \in Data \ {c}
          PROVE  w[d].val = m[d].val /\ w[d].used = m[d].used
      BY <1>4, <2>2
    <3>3. ASSUME NEW d \in Data \ {p, c}
          PROVE  w[d].next = m[d].next
      BY <1>4
    <3>. QED
      BY <2>2, <3>1, <3>2, <3>3
<1>6. UsedIn(w) = UsedIn(m) \ {c} /\ Keyed(w) = Keyed(m) \ {c}
  BY <1>1, <1>5 DEF UsedIn, Keyed
<1>7. \A d \in UsedIn(m) \ {c} : BucketIn(w, d) = BucketIn(m, d)
  BY <1>5 DEF BucketIn, UsedIn
<1>8. /\ \A d \in UsedIn(m) : d \in Data /\ m[d].val \in Int
      /\ \A d \in UsedIn(m) \ {c} : w[d].val = m[d].val
      /\ v \in Int /\ Keyed(m) \subseteq UsedIn(m)
  BY <1>2, <1>5 DEF UsedIn, Keyed, Nodes, Values
\* Only p leads to c.
<1>9. \A f \in UsedIn(m) : m[f].next = c => f = p
  <2>1. PICK e \in UsedIn(m) : {f \in UsedIn(m) : m[f].next = c} = {e}
    BY <1>1 DEF Sound, OneBefore
  <2>. QED
    BY <1>1, <2>1
<1>10. w \in Memory
  <2>1. g \in Data \union {Null}
    BY <1>3
  <2>2. w[p] \in Nodes /\ w[c] \in Nodes
    BY <1>1, <1>2, <1>4, <2>1, MemoryAssumption DEF Nodes, Free
  <2>. QED
    BY <1>2, <1>4, <2>2 DEF w, Memory, Unlinked
<1>11. Rooted(w)
  BY <1>1, <1>5, SentinelType DEF Sound, Rooted
<1>12. Valued(w)
  BY <1>6, <1>8 DEF Sound, Valued
<1>13. Chained(w)
  <2>1. ASSUME NEW d \in UsedIn(m) \ {c}, d # p, w[d].next # Null
        PROVE  /\ w[d].next \in Keyed(w)
               /\ BucketIn(w, w[d].next) = BucketIn(w, d) /\ w[d].val < w[w[d].next].val
    <3>1. w[d].next = m[d].next /\ m[d].next # c
      BY <1>5, <1>8, <1>9, <2>1
    <3>2. /\ m[d].next \in Keyed(m) /\ BucketIn(m, m[d].next) = BucketIn(m, d)
          /\ m[d].val < m[m[d].next].val
      BY <2>1, <3>1 DEF Sound, Chained
    <3>. QED
      BY <1>6, <1>7, <1>8, <2>1, <3>1, <3>2
  <2>2. ASSUME g # Null
        PROVE  /\ w[p].next \in Keyed(w)
               /\ BucketIn(w, w[p].next) = BucketIn(w, p) /\ w[p].val < w[w[p].next].val
    <3>1. g # c
      BY <1>1, <1>3, <1>8, <2>2
    <3>2. m[g].val \in Int /\ m[p].val \in Int
      BY <1>1, <1>3, <1>8, <2>2
    <3>. QED
      BY <1>1, <1>3, <1>5, <1>6, <1>7, <1>8, <2>2, <3>1, <3>2
  <2>. QED
    BY <1>5, <1>6, <2>1, <2>2 DEF Chained
<1>14. OneBefore(w)
  <2>1. ASSUME NEW d \in Keyed(m), d # c
        PROVE  \E e \in UsedIn(w) : {f \in UsedIn(w) : w[f].next = d} = {e}
    <3>1. PICK e \in UsedIn(m) : {f \in UsedIn(m) : m[f].next = d} = {e}
      BY DEF Sound, OneBefore
    <3>2. CASE d = g
      <4>1. e = c
        BY <1>1, <3>1, <3>2 DEF g
      <4>2. ASSUME NEW f \in UsedIn(w), w[f].next = d
            PROVE  f = p
        BY <1>5, <1>6, <1>8, <3>1, <4>1, <4>2
      <4>3. {f \in UsedIn(w) : w[f].next = d} = {p}
        BY <1>1, <1>5, <1>6, <3>2, <4>2
      <4>. QED
        BY <1>1, <1>6, <4>3
    <3>3. CASE d # g
      <4>1. \A f \in UsedIn(w) : w[f].next = d <=> m[f].next = d
        BY <1>1, <1>5, <1>6, <1>8, <2>1, <3>3
      <4>2. e # c
        BY <3>1, <3>3 DEF g
      <4>3. {f \in UsedIn(w) : w[f].next = d} = {e}
        BY <1>6, <3>1, <4>1, <4>2
      <4>. QED
        BY <1>6, <4>2, <4>3
    <3>. QED
      BY <3>2, <3>3
  <2>. QED
    BY <1>6, <2>1 DEF OneBefore
<1>15. Gapless(w)
  <2>1. ASSUME NEW d \in UsedIn(m) \ {c}, NEW x \in Keyed(m) \ {c},
               BucketIn(w, x) = BucketIn(w, d), w[x].val > w[d].val
        PROVE  w[d].next # Null /\ w[w[d].next].val <= w[x].val
    <3>1. m[d].next # Null /\ m[m[d].next].val <= m[x].val
      BY <1>7, <1>8, <2>1 DEF Sound, Gapless
    <3>2. m[d].next \in UsedIn(m)
      BY <3>1 DEF Sound, Chained, Keyed
    <3>3. CASE d # p
      <4>1. w[d].next = m[d].next /\ m[d].next # c
        BY <1>5, <1>8, <1>9, <3>3
      <4>. QED
        BY <1>8, <3>1, <3>2, <4>1
    <3>4. CASE d = p
      <4>1. v <= m[x].val
        BY <1>1, <3>1, <3>4
      <4>2. m[x].val # v
        BY <1>1, <2>1 DEF Sound, Distinct
      <4>3. m[x].val > m[c].val /\ BucketIn(m, x) = BucketIn(m, c)
        BY <1>1, <1>7, <1>8, <2>1, <3>4, <4>1, <4>2
      <4>4. g # Null /\ m[g].val <= m[x].val
        BY <1>1, <4>3 DEF g, Sound, Gapless
      <4>5. g # c
        BY <1>3, <1>1, <1>8, <4>4
      <4>. QED
        BY <1>3, <1>5, <1>8, <2>1, <3>4, <4>4, <4>5
    <3>. QED
      BY <3>3, <3>4
  <2>. QED
    BY <1>6, <2>1 DEF Gapless
<1>16. Distinct(w)
  BY <1>6, <1>8 DEF Sound, Distinct
<1>17. Vals(w) = Vals(m) \ {v}
  <2>1. \A x \in Keyed(m) : m[x].val = v => x = c
    BY <1>1 DEF Sound, Distinct
  <2>2. \A x \in Keyed(m) \ {c} : w[x].val = m[x].val
    BY <1>8
  <2>. QED
    BY <1>1, <1>6, <2>1, <2>2 DEF Vals
<1>. QED
  BY <1>10, <1>11, <1>12, <1>13, <1>14, <1>15, <1>16, <1>17 DEF w, Sound

\* The list the program fills before it starts its threads is sound.
LEMMA Smallest ==
  ASSUME NEW S \in SUBSET Nat, S # {}
  PROVE  \E m \in S : \A x \in S : m <= x
<1>1. PICK m \in S : \A y \in S : ~ (<<y, m>> \in OpToRel(<, Nat))
  BY NatLessThanWellFounded, WFMin
<1>2. \A y \in S : ~(y < m)
  BY <1>1 DEF OpToRel
<1>. QED
  BY <1>2

\* The node after a value is the next greater value of its bucket.
LEMMA FollowMeans ==
  ASSUME NEW S \in SUBSET Values, NEW v \in Nat, NEW b \in Sentinels
  PROVE  \/ /\ Follow(S, v, b) = Null
            /\ \A x \in S : Sentinel(x) = b => x <= v
         \/ \E w \in S : /\ Follow(S, v, b) = Node(w)
                         /\ Sentinel(w) = b /\ w > v
                         /\ \A x \in S : Sentinel(x) = b /\ x > v => w <= x
<1>. DEFINE later == {w \in S : w > v /\ Sentinel(w) = b}
<1>1. S \subseteq Nat
  BY DEF Values
<1>2. CASE later = {}
  <2>1. Follow(S, v, b) = Null
    BY <1>2 DEF Follow
  <2>2. ASSUME NEW x \in S, Sentinel(x) = b
        PROVE  x <= v
    BY <1>1, <1>2, <2>2
  <2>. QED
    BY <2>1, <2>2
<1>3. CASE later # {}
  <2>1. later \in SUBSET Nat
    BY <1>1
  <2>2. \E w \in later : \A x \in later : w <= x
    BY <1>3, <2>1, Smallest
  <2>3. PICK w \in later : w = (CHOOSE y \in later : \A x \in later : y <= x)
                           /\ \A x \in later : w <= x
    BY <2>2
  <2>4. Follow(S, v, b) = Node(w)
    BY <1>3, <2>3 DEF Follow
  <2>. QED
    BY <2>3, <2>4
<1>. QED
  BY <1>2, <1>3

\* The initial lists are in order, and hold the initial values.
LEMMA PopulatedSound ==
  ASSUME NEW S \in SUBSET Values
  PROVE  Sound(Populated(S)) /\ Vals(Populated(S)) = S
<1>. DEFINE w == Populated(S)
<1>. HIDE DEF w
<1>1. /\ NBuckets \in Nat /\ NBuckets > 0 /\ Range \in Nat /\ NData \in Nat
      /\ NData >= NBuckets + Range
  BY MemoryAssumption
<1>2. /\ S \subseteq Nat /\ \A v \in S : v >= 1 /\ v <= Range
      /\ \A v \in S : Node(v) \in Data /\ Node(v) \notin Sentinels /\ Node(v) - NBuckets = v
                      /\ Node(v) # Null
  BY <1>1 DEF Values, Node, Data, Sentinels, Null
<1>3. \A v \in Nat : Sentinel(v) \in Sentinels
  BY SentinelType
<1>4. \A v \in Nat, b \in Sentinels : Follow(S, v, b) \in Data \union {Null}
  BY <1>2, FollowMeans
<1>5. ASSUME NEW d \in Sentinels
      PROVE  w[d] = [val |-> 0, next |-> Follow(S, 0, d), used |-> TRUE]
  BY SentinelType DEF w, Populated
<1>6. ASSUME NEW v \in S
      PROVE  w[Node(v)] = [val |-> v, next |-> Follow(S, v, Sentinel(v)), used |-> TRUE]
  BY <1>2 DEF w, Populated
<1>7. ASSUME NEW d \in Data, d \notin Sentinels, d - NBuckets \notin S
      PROVE  w[d] = Free
  BY <1>7 DEF w, Populated
<1>8. \A d \in Data : d \in Sentinels \/ (d - NBuckets \in S /\ d = Node(d - NBuckets))
                      \/ (d - NBuckets \notin S /\ d \notin Sentinels)
  BY <1>1 DEF Data, Node
<1>9. /\ \A v \in S : w[Node(v)].val = v /\ w[Node(v)].used
                      /\ w[Node(v)].next = Follow(S, v, Sentinel(v))
      /\ \A s \in Sentinels : w[s].val = 0 /\ w[s].used /\ w[s].next = Follow(S, 0, s)
  <2>1. ASSUME NEW v \in S
        PROVE  w[Node(v)].val = v /\ w[Node(v)].used /\ w[Node(v)].next = Follow(S, v, Sentinel(v))
    <3>1. w[Node(v)] = [val |-> v, next |-> Follow(S, v, Sentinel(v)), used |-> TRUE]
      BY <1>6
    <3>. QED
      BY <3>1
  <2>2. ASSUME NEW s \in Sentinels
        PROVE  w[s].val = 0 /\ w[s].used /\ w[s].next = Follow(S, 0, s)
    <3>1. w[s] = [val |-> 0, next |-> Follow(S, 0, s), used |-> TRUE]
      BY <1>5
    <3>. QED
      BY <3>1
  <2>. QED
    BY <2>1, <2>2
<1>10. Keyed(w) = {Node(v) : v \in S} /\ UsedIn(w) = Sentinels \union {Node(v) : v \in S}
  <2>1. ASSUME NEW d \in Data, w[d].used
        PROVE  d \in Sentinels \union {Node(v) : v \in S}
    BY <1>7, <1>8, <2>1 DEF Free
  <2>2. UsedIn(w) = Sentinels \union {Node(v) : v \in S}
    BY <1>2, <1>9, <2>1, SentinelType DEF UsedIn
  <2>. QED
    BY <1>2, <2>2 DEF Keyed
<1>11. /\ \A v \in S : BucketIn(w, Node(v)) = Sentinel(v)
       /\ \A s \in Sentinels : BucketIn(w, s) = s
  BY <1>2, <1>9 DEF BucketIn
\* Every node in use, with its value and its bucket
<1>12. \A d \in UsedIn(w) :
         /\ w[d].val \in Nat /\ BucketIn(w, d) \in Sentinels
         /\ w[d].next = Follow(S, w[d].val, BucketIn(w, d))
         /\ d \in Sentinels => w[d].val = 0
         /\ d \notin Sentinels => w[d].val \in S /\ d = Node(w[d].val)
  BY <1>2, <1>3, <1>9, <1>10, <1>11
<1>13. w \in Memory
  <2>1. ASSUME NEW d \in Data
        PROVE  w[d] \in Nodes
    <3>1. CASE d \in Sentinels
      <4>1. Follow(S, 0, d) \in Data \union {Null} /\ 0 \in 0..Range
        BY <1>1, <1>4, <3>1
      <4>. QED
        <5>1. w[d] = [val |-> 0, next |-> Follow(S, 0, d), used |-> TRUE]
          BY <1>5, <3>1
        <5>. QED
          BY <4>1, <5>1 DEF Nodes
    <3>2. CASE d - NBuckets \in S /\ d = Node(d - NBuckets)
      <4>. DEFINE v == d - NBuckets
      <4>1. v \in S /\ d = Node(v)
        BY <3>2
      <4>. HIDE DEF v
      <4>2. Follow(S, v, Sentinel(v)) \in Data \union {Null} /\ v \in 0..Range
        BY <1>1, <1>2, <1>3, <1>4, <4>1
      <4>. QED
        <5>1. w[d] = [val |-> v, next |-> Follow(S, v, Sentinel(v)), used |-> TRUE]
          BY <1>6, <4>1
        <5>. QED
          BY <4>2, <5>1 DEF Nodes
    <3>3. CASE d - NBuckets \notin S /\ d \notin Sentinels
      <4>1. w[d] = Free /\ 0 \in 0..Range
        BY <1>1, <1>7, <3>3
      <4>. QED
        BY <4>1 DEF Nodes, Free
    <3>. QED
      BY <1>8, <3>1, <3>2, <3>3
  <2>. QED
    BY <2>1 DEF w, Memory, Populated
<1>14. Rooted(w) /\ Valued(w) /\ Distinct(w)
  BY <1>9, <1>10, <1>12 DEF Rooted, Valued, Distinct
<1>15. Chained(w)
  <2>1. ASSUME NEW d \in UsedIn(w), w[d].next # Null
        PROVE  /\ w[d].next \in Keyed(w)
               /\ BucketIn(w, w[d].next) = BucketIn(w, d) /\ w[d].val < w[w[d].next].val
    <3>1. PICK y \in S : /\ w[d].next = Node(y) /\ Sentinel(y) = BucketIn(w, d)
                         /\ y > w[d].val
      BY <1>12, <2>1, FollowMeans
    <3>. QED
      BY <1>9, <1>10, <1>11, <3>1
  <2>. QED
    BY <2>1 DEF Chained
<1>16. Gapless(w)
  <2>1. ASSUME NEW d \in UsedIn(w), NEW v \in S, Sentinel(v) = BucketIn(w, d), v > w[d].val
        PROVE  w[d].next # Null /\ w[w[d].next].val <= v
    <3>1. ~(v <= w[d].val)
      BY <1>2, <1>12, <2>1
    <3>2. PICK y \in S : w[d].next = Node(y) /\ y <= v
      BY <1>12, <2>1, <3>1, FollowMeans
    <3>. QED
      BY <1>2, <1>9, <3>2
  <2>. QED
    BY <1>9, <1>10, <1>11, <2>1 DEF Gapless
<1>17. OneBefore(w)
  <2>1. ASSUME NEW v \in S
        PROVE  \E e \in UsedIn(w) : {f \in UsedIn(w) : w[f].next = Node(v)} = {e}
    \* Whoever leads to v comes right before it.
    <3>1. ASSUME NEW f \in UsedIn(w), w[f].next = Node(v)
          PROVE  /\ w[f].val < v /\ BucketIn(w, f) = Sentinel(v)
                 /\ \A x \in S : Sentinel(x) = Sentinel(v) /\ x > w[f].val => v <= x
      <4>1. PICK y \in S : /\ w[f].next = Node(y) /\ Sentinel(y) = BucketIn(w, f)
                           /\ y > w[f].val
                           /\ \A x \in S : Sentinel(x) = BucketIn(w, f) /\ x > w[f].val => y <= x
        BY <1>2, <1>12, <3>1, FollowMeans
      <4>2. y = v
        BY <1>2, <3>1, <4>1
      <4>. QED
        BY <4>1, <4>2
    <3>2. ASSUME NEW e \in UsedIn(w), NEW f \in UsedIn(w),
                 w[e].next = Node(v), w[f].next = Node(v)
          PROVE  e = f
      <4>1. /\ w[e].val \in Nat /\ w[f].val \in Nat /\ w[e].val < v /\ w[f].val < v
            /\ BucketIn(w, e) = Sentinel(v) /\ BucketIn(w, f) = Sentinel(v)
        BY <1>12, <3>1, <3>2
      <4>2. CASE e \in Sentinels /\ f \in Sentinels
        BY <1>11, <4>1, <4>2
      <4>3. ASSUME NEW a \in UsedIn(w), NEW b \in UsedIn(w), w[a].next = Node(v),
                   w[b].next = Node(v), b \notin Sentinels, w[a].val < w[b].val
            PROVE  FALSE
        <5>1. w[b].val \in S /\ Sentinel(w[b].val) = Sentinel(v) /\ w[b].val < v
          BY <1>11, <1>12, <3>1, <4>3
        <5>2. v <= w[b].val
          BY <3>1, <4>3, <5>1
        <5>3. w[b].val \in Nat /\ v \in Nat
          BY <1>2, <5>1
        <5>. QED
          BY <5>1, <5>2, <5>3
      <4>4. \A d \in UsedIn(w) \ Sentinels : w[d].val >= 1
        BY <1>2, <1>12
      <4>. QED
        BY <1>12, <3>2, <4>1, <4>2, <4>3, <4>4
    \* The nodes of v's bucket with smaller values: the last of them leads to v.
    <3>3. \E e \in UsedIn(w) : w[e].next = Node(v)
      <4>. DEFINE D == {v - w[d].val : d \in {e \in UsedIn(w) : BucketIn(w, e) = Sentinel(v)
                                                                 /\ w[e].val < v}}
      <4>1. D \in SUBSET Nat
        BY <1>2, <1>12
      <4>2. D # {}
        <5>1. Sentinel(v) \in UsedIn(w) /\ BucketIn(w, Sentinel(v)) = Sentinel(v)
              /\ w[Sentinel(v)].val < v
          BY <1>2, <1>3, <1>9, <1>10, <1>11
        <5>. QED
          BY <5>1
      <4>3. PICK m \in D : \A x \in D : m <= x
        BY <4>1, <4>2, Smallest
      <4>4. PICK e \in UsedIn(w) : /\ BucketIn(w, e) = Sentinel(v) /\ w[e].val < v
                                   /\ m = v - w[e].val
        BY <4>3
      <4>5. PICK y \in S : /\ w[e].next = Node(y) /\ Sentinel(y) = Sentinel(v) /\ y > w[e].val
                           /\ y <= v
        <5>1. ~(v <= w[e].val) /\ v > w[e].val
          BY <1>2, <1>12, <4>4
        <5>. QED
          BY <1>12, <4>4, <5>1, FollowMeans
      <4>6. y = v
        <5>1. ASSUME y < v
              PROVE  FALSE
          <6>1. Node(y) \in UsedIn(w) /\ w[Node(y)].val = y /\ BucketIn(w, Node(y)) = Sentinel(v)
            BY <1>9, <1>10, <1>11, <4>5
          <6>2. v - y \in D
            BY <5>1, <6>1
          <6>3. v - w[e].val <= v - y
            BY <4>3, <4>4, <6>2
          <6>. QED
            BY <1>2, <1>12, <4>5, <6>3
        <5>. QED
          BY <1>2, <4>5, <5>1
      <4>. QED
        BY <4>5, <4>6
    <3>4. PICK e \in UsedIn(w) : w[e].next = Node(v)
      BY <3>3
    <3>5. {f \in UsedIn(w) : w[f].next = Node(v)} = {e}
      BY <3>2, <3>4
    <3>. QED
      BY <3>5
  <2>. QED
    BY <1>10, <2>1 DEF OneBefore
<1>18. Vals(w) = S
  BY <1>9, <1>10 DEF Vals
<1>. QED
  BY <1>13, <1>14, <1>15, <1>16, <1>17, <1>18 DEF w, Sound

----------------------------------------------------------------------------
(* The invariant.                                                          *)

\* Abbreviations of the steps are read as they stand.
USE DEF Goto, walk, txvars

Op(t) == call[t].op

\* What belongs together within one thread: its place in the code, the way its
\* section runs, its transaction and its operation.
ShapeOf(t) ==
  /\ pc[t] \in {"next", "val", "insert", "unlink"} => prev[t] \in Data
  /\ pc[t] \in {"val", "unlink"} => curr[t] \in Data
  /\ htm[t] # "off" <=> InSection(t) /\ mode[t] = "tx"
  /\ htm[t] # "off" => Lock \in watch[t]
  /\ htm[t] = "off" => rset[t] = {} /\ wset[t] = {}
  /\ wset[t] # {} => pc[t] = "release" /\ Op(t) # "contains"
  /\ Flagged(t) => Op(t) = "contains"
  /\ pc[t] = "insert" => Op(t) = "add"
  /\ pc[t] = "unlink" => Op(t) = "remove"
  /\ pc[t] \notin {"release", "done"} => ~res[t]
  /\ Op(t) # "contains" \/ pc[t] \in {"idle", "acquire", "done"} => k[t] = 1
  /\ pc[t] = "release" /\ Op(t) = "contains" => k[t] = Multiplier
  /\ pc[t] # "idle" /\ Op(t) = "add" => val[t] = None
  /\ pc[t] # "idle" /\ Op(t) = "remove" => call[t].args[1] = val[t]
Shape == \A t \in Threads : ShapeOf(t)

\* The holder of writer_lock is alone with doomed transactions, and of two live
\* transactions neither has written what the other has touched.
Apart(t, u) ==
  /\ Holding(t) => ~Holding(u) /\ ~Flagged(u) /\ htm[u] # "on"
  /\ htm[t] = "on" /\ htm[u] = "on" => \A d \in wset[t] : d \notin rset[u] /\ d \notin wset[u]
Exclusive == \A t, u \in Threads : t # u => Apart(t, u)

\* A live transaction tracks d; a walk that has stopped tracks where it stands.
Tracked(t, d) == htm[t] = "on" => d \in rset[t]
Pinned(t) == Tracked(t, prev[t]) /\ (curr[t] # Null => Tracked(t, curr[t]))
IsAbsent(t) == Absent(mem, prev[t], curr[t], Arg(t))
IsFound(t) == Found(mem, prev[t], curr[t], Arg(t))

\* The memory that the transaction of t commits
Commit(t) == [d \in Data |-> IF d \in wset[t] THEN buf[t][d] ELSE mem[d]]

\* At the end of a section without writer_lock: the answer is that of the
\* memory as it is, and the writes are an insertion or a removal there.
AnswerOf(t) ==
  /\ Op(t) = "contains" => IF res[t] THEN IsFound(t) ELSE IsAbsent(t)
  /\ Op(t) = "add" /\ ~res[t] => IsFound(t) /\ wset[t] = {}
  /\ Op(t) = "add" /\ res[t] =>
       /\ IsAbsent(t)
       /\ \E n \in Data : /\ ~mem[n].used /\ wset[t] = {n, prev[t]}
                          /\ Commit(t) = Linked(mem, n, prev[t], curr[t], Arg(t))
  /\ Op(t) = "remove" =>
       /\ IsFound(t) /\ wset[t] = {prev[t], curr[t]}
       /\ Commit(t) = Unlinked(mem, prev[t], curr[t])
WalkOf(t) == Live(t) =>
  /\ pc[t] = "next" =>
       At(mem, prev[t], Arg(t)) /\ (prev[t] \notin Sentinels => Tracked(t, prev[t]))
  /\ pc[t] = "val" =>
       At(mem, prev[t], Arg(t)) /\ Tracked(t, prev[t]) /\ mem[prev[t]].next = curr[t]
  /\ pc[t] = "insert" => IsAbsent(t) /\ Pinned(t)
  /\ pc[t] = "unlink" => IsFound(t) /\ Pinned(t)
  /\ pc[t] = "release" /\ mode[t] # "lock" => Pinned(t) /\ AnswerOf(t)
Walks == \A t \in Threads : WalkOf(t)

\* The operation of t has taken effect.
Effective(t) == pc[t] = "done" \/ (mode[t] = "lock" /\ pc[t] = "release")
\* The values that t has added and not yet removed: there, and nobody else's.
Owned(t) ==
  IF Effective(t) /\ Op(t) = "add" THEN (IF res[t] THEN {call[t].args[1]} ELSE {})
  ELSE IF Effective(t) /\ Op(t) = "remove" THEN {}
  ELSE {val[t]} \ {None}
Ownership ==
  /\ \A t \in Threads : Owned(t) \subseteq Vals(mem)
  /\ \A t, u \in Threads : t # u => Owned(t) \intersect Owned(u) = {}
\* A remove that has run to its end has found its value.
RemovedOf(t) ==
  Op(t) = "remove" /\ (pc[t] = "done" \/ (pc[t] = "release" /\ Live(t))) => res[t]
Removed == \A t \in Threads : RemovedOf(t)

Inv ==
  TypeOK /\ Shape /\ Exclusive /\ Sound(mem) /\ Walks /\ Ownership /\ Removed

----------------------------------------------------------------------------
(* Types and shapes.                                                       *)

Step(t) ==
  \/ \E c \in Set!Calls : Call(t, c)
  \/ Return(t) \/ Acquire(t) \/ TxAbort(t) \/ Release(t)
  \/ First(t) \/ ReadNext(t) \/ ReadVal(t) \/ Insert(t) \/ Unlink(t)

\* What a call asks for.
LEMMA CallType ==
  ASSUME NEW c \in Set!Calls
  PROVE  /\ c.op \in {"add", "remove", "contains"}
         /\ c.op # "contains" => c.args[1] \in Values
         /\ c.op = "contains" => \A i \in 1..Multiplier : c.args[i] \in Values
<1>1. CASE c \in Set!Updates
  BY <1>1 DEF Set!Updates
<1>2. CASE c \in Set!Lookups
  BY <1>2 DEF Set!Lookups
<1>. QED
  BY <1>1, <1>2 DEF Set!Calls

\* The value a thread works on is one that its call names.
LEMMA ArgType ==
  ASSUME TypeOK, NEW t \in Threads, ShapeOf(t)
  PROVE  /\ Op(t) \in {"add", "remove", "contains"}
         /\ Arg(t) \in Values /\ Arg(t) \in Nat /\ Arg(t) > 0
         /\ Op(t) # "contains" => Arg(t) = call[t].args[1]
<1>1. call[t] \in Set!Calls /\ k[t] \in 1..Multiplier
  BY DEF TypeOK
<1>2. Op(t) # "contains" => k[t] = 1
  BY DEF ShapeOf
<1>3. Arg(t) \in Values
  BY <1>1, <1>2, CallType DEF Arg, Op
<1>. QED
  BY <1>1, <1>2, <1>3, CallType DEF Arg, Op, Values

\* What the end of a walk does
LEMMA StopEffect ==
  ASSUME TypeOK, NEW t \in Threads, ShapeOf(t), NEW v, Stop(t, v)
  PROVE  /\ \/ pc' = [pc EXCEPT ![t] = "release"] /\ Op(t) = "add" /\ v = Arg(t)
               /\ UNCHANGED <<k, res>>
            \/ pc' = [pc EXCEPT ![t] = "insert"] /\ Op(t) = "add" /\ v # Arg(t)
               /\ UNCHANGED <<k, res>>
            \/ pc' = [pc EXCEPT ![t] = "unlink"] /\ Op(t) = "remove" /\ v = Arg(t)
               /\ UNCHANGED <<k, res>>
            \/ pc' = [pc EXCEPT ![t] = "release"] /\ Op(t) = "remove" /\ v # Arg(t)
               /\ UNCHANGED k /\ res' = [res EXCEPT ![t] = FALSE]
            \/ pc' = [pc EXCEPT ![t] = "release"] /\ Op(t) = "contains" /\ k[t] = Multiplier
               /\ UNCHANGED k /\ res' = [res EXCEPT ![t] = (v = Arg(t))]
            \/ pc' = [pc EXCEPT ![t] = "first"] /\ Op(t) = "contains" /\ k[t] # Multiplier
               /\ k' = [k EXCEPT ![t] = k[t] + 1] /\ UNCHANGED res
<1>1. Op(t) \in {"add", "remove", "contains"}
  BY ArgType
<1>2. CASE Op(t) = "add"
  BY <1>2 DEF Stop, Op
<1>3. CASE Op(t) = "remove" /\ v = Arg(t)
  BY <1>3 DEF Stop, Op
<1>4. CASE Op(t) = "remove" /\ v # Arg(t)
  BY <1>4 DEF Stop, Answer, Op
<1>5. CASE Op(t) = "contains" /\ LastLookup(t)
  BY <1>5 DEF Stop, Answer, Op, LastLookup
<1>6. CASE Op(t) = "contains" /\ ~LastLookup(t)
  BY <1>6 DEF Stop, Answer, Op, LastLookup
<1>. QED
  BY <1>1, <1>2, <1>3, <1>4, <1>5, <1>6

\* What the conflicts of an access do to the transactions
LEMMA DoomEffect ==
  ASSUME TypeOK, NEW t \in Threads, NEW D, NEW h,
         h \in {DoomByRead(t, D), DoomByWrite(t, D), DoomByLockWord(t, Lock)}
  PROVE  /\ h \in [Threads -> {"off", "on", "doomed"}] /\ h[t] = htm[t]
         /\ \A u \in Threads : h[u] = htm[u] \/ (htm[u] = "on" /\ h[u] = "doomed")
<1>1. htm \in [Threads -> {"off", "on", "doomed"}]
  BY DEF TypeOK
<1>2. CASE h = DoomByRead(t, D)
  BY <1>1, <1>2 DEF DoomByRead
<1>3. CASE h = DoomByWrite(t, D)
  BY <1>1, <1>3 DEF DoomByWrite
<1>4. CASE h = DoomByLockWord(t, Lock)
  BY <1>1, <1>4 DEF DoomByLockWord
<1>. QED
  BY <1>2, <1>3, <1>4

\* The fields of a read that goes on
LEMMA ReadEffect ==
  ASSUME TypeOK, NEW t \in Threads, ShapeOf(t), ReadNext(t) \/ ReadVal(t)
  PROVE  /\ pc[t] \in {"next", "val"} /\ Live(t) /\ wset[t] = {} /\ ~res[t]
         /\ UNCHANGED <<call, mode, val, mem, buf, watch, wset, calls>>
         /\ \A d : View(t, d) = mem[d]
         /\ htm' \in [Threads -> {"off", "on", "doomed"}] /\ htm'[t] = htm[t]
         /\ \A u \in Threads : htm'[u] = htm[u] \/ (htm[u] = "on" /\ htm'[u] = "doomed")
         /\ pc' \in [Threads -> {"idle", "acquire", "first", "next", "val", "insert", "unlink",
                                 "release", "done"}]
         /\ k' \in [Threads -> 1..Multiplier] /\ res' \in [Threads -> BOOLEAN]
         /\ prev' \in [Threads -> Data \union {Null}] /\ curr' \in [Threads -> Data \union {Null}]
         /\ rset' \in [Threads -> SUBSET Data]
         /\ \A u \in Threads \ {t} : pc'[u] = pc[u] /\ k'[u] = k[u] /\ res'[u] = res[u]
                                     /\ prev'[u] = prev[u] /\ curr'[u] = curr[u]
                                     /\ rset'[u] = rset[u]
<1>1. wset[t] = {} /\ ~res[t]
  BY DEF ShapeOf, ReadNext, ReadVal
<1>2. \A d : View(t, d) = mem[d]
  BY <1>1 DEF View
<1>3. PICK d \in Data : Read(t, d)
  BY DEF ReadNext, ReadVal, ShapeOf
<1>4. /\ htm' \in [Threads -> {"off", "on", "doomed"}] /\ htm'[t] = htm[t]
      /\ \A u \in Threads : htm'[u] = htm[u] \/ (htm[u] = "on" /\ htm'[u] = "doomed")
  <2>1. htm' = DoomByRead(t, {d})
    BY <1>3 DEF Read
  <2>. QED
    BY <2>1, DoomEffect
<1>5. /\ rset' \in [Threads -> SUBSET Data] /\ \A u \in Threads \ {t} : rset'[u] = rset[u]
      /\ Live(t) /\ UNCHANGED <<call, mode, val, mem, buf, watch, wset, calls>>
  BY <1>3 DEF Read, TypeOK
\* The walk moves, stops, or begins the next lookup.
<1>6. /\ prev' \in [Threads -> Data \union {Null}] /\ curr' \in [Threads -> Data \union {Null}]
      /\ \A u \in Threads \ {t} : prev'[u] = prev[u] /\ curr'[u] = curr[u]
  <2>1. prev[t] \in Data \union {Null} /\ curr[t] \in Data \union {Null}
    BY DEF TypeOK
  <2>2. CASE ReadNext(t)
    <3>1. mem[prev[t]] \in Nodes
      BY <2>2 DEF TypeOK, ReadNext, ShapeOf
    <3>2. curr' = [curr EXCEPT ![t] = mem[prev[t]].next] /\ prev' = prev
      BY <1>2, <2>2 DEF ReadNext
    <3>. QED
      BY <3>1, <3>2 DEF TypeOK, Nodes
  <2>3. CASE ReadVal(t)
    <3>1. curr' = curr /\ (prev' = prev \/ prev' = [prev EXCEPT ![t] = curr[t]])
      BY <2>3 DEF ReadVal
    <3>. QED
      BY <2>1, <3>1 DEF TypeOK
  <2>. QED
    BY <2>2, <2>3
<1>7. \/ \E v : Stop(t, v)
      \/ \E l \in {"next", "val"} : pc' = [pc EXCEPT ![t] = l] /\ UNCHANGED <<k, res>>
  <2>1. CASE ReadNext(t)
    BY <2>1 DEF ReadNext
  <2>2. CASE ReadVal(t)
    BY <2>2 DEF ReadVal
  <2>. QED
    BY <2>1, <2>2
<1>8. /\ pc' \in [Threads -> {"idle", "acquire", "first", "next", "val", "insert", "unlink",
                              "release", "done"}]
      /\ k' \in [Threads -> 1..Multiplier] /\ res' \in [Threads -> BOOLEAN]
      /\ \A u \in Threads \ {t} : pc'[u] = pc[u] /\ k'[u] = k[u] /\ res'[u] = res[u]
  <2>1. CASE \E v : Stop(t, v)
    <3>1. PICK v : Stop(t, v)
      BY <2>1
    <3>2. Multiplier \in Nat
      BY MemoryAssumption
    <3>. QED
      <4>1. \E l \in {"release", "insert", "unlink", "first"} : pc' = [pc EXCEPT ![t] = l]
        BY <3>1, StopEffect
      <4>2. k' = k \/ (k[t] # Multiplier /\ k' = [k EXCEPT ![t] = k[t] + 1])
        BY <3>1, StopEffect
      <4>3. res' = res \/ \E b \in BOOLEAN : res' = [res EXCEPT ![t] = b]
        BY <3>1, StopEffect
      <4>4. k' \in [Threads -> 1..Multiplier] /\ \A u \in Threads \ {t} : k'[u] = k[u]
        <5>1. k[t] \in 1..Multiplier /\ (k[t] # Multiplier => k[t] + 1 \in 1..Multiplier)
          <6>1. k[t] \in 1..Multiplier
            BY DEF TypeOK
          <6>. QED
            BY <3>2, <6>1
        <5>. QED
          BY <4>2, <5>1 DEF TypeOK
      <4>5. /\ pc' \in [Threads -> {"idle", "acquire", "first", "next", "val", "insert", "unlink",
                                    "release", "done"}]
            /\ \A u \in Threads \ {t} : pc'[u] = pc[u]
        BY <4>1 DEF TypeOK
      <4>6. res' \in [Threads -> BOOLEAN] /\ \A u \in Threads \ {t} : res'[u] = res[u]
        BY <4>3 DEF TypeOK
      <4>. QED
        BY <4>4, <4>5, <4>6
  <2>2. CASE ~\E v : Stop(t, v)
    <3>1. /\ \E l \in {"next", "val"} : pc' = [pc EXCEPT ![t] = l]
          /\ k' = k /\ res' = res
      BY <1>7, <2>2
    <3>2. /\ pc' \in [Threads -> {"idle", "acquire", "first", "next", "val", "insert", "unlink",
                                  "release", "done"}]
          /\ \A u \in Threads \ {t} : pc'[u] = pc[u]
      BY <3>1 DEF TypeOK
    <3>. QED
      BY <3>1, <3>2 DEF TypeOK
  <2>. QED
    BY <2>1, <2>2
<1>9. pc[t] \in {"next", "val"}
  BY DEF ReadNext, ReadVal
<1>. QED
  BY <1>1, <1>2, <1>4, <1>5, <1>6, <1>8, <1>9

\* A write at the end of a section, in its transaction or in memory
Stored(t, D, new) ==
  IF htm[t] = "on"
  THEN /\ buf' = [buf EXCEPT ![t] = [d \in Data |-> IF d \in D THEN new[d] ELSE buf[t][d]]]
       /\ wset' = [wset EXCEPT ![t] = wset[t] \union D] /\ mem' = mem
  ELSE /\ mem' = [d \in Data |-> IF d \in D THEN new[d] ELSE mem[d]]
       /\ buf' = buf /\ wset' = wset

\* What a write to nodes does: buffered in a transaction, at once outside; it
\* dooms the transactions that touched them.
LEMMA WriteEffect ==
  ASSUME TypeOK, NEW t \in Threads, NEW D \in SUBSET Data, NEW new \in [D -> Nodes], Write(t, new)
  PROVE  /\ Live(t) /\ UNCHANGED <<call, mode, k, prev, curr, val, watch, rset, calls>>
         /\ htm' \in [Threads -> {"off", "on", "doomed"}] /\ htm'[t] = htm[t]
         /\ \A u \in Threads : /\ htm'[u] = htm[u] \/ (htm[u] = "on" /\ htm'[u] = "doomed")
                               /\ u # t /\ htm'[u] = "on" =>
                                    \A d \in D : d \notin rset[u] /\ d \notin wset[u]
         /\ Stored(t, D, new)
         /\ mem' \in [Data -> Nodes] /\ buf' \in [Threads -> [Data -> Nodes]]
         /\ wset' \in [Threads -> SUBSET Data]
<1>0. DOMAIN new = D
  OBVIOUS
<1>1. /\ Live(t) /\ UNCHANGED <<call, mode, k, prev, curr, val, watch, rset, calls>>
      /\ htm' = DoomByWrite(t, D)
  BY <1>0 DEF Write
<1>2. /\ htm' \in [Threads -> {"off", "on", "doomed"}] /\ htm'[t] = htm[t]
      /\ \A u \in Threads : htm'[u] = htm[u] \/ (htm[u] = "on" /\ htm'[u] = "doomed")
  BY <1>1, DoomEffect
<1>3. \A u \in Threads : u # t /\ htm'[u] = "on" => \A d \in D : d \notin rset[u] /\ d \notin wset[u]
  BY <1>1 DEF DoomByWrite, TypeOK
<1>4. Stored(t, D, new)
  BY <1>0 DEF Write, Stored
<1>5. /\ mem' \in [Data -> Nodes] /\ buf' \in [Threads -> [Data -> Nodes]]
      /\ wset' \in [Threads -> SUBSET Data]
  <2>1. /\ mem \in [Data -> Nodes] /\ buf \in [Threads -> [Data -> Nodes]]
        /\ wset \in [Threads -> SUBSET Data]
    BY DEF TypeOK
  <2>2. CASE htm[t] = "on"
    <3>1. [d \in Data |-> IF d \in D THEN new[d] ELSE buf[t][d]] \in [Data -> Nodes]
      BY <2>1
    <3>. QED
      BY <1>4, <2>1, <2>2, <3>1 DEF Stored
  <2>3. CASE htm[t] # "on"
    BY <1>4, <2>1, <2>3 DEF Stored
  <2>. QED
    BY <2>2, <2>3
<1>. QED
  BY <1>1, <1>2, <1>3, <1>4, <1>5

\* The writes of an insertion and of a removal
LEMMA InsertEffect ==
  ASSUME TypeOK, NEW t \in Threads, ShapeOf(t), Insert(t)
  PROVE  /\ pc[t] = "insert" /\ pc' = [pc EXCEPT ![t] = "release"] /\ Op(t) = "add"
         /\ res' = [res EXCEPT ![t] = TRUE] /\ wset[t] = {} /\ prev[t] \in Data
         /\ \E n \in Data :
              /\ ~mem[n].used /\ \A u \in Threads : n \notin wset[u]
              /\ \E new \in [{n, prev[t]} -> Nodes] :
                   /\ new[n] = [val |-> Arg(t), next |-> curr[t], used |-> TRUE]
                   /\ n # prev[t] => new[prev[t]] = [mem[prev[t]] EXCEPT !.next = n]
                   /\ Write(t, new)
<1>1. /\ pc[t] = "insert" /\ pc' = [pc EXCEPT ![t] = "release"] /\ Op(t) = "add"
      /\ res' = [res EXCEPT ![t] = TRUE] /\ wset[t] = {} /\ prev[t] \in Data
  BY DEF Insert, ShapeOf
<1>2. PICK n \in Data :
        /\ Malloc(n)
        /\ Write(t, [d \in {n, prev[t]} |->
             IF d = n THEN [val |-> Arg(t), next |-> curr[t], used |-> TRUE]
             ELSE [View(t, d) EXCEPT !.next = n]])
  BY DEF Insert
<1>. DEFINE new == [d \in {n, prev[t]} |->
             IF d = n THEN [val |-> Arg(t), next |-> curr[t], used |-> TRUE]
             ELSE [View(t, d) EXCEPT !.next = n]]
<1>3. /\ mem[prev[t]] \in Nodes /\ View(t, prev[t]) = mem[prev[t]]
      /\ curr[t] \in Data \union {Null} /\ Arg(t) \in 0..Range
  BY <1>1, ArgType, MemoryAssumption DEF TypeOK, View, Values
<1>4. [val |-> Arg(t), next |-> curr[t], used |-> TRUE] \in Nodes
      /\ [mem[prev[t]] EXCEPT !.next = n] \in Nodes
  BY <1>3 DEF Nodes
<1>5. new \in [{n, prev[t]} -> Nodes]
  BY <1>3, <1>4
<1>6. /\ new[n] = [val |-> Arg(t), next |-> curr[t], used |-> TRUE]
      /\ n # prev[t] => new[prev[t]] = [mem[prev[t]] EXCEPT !.next = n]
  BY <1>3
<1>7. ~mem[n].used /\ \A u \in Threads : n \notin wset[u]
  BY <1>2 DEF Malloc
<1>. HIDE DEF new
<1>8. Write(t, new)
  BY <1>2 DEF new
<1>. QED
  BY <1>1, <1>5, <1>6, <1>7, <1>8

\* What unlinking a node does: two writes, the list's and the freed node's.
LEMMA UnlinkEffect ==
  ASSUME TypeOK, NEW t \in Threads, ShapeOf(t), Unlink(t)
  PROVE  /\ pc[t] = "unlink" /\ pc' = [pc EXCEPT ![t] = "release"] /\ Op(t) = "remove"
         /\ res' = [res EXCEPT ![t] = TRUE] /\ wset[t] = {}
         /\ prev[t] \in Data /\ curr[t] \in Data
         /\ \E new \in [{prev[t], curr[t]} -> Nodes] :
              /\ new[prev[t]] = [mem[prev[t]] EXCEPT !.next = mem[curr[t]].next]
              /\ prev[t] # curr[t] => new[curr[t]] = Free
              /\ Write(t, new)
<1>1. /\ pc[t] = "unlink" /\ pc' = [pc EXCEPT ![t] = "release"] /\ Op(t) = "remove"
      /\ res' = [res EXCEPT ![t] = TRUE] /\ wset[t] = {} /\ prev[t] \in Data /\ curr[t] \in Data
  BY DEF Unlink, ShapeOf
<1>. DEFINE new == [d \in {prev[t], curr[t]} |->
             IF d = prev[t] THEN [View(t, d) EXCEPT !.next = View(t, curr[t]).next] ELSE Freed(t)]
<1>2. Write(t, new)
  BY DEF Unlink
<1>3. /\ mem[prev[t]] \in Nodes /\ View(t, prev[t]) = mem[prev[t]]
      /\ mem[curr[t]] \in Nodes /\ View(t, curr[t]) = mem[curr[t]] /\ 0 \in 0..Range
  BY <1>1, MemoryAssumption DEF TypeOK, View
<1>4. [mem[prev[t]] EXCEPT !.next = mem[curr[t]].next] \in Nodes /\ Freed(t) \in Nodes
  BY <1>3 DEF Nodes, Freed, Free
<1>5. new \in [{prev[t], curr[t]} -> Nodes]
  BY <1>3, <1>4
<1>6. /\ new[prev[t]] = [mem[prev[t]] EXCEPT !.next = mem[curr[t]].next]
      /\ prev[t] # curr[t] => new[curr[t]] = Free
  BY <1>3 DEF Freed
<1>. HIDE DEF new
<1>. QED
  BY <1>1, <1>2, <1>5, <1>6

\* Every step keeps the types, and of another thread it can only doom the
\* transaction.
Same(u) ==
  /\ pc'[u] = pc[u] /\ call'[u] = call[u] /\ mode'[u] = mode[u] /\ k'[u] = k[u]
  /\ prev'[u] = prev[u] /\ curr'[u] = curr[u] /\ res'[u] = res[u] /\ val'[u] = val[u]
  /\ buf'[u] = buf[u] /\ watch'[u] = watch[u] /\ rset'[u] = rset[u] /\ wset'[u] = wset[u]
  /\ htm'[u] = htm[u] \/ (htm[u] = "on" /\ htm'[u] = "doomed")

\* A step keeps the types, and leaves the other threads where they were.
LEMMA TypesStep ==
  ASSUME TypeOK, Shape, NEW t \in Threads, Step(t)
  PROVE  TypeOK' /\ \A u \in Threads \ {t} : Same(u)
<1>0. ShapeOf(t) /\ MaxCalls \in Nat /\ Multiplier \in Nat /\ 1 \in 1..Multiplier
  BY MemoryAssumption DEF Shape
<1>1. ASSUME NEW c \in Set!Calls, Call(t, c)
      PROVE  TypeOK' /\ \A u \in Threads \ {t} : Same(u)
  BY <1>0, <1>1 DEF Call, TypeOK, Same
<1>2. ASSUME Return(t)
      PROVE  TypeOK' /\ \A u \in Threads \ {t} : Same(u)
  <2>1. NextVal(t) \in Values \union {None}
    BY CallType DEF NextVal, TypeOK
  <2>. QED
    BY <1>2, <2>1 DEF Return, TypeOK, Same
<1>3. ASSUME Acquire(t)
      PROVE  TypeOK' /\ \A u \in Threads \ {t} : Same(u)
  <2>1. /\ htm' \in [Threads -> {"off", "on", "doomed"}]
        /\ \A u \in Threads \ {t} : htm'[u] = htm[u] \/ (htm[u] = "on" /\ htm'[u] = "doomed")
    <3>1. \/ htm' = [htm EXCEPT ![t] = "on"] \/ htm' = htm \/ htm' = DoomByLockWord(t, Lock)
      BY <1>3 DEF Acquire
    <3>2. DoomByLockWord(t, Lock) \in [Threads -> {"off", "on", "doomed"}]
          /\ \A u \in Threads : \/ DoomByLockWord(t, Lock)[u] = htm[u]
                                \/ htm[u] = "on" /\ DoomByLockWord(t, Lock)[u] = "doomed"
      BY DoomEffect
    <3>. QED
      BY <3>1, <3>2 DEF TypeOK
  <2>2. /\ watch' \in [Threads -> SUBSET {Lock}] /\ mode' \in [Threads -> {"tx", "lock", "flag"}]
        /\ \A u \in Threads \ {t} : watch'[u] = watch[u] /\ mode'[u] = mode[u]
    <3>1. watch' = watch \/ watch' = [watch EXCEPT ![t] = {Lock}]
      BY <1>3 DEF Acquire
    <3>2. \E m \in {"tx", "lock", "flag"} : mode' = [mode EXCEPT ![t] = m]
      BY <1>3 DEF Acquire
    <3>. QED
      BY <3>1, <3>2 DEF TypeOK
  <2>3. /\ pc' = [pc EXCEPT ![t] = "first"]
        /\ UNCHANGED <<call, k, prev, curr, res, val, mem, buf, rset, wset, calls>>
    BY <1>3 DEF Acquire
  <2>. QED
    BY <2>1, <2>2, <2>3 DEF TypeOK, Same
<1>4. ASSUME TxAbort(t)
      PROVE  TypeOK' /\ \A u \in Threads \ {t} : Same(u)
  <2>1. Free \in Nodes
    BY MemoryAssumption DEF Free, Nodes
  <2>2. buf' \in [Threads -> [Data -> Nodes]] /\ \A u \in Threads \ {t} : buf'[u] = buf[u]
    BY <1>4, <2>1 DEF TxAbort, Drop, TypeOK
  <2>. QED
    BY <1>0, <1>4, <2>2 DEF TxAbort, Drop, TxEnd, TypeOK, Same
<1>5. ASSUME Release(t)
      PROVE  TypeOK' /\ \A u \in Threads \ {t} : Same(u)
  <2>1. Free \in Nodes
    BY MemoryAssumption DEF Free, Nodes
  <2>2. buf' \in [Threads -> [Data -> Nodes]] /\ \A u \in Threads \ {t} : buf'[u] = buf[u]
    BY <1>5, <2>1 DEF Release, Drop, TypeOK
  <2>3. mem' \in [Data -> Nodes]
    BY <1>5 DEF Release, TypeOK
  <2>4. /\ pc' = [pc EXCEPT ![t] = "done"] /\ k' = [k EXCEPT ![t] = 1]
        /\ prev' = [prev EXCEPT ![t] = Null] /\ curr' = [curr EXCEPT ![t] = Null]
        /\ htm' = [htm EXCEPT ![t] = "off"] /\ watch' = [watch EXCEPT ![t] = {}]
        /\ rset' = [rset EXCEPT ![t] = {}] /\ wset' = [wset EXCEPT ![t] = {}]
        /\ UNCHANGED <<call, mode, res, val, calls>>
    BY <1>5 DEF Release, Drop, TxEnd
  <2>. QED
    BY <1>0, <2>2, <2>3, <2>4 DEF TypeOK, Same
<1>6. ASSUME First(t)
      PROVE  TypeOK' /\ \A u \in Threads \ {t} : Same(u)
  <2>1. Sentinel(Arg(t)) \in Data
    BY <1>0, ArgType, SentinelType
  <2>. QED
    BY <1>6, <2>1 DEF First, TypeOK, Same
<1>7. ASSUME ReadNext(t) \/ ReadVal(t)
      PROVE  TypeOK' /\ \A u \in Threads \ {t} : Same(u)
  <2>1. /\ UNCHANGED <<call, mode, val, mem, buf, watch, wset, calls>>
         /\ htm' \in [Threads -> {"off", "on", "doomed"}]
         /\ pc' \in [Threads -> {"idle", "acquire", "first", "next", "val", "insert", "unlink",
                                 "release", "done"}]
         /\ k' \in [Threads -> 1..Multiplier] /\ res' \in [Threads -> BOOLEAN]
         /\ prev' \in [Threads -> Data \union {Null}] /\ curr' \in [Threads -> Data \union {Null}]
         /\ rset' \in [Threads -> SUBSET Data]
    BY <1>0, <1>7, ReadEffect
  <2>2. TypeOK'
    BY <2>1 DEF TypeOK
  <2>3. ASSUME NEW u \in Threads \ {t}
        PROVE  Same(u)
    BY <1>0, <1>7, ReadEffect, <2>1, <2>3 DEF Same
  <2>. QED
    BY <2>2, <2>3
<1>8. ASSUME NEW D \in SUBSET Data, NEW new \in [D -> Nodes], Write(t, new),
             pc' = [pc EXCEPT ![t] = "release"], res' = [res EXCEPT ![t] = TRUE]
      PROVE  TypeOK' /\ \A u \in Threads \ {t} : Same(u)
  <2>1. /\ UNCHANGED <<call, mode, k, prev, curr, val, watch, rset, calls>>
        /\ htm' \in [Threads -> {"off", "on", "doomed"}]
        /\ \A u \in Threads : htm'[u] = htm[u] \/ (htm[u] = "on" /\ htm'[u] = "doomed")
        /\ mem' \in [Data -> Nodes] /\ buf' \in [Threads -> [Data -> Nodes]]
        /\ wset' \in [Threads -> SUBSET Data]
    BY <1>8, WriteEffect
  <2>2. \A u \in Threads \ {t} : buf'[u] = buf[u] /\ wset'[u] = wset[u]
    <3>1. Stored(t, D, new)
      BY <1>8, WriteEffect
    <3>. QED
      BY <3>1 DEF Stored, TypeOK
  <2>. QED
    BY <1>8, <2>1, <2>2 DEF TypeOK, Same
<1>9. ASSUME Insert(t)
      PROVE  TypeOK' /\ \A u \in Threads \ {t} : Same(u)
  <2>1. \E D \in SUBSET Data : \E new \in [D -> Nodes] : Write(t, new)
    <3>1. prev[t] \in Data
      BY <1>0, <1>9, InsertEffect
    <3>2. PICK n \in Data : \E new \in [{n, prev[t]} -> Nodes] : Write(t, new)
      BY <1>0, <1>9, InsertEffect
    <3>3. {n, prev[t]} \in SUBSET Data
      BY <3>1
    <3>. QED
      BY <3>2, <3>3
  <2>2. /\ pc[t] = "insert" /\ Op(t) = "add"
        /\ pc' = [pc EXCEPT ![t] = "release"] /\ res' = [res EXCEPT ![t] = TRUE]
    BY <1>0, <1>9, InsertEffect
  <2>. QED
    BY <1>8, <2>1, <2>2
<1>10. ASSUME Unlink(t)
       PROVE  TypeOK' /\ \A u \in Threads \ {t} : Same(u)
  <2>1. \E D \in SUBSET Data : \E new \in [D -> Nodes] : Write(t, new)
    <3>1. PICK new \in [{prev[t], curr[t]} -> Nodes] : Write(t, new)
      BY <1>0, <1>10, UnlinkEffect
    <3>2. {prev[t], curr[t]} \in SUBSET Data
      BY <1>0, <1>10, UnlinkEffect
    <3>. QED
      BY <3>1, <3>2
  <2>2. /\ pc[t] = "unlink" /\ Op(t) = "remove"
        /\ pc' = [pc EXCEPT ![t] = "release"] /\ res' = [res EXCEPT ![t] = TRUE]
    BY <1>0, <1>10, UnlinkEffect
  <2>. QED
    BY <1>8, <2>1, <2>2
<1>. QED
  BY <1>1, <1>2, <1>3, <1>4, <1>5, <1>6, <1>7, <1>9, <1>10 DEF Step

\* A step keeps what its own thread's label knows.
LEMMA ShapeOwn ==
  ASSUME TypeOK, Shape, NEW t \in Threads, Step(t)
  PROVE  ShapeOf(t)'
<1>0. ShapeOf(t) /\ Multiplier \in Nat /\ 1 \in 1..Multiplier
  BY MemoryAssumption DEF Shape
<1>. USE DEF InSection, Flagged, Op
<1>1. ASSUME NEW c \in Set!Calls, Call(t, c)
      PROVE  ShapeOf(t)'
  <2>1. /\ pc[t] = "idle" /\ pc'[t] = "acquire" /\ call'[t] = c
        /\ UNCHANGED <<mode, k, prev, curr, res, val, htm, watch, rset, wset>>
        /\ c.op = "add" => val[t] = None
        /\ c.op = "remove" => c.args[1] = val[t]
    BY <1>1 DEF Call, TypeOK
  <2>. QED
    BY <1>0, <2>1 DEF ShapeOf
<1>2. ASSUME Return(t)
      PROVE  ShapeOf(t)'
  <2>1. /\ pc[t] = "done" /\ pc'[t] = "idle" /\ res'[t] = FALSE
        /\ UNCHANGED <<call, mode, k, prev, curr, htm, watch, rset, wset>>
    BY <1>2 DEF Return, TypeOK
  <2>. QED
    BY <1>0, <2>1 DEF ShapeOf
<1>3. ASSUME Acquire(t)
      PROVE  ShapeOf(t)'
  <2>1. /\ pc[t] = "acquire" /\ pc'[t] = "first"
        /\ UNCHANGED <<call, k, prev, curr, res, val, rset, wset>>
    BY <1>3 DEF Acquire, TypeOK
  <2>2. \/ mode'[t] = "tx" /\ htm'[t] = "on" /\ watch'[t] = {Lock}
        \/ Op(t) = "contains" /\ mode'[t] = "flag" /\ htm'[t] = htm[t] /\ watch' = watch
        \/ mode'[t] = "lock" /\ htm'[t] = htm[t] /\ watch' = watch
    <3>1. DoomByLockWord(t, Lock)[t] = htm[t]
      BY DoomEffect
    <3>. QED
      BY <1>3, <3>1 DEF Acquire, TypeOK
  <2>3. htm[t] = "off" /\ rset[t] = {} /\ wset[t] = {}
    BY <1>0, <2>1 DEF ShapeOf
  <2>. QED
    BY <1>0, <2>1, <2>2, <2>3 DEF ShapeOf
<1>4. ASSUME TxAbort(t)
      PROVE  ShapeOf(t)'
  <2>1. /\ htm[t] # "off" /\ pc'[t] = "acquire" /\ htm'[t] = "off" /\ k'[t] = 1
        /\ res'[t] = FALSE /\ rset'[t] = {} /\ wset'[t] = {} /\ watch'[t] = {}
        /\ UNCHANGED <<call, mode, val>>
    BY <1>4 DEF TxAbort, Drop, TxEnd, TypeOK
  <2>. QED
    BY <1>0, <2>1 DEF ShapeOf
<1>5. ASSUME Release(t)
      PROVE  ShapeOf(t)'
  <2>1. /\ pc[t] = "release" /\ pc'[t] = "done" /\ htm'[t] = "off" /\ k'[t] = 1
        /\ rset'[t] = {} /\ wset'[t] = {} /\ watch'[t] = {}
        /\ UNCHANGED <<call, mode, val, res>>
    BY <1>5 DEF Release, Drop, TxEnd, TypeOK
  <2>. QED
    BY <1>0, <2>1 DEF ShapeOf
<1>6. ASSUME First(t)
      PROVE  ShapeOf(t)'
  <2>1. Sentinel(Arg(t)) \in Data
    BY <1>0, ArgType, SentinelType
  <2>2. /\ pc[t] = "first" /\ pc'[t] = "next" /\ prev'[t] = Sentinel(Arg(t))
        /\ UNCHANGED <<call, mode, k, curr, res, val, htm, watch, rset, wset>>
    BY <1>6 DEF First, TypeOK
  <2>. QED
    BY <1>0, <2>1, <2>2 DEF ShapeOf
<1>7. ASSUME ReadNext(t) \/ ReadVal(t)
      PROVE  ShapeOf(t)'
  <2>1. /\ pc[t] \in {"next", "val"} /\ Live(t) /\ wset[t] = {} /\ ~res[t]
        /\ UNCHANGED <<call, mode, val, mem, buf, watch, wset, calls>>
        /\ htm'[t] = htm[t]
    BY <1>0, <1>7, ReadEffect
  <2>2. htm[t] = "off" => rset'[t] = rset[t]
    <3>1. PICK d : Read(t, d)
      BY <1>7 DEF ReadNext, ReadVal
    <3>. QED
      BY <3>1 DEF Read, TypeOK
  <2>3. \/ /\ pc'[t] = "release" /\ Op(t) \in {"add", "remove"} /\ k'[t] = k[t]
        \/ /\ pc'[t] = "release" /\ Op(t) = "contains" /\ k[t] = Multiplier /\ k'[t] = k[t]
        \/ /\ pc'[t] = "insert" /\ Op(t) = "add" /\ k'[t] = k[t] /\ res' = res
           /\ prev'[t] = prev[t] /\ prev[t] \in Data
        \/ /\ pc'[t] = "unlink" /\ Op(t) = "remove" /\ k'[t] = k[t] /\ res' = res
           /\ prev'[t] = prev[t] /\ prev[t] \in Data /\ curr'[t] = curr[t] /\ curr[t] \in Data
        \/ pc'[t] = "first" /\ Op(t) = "contains" /\ res' = res
        \/ pc'[t] = "val" /\ k'[t] = k[t] /\ res' = res /\ curr'[t] \in Data
           /\ prev'[t] \in Data
        \/ pc'[t] = "next" /\ k'[t] = k[t] /\ res' = res /\ prev'[t] \in Data
    <3>1. Arg(t) # Null
      BY <1>0, ArgType DEF Null
    <3>2. CASE ReadNext(t)
      <4>1. /\ prev' = prev /\ prev[t] \in Data
            /\ curr'[t] = View(t, prev[t]).next
        BY <1>0, <3>2 DEF ReadNext, ShapeOf, TypeOK
      <4>2. curr'[t] \in Data \union {Null}
        BY <1>0, <3>2, ReadEffect
      <4>3. CASE View(t, prev[t]).next = Null
        <5>1. Stop(t, Null)
          BY <3>2, <4>3 DEF ReadNext
        <5>. QED
          BY <1>0, <3>1, <4>1, <5>1, StopEffect DEF TypeOK
      <4>4. CASE View(t, prev[t]).next # Null
        <5>1. pc' = [pc EXCEPT ![t] = "val"] /\ k' = k /\ res' = res
          BY <3>2, <4>4 DEF ReadNext
        <5>. QED
          BY <4>1, <4>2, <4>4, <5>1 DEF TypeOK
      <4>. QED
        BY <4>3, <4>4
    <3>3. CASE ReadVal(t)
      <4>. DEFINE v == View(t, curr[t]).val
      <4>. HIDE DEF v
      <4>1. curr' = curr /\ curr[t] \in Data /\ pc[t] = "val" /\ prev[t] \in Data
        BY <1>0, <3>3 DEF ReadVal, ShapeOf, TypeOK
      <4>2. CASE Past(v, Arg(t))
        <5>1. Stop(t, v) /\ prev' = prev
          BY <3>3, <4>2 DEF ReadVal, v
        <5>. QED
          BY <1>0, <4>1, <5>1, StopEffect DEF TypeOK
      <4>3. CASE ~Past(v, Arg(t))
        <5>1. pc' = [pc EXCEPT ![t] = "next"] /\ prev' = [prev EXCEPT ![t] = curr[t]]
              /\ k' = k /\ res' = res
          BY <3>3, <4>3 DEF ReadVal, v
        <5>. QED
          BY <4>1, <5>1 DEF TypeOK
      <4>. QED
        BY <4>2, <4>3
    <3>. QED
      BY <1>7, <3>2, <3>3
  <2>. QED
    BY <1>0, <2>1, <2>2, <2>3 DEF ShapeOf
<1>8. ASSUME NEW D \in SUBSET Data, NEW new \in [D -> Nodes], Write(t, new),
             pc[t] \in {"insert", "unlink"}, Op(t) \in {"add", "remove"},
             pc' = [pc EXCEPT ![t] = "release"], res' = [res EXCEPT ![t] = TRUE]
      PROVE  ShapeOf(t)'
  <2>1. /\ UNCHANGED <<call, mode, k, prev, curr, val, watch, rset, calls>>
        /\ htm'[t] = htm[t] /\ pc'[t] = "release"
    BY <1>8, WriteEffect DEF TypeOK
  <2>2. htm[t] = "off" => wset' = wset
    BY <1>8, WriteEffect DEF Stored
  <2>. QED
    BY <1>0, <1>8, <2>1, <2>2 DEF ShapeOf
<1>9. ASSUME Insert(t)
      PROVE  ShapeOf(t)'
  <2>1. \E D \in SUBSET Data : \E new \in [D -> Nodes] : Write(t, new)
    <3>1. prev[t] \in Data
      BY <1>0, <1>9, InsertEffect
    <3>2. PICK n \in Data : \E new \in [{n, prev[t]} -> Nodes] : Write(t, new)
      BY <1>0, <1>9, InsertEffect
    <3>3. {n, prev[t]} \in SUBSET Data
      BY <3>1
    <3>. QED
      BY <3>2, <3>3
  <2>2. /\ pc[t] = "insert" /\ Op(t) = "add"
        /\ pc' = [pc EXCEPT ![t] = "release"] /\ res' = [res EXCEPT ![t] = TRUE]
    BY <1>0, <1>9, InsertEffect
  <2>. QED
    BY <1>8, <2>1, <2>2
<1>10. ASSUME Unlink(t)
       PROVE  ShapeOf(t)'
  <2>1. \E D \in SUBSET Data : \E new \in [D -> Nodes] : Write(t, new)
    <3>1. PICK new \in [{prev[t], curr[t]} -> Nodes] : Write(t, new)
      BY <1>0, <1>10, UnlinkEffect
    <3>2. {prev[t], curr[t]} \in SUBSET Data
      BY <1>0, <1>10, UnlinkEffect
    <3>. QED
      BY <3>1, <3>2
  <2>2. /\ pc[t] = "unlink" /\ Op(t) = "remove"
        /\ pc' = [pc EXCEPT ![t] = "release"] /\ res' = [res EXCEPT ![t] = TRUE]
    BY <1>0, <1>10, UnlinkEffect
  <2>. QED
    BY <1>8, <2>1, <2>2
<1>. QED
  BY <1>1, <1>2, <1>3, <1>4, <1>5, <1>6, <1>7, <1>9, <1>10 DEF Step

\* A step keeps what every thread's label knows.
LEMMA ShapeStep ==
  ASSUME TypeOK, Shape, NEW t \in Threads, Step(t)
  PROVE  Shape'
<1>1. ASSUME NEW u \in Threads \ {t}
      PROVE  ShapeOf(u)'
  <2>1. ShapeOf(u) /\ Same(u)
    BY TypesStep DEF Shape
  <2>. QED
    BY <2>1 DEF ShapeOf, Same, InSection, Flagged, Op
<1>. QED
  BY <1>1, ShapeOwn DEF Shape

----------------------------------------------------------------------------
(* Who runs with whom.                                                     *)

\* A step within a section touches only what no other transaction that stays
\* live has written, and writes only what none has touched.
LEMMA SectionStep ==
  ASSUME TypeOK, Shape, NEW t \in Threads,
         First(t) \/ ReadNext(t) \/ ReadVal(t) \/ Insert(t) \/ Unlink(t)
  PROVE  /\ InSection(t) /\ InSection(t)' /\ mode'[t] = mode[t] /\ htm'[t] = htm[t] /\ Live(t)
         /\ \A u \in Threads \ {t} : htm'[u] = "on" =>
              /\ \A d \in wset'[t] : d \in wset[t] \/ (d \notin rset[u] /\ d \notin wset[u])
              /\ \A d \in rset'[t] : d \in rset[t] \/ d \notin wset[u]
<1>0. ShapeOf(t)
  BY DEF Shape
<1>1. ASSUME First(t)
      PROVE  /\ InSection(t) /\ InSection(t)' /\ mode'[t] = mode[t] /\ htm'[t] = htm[t] /\ Live(t)
             /\ wset' = wset /\ rset' = rset
  BY <1>1 DEF First, InSection, TypeOK
<1>2. ASSUME ReadNext(t) \/ ReadVal(t)
      PROVE  /\ InSection(t) /\ InSection(t)' /\ mode'[t] = mode[t] /\ htm'[t] = htm[t] /\ Live(t)
             /\ wset' = wset
             /\ \A u \in Threads \ {t} : htm'[u] = "on" =>
                  \A d \in rset'[t] : d \in rset[t] \/ d \notin wset[u]
  <2>1. /\ pc[t] \in {"next", "val"} /\ Live(t) /\ mode' = mode /\ wset' = wset
        /\ htm'[t] = htm[t]
    BY <1>0, <1>2, ReadEffect
  <2>2. pc'[t] \in {"release", "insert", "unlink", "first", "val", "next"}
    <3>1. \/ \E v : Stop(t, v)
          \/ pc' = [pc EXCEPT ![t] = "val"] \/ pc' = [pc EXCEPT ![t] = "next"]
      <4>1. CASE ReadNext(t)
        BY <4>1 DEF ReadNext
      <4>2. CASE ReadVal(t)
        BY <4>2 DEF ReadVal
      <4>. QED
        BY <1>2, <4>1, <4>2
    <3>2. ASSUME NEW v, Stop(t, v)
          PROVE  \E l \in {"release", "insert", "unlink", "first"} : pc' = [pc EXCEPT ![t] = l]
      BY <1>0, <3>2, StopEffect
    <3>. QED
      BY <3>1, <3>2 DEF TypeOK
  <2>3. PICK d : Read(t, d)
    BY <1>2 DEF ReadNext, ReadVal
  <2>4. rset' = rset \/ rset' = [rset EXCEPT ![t] = rset[t] \union {d}]
    BY <2>3 DEF Read
  <2>5. \A u \in Threads \ {t} : htm'[u] = "on" => d \notin wset[u]
    BY <2>3 DEF Read, DoomByRead, TypeOK
  <2>. QED
    BY <2>1, <2>2, <2>4, <2>5 DEF InSection, TypeOK
<1>3. ASSUME NEW D \in SUBSET Data, NEW new \in [D -> Nodes], Write(t, new),
             pc[t] \in {"insert", "unlink"}, pc' = [pc EXCEPT ![t] = "release"]
      PROVE  /\ InSection(t) /\ InSection(t)' /\ mode'[t] = mode[t] /\ htm'[t] = htm[t] /\ Live(t)
             /\ rset' = rset
             /\ \A u \in Threads \ {t} : htm'[u] = "on" =>
                  \A d \in wset'[t] : d \in wset[t] \/ (d \notin rset[u] /\ d \notin wset[u])
  <2>1. /\ Live(t) /\ mode' = mode /\ rset' = rset /\ htm'[t] = htm[t] /\ Stored(t, D, new)
        /\ \A u \in Threads : u # t /\ htm'[u] = "on" =>
             \A d \in D : d \notin rset[u] /\ d \notin wset[u]
    BY <1>3, WriteEffect
  <2>2. \A d \in wset'[t] : d \in wset[t] \/ d \in D
    BY <2>1 DEF Stored, TypeOK
  <2>3. pc'[t] = "release"
    BY <1>3 DEF TypeOK
  <2>. QED
    BY <1>3, <2>1, <2>2, <2>3 DEF InSection
<1>4. ASSUME Insert(t) \/ Unlink(t)
      PROVE  /\ pc[t] \in {"insert", "unlink"} /\ pc' = [pc EXCEPT ![t] = "release"]
             /\ \E D \in SUBSET Data : \E new \in [D -> Nodes] : Write(t, new)
  <2>1. CASE Insert(t)
    BY <1>0, <2>1, InsertEffect
  <2>2. CASE Unlink(t)
    BY <1>0, <2>2, UnlinkEffect
  <2>. QED
    BY <1>4, <2>1, <2>2
<1>5. CASE First(t)
  BY <1>1, <1>5
<1>6. CASE ReadNext(t) \/ ReadVal(t)
  BY <1>2, <1>6
<1>7. CASE Insert(t) \/ Unlink(t)
  BY <1>3, <1>4, <1>7
<1>. QED
  BY <1>5, <1>6, <1>7

\* A step keeps updates in place alone.
LEMMA ExclusiveStep ==
  ASSUME TypeOK, Shape, Exclusive, NEW t \in Threads, Step(t)
  PROVE  Exclusive'
<1>0. ShapeOf(t) /\ ShapeOf(t)' /\ TypeOK' /\ \A u \in Threads \ {t} : Same(u)
  BY TypesStep, ShapeOwn DEF Shape
<1>1. ASSUME NEW a \in Threads \ {t}, NEW b \in Threads \ {t}, a # b
      PROVE  Apart(a, b)'
  <2>1. Apart(a, b) /\ Same(a) /\ Same(b)
    BY <1>0, <1>1 DEF Exclusive
  <2>. QED
    BY <2>1 DEF Apart, Same, Holding, Flagged, InSection
<1>2. ASSUME NEW u \in Threads \ {t}
      PROVE  Apart(t, u)' /\ Apart(u, t)'
  <2>1. Apart(t, u) /\ Apart(u, t) /\ Same(u)
    BY <1>0, <1>2 DEF Exclusive
  <2>2. CASE ~InSection(t)'
    <3>1. htm'[t] = "off" /\ ~Holding(t)' /\ ~Flagged(t)'
      BY <1>0, <2>2 DEF ShapeOf, Holding, Flagged
    <3>. QED
      BY <3>1 DEF Apart
  <2>3. CASE Acquire(t)
    <3>1. /\ pc'[t] = "first" /\ rset'[t] = rset[t] /\ wset'[t] = wset[t] /\ ~Holding(u)
          /\ rset[t] = {} /\ wset[t] = {}
      BY <1>0, <2>3 DEF Acquire, TypeOK, ShapeOf, InSection
    <3>2. ~Holding(u)'
      BY <2>1, <3>1 DEF Same, Holding, InSection
    <3>3. CASE mode'[t] = "tx"
      <4>1. ~Holding(t)' /\ ~Flagged(t)'
        BY <3>3 DEF Holding, Flagged
      <4>2. wset'[t] = {} /\ rset'[t] = {}
        BY <3>1
      <4>. QED
        BY <3>2, <4>1, <4>2 DEF Apart
    <3>4. CASE mode'[t] = "flag"
      <4>1. htm'[t] = "off" /\ ~Holding(t)'
        BY <1>0, <3>4 DEF ShapeOf, Holding, TypeOK
      <4>. QED
        BY <3>2, <4>1 DEF Apart
    <3>5. CASE mode'[t] = "lock"
      <4>1. htm'[t] = "off" /\ ~Flagged(t)'
        BY <1>0, <3>5 DEF ShapeOf, Flagged, TypeOK
      <4>2. ~Flagged(u) /\ htm' = DoomByLockWord(t, Lock)
        BY <2>3, <3>5 DEF Acquire, TypeOK
      <4>3. ~Flagged(u)'
        BY <2>1, <4>2 DEF Same, Flagged, InSection
      <4>4. htm'[u] # "on"
        <5>1. ShapeOf(u)
          BY DEF Shape
        <5>2. htm[u] = "on" => Lock \in watch[u]
          BY <5>1 DEF ShapeOf
        <5>. QED
          BY <4>2, <5>2 DEF DoomByLockWord, TypeOK
      <4>. QED
        BY <3>2, <4>1, <4>3, <4>4 DEF Apart
    <3>. QED
      BY <1>0, <3>3, <3>4, <3>5 DEF TypeOK
  <2>4. CASE First(t) \/ ReadNext(t) \/ ReadVal(t) \/ Insert(t) \/ Unlink(t)
    <3>1. /\ InSection(t) /\ InSection(t)' /\ mode'[t] = mode[t] /\ htm'[t] = htm[t]
          /\ htm'[u] = "on" =>
              /\ \A d \in wset'[t] : d \in wset[t] \/ (d \notin rset[u] /\ d \notin wset[u])
              /\ \A d \in rset'[t] : d \in rset[t] \/ d \notin wset[u]
      BY <2>4, SectionStep
    <3>2. Holding(t)' = Holding(t) /\ Flagged(t)' = Flagged(t)
      BY <3>1 DEF Holding, Flagged
    <3>3. Holding(u)' = Holding(u) /\ Flagged(u)' = Flagged(u)
      BY <2>1 DEF Same, Holding, Flagged, InSection
    <3>. QED
      BY <2>1, <3>1, <3>2, <3>3 DEF Apart, Same
  <2>5. (\E c \in Set!Calls : Call(t, c)) \/ Return(t) \/ TxAbort(t) \/ Release(t)
          => pc'[t] \in {"acquire", "idle", "done"}
    BY DEF Call, Return, TxAbort, Release, TypeOK
  <2>. QED
    BY <2>2, <2>3, <2>4, <2>5 DEF Step, InSection
<1>. QED
  BY <1>1, <1>2 DEF Exclusive

----------------------------------------------------------------------------
(* The walks.                                                              *)

\* Where a read takes the walk: on, or to the place of the value or its gap
LEMMA ReadPlace ==
  ASSUME Inv, NEW t \in Threads, ReadNext(t) \/ ReadVal(t)
  PROVE  \/ /\ pc' = [pc EXCEPT ![t] = "val"] /\ prev' = prev /\ k' = k /\ res' = res
            /\ At(mem, prev[t], Arg(t)) /\ mem[prev[t]].next = curr'[t]
            /\ htm[t] = "on" => prev[t] \in rset'[t]
         \/ /\ pc' = [pc EXCEPT ![t] = "next"] /\ k' = k /\ res' = res
            /\ At(mem, prev'[t], Arg(t))
            /\ htm[t] = "on" => prev'[t] \in rset'[t]
         \/ /\ prev' = prev
            /\ htm[t] = "on" => /\ prev[t] \in rset'[t]
                                /\ curr'[t] # Null => curr'[t] \in rset'[t]
            /\ \E v : /\ Stop(t, v)
                      /\ IF v = Arg(t) THEN Found(mem, prev[t], curr'[t], Arg(t))
                         ELSE Absent(mem, prev[t], curr'[t], Arg(t))
<1>0. /\ TypeOK /\ ShapeOf(t) /\ WalkOf(t) /\ Sound(mem)
      /\ pc[t] \in {"next", "val"} /\ Live(t) /\ \A d : View(t, d) = mem[d]
      /\ Arg(t) \in Nat /\ Arg(t) > 0
  BY ReadEffect, ArgType DEF Inv, Shape, Walks
<1>1. CASE ReadNext(t)
  <2>1. /\ pc[t] = "next" /\ prev[t] \in Data /\ At(mem, prev[t], Arg(t)) /\ prev' = prev
        /\ Read(t, prev[t])
    BY <1>0, <1>1 DEF ReadNext, ShapeOf, WalkOf
  <2>2. htm[t] = "on" => rset'[t] = rset[t] \union {prev[t]}
    BY <1>0, <2>1 DEF Read, TypeOK
  <2>3. curr'[t] = mem[prev[t]].next
    BY <1>0, <1>1 DEF ReadNext, TypeOK
  <2>4. CASE curr'[t] = Null
    <3>1. Stop(t, Null)
      BY <1>0, <1>1, <2>3, <2>4 DEF ReadNext
    <3>2. Absent(mem, prev[t], curr'[t], Arg(t))
      BY <2>1, <2>3, <2>4 DEF Absent
    <3>. QED
      BY <1>0, <2>1, <2>2, <2>4, <3>1, <3>2 DEF Null
  <2>5. CASE curr'[t] # Null
    <3>1. pc' = [pc EXCEPT ![t] = "val"] /\ k' = k /\ res' = res
      BY <1>0, <1>1, <2>3, <2>5 DEF ReadNext
    <3>. QED
      BY <2>1, <2>2, <2>3, <3>1
  <2>. QED
    BY <2>4, <2>5
<1>2. CASE ReadVal(t)
  <2>1. /\ pc[t] = "val" /\ curr[t] \in Data /\ prev[t] \in Data /\ At(mem, prev[t], Arg(t))
        /\ Tracked(t, prev[t]) /\ mem[prev[t]].next = curr[t] /\ curr' = curr /\ Read(t, curr[t])
    BY <1>0, <1>2 DEF ReadVal, ShapeOf, WalkOf
  <2>2. htm[t] = "on" => prev[t] \in rset'[t] /\ curr[t] \in rset'[t]
    BY <1>0, <2>1 DEF Read, TypeOK, Tracked
  <2>3. mem[curr[t]].val \in Nat /\ curr[t] # Null
    <3>1. mem[curr[t]] \in Nodes
      BY <1>0, <2>1 DEF TypeOK
    <3>2. mem[curr[t]].val \in Nat
      BY <3>1, MemoryAssumption DEF Nodes
    <3>. QED
      BY <2>1, <3>2, SentinelType
  <2>4. CASE mem[curr[t]].val >= Arg(t)
    <3>1. Stop(t, mem[curr[t]].val) /\ prev' = prev
      BY <1>0, <1>2, <2>4 DEF ReadVal, Past
    <3>2. IF mem[curr[t]].val = Arg(t) THEN Found(mem, prev[t], curr'[t], Arg(t))
          ELSE Absent(mem, prev[t], curr'[t], Arg(t))
      BY <1>0, <2>1, <2>3, <2>4 DEF Found, Absent
    <3>. QED
      BY <2>1, <2>2, <3>1, <3>2
  <2>5. CASE ~(mem[curr[t]].val >= Arg(t))
    <3>1. pc' = [pc EXCEPT ![t] = "next"] /\ k' = k /\ res' = res /\ prev'[t] = curr[t]
      BY <1>0, <1>2, <2>5 DEF ReadVal, Past, TypeOK
    <3>2. curr[t] \in Keyed(mem) /\ BucketIn(mem, curr[t]) = Sentinel(Arg(t))
      BY <1>0, <2>1, <2>3 DEF At, Sound, Chained
    <3>3. At(mem, curr[t], Arg(t))
      BY <1>0, <2>3, <2>5, <3>2 DEF At, Keyed
    <3>. QED
      BY <2>2, <3>1, <3>3
  <2>. QED
    BY <2>4, <2>5
<1>. QED
  BY <1>1, <1>2

\* A thread that removes owns its value, which is therefore in the lists.
LEMMA RemoverOwns ==
  ASSUME Inv, NEW t \in Threads, Op(t) = "remove", pc[t] # "idle", ~Effective(t)
  PROVE  Owned(t) = {Arg(t)} /\ Arg(t) \in Vals(mem)
<1>1. ShapeOf(t) /\ TypeOK
  BY DEF Inv, Shape
<1>2. Arg(t) = val[t] /\ Arg(t) # None
  BY <1>1, ArgType DEF ShapeOf, None
<1>3. Owned(t) = {Arg(t)}
  BY <1>2 DEF Owned
<1>. QED
  BY <1>3 DEF Inv, Ownership

\* The answer that a walk without an update ends with is that of the set, and
\* a removal always finds its value.
LEMMA ReadAnswer ==
  ASSUME Inv, NEW t \in Threads, ReadNext(t) \/ ReadVal(t)
  PROVE  /\ Op(t) = "remove" => pc'[t] # "release"
         /\ pc'[t] = "release" =>
              /\ Op(t) = "contains" => k[t] = Multiplier /\ res'[t] = (Arg(t) \in Vals(mem))
              /\ Op(t) = "add" => Arg(t) \in Vals(mem) /\ ~res'[t]
<1>0. /\ TypeOK /\ ShapeOf(t) /\ Sound(mem) /\ Arg(t) \in Values
      /\ pc[t] \in {"next", "val"} /\ ~res[t]
  BY ReadEffect, ArgType DEF Inv, Shape
<1>1. ASSUME pc'[t] = "release"
      PROVE  \E v : /\ Stop(t, v) /\ (v = Arg(t)) = (Arg(t) \in Vals(mem))
  <2>1. pc' # [pc EXCEPT ![t] = "val"] /\ pc' # [pc EXCEPT ![t] = "next"]
    BY <1>0, <1>1 DEF TypeOK
  <2>2. PICK v : /\ Stop(t, v)
                 /\ IF v = Arg(t) THEN Found(mem, prev[t], curr'[t], Arg(t))
                    ELSE Absent(mem, prev[t], curr'[t], Arg(t))
    BY <2>1, ReadPlace
  <2>3. v = Arg(t) => Arg(t) \in Vals(mem)
    BY <1>0, <2>2, FoundMeans
  <2>4. v # Arg(t) => Arg(t) \notin Vals(mem)
    BY <1>0, <2>2, AbsentMeans
  <2>. QED
    BY <2>2, <2>3, <2>4
<1>2. ASSUME pc'[t] = "release"
      PROVE  /\ Op(t) # "remove"
             /\ Op(t) = "contains" => k[t] = Multiplier /\ res'[t] = (Arg(t) \in Vals(mem))
             /\ Op(t) = "add" => Arg(t) \in Vals(mem) /\ ~res'[t]
  <2>1. PICK v : Stop(t, v) /\ (v = Arg(t)) = (Arg(t) \in Vals(mem))
    BY <1>1, <1>2
  <2>2. \/ Op(t) = "add" /\ v = Arg(t) /\ res' = res
        \/ Op(t) = "remove" /\ v # Arg(t)
        \/ Op(t) = "contains" /\ k[t] = Multiplier /\ res' = [res EXCEPT ![t] = (v = Arg(t))]
    BY <1>0, <1>2, <2>1, StopEffect DEF TypeOK
  <2>3. Op(t) = "remove" => Arg(t) \in Vals(mem)
    BY <1>0, RemoverOwns DEF Effective
  <2>. QED
    BY <1>0, <2>1, <2>2, <2>3 DEF TypeOK
<1>. QED
  BY <1>2

\* A section's step leaves its own walk where the invariant says.
LEMMA WalkOwn ==
  ASSUME Inv, NEW t \in Threads, Step(t)
  PROVE  WalkOf(t)'
<1>0. /\ TypeOK /\ TypeOK' /\ ShapeOf(t) /\ ShapeOf(t)' /\ WalkOf(t) /\ Sound(mem)
      /\ Arg(t) \in Values /\ Arg(t) \in Nat /\ Arg(t) > 0
  BY TypesStep, ShapeOwn, ArgType DEF Inv, Shape, Walks
<1>1. CASE ~InSection(t)'
  BY <1>1 DEF WalkOf, InSection
<1>2. CASE Acquire(t)
  <2>1. pc'[t] = "first"
    BY <1>0, <1>2 DEF Acquire, TypeOK
  <2>. QED
    BY <2>1 DEF WalkOf
<1>3. CASE First(t)
  <2>1. /\ pc'[t] = "next" /\ prev'[t] = Sentinel(Arg(t)) /\ mem' = mem
        /\ call' = call /\ k' = k
    BY <1>0, <1>3 DEF First, TypeOK
  <2>2. prev'[t] \in Sentinels /\ Arg(t)' = Arg(t)
    BY <1>0, <2>1, SentinelType DEF Arg
  <2>3. At(mem, prev'[t], Arg(t))
    BY <1>0, <2>1, <2>2, SentinelType DEF At, Sound, Rooted, BucketIn, UsedIn
  <2>. QED
    BY <2>1, <2>2, <2>3 DEF WalkOf
<1>4. CASE ReadNext(t) \/ ReadVal(t)
  <2>1. /\ call' = call /\ mode' = mode /\ mem' = mem /\ wset' = wset /\ buf' = buf /\ htm'[t] = htm[t]
        /\ wset[t] = {} /\ pc[t] \in {"next", "val"} /\ Live(t) /\ ~res[t]
    BY <1>0, <1>4, ReadEffect
  <2>2. CASE /\ pc' = [pc EXCEPT ![t] = "val"] /\ prev' = prev /\ k' = k /\ res' = res
             /\ At(mem, prev[t], Arg(t)) /\ mem[prev[t]].next = curr'[t]
             /\ htm[t] = "on" => prev[t] \in rset'[t]
    <3>1. pc'[t] = "val" /\ Arg(t)' = Arg(t)
      BY <1>0, <2>1, <2>2 DEF TypeOK, Arg
    <3>. QED
      BY <2>1, <2>2, <3>1 DEF WalkOf, Tracked
  <2>3. CASE /\ pc' = [pc EXCEPT ![t] = "next"] /\ k' = k /\ res' = res
             /\ At(mem, prev'[t], Arg(t))
             /\ htm[t] = "on" => prev'[t] \in rset'[t]
    <3>1. pc'[t] = "next" /\ Arg(t)' = Arg(t)
      BY <1>0, <2>1, <2>3 DEF TypeOK, Arg
    <3>. QED
      BY <2>1, <2>3, <3>1 DEF WalkOf, Tracked
  <2>4. ASSUME NEW v, Stop(t, v), prev' = prev,
               htm[t] = "on" => /\ prev[t] \in rset'[t]
                                /\ curr'[t] # Null => curr'[t] \in rset'[t],
               IF v = Arg(t) THEN Found(mem, prev[t], curr'[t], Arg(t))
               ELSE Absent(mem, prev[t], curr'[t], Arg(t))
        PROVE  WalkOf(t)'
    <3>1. Pinned(t)'
      BY <2>1, <2>4 DEF Pinned, Tracked
    <3>2. pc'[t] = "first" \/ Arg(t)' = Arg(t)
      BY <1>0, <2>1, <2>4, StopEffect DEF TypeOK, Arg
    <3>3. /\ Arg(t)' = Arg(t) /\ v = Arg(t) => IsFound(t)'
          /\ Arg(t)' = Arg(t) /\ v # Arg(t) => IsAbsent(t)'
      BY <2>1, <2>4 DEF IsFound, IsAbsent
    <3>4. \/ pc'[t] = "release" /\ Op(t) = "add" /\ v = Arg(t) /\ res' = res
          \/ pc'[t] = "insert" /\ Op(t) = "add" /\ v # Arg(t)
          \/ pc'[t] = "unlink" /\ Op(t) = "remove" /\ v = Arg(t)
          \/ pc'[t] = "release" /\ Op(t) = "contains" /\ res'[t] = (v = Arg(t))
          \/ pc'[t] = "first"
      <4>1. Op(t) = "remove" => pc'[t] # "release"
        BY <1>4, ReadAnswer
      <4>. QED
        BY <1>0, <2>4, <4>1, StopEffect DEF TypeOK
    <3>5. Op(t)' = Op(t)
      BY <2>1 DEF Op
    <3>6. CASE pc'[t] = "release" /\ Op(t) = "add" /\ v = Arg(t) /\ res' = res
      <4>1. AnswerOf(t)'
        BY <2>1, <3>2, <3>3, <3>5, <3>6 DEF AnswerOf
      <4>. QED
        BY <3>1, <3>6, <4>1 DEF WalkOf
    <3>7. CASE pc'[t] = "release" /\ Op(t) = "contains" /\ res'[t] = (v = Arg(t))
      <4>1. AnswerOf(t)'
        BY <2>1, <3>2, <3>3, <3>5, <3>7 DEF AnswerOf
      <4>. QED
        BY <3>1, <3>7, <4>1 DEF WalkOf
    <3>8. CASE pc'[t] = "insert" /\ v # Arg(t)
      BY <3>1, <3>2, <3>3, <3>8 DEF WalkOf
    <3>9. CASE pc'[t] = "unlink" /\ v = Arg(t)
      BY <3>1, <3>2, <3>3, <3>9 DEF WalkOf
    <3>10. CASE pc'[t] = "first"
      BY <3>10 DEF WalkOf
    <3>. QED
      BY <3>4, <3>6, <3>7, <3>8, <3>9, <3>10
  <2>. QED
    BY <1>4, <2>2, <2>3, <2>4, ReadPlace
<1>5. CASE Insert(t)
  <2>1. /\ pc[t] = "insert" /\ pc'[t] = "release" /\ Op(t) = "add" /\ res'[t] = TRUE
        /\ wset[t] = {} /\ prev[t] \in Data
    <3>1. /\ pc[t] = "insert" /\ pc' = [pc EXCEPT ![t] = "release"] /\ Op(t) = "add"
          /\ res' = [res EXCEPT ![t] = TRUE] /\ wset[t] = {} /\ prev[t] \in Data
      BY <1>0, <1>5, InsertEffect
    <3>. QED
      BY <1>0, <3>1 DEF TypeOK
  <2>21. PICK n \in Data :
           /\ ~mem[n].used
           /\ \E new \in [{n, prev[t]} -> Nodes] :
                /\ new[n] = [val |-> Arg(t), next |-> curr[t], used |-> TRUE]
                /\ n # prev[t] => new[prev[t]] = [mem[prev[t]] EXCEPT !.next = n]
                /\ Write(t, new)
    BY <1>0, <1>5, InsertEffect
  <2>2. PICK new \in [{n, prev[t]} -> Nodes] :
          /\ ~mem[n].used
          /\ new[n] = [val |-> Arg(t), next |-> curr[t], used |-> TRUE]
          /\ n # prev[t] => new[prev[t]] = [mem[prev[t]] EXCEPT !.next = n]
          /\ Write(t, new)
    BY <2>21
  <2>3. /\ Live(t) /\ UNCHANGED <<call, mode, k, prev, curr, rset>> /\ htm'[t] = htm[t]
        /\ Stored(t, {n, prev[t]}, new)
    BY <1>0, <2>1, <2>2, WriteEffect
  <2>4. CASE mode[t] = "lock"
    BY <2>1, <2>3, <2>4 DEF WalkOf
  <2>5. CASE mode[t] # "lock"
    <3>1. htm[t] = "on" /\ mem' = mem
      BY <1>0, <2>1, <2>3, <2>5 DEF ShapeOf, Live, Flagged, InSection, TypeOK, Stored
    <3>2. IsAbsent(t) /\ Pinned(t)
      BY <1>0, <2>1, <2>3 DEF WalkOf
    <3>3. Arg(t)' = Arg(t) /\ Op(t)' = Op(t)
      BY <2>3 DEF Arg, Op
    <3>4. IsAbsent(t)' /\ Pinned(t)'
      BY <2>3, <3>1, <3>2, <3>3 DEF IsAbsent, Pinned, Tracked
    <3>5. n # prev[t]
      BY <2>2, <3>2 DEF IsAbsent, Absent, At, UsedIn
    <3>6. wset'[t] = {n, prev[t]}
      BY <1>0, <2>1, <2>3, <3>1 DEF Stored, TypeOK
    <3>7. \A d \in {n, prev[t]} : buf'[t][d] = new[d]
      BY <1>0, <2>1, <2>2, <2>3, <3>1 DEF Stored, TypeOK
    <3>8. Commit(t)' = Linked(mem', n, prev'[t], curr'[t], Arg(t)')
      BY <2>2, <2>3, <3>1, <3>3, <3>5, <3>6, <3>7 DEF Commit, Linked
    <3>9. AnswerOf(t)'
      BY <2>1, <2>2, <2>3, <3>1, <3>3, <3>4, <3>6, <3>8 DEF AnswerOf
    <3>. QED
      BY <2>1, <3>4, <3>9 DEF WalkOf
  <2>. QED
    BY <2>4, <2>5
<1>6. CASE Unlink(t)
  <2>1. /\ pc[t] = "unlink" /\ pc'[t] = "release" /\ Op(t) = "remove" /\ res'[t] = TRUE
        /\ wset[t] = {} /\ prev[t] \in Data /\ curr[t] \in Data
    <3>1. /\ pc[t] = "unlink" /\ pc' = [pc EXCEPT ![t] = "release"] /\ Op(t) = "remove"
          /\ res' = [res EXCEPT ![t] = TRUE] /\ wset[t] = {} /\ prev[t] \in Data /\ curr[t] \in Data
      BY <1>0, <1>6, UnlinkEffect
    <3>. QED
      BY <1>0, <3>1 DEF TypeOK
  <2>2. PICK new \in [{prev[t], curr[t]} -> Nodes] :
          /\ new[prev[t]] = [mem[prev[t]] EXCEPT !.next = mem[curr[t]].next]
          /\ prev[t] # curr[t] => new[curr[t]] = Free
          /\ Write(t, new)
    BY <1>0, <1>6, UnlinkEffect
  <2>3. /\ Live(t) /\ UNCHANGED <<call, mode, k, prev, curr, rset>> /\ htm'[t] = htm[t]
        /\ Stored(t, {prev[t], curr[t]}, new)
    BY <1>0, <2>1, <2>2, WriteEffect
  <2>4. CASE mode[t] = "lock"
    BY <2>1, <2>3, <2>4 DEF WalkOf
  <2>5. CASE mode[t] # "lock"
    <3>1. htm[t] = "on" /\ mem' = mem
      BY <1>0, <2>1, <2>3, <2>5 DEF ShapeOf, Live, Flagged, InSection, TypeOK, Stored
    <3>2. IsFound(t) /\ Pinned(t)
      BY <1>0, <2>1, <2>3 DEF WalkOf
    <3>3. Arg(t)' = Arg(t) /\ Op(t)' = Op(t)
      BY <2>3 DEF Arg, Op
    <3>4. IsFound(t)' /\ Pinned(t)'
      BY <2>3, <3>1, <3>2, <3>3 DEF IsFound, Pinned, Tracked
    <3>5. prev[t] # curr[t]
      BY <1>0, <3>2, FoundMeans DEF IsFound
    <3>6. wset'[t] = {prev[t], curr[t]}
      BY <1>0, <2>1, <2>3, <3>1 DEF Stored, TypeOK
    <3>7. \A d \in {prev[t], curr[t]} : buf'[t][d] = new[d]
      BY <1>0, <2>1, <2>2, <2>3, <3>1 DEF Stored, TypeOK
    <3>8. Commit(t)' = Unlinked(mem', prev'[t], curr'[t])
      BY <2>2, <2>3, <3>1, <3>5, <3>6, <3>7 DEF Commit, Unlinked
    <3>9. AnswerOf(t)'
      BY <2>1, <2>3, <3>1, <3>3, <3>4, <3>6, <3>8 DEF AnswerOf
    <3>. QED
      BY <2>1, <3>4, <3>9 DEF WalkOf
  <2>. QED
    BY <2>4, <2>5
<1>7. (\E c \in Set!Calls : Call(t, c)) \/ Return(t) \/ TxAbort(t) \/ Release(t)
        => pc'[t] \in {"acquire", "idle", "done"}
  BY <1>0 DEF Call, Return, TxAbort, Release, TypeOK
<1>. QED
  BY <1>1, <1>2, <1>3, <1>4, <1>5, <1>6, <1>7 DEF Step, InSection

----------------------------------------------------------------------------
(* The memory, and whose the values are.                                   *)

\* A step changes the memory by one insertion or one removal, at which the
\* thread's operation takes effect, or not at all.
Inserts(t) ==
  /\ Op(t) = "add" /\ IsAbsent(t) /\ ~Effective(t) /\ Effective(t)' /\ res'[t]
  /\ \E n \in Data : ~mem[n].used /\ mem' = Linked(mem, n, prev[t], curr[t], Arg(t))
Removes(t) ==
  /\ Op(t) = "remove" /\ IsFound(t) /\ ~Effective(t) /\ Effective(t)' /\ res'[t]
  /\ mem' = Unlinked(mem, prev[t], curr[t])

\* What the release of a section does.
LEMMA ReleaseEffect ==
  ASSUME TypeOK, NEW t \in Threads, Release(t)
  PROVE  /\ pc[t] = "release" /\ pc'[t] = "done" /\ Live(t)
         /\ UNCHANGED <<call, mode, res, val, calls>>
         /\ mode[t] = "tx" /\ Op(t) # "contains" => \A u \in Threads : ~Flagged(u)
         /\ mem' = Commit(t)
         /\ wset[t] = {} => mem' = mem
<1>1. /\ pc[t] = "release" /\ Live(t) /\ pc' = [pc EXCEPT ![t] = "done"]
      /\ UNCHANGED <<call, mode, res, val, calls>>
      /\ mode[t] = "tx" /\ Op(t) # "contains" => \A u \in Threads : ~Flagged(u)
      /\ mem' = Commit(t)
  BY DEF Release, NoReader, Op, Commit
<1>2. wset[t] = {} => Commit(t) = mem
  BY DEF TypeOK, Commit
<1>. QED
  BY <1>1, <1>2 DEF TypeOK

\* An update without a transaction is made in the memory at once.
LEMMA UpdateInPlace ==
  ASSUME Inv, NEW t \in Threads, Insert(t) \/ Unlink(t), htm[t] # "on"
  PROVE  Inserts(t) \/ Removes(t)
<1>0. TypeOK /\ TypeOK' /\ ShapeOf(t) /\ WalkOf(t) /\ htm[t] # "on"
  BY TypesStep DEF Inv, Shape, Walks, Step
<1>1. CASE Insert(t)
  <2>1. /\ pc[t] = "insert" /\ pc' = [pc EXCEPT ![t] = "release"] /\ Op(t) = "add"
        /\ res' = [res EXCEPT ![t] = TRUE] /\ wset[t] = {} /\ prev[t] \in Data
    BY <1>0, <1>1, InsertEffect
  <2>2. PICK n \in Data :
          /\ ~mem[n].used
          /\ \E new \in [{n, prev[t]} -> Nodes] :
               /\ new[n] = [val |-> Arg(t), next |-> curr[t], used |-> TRUE]
               /\ n # prev[t] => new[prev[t]] = [mem[prev[t]] EXCEPT !.next = n]
               /\ Write(t, new)
    BY <1>0, <1>1, InsertEffect
  <2>3. PICK new \in [{n, prev[t]} -> Nodes] :
          /\ new[n] = [val |-> Arg(t), next |-> curr[t], used |-> TRUE]
          /\ n # prev[t] => new[prev[t]] = [mem[prev[t]] EXCEPT !.next = n]
          /\ Write(t, new)
    BY <2>2
  <2>4. Live(t) /\ mode' = mode /\ Stored(t, {n, prev[t]}, new)
    BY <1>0, <2>1, <2>3, WriteEffect
  <2>5. mode[t] = "lock"
    BY <1>0, <2>1, <2>4 DEF ShapeOf, Live, Flagged, InSection, TypeOK
  <2>6. mem' = [d \in Data |-> IF d \in {n, prev[t]} THEN new[d] ELSE mem[d]]
    BY <1>0, <2>4 DEF Stored
  <2>7. IsAbsent(t)
    BY <1>0, <2>1, <2>4 DEF WalkOf
  <2>8. n # prev[t]
    BY <2>2, <2>7 DEF IsAbsent, Absent, At, UsedIn
  <2>9. mem' = Linked(mem, n, prev[t], curr[t], Arg(t))
    BY <2>3, <2>6, <2>8 DEF Linked
  <2>10. pc'[t] = "release" /\ res'[t]
    BY <1>0, <2>1 DEF TypeOK
  <2>. QED
    BY <2>1, <2>2, <2>4, <2>5, <2>7, <2>9, <2>10 DEF Inserts, Effective
<1>2. CASE Unlink(t)
  <2>1. /\ pc[t] = "unlink" /\ pc' = [pc EXCEPT ![t] = "release"] /\ Op(t) = "remove"
        /\ res' = [res EXCEPT ![t] = TRUE] /\ wset[t] = {} /\ prev[t] \in Data /\ curr[t] \in Data
    BY <1>0, <1>2, UnlinkEffect
  <2>2. PICK new \in [{prev[t], curr[t]} -> Nodes] :
          /\ new[prev[t]] = [mem[prev[t]] EXCEPT !.next = mem[curr[t]].next]
          /\ prev[t] # curr[t] => new[curr[t]] = Free
          /\ Write(t, new)
    BY <1>0, <1>2, UnlinkEffect
  <2>3. Live(t) /\ mode' = mode /\ Stored(t, {prev[t], curr[t]}, new)
    BY <1>0, <2>1, <2>2, WriteEffect
  <2>4. mode[t] = "lock"
    BY <1>0, <2>1, <2>3 DEF ShapeOf, Live, Flagged, InSection, TypeOK
  <2>5. mem' = [d \in Data |-> IF d \in {prev[t], curr[t]} THEN new[d] ELSE mem[d]]
    BY <1>0, <2>3 DEF Stored
  <2>6. IsFound(t)
    BY <1>0, <2>1, <2>3 DEF WalkOf
  <2>7. prev[t] # curr[t]
    BY <1>0, <2>6, ArgType, FoundMeans DEF IsFound, Inv
  <2>8. mem' = Unlinked(mem, prev[t], curr[t])
    BY <2>2, <2>5, <2>7 DEF Unlinked
  <2>9. pc'[t] = "release" /\ res'[t]
    BY <1>0, <2>1 DEF TypeOK
  <2>. QED
    BY <2>1, <2>3, <2>4, <2>6, <2>8, <2>9 DEF Removes, Effective
<1>. QED
  BY <1>1, <1>2

\* A step inserts a value, removes one, or leaves the lists as they are.
LEMMA MemoryStep ==
  ASSUME Inv, NEW t \in Threads, Step(t)
  PROVE  \/ Inserts(t) \/ Removes(t)
         \/ mem' = mem /\ wset[t] = {} /\ ~(pc'[t] = "done" /\ Op(t) = "remove" /\ ~Effective(t))
         \/ mem' = mem /\ ~(pc[t] = "release" /\ pc'[t] = "done")
<1>0. TypeOK /\ TypeOK' /\ ShapeOf(t) /\ WalkOf(t)
  BY TypesStep DEF Inv, Shape, Walks
<1>1. CASE Release(t)
  <2>1. /\ pc[t] = "release" /\ pc'[t] = "done" /\ Live(t) /\ res' = res /\ mem' = Commit(t)
        /\ wset[t] = {} => mem' = mem
    BY <1>0, <1>1, ReleaseEffect
  <2>2. CASE mode[t] = "lock"
    <3>1. htm[t] = "off" /\ wset[t] = {} /\ Effective(t)
      BY <1>0, <2>1, <2>2 DEF ShapeOf, Effective
    <3>. QED
      BY <2>1, <3>1
  <2>3. CASE mode[t] # "lock"
    <3>1. AnswerOf(t) /\ ~Effective(t) /\ Effective(t)'
      BY <1>0, <2>1, <2>3 DEF WalkOf, Effective
    <3>2. Op(t) \in {"add", "remove", "contains"}
      BY <1>0, ArgType
    <3>3. CASE Op(t) = "contains"
      BY <1>0, <2>1, <3>3 DEF ShapeOf
    <3>4. CASE Op(t) = "add" /\ ~res[t]
      BY <2>1, <3>1, <3>4 DEF AnswerOf
    <3>5. CASE Op(t) = "add" /\ res[t]
      BY <2>1, <3>1, <3>5 DEF AnswerOf, Inserts
    <3>6. CASE Op(t) = "remove"
      <4>1. res[t]
        BY <2>1, <3>6 DEF Inv, Removed, RemovedOf
      <4>. QED
        BY <2>1, <3>1, <3>6, <4>1 DEF AnswerOf, Removes
    <3>. QED
      BY <3>2, <3>3, <3>4, <3>5, <3>6
  <2>. QED
    BY <2>2, <2>3
<1>2. CASE Insert(t) \/ Unlink(t)
  <2>1. CASE htm[t] = "on"
    <3>1. pc[t] \in {"insert", "unlink"} /\ mem' = mem
      BY <1>2, <2>1 DEF Insert, Unlink, Write
    <3>. QED
      BY <3>1
  <2>2. CASE htm[t] # "on"
    BY <1>2, <2>2, UpdateInPlace
  <2>. QED
    BY <2>1, <2>2
<1>3. CASE ReadNext(t) \/ ReadVal(t)
  BY <1>0, <1>3, ReadEffect
<1>4. CASE (\E c \in Set!Calls : Call(t, c)) \/ Return(t) \/ Acquire(t) \/ TxAbort(t) \/ First(t)
  BY <1>0, <1>4 DEF Call, Return, Acquire, TxAbort, First, TypeOK
<1>. QED
  BY <1>1, <1>2, <1>3, <1>4 DEF Step

\* A step keeps the lists in order, and changes the values they hold by one.
LEMMA SoundStep ==
  ASSUME Inv, NEW t \in Threads, Step(t)
  PROVE  /\ Sound(mem')
         /\ Inserts(t) => Vals(mem') = Vals(mem) \union {Arg(t)} /\ Arg(t) \notin Vals(mem)
         /\ Removes(t) => Vals(mem') = Vals(mem) \ {Arg(t)} /\ Arg(t) \in Vals(mem)
<1>0. Sound(mem) /\ Arg(t) \in Values
  BY ArgType DEF Inv, Shape
<1>1. ASSUME Inserts(t)
      PROVE  Sound(mem') /\ Vals(mem') = Vals(mem) \union {Arg(t)} /\ Arg(t) \notin Vals(mem)
  BY <1>0, <1>1, LinkSound, AbsentMeans DEF Inserts, IsAbsent
<1>2. ASSUME Removes(t)
      PROVE  Sound(mem') /\ Vals(mem') = Vals(mem) \ {Arg(t)} /\ Arg(t) \in Vals(mem)
  BY <1>0, <1>2, UnlinkSound, FoundMeans DEF Removes, IsFound
<1>3. Inserts(t) /\ Removes(t) => FALSE
  BY DEF Inserts, Removes
<1>4. ASSUME ~Inserts(t), ~Removes(t)
      PROVE  mem' = mem
  BY <1>4, MemoryStep
<1>. QED
  BY <1>0, <1>1, <1>2, <1>3, <1>4

\* What changes the memory leaves alone what another live section stands on.
LEMMA Undisturbed ==
  ASSUME Inv, NEW t \in Threads, Step(t), mem' # mem,
         NEW u \in Threads \ {t}, InSection(u), Live(u)', htm'[u] = htm[u]
  PROVE  htm[u] = "on" /\ \A d \in rset[u] \union wset[u] : mem'[d] = mem[d]
<1>0. /\ TypeOK /\ ShapeOf(t) /\ ShapeOf(u) /\ Apart(t, u) /\ Apart(u, t) /\ rset[u] \subseteq Data
      /\ wset[u] \subseteq Data /\ Live(u)
  BY DEF Inv, Shape, Exclusive, Live, TypeOK
<1>1. Inserts(t) \/ Removes(t)
  BY MemoryStep
<1>2. /\ mode[t] = "lock" \/ (mode[t] = "tx" /\ pc[t] = "release" /\ pc'[t] = "done")
      /\ InSection(t) /\ Op(t) # "contains"
  <2>1. Op(t) # "contains"
    BY <1>1 DEF Inserts, Removes
  <2>2. CASE Release(t)
    <3>1. pc[t] = "release" /\ pc'[t] = "done"
      BY <1>0, <2>2, ReleaseEffect
    <3>2. InSection(t) /\ mode[t] # "flag"
      BY <1>0, <2>1, <3>1 DEF ShapeOf, Flagged, InSection
    <3>. QED
      BY <1>0, <2>1, <3>1, <3>2 DEF TypeOK
  <2>3. CASE ~Release(t)
    <3>1. ~Effective(t) /\ Effective(t)'
      BY <1>1 DEF Inserts, Removes
    <3>2. pc'[t] # "done"
      <4>1. CASE First(t) \/ ReadNext(t) \/ ReadVal(t) \/ Insert(t) \/ Unlink(t)
        BY <4>1, SectionStep DEF Inv, InSection
      <4>2. CASE ~(First(t) \/ ReadNext(t) \/ ReadVal(t) \/ Insert(t) \/ Unlink(t))
        BY <1>0, <2>3, <4>2 DEF Step, Call, Return, Acquire, TxAbort, TypeOK
      <4>. QED
        BY <4>1, <4>2
    <3>3. pc'[t] = "release" /\ mode'[t] = "lock"
      BY <3>1, <3>2 DEF Effective
    <3>4. First(t) \/ ReadNext(t) \/ ReadVal(t) \/ Insert(t) \/ Unlink(t)
      BY <1>0, <2>3, <3>3 DEF Step, Call, Return, Acquire, TxAbort, TypeOK
    <3>. QED
      BY <2>1, <3>3, <3>4, SectionStep DEF Inv
  <2>. QED
    BY <2>2, <2>3
<1>3. CASE mode[t] = "lock"
  <2>1. ~Holding(u) /\ ~Flagged(u) /\ htm[u] # "on"
    BY <1>0, <1>2, <1>3 DEF Apart, Holding
  <2>. QED
    BY <1>0, <2>1 DEF ShapeOf, Holding, Flagged, TypeOK, Live
<1>4. CASE mode[t] = "tx" /\ pc[t] = "release" /\ pc'[t] = "done"
  <2>1. Release(t)
    <3>1. CASE First(t) \/ ReadNext(t) \/ ReadVal(t) \/ Insert(t) \/ Unlink(t)
      BY <1>4, <3>1, SectionStep DEF Inv, InSection
    <3>. QED
      BY <1>0, <1>4, <3>1 DEF Step, Call, Return, Acquire, TxAbort, TypeOK
  <2>2. Live(t) /\ ~Flagged(u) /\ mem' = Commit(t)
    BY <1>0, <1>2, <1>4, <2>1, ReleaseEffect
  <2>3. htm[t] = "on"
    BY <1>0, <1>2, <1>4, <2>2 DEF ShapeOf, TypeOK, Live
  <2>4. htm[u] = "on"
    <3>1. ~Holding(u)
      BY <1>0, <2>3 DEF Apart
    <3>. QED
      BY <1>0, <2>2, <3>1 DEF ShapeOf, Holding, Flagged, TypeOK, Live
  <2>5. \A d \in wset[t] : d \notin rset[u] /\ d \notin wset[u]
    BY <1>0, <2>3, <2>4 DEF Apart
  <2>. QED
    BY <1>0, <2>2, <2>4, <2>5 DEF Commit
<1>. QED
  BY <1>2, <1>3, <1>4

\* A step of one thread keeps what another one's walk has found.
LEMMA WalkOther ==
  ASSUME Inv, NEW t \in Threads, Step(t), NEW u \in Threads \ {t}
  PROVE  WalkOf(u)'
<1>0. /\ TypeOK /\ ShapeOf(u) /\ WalkOf(u) /\ Same(u) /\ Sound(mem) /\ Sound(mem')
  BY TypesStep, SoundStep DEF Inv, Shape, Walks
<1>1. CASE ~Live(u)' \/ ~InSection(u)
  BY <1>0, <1>1 DEF WalkOf, Same, InSection
<1>2. ASSUME Live(u)', InSection(u)
      PROVE  htm'[u] = htm[u] /\ Live(u) /\ Arg(u)' = Arg(u) /\ Op(u)' = Op(u)
  BY <1>0, <1>2 DEF Same, Live, Arg, Op
<1>3. CASE Live(u)' /\ InSection(u) /\ mem' = mem
  <2>1. \A d : Tracked(u, d)' = Tracked(u, d)
    BY <1>0, <1>2, <1>3 DEF Tracked, Same
  <2>2. Pinned(u)' = Pinned(u)
    BY <1>0, <2>1 DEF Pinned, Same, Tracked
  <2>3. IsAbsent(u)' = IsAbsent(u) /\ IsFound(u)' = IsFound(u) /\ Commit(u)' = Commit(u)
    BY <1>0, <1>2, <1>3 DEF IsAbsent, IsFound, Commit, Same
  <2>4. AnswerOf(u)' = AnswerOf(u)
    BY <1>0, <1>2, <1>3, <2>3 DEF AnswerOf, Same
  <2>. QED
    BY <1>0, <1>2, <1>3, <2>1, <2>2, <2>3, <2>4 DEF WalkOf, Same, Tracked
<1>4. CASE Live(u)' /\ InSection(u) /\ mem' # mem
  <2>1. /\ htm[u] = "on" /\ htm'[u] = "on" /\ Live(u)
        /\ Arg(u)' = Arg(u) /\ Op(u)' = Op(u) /\ Arg(u) \in Values
        /\ \A d \in rset[u] : mem'[d] = mem[d]
        /\ \A d \in wset[u] : mem'[d] = mem[d]
    BY <1>0, <1>2, <1>4, Undisturbed, ArgType
  <2>2. rset[u] \subseteq Data
    BY <1>0 DEF TypeOK
  <2>3. ASSUME NEW p \in rset[u], NEW v, At(mem, p, v)
        PROVE  At(mem', p, v)
    BY <2>1, <2>2, <2>3 DEF At, UsedIn, BucketIn
  <2>4. ASSUME Pinned(u)
        PROVE  /\ Pinned(u)' /\ prev[u] \in rset[u]
               /\ curr[u] # Null => curr[u] \in rset[u]
    BY <1>0, <2>1, <2>4 DEF Pinned, Tracked, Same
  <2>5. ASSUME Pinned(u), IsAbsent(u)
        PROVE  IsAbsent(u)'
    <3>1. /\ prev'[u] = prev[u] /\ curr'[u] = curr[u] /\ mem'[prev[u]] = mem[prev[u]]
          /\ prev[u] \in rset[u] /\ (curr[u] # Null => mem'[curr[u]] = mem[curr[u]])
      BY <1>0, <2>1, <2>5 DEF Same, Pinned, Tracked
    <3>. QED
      BY <2>1, <2>3, <2>5, <3>1 DEF IsAbsent, Absent
  <2>6. ASSUME Pinned(u), IsFound(u)
        PROVE  IsFound(u)'
    <3>1. /\ prev'[u] = prev[u] /\ curr'[u] = curr[u] /\ mem'[prev[u]] = mem[prev[u]]
          /\ prev[u] \in rset[u] /\ (curr[u] # Null => mem'[curr[u]] = mem[curr[u]])
      BY <1>0, <2>1, <2>6 DEF Same, Pinned, Tracked
    <3>. QED
      BY <2>1, <2>3, <2>6, <3>1 DEF IsFound, Found
  <2>7. CASE pc[u] = "next"
    <3>1. At(mem, prev[u], Arg(u)) /\ (prev[u] \notin Sentinels => prev[u] \in rset[u])
      BY <1>0, <2>1, <2>7 DEF WalkOf, Tracked
    <3>2. prev[u] \in Sentinels => At(mem', prev[u], Arg(u))
      BY <1>0, <3>1, SentinelType DEF At, Sound, Rooted, BucketIn, UsedIn
    <3>3. At(mem', prev[u], Arg(u))
      BY <2>3, <3>1, <3>2
    <3>. QED
      BY <1>0, <2>1, <2>7, <3>1, <3>3 DEF WalkOf, Same, Tracked
  <2>8. CASE pc[u] = "val"
    <3>1. /\ At(mem, prev[u], Arg(u)) /\ prev[u] \in rset[u] /\ mem[prev[u]].next = curr[u]
      BY <1>0, <2>1, <2>8 DEF WalkOf, Tracked
    <3>2. At(mem', prev[u], Arg(u)) /\ mem'[prev[u]].next = curr[u]
      BY <2>1, <2>3, <3>1
    <3>. QED
      BY <1>0, <2>1, <2>8, <3>1, <3>2 DEF WalkOf, Same, Tracked
  <2>9. CASE pc[u] = "insert"
    <3>1. IsAbsent(u) /\ Pinned(u)
      BY <1>0, <2>1, <2>9 DEF WalkOf
    <3>. QED
      BY <1>0, <2>4, <2>5, <2>9, <3>1 DEF WalkOf, Same
  <2>10. CASE pc[u] = "unlink"
    <3>1. IsFound(u) /\ Pinned(u)
      BY <1>0, <2>1, <2>10 DEF WalkOf
    <3>. QED
      BY <1>0, <2>4, <2>6, <2>10, <3>1 DEF WalkOf, Same
  <2>11. CASE pc[u] = "release"
    <3>1. mode[u] = "tx"
      BY <1>0, <2>1 DEF ShapeOf
    <3>2. Pinned(u) /\ AnswerOf(u)
      BY <1>0, <2>1, <2>11, <3>1 DEF WalkOf
    <3>3. IsAbsent(u) => IsAbsent(u)'
      BY <2>5, <3>2
    <3>4. IsFound(u) => IsFound(u)'
      BY <2>6, <3>2
    <3>5. /\ mem'[prev[u]] = mem[prev[u]]
          /\ curr[u] # Null => mem'[curr[u]] = mem[curr[u]]
      BY <2>1, <2>4, <3>2
    <3>6. Op(u) = "contains" => IF res'[u] THEN IsFound(u)' ELSE IsAbsent(u)'
      BY <1>0, <3>2, <3>3, <3>4 DEF AnswerOf, Same
    <3>7. Op(u) = "add" /\ ~res'[u] => IsFound(u)' /\ wset'[u] = {}
      BY <1>0, <3>2, <3>4 DEF AnswerOf, Same
    <3>8. ASSUME Op(u) = "add", res'[u]
          PROVE  /\ IsAbsent(u)'
                 /\ \E n \in Data : /\ ~mem'[n].used /\ wset'[u] = {n, prev'[u]}
                                    /\ Commit(u)' = Linked(mem', n, prev'[u], curr'[u], Arg(u)')
      <4>1. /\ IsAbsent(u)
            /\ \E n \in Data : /\ ~mem[n].used /\ wset[u] = {n, prev[u]}
                               /\ Commit(u) = Linked(mem, n, prev[u], curr[u], Arg(u))
        BY <1>0, <3>2, <3>8 DEF AnswerOf, Same
      <4>2. PICK n \in Data : /\ ~mem[n].used /\ wset[u] = {n, prev[u]}
                              /\ Commit(u) = Linked(mem, n, prev[u], curr[u], Arg(u))
        BY <4>1
      <4>3. ~mem'[n].used
        BY <2>1, <4>2
      <4>4. ASSUME NEW d \in {n, prev[u]}
            PROVE  buf[u][d] = Linked(mem, n, prev[u], curr[u], Arg(u))[d] /\ d \in Data
        <5>1. d \in Data /\ Commit(u)[d] = buf[u][d]
          BY <2>2, <2>4, <3>2, <4>2, <4>4 DEF Commit
        <5>. QED
          BY <4>2, <5>1
      <4>5. ASSUME NEW d \in {n, prev[u]}
            PROVE  Linked(mem', n, prev[u], curr[u], Arg(u))[d] = buf[u][d]
        BY <3>5, <4>4, <4>5 DEF Linked
      <4>6. Commit(u)' = Linked(mem', n, prev[u], curr[u], Arg(u))
        <5>1. Commit(u)' = [d \in Data |-> IF d \in {n, prev[u]} THEN buf[u][d] ELSE mem'[d]]
          BY <1>0, <4>2 DEF Commit, Same
        <5>2. Linked(mem', n, prev[u], curr[u], Arg(u))
                = [d \in Data |-> IF d \in {n, prev[u]} THEN buf[u][d] ELSE mem'[d]]
          BY <4>5 DEF Linked
        <5>. QED
          BY <5>1, <5>2
      <4>. QED
        BY <1>0, <2>1, <3>3, <4>1, <4>2, <4>3, <4>6 DEF Same
    <3>9. ASSUME Op(u) = "remove"
          PROVE  /\ IsFound(u)' /\ wset'[u] = {prev'[u], curr'[u]}
                 /\ Commit(u)' = Unlinked(mem', prev'[u], curr'[u])
      <4>1. /\ IsFound(u) /\ wset[u] = {prev[u], curr[u]}
            /\ Commit(u) = Unlinked(mem, prev[u], curr[u])
        BY <3>2, <3>9 DEF AnswerOf
      <4>2. mem'[curr[u]] = mem[curr[u]] /\ curr[u] \in rset[u] /\ prev[u] \in rset[u]
        BY <2>4, <3>2, <3>5, <4>1 DEF IsFound, Found
      <4>4. ASSUME NEW d \in {prev[u], curr[u]}
            PROVE  buf[u][d] = Unlinked(mem, prev[u], curr[u])[d] /\ d \in Data
        <5>1. d \in Data /\ Commit(u)[d] = buf[u][d]
          BY <2>2, <4>1, <4>2, <4>4 DEF Commit
        <5>. QED
          BY <4>1, <5>1
      <4>5. ASSUME NEW d \in {prev[u], curr[u]}
            PROVE  Unlinked(mem', prev[u], curr[u])[d] = buf[u][d]
        BY <3>5, <4>2, <4>4, <4>5 DEF Unlinked
      <4>6. Commit(u)' = Unlinked(mem', prev[u], curr[u])
        <5>1. Commit(u)' = [d \in Data |-> IF d \in {prev[u], curr[u]} THEN buf[u][d] ELSE mem'[d]]
          BY <1>0, <4>1 DEF Commit, Same
        <5>2. Unlinked(mem', prev[u], curr[u])
                = [d \in Data |-> IF d \in {prev[u], curr[u]} THEN buf[u][d] ELSE mem'[d]]
          BY <4>5 DEF Unlinked
        <5>. QED
          BY <5>1, <5>2
      <4>. QED
        BY <1>0, <3>4, <4>1, <4>6 DEF Same
    <3>10. AnswerOf(u)'
      BY <2>1, <3>6, <3>7, <3>8, <3>9 DEF AnswerOf
    <3>. QED
      BY <1>0, <2>4, <2>11, <3>2, <3>10 DEF WalkOf, Same
  <2>12. CASE pc[u] = "first"
    BY <1>0, <2>12 DEF WalkOf, Same
  <2>. QED
    BY <1>4, <2>7, <2>8, <2>9, <2>10, <2>11, <2>12 DEF InSection
<1>. QED
  BY <1>1, <1>3, <1>4

\* Whose the values are changes only as an operation takes effect.
LEMMA OwnedStep ==
  ASSUME Inv, NEW t \in Threads, Step(t)
  PROVE  /\ Inserts(t) => Owned(t)' = {Arg(t)}
         /\ Removes(t) => Owned(t)' = {} /\ Owned(t) = {Arg(t)}
         /\ ~Inserts(t) /\ ~Removes(t) => Owned(t)' = Owned(t)
<1>0. /\ TypeOK /\ TypeOK' /\ ShapeOf(t) /\ ShapeOf(t)' /\ Op(t) \in {"add", "remove", "contains"}
      /\ Op(t) # "contains" => Arg(t) = call[t].args[1]
  BY TypesStep, ShapeOwn, ArgType DEF Inv, Shape
<1>1. ASSUME Effective(t)', ~Effective(t)
      PROVE  call'[t] = call[t] /\ val'[t] = val[t] /\ Op(t)' = Op(t) /\ pc[t] # "idle"
  <2>1. CASE First(t) \/ Acquire(t) \/ TxAbort(t)
    <3>1. pc'[t] \in {"next", "first", "acquire"}
      BY <1>0, <2>1 DEF First, Acquire, TxAbort, TypeOK
    <3>. QED
      BY <1>1, <3>1 DEF Effective
  <2>2. CASE ReadNext(t) \/ ReadVal(t)
    BY <1>0, <2>2, ReadEffect DEF Op
  <2>3. CASE Insert(t)
    BY <1>0, <2>3 DEF Insert, Write, Op
  <2>4. CASE Unlink(t)
    BY <1>0, <2>4 DEF Unlink, Write, Op
  <2>5. CASE Release(t)
    BY <1>0, <2>5, ReleaseEffect DEF Op
  <2>6. CASE (\E c \in Set!Calls : Call(t, c)) \/ Return(t)
    BY <1>0, <1>1, <2>6 DEF Call, Return, Effective, TypeOK
  <2>. QED
    BY <2>1, <2>2, <2>3, <2>4, <2>5, <2>6 DEF Step
<1>2. ASSUME Inserts(t)
      PROVE  Owned(t)' = {Arg(t)}
  <2>1. /\ Effective(t)' /\ ~Effective(t) /\ res'[t] /\ Op(t) = "add"
    BY <1>2 DEF Inserts
  <2>2. Op(t)' = "add" /\ call'[t] = call[t]
    BY <1>1, <2>1
  <2>. QED
    BY <1>0, <2>1, <2>2 DEF Owned
<1>3. ASSUME Removes(t)
      PROVE  Owned(t)' = {} /\ Owned(t) = {Arg(t)}
  <2>1. Effective(t)' /\ ~Effective(t) /\ Op(t) = "remove"
    BY <1>3 DEF Removes
  <2>2. Op(t)' = "remove" /\ pc[t] # "idle"
    BY <1>1, <2>1
  <2>. QED
    BY <2>1, <2>2, RemoverOwns DEF Owned
<1>4. ASSUME ~Inserts(t), ~Removes(t)
      PROVE  Owned(t)' = Owned(t)
  <2>1. CASE \E c \in Set!Calls : Call(t, c)
    <3>1. PICK c \in Set!Calls : Call(t, c)
      BY <2>1
    <3>2. pc[t] = "idle" /\ pc'[t] = "acquire" /\ val' = val
      BY <1>0, <3>1 DEF Call, TypeOK
    <3>3. ~Effective(t) /\ ~Effective(t)'
      BY <3>2 DEF Effective
    <3>. QED
      BY <3>2, <3>3 DEF Owned
  <2>2. CASE Return(t)
    <3>1. /\ pc[t] = "done" /\ pc'[t] = "idle" /\ call' = call
          /\ val'[t] = IF Op(t) = "contains" THEN val[t] ELSE NextVal(t)
      BY <1>0, <2>2 DEF Return, TypeOK, Op
    <3>2. Effective(t) /\ ~Effective(t)'
      BY <3>1 DEF Effective
    <3>3. Op(t) # "contains" => call[t].args[1] # None
      BY <1>0, ArgType DEF None
    <3>4. Owned(t)' = {val'[t]} \ {None}
      BY <3>2 DEF Owned
    <3>5. CASE Op(t) = "contains"
      BY <3>1, <3>2, <3>4, <3>5 DEF Owned
    <3>6. CASE Op(t) = "remove"
      BY <3>1, <3>2, <3>4, <3>6 DEF Owned, NextVal, Op
    <3>7. CASE Op(t) = "add" /\ res[t]
      BY <3>1, <3>2, <3>3, <3>4, <3>7 DEF Owned, NextVal, Op
    <3>8. CASE Op(t) = "add" /\ ~res[t]
      BY <3>1, <3>2, <3>4, <3>8 DEF Owned, NextVal, Op
    <3>. QED
      BY <1>0, <3>5, <3>6, <3>7, <3>8
  <2>3. ASSUME ~Effective(t), ~Effective(t)', val' = val
        PROVE  Owned(t)' = Owned(t)
    BY <2>3 DEF Owned
  <2>4. ASSUME Effective(t), Effective(t)', val' = val, call' = call, res' = res
        PROVE  Owned(t)' = Owned(t)
    BY <2>4 DEF Owned, Op
  \* An operation that takes effect without a change: its thread owns what it owned.
  <2>5. ASSUME ~Effective(t), Effective(t)', val' = val, call' = call,
               Op(t) = "add" => ~res'[t] /\ val[t] = None, Op(t) # "remove"
        PROVE  Owned(t)' = Owned(t)
    BY <1>0, <2>5 DEF Owned, Op
  <2>6. CASE Acquire(t) \/ TxAbort(t) \/ First(t)
    <3>1. pc[t] \in {"acquire", "first"} \/ htm[t] # "off"
      BY <2>6 DEF Acquire, TxAbort, First
    <3>2. pc'[t] \in {"first", "acquire", "next"} /\ val' = val
      BY <1>0, <2>6 DEF Acquire, TxAbort, First, TypeOK
    <3>3. ~Effective(t) /\ ~Effective(t)'
      BY <1>0, <3>1, <3>2 DEF Effective, ShapeOf, InSection
    <3>. QED
      BY <2>3, <3>2, <3>3
  <2>7. CASE ReadNext(t) \/ ReadVal(t)
    <3>1. /\ pc[t] \in {"next", "val"} /\ UNCHANGED <<call, val>>
      BY <1>0, <2>7, ReadEffect
    <3>2. ~Effective(t)
      BY <3>1 DEF Effective
    <3>3. CASE ~Effective(t)'
      BY <2>3, <3>1, <3>2, <3>3
    <3>4. CASE Effective(t)'
      <4>1. pc'[t] = "release"
        BY <2>7, <3>4, SectionStep DEF Effective, InSection, Inv
      <4>2. Op(t) # "remove" /\ (Op(t) = "add" => ~res'[t])
        BY <2>7, <4>1, ReadAnswer
      <4>3. Op(t) = "add" => val[t] = None
        BY <1>0, <3>1 DEF ShapeOf
      <4>. QED
        BY <2>5, <3>1, <3>2, <3>4, <4>2, <4>3
    <3>. QED
      BY <3>3, <3>4
  <2>8. CASE Insert(t) \/ Unlink(t)
    <3>1. /\ pc[t] \in {"insert", "unlink"} /\ UNCHANGED <<call, val, mode>> /\ pc'[t] = "release"
      BY <1>0, <2>8 DEF Insert, Unlink, Write, TypeOK
    <3>2. ~Effective(t)
      BY <3>1 DEF Effective
    <3>3. ~Effective(t)'
      <4>1. ASSUME Effective(t)'
            PROVE  FALSE
        <5>1. mode[t] = "lock" /\ htm[t] = "off"
          BY <1>0, <3>1, <4>1 DEF Effective, ShapeOf
        <5>2. Inserts(t) \/ Removes(t)
          BY <2>8, <5>1, UpdateInPlace
        <5>. QED
          BY <1>4, <5>2
      <4>. QED
        BY <4>1
    <3>. QED
      BY <2>3, <3>1, <3>2, <3>3
  <2>9. CASE Release(t)
    <3>1. /\ pc[t] = "release" /\ pc'[t] = "done" /\ UNCHANGED <<call, mode, res, val>> /\ Live(t)
      BY <1>0, <2>9, ReleaseEffect
    <3>2. Effective(t)'
      BY <3>1 DEF Effective
    <3>3. CASE Effective(t)
      BY <2>4, <3>1, <3>2, <3>3
    <3>4. CASE ~Effective(t)
      <4>1. wset[t] = {} /\ Op(t) # "remove"
        BY <1>4, <3>1, <3>4, MemoryStep
      <4>2. AnswerOf(t)
        BY <3>1, <3>4 DEF Inv, Walks, WalkOf, Effective
      <4>3. Op(t) = "add" => ~res[t] /\ val[t] = None
        BY <1>0, <3>1, <4>1, <4>2 DEF AnswerOf, ShapeOf
      <4>. QED
        BY <2>5, <3>1, <3>2, <3>4, <4>1, <4>3
    <3>. QED
      BY <3>3, <3>4
  <2>. QED
    BY <2>1, <2>2, <2>6, <2>7, <2>8, <2>9 DEF Step
<1>. QED
  BY <1>2, <1>3, <1>4

\* A step keeps the values that threads own in the lists, and apart.
LEMMA OwnershipStep ==
  ASSUME Inv, NEW t \in Threads, Step(t)
  PROVE  Ownership'
<1>0. /\ \A u \in Threads : Owned(u) \subseteq Vals(mem)
      /\ \A a, b \in Threads : a # b => Owned(a) \intersect Owned(b) = {}
  BY DEF Inv, Ownership
<1>1. ASSUME NEW u \in Threads \ {t}
      PROVE  Owned(u)' = Owned(u)
  <2>1. Same(u)
    BY TypesStep DEF Inv
  <2>. QED
    BY <2>1 DEF Same, Owned, Effective, Op
<1>2. CASE Inserts(t)
  <2>1. Owned(t)' = {Arg(t)} /\ Vals(mem') = Vals(mem) \union {Arg(t)} /\ Arg(t) \notin Vals(mem)
    BY <1>2, OwnedStep, SoundStep
  <2>2. \A u \in Threads : Owned(u)' \subseteq Vals(mem')
    BY <1>0, <1>1, <2>1
  <2>3. ASSUME NEW a \in Threads, NEW b \in Threads, a # b
        PROVE  Owned(a)' \intersect Owned(b)' = {}
    BY <1>0, <1>1, <2>1, <2>3
  <2>. QED
    BY <2>2, <2>3 DEF Ownership
<1>3. CASE Removes(t)
  <2>1. /\ Owned(t)' = {} /\ Owned(t) = {Arg(t)} /\ Vals(mem') = Vals(mem) \ {Arg(t)}
    BY <1>3, OwnedStep, SoundStep
  <2>2. \A u \in Threads : Owned(u)' \subseteq Vals(mem')
    BY <1>0, <1>1, <2>1
  <2>3. ASSUME NEW a \in Threads, NEW b \in Threads, a # b
        PROVE  Owned(a)' \intersect Owned(b)' = {}
    BY <1>0, <1>1, <2>1, <2>3
  <2>. QED
    BY <2>2, <2>3 DEF Ownership
<1>4. CASE ~Inserts(t) /\ ~Removes(t)
  <2>1. Owned(t)' = Owned(t) /\ mem' = mem
    BY <1>4, OwnedStep, MemoryStep
  <2>2. \A u \in Threads : Owned(u)' = Owned(u)
    BY <1>1, <2>1
  <2>. QED
    BY <1>0, <2>1, <2>2 DEF Ownership
<1>. QED
  BY <1>2, <1>3, <1>4

\* A step keeps it that a remove that has run to its end has found its value.
LEMMA RemovedStep ==
  ASSUME Inv, NEW t \in Threads, Step(t)
  PROVE  Removed'
<1>0. /\ TypeOK /\ TypeOK' /\ ShapeOf(t) /\ RemovedOf(t)
  BY TypesStep DEF Inv, Shape, Removed
<1>1. ASSUME NEW u \in Threads \ {t}
      PROVE  RemovedOf(u)'
  <2>1. Same(u) /\ RemovedOf(u)
    BY TypesStep DEF Inv, Removed
  <2>. QED
    BY <2>1 DEF Same, RemovedOf, Op, Live
<1>2. RemovedOf(t)'
  <2>1. CASE Release(t)
    <3>1. pc[t] = "release" /\ Live(t) /\ UNCHANGED <<call, res>>
      BY <1>0, <2>1, ReleaseEffect
    <3>. QED
      BY <1>0, <3>1 DEF RemovedOf, Op
  <2>2. CASE ReadNext(t) \/ ReadVal(t)
    <3>1. Op(t)' = Op(t) /\ (Op(t) = "remove" => pc'[t] # "release")
      BY <1>0, <2>2, ReadEffect, ReadAnswer DEF Op
    <3>2. pc'[t] # "done"
      BY <2>2, SectionStep DEF InSection, Inv
    <3>. QED
      BY <3>1, <3>2 DEF RemovedOf
  <2>3. CASE Insert(t) \/ Unlink(t)
    <3>1. res'[t] = TRUE
      BY <1>0, <2>3 DEF Insert, Unlink, TypeOK
    <3>. QED
      BY <3>1 DEF RemovedOf
  <2>4. CASE (\E c \in Set!Calls : Call(t, c)) \/ Return(t) \/ Acquire(t) \/ TxAbort(t) \/ First(t)
    <3>1. pc'[t] \in {"acquire", "idle", "first", "next"}
      BY <1>0, <2>4 DEF Call, Return, Acquire, TxAbort, First, TypeOK
    <3>. QED
      BY <3>1 DEF RemovedOf
  <2>. QED
    BY <2>1, <2>2, <2>3, <2>4 DEF Step
<1>. QED
  BY <1>1, <1>2 DEF Removed

----------------------------------------------------------------------------
(* The theorems.                                                           *)

\* The invariant holds at the start.
LEMMA InvInit == Init => Inv
<1>. SUFFICES ASSUME Init
              PROVE  Inv
  OBVIOUS
<1>1. PICK S \in Initials : mem = Populated(S)
  BY DEF Init
<1>2. Sound(mem) /\ S \in SUBSET Values
  BY <1>1, PopulatedSound, MemoryAssumption DEF Values
<1>3. Multiplier \in Nat \ {0} /\ Range \in Nat \ {0} /\ MaxCalls \in Nat
  BY MemoryAssumption
<1>4. NoCall \in Set!Calls /\ NoCall.op = "contains" /\ Free \in Nodes
  BY <1>3 DEF NoCall, Set!Calls, Set!Lookups, Values, Free, Nodes
<1>5. /\ pc = [t \in Threads |-> "idle"] /\ call = [t \in Threads |-> NoCall]
      /\ mode = [t \in Threads |-> "tx"] /\ k = [t \in Threads |-> 1]
      /\ prev = [t \in Threads |-> Null] /\ curr = [t \in Threads |-> Null]
      /\ res = [t \in Threads |-> FALSE] /\ val = [t \in Threads |-> None]
      /\ buf = [t \in Threads |-> [d \in Data |-> Free]] /\ calls = 0
      /\ htm = [t \in Threads |-> "off"] /\ watch = [t \in Threads |-> {}]
      /\ rset = [t \in Threads |-> {}] /\ wset = [t \in Threads |-> {}]
  BY DEF Init, NoTransactions
<1>6. TypeOK
  BY <1>2, <1>3, <1>4, <1>5 DEF TypeOK, Sound, Memory
<1>7. Shape
  BY <1>5 DEF Shape, ShapeOf, InSection, Flagged, Op
<1>8. Exclusive /\ Walks /\ Removed
  BY <1>5 DEF Exclusive, Apart, Holding, Flagged, InSection, Walks, WalkOf, Removed, RemovedOf
<1>9. Ownership
  <2>1. \A t \in Threads : Owned(t) = {}
    BY <1>5 DEF Owned, Effective
  <2>. QED
    BY <2>1 DEF Ownership
<1>. QED
  BY <1>2, <1>6, <1>7, <1>8, <1>9 DEF Inv

\* Every step keeps the invariant.
LEMMA InvStep == Inv /\ [Next]_vars => Inv'
<1>. SUFFICES ASSUME Inv, [Next]_vars
              PROVE  Inv'
  OBVIOUS
<1>1. ASSUME NEW t \in Threads, Step(t)
      PROVE  Inv'
  <2>1. TypeOK' /\ Shape' /\ Exclusive'
    BY <1>1, TypesStep, ShapeStep, ExclusiveStep DEF Inv
  <2>2. Sound(mem)' /\ Ownership' /\ Removed'
    BY <1>1, SoundStep, OwnershipStep, RemovedStep
  <2>3. Walks'
    BY <1>1, WalkOwn, WalkOther DEF Walks
  <2>. QED
    BY <2>1, <2>2, <2>3 DEF Inv
<1>2. CASE UNCHANGED vars
  <2>. USE <1>2 DEF vars
  <2>1. TypeOK' /\ Sound(mem)'
    BY DEF Inv, TypeOK
  <2>2. Shape'
    BY DEF Inv, Shape, ShapeOf, Flagged, InSection, Op
  <2>3. Exclusive' /\ Removed'
    BY DEF Inv, Exclusive, Apart, Holding, Flagged, InSection, Removed, RemovedOf, Live, Op
  <2>4. Ownership'
    <3>1. ASSUME NEW t \in Threads
          PROVE  Owned(t)' = Owned(t)
      BY DEF Owned, Effective, Op
    <3>. QED
      BY <3>1 DEF Inv, Ownership
  <2>5. Walks'
    BY DEF Inv, Walks, WalkOf, Live, IsAbsent, IsFound, Pinned, Tracked, AnswerOf, Commit, Op, Arg
  <2>. QED
    BY <2>1, <2>2, <2>3, <2>4, <2>5 DEF Inv
<1>. QED
  BY <1>1, <1>2 DEF Next, Step, Finished

\* The invariant holds.
LEMMA InvHolds == Spec => []Inv
BY InvInit, InvStep, PTL DEF Spec

\* ListsSound is what Sound says of the memory, but for the order's gaps.
LEMMA SoundLists == ASSUME Sound(mem) PROVE ListsSound
<1>. DEFINE Used == {d \in Data : mem[d].used}
            Bucket(d) == IF d \in Sentinels THEN d ELSE Sentinel(mem[d].val)
<1>1. Used = UsedIn(mem) /\ \A d : Bucket(d) = BucketIn(mem, d)
  BY DEF UsedIn, BucketIn
<1>2. Sentinels \subseteq Used
  BY SentinelType DEF Sound, Rooted
<1>3. \A d \in Used : mem[d].next # Null =>
        /\ mem[d].next \in Used \ Sentinels
        /\ Bucket(mem[d].next) = Bucket(d) /\ mem[d].val < mem[mem[d].next].val
  BY <1>1 DEF Sound, Chained, Keyed
<1>4. \A d \in Used \ Sentinels : \E e \in Used : {f \in Used : mem[f].next = d} = {e}
  BY <1>1 DEF Sound, OneBefore, Keyed
<1>. QED
  BY <1>2, <1>3, <1>4 DEF ListsSound

\* WellFormed: whatever the threads do at once, every variable keeps its type
\* and the lists hold together in memory, with nothing lost and nothing freed
\* still linked.
THEOREM ListsHold == Spec => []WellFormed
<1>1. Inv => WellFormed
  BY SoundLists DEF Inv, WellFormed
<1>. QED
  BY <1>1, InvHolds, PTL

\* NoFreedVisited: no section that goes on, in a transaction, under the lock or
\* under a flag, stands on a node that another thread has freed.
THEOREM NoUseAfterFree == Spec => []NoFreedVisited
<1>1. ASSUME Inv, NEW t \in Threads, Live(t)
      PROVE  /\ pc[t] = "next" => View(t, prev[t]).used
             /\ pc[t] = "val" => View(t, curr[t]).used
             /\ pc[t] \in {"insert", "unlink"} => View(t, prev[t]).used
             /\ pc[t] = "unlink" => View(t, curr[t]).used
  <2>1. ShapeOf(t) /\ WalkOf(t) /\ Sound(mem) /\ Arg(t) \in Values
    BY <1>1, ArgType DEF Inv, Shape, Walks
  <2>2. pc[t] \in {"next", "val", "insert", "unlink"} => \A d : View(t, d) = mem[d]
    BY <2>1 DEF ShapeOf, View
  <2>3. pc[t] \in {"next", "val", "insert", "unlink"} => At(mem, prev[t], Arg(t))
    BY <1>1, <2>1 DEF WalkOf, IsAbsent, IsFound, Absent, Found
  <2>4. pc[t] = "val" => curr[t] \in UsedIn(mem)
    <3>1. ASSUME pc[t] = "val"
          PROVE  curr[t] \in Data /\ mem[prev[t]].next = curr[t]
      BY <1>1, <2>1, <3>1 DEF WalkOf, ShapeOf
    <3>2. ASSUME pc[t] = "val"
          PROVE  curr[t] \in UsedIn(mem)
      BY <2>1, <2>3, <3>1, <3>2, SentinelType DEF At, Sound, Chained, Keyed
    <3>. QED
      BY <3>2
  <2>5. pc[t] = "unlink" => curr[t] \in UsedIn(mem)
    BY <1>1, <2>1, FoundMeans DEF WalkOf, IsFound, Keyed
  <2>. QED
    BY <2>2, <2>3, <2>4, <2>5 DEF At, UsedIn
<1>2. Inv => NoFreedVisited
  BY <1>1 DEF NoFreedVisited
<1>. QED
  BY <1>2, InvHolds, PTL

\* RemoveFinds: a thread that removes the value its own add returned finds it,
\* whatever the others add and remove meanwhile.
THEOREM RemovalsFind == Spec => []RemoveFinds
<1>1. Inv => RemoveFinds
  BY DEF Inv, Removed, RemovedOf, RemoveFinds, Op
<1>. QED
  BY <1>1, InvHolds, PTL

----------------------------------------------------------------------------
(* The hash map implements the set.                                        *)

\* The value that decides a call's result.
LEMMA LastArg ==
  ASSUME NEW c \in Set!Calls
  PROVE  Set!Last(c) = IF c.op = "contains" THEN c.args[Multiplier] ELSE c.args[1]
<1>1. CASE c \in Set!Updates
  <2>1. c.args \in [1..1 -> Values] /\ c.op \in {"add", "remove"}
    BY <1>1 DEF Set!Updates
  <2>2. Len(c.args) = 1
    BY <2>1
  <2>. QED
    BY <2>1, <2>2 DEF Set!Last
<1>2. CASE c \in Set!Lookups
  <2>1. c.args \in [1..Multiplier -> Values] /\ c.op = "contains"
    BY <1>2 DEF Set!Lookups
  <2>2. Len(c.args) = Multiplier
    BY <2>1, MemoryAssumption
  <2>. QED
    BY <2>1, <2>2 DEF Set!Last
<1>. QED
  BY <1>1, <1>2 DEF Set!Calls

\* The abstract variables: how far each call is, its result, and the set
Phase(t) == IF pc[t] = "idle" THEN "idle" ELSE IF Effective(t) THEN "done" ELSE "called"
phaseBar == [t \in Threads |-> Phase(t)]
resultBar == [t \in Threads |-> Effective(t) /\ res[t]]
setBar == {mem[d].val : d \in {e \in Data \ Sentinels : mem[e].used}}

\* The abstract set is the values in the lists.
LEMMA SetBar == setBar = Vals(mem) /\ setBar' = Vals(mem')
<1>1. ASSUME NEW m
      PROVE  {e \in Data \ Sentinels : m[e].used} = Keyed(m)
  BY DEF Keyed, UsedIn
<1>. QED
  BY <1>1 DEF setBar, Vals

\* A step changes the abstract state of its own thread only.
LEMMA OneThread ==
  ASSUME Inv, NEW t \in Threads, Step(t)
  PROVE  /\ phaseBar' = [phaseBar EXCEPT ![t] = Phase(t)']
         /\ resultBar' = [resultBar EXCEPT ![t] = (Effective(t) /\ res[t])']
         /\ phaseBar[t] = Phase(t) /\ resultBar[t] = (Effective(t) /\ res[t])
<1>1. ASSUME NEW u \in Threads \ {t}
      PROVE  Phase(u)' = Phase(u) /\ (Effective(u) /\ res[u])' = (Effective(u) /\ res[u])
  <2>1. Same(u)
    BY TypesStep DEF Inv
  <2>. QED
    BY <2>1 DEF Same, Phase, Effective
<1>. QED
  BY <1>1 DEF phaseBar, resultBar

\* What an operation answers as it takes effect
LEMMA EffectAnswer ==
  ASSUME Inv, NEW t \in Threads, Step(t), ~Effective(t), Effective(t)'
  PROVE  /\ pc[t] # "idle" /\ pc'[t] # "idle" /\ call' = call
         /\ Op(t) = "contains" =>
              k[t] = Multiplier /\ mem' = mem /\ res'[t] = (Arg(t) \in Vals(mem))
         /\ Op(t) = "add" => Inserts(t) \/ (mem' = mem /\ ~res'[t] /\ Arg(t) \in Vals(mem))
         /\ Op(t) = "remove" => Removes(t)
<1>0. /\ TypeOK /\ TypeOK' /\ ShapeOf(t) /\ ShapeOf(t)' /\ WalkOf(t) /\ Sound(mem)
      /\ Arg(t) \in Values
  BY TypesStep, ShapeOwn, ArgType DEF Inv, Shape, Walks
<1>1. CASE ReadNext(t) \/ ReadVal(t)
  <2>1. /\ pc[t] \in {"next", "val"} /\ call' = call /\ mem' = mem
    BY <1>0, <1>1, ReadEffect
  <2>2. pc'[t] = "release"
    BY <1>1, SectionStep DEF Effective, InSection, Inv
  <2>. QED
    BY <1>1, <2>1, <2>2, ReadAnswer
<1>2. CASE Insert(t) \/ Unlink(t)
  <2>1. /\ pc[t] \in {"insert", "unlink"} /\ call' = call /\ mode' = mode /\ pc'[t] = "release"
    BY <1>0, <1>2 DEF Insert, Unlink, Write, TypeOK
  <2>2. htm[t] # "on" /\ Op(t) # "contains"
    BY <1>0, <2>1 DEF Effective, ShapeOf
  <2>3. Inserts(t) \/ Removes(t)
    BY <1>2, <2>2, UpdateInPlace
  <2>. QED
    BY <2>1, <2>2, <2>3 DEF Inserts, Removes
<1>3. CASE Release(t)
  <2>1. /\ pc[t] = "release" /\ pc'[t] = "done" /\ Live(t) /\ call' = call /\ res' = res
        /\ mem' = Commit(t)
    BY <1>0, <1>3, ReleaseEffect
  <2>2. wset[t] = {} => mem' = mem
    BY <1>0, <1>3, ReleaseEffect
  <2>3. AnswerOf(t)
    BY <1>0, <2>1 DEF WalkOf, Effective
  <2>4. CASE Op(t) = "contains"
    <3>1. wset[t] = {} /\ k[t] = Multiplier
      BY <1>0, <2>1, <2>4 DEF ShapeOf
    <3>2. IF res[t] THEN IsFound(t) ELSE IsAbsent(t)
      BY <2>3, <2>4 DEF AnswerOf
    <3>3. res[t] = (Arg(t) \in Vals(mem))
      <4>1. res[t] \in BOOLEAN
        BY <1>0 DEF TypeOK
      <4>. QED
        BY <1>0, <3>2, <4>1, FoundMeans, AbsentMeans DEF IsFound, IsAbsent
    <3>. QED
      BY <2>1, <2>2, <2>4, <3>1, <3>3
  <2>5. CASE Op(t) = "add" /\ ~res[t]
    <3>1. IsFound(t) /\ mem' = mem
      BY <2>2, <2>3, <2>5 DEF AnswerOf
    <3>2. Arg(t) \in Vals(mem)
      BY <1>0, <3>1, FoundMeans DEF IsFound
    <3>. QED
      BY <2>1, <2>5, <3>1, <3>2
  <2>6. CASE Op(t) = "add" /\ res[t]
    BY <2>1, <2>3, <2>6 DEF AnswerOf, Inserts
  <2>7. CASE Op(t) = "remove"
    <3>1. res[t]
      BY <2>1, <2>7 DEF Inv, Removed, RemovedOf
    <3>. QED
      BY <2>1, <2>3, <2>7, <3>1 DEF AnswerOf, Removes
  <2>8. Op(t) \in {"add", "remove", "contains"}
    BY <1>0, ArgType
  <2>. QED
    BY <2>4, <2>5, <2>6, <2>7, <2>8
<1>4. CASE (\E c \in Set!Calls : Call(t, c)) \/ Return(t) \/ Acquire(t) \/ TxAbort(t) \/ First(t)
  <2>1. pc'[t] \in {"acquire", "idle", "first", "next"}
    BY <1>0, <1>4 DEF Call, Return, Acquire, TxAbort, First, TypeOK
  <2>. QED
    BY <2>1 DEF Effective
<1>. QED
  BY <1>1, <1>2, <1>3, <1>4 DEF Step

\* The step at which a call takes effect is the set's.
LEMMA TakesEffect ==
  ASSUME Inv, NEW t \in Threads, Step(t), ~Effective(t), Effective(t)'
  PROVE  Set!TakeEffect(t)
<1>0. TypeOK /\ TypeOK' /\ ShapeOf(t) /\ Op(t) \in {"add", "remove", "contains"}
  BY TypesStep, ArgType DEF Inv, Shape
<1>1. /\ pc[t] # "idle" /\ pc'[t] # "idle" /\ call' = call
      /\ Op(t) = "contains" =>
           k[t] = Multiplier /\ mem' = mem /\ res'[t] = (Arg(t) \in Vals(mem))
      /\ Op(t) = "add" => Inserts(t) \/ (mem' = mem /\ ~res'[t] /\ Arg(t) \in Vals(mem))
      /\ Op(t) = "remove" => Removes(t)
  BY EffectAnswer
<1>2. Set!Last(call[t]) = Arg(t)
  <2>1. call[t] \in Set!Calls
    BY <1>0 DEF TypeOK
  <2>2. Op(t) # "contains" => Arg(t) = call[t].args[1]
    BY <1>0, ArgType
  <2>3. Op(t) = "contains" => Arg(t) = call[t].args[Multiplier]
    BY <1>1 DEF Arg
  <2>. QED
    BY <2>1, <2>2, <2>3, LastArg DEF Op
<1>3. phaseBar[t] = "called" /\ phaseBar' = [phaseBar EXCEPT ![t] = "done"]
  BY <1>1, OneThread DEF Phase
<1>4. resultBar' = [resultBar EXCEPT ![t] = res'[t]]
  <2>1. (Effective(t) /\ res[t])' = res'[t]
    BY <1>0 DEF TypeOK
  <2>. QED
    BY <2>1, OneThread
<1>5. /\ Op(t) = "add" => setBar' = setBar \union {Arg(t)} /\ res'[t] = (Arg(t) \notin setBar)
      /\ Op(t) = "remove" => setBar' = setBar \ {Arg(t)} /\ res'[t] = (Arg(t) \in setBar)
      /\ Op(t) = "contains" => setBar' = setBar /\ res'[t] = (Arg(t) \in setBar)
  <2>1. setBar = Vals(mem) /\ setBar' = Vals(mem') /\ res'[t] \in BOOLEAN
    BY <1>0, SetBar DEF TypeOK
  <2>2. ASSUME Inserts(t)
        PROVE  Vals(mem') = Vals(mem) \union {Arg(t)} /\ Arg(t) \notin Vals(mem) /\ res'[t]
    BY <2>2, SoundStep DEF Inserts
  <2>3. ASSUME Removes(t)
        PROVE  Vals(mem') = Vals(mem) \ {Arg(t)} /\ Arg(t) \in Vals(mem) /\ res'[t]
    BY <2>3, SoundStep DEF Removes
  <2>4. Op(t) = "add" => setBar' = setBar \union {Arg(t)} /\ res'[t] = (Arg(t) \notin setBar)
    BY <1>1, <2>1, <2>2
  <2>5. Op(t) = "remove" => setBar' = setBar \ {Arg(t)} /\ res'[t] = (Arg(t) \in setBar)
    BY <1>1, <2>1, <2>3
  <2>6. Op(t) = "contains" => setBar' = setBar /\ res'[t] = (Arg(t) \in setBar)
    BY <1>1, <2>1
  <2>. QED
    BY <2>4, <2>5, <2>6
<1>. DEFINE v == Set!Last(call[t])
<1>6. /\ Op(t) = "add" =>
           setBar' = setBar \union {v} /\ resultBar' = [resultBar EXCEPT ![t] = v \notin setBar]
      /\ Op(t) = "remove" =>
           setBar' = setBar \ {v} /\ resultBar' = [resultBar EXCEPT ![t] = v \in setBar]
      /\ Op(t) = "contains" =>
           setBar' = setBar /\ resultBar' = [resultBar EXCEPT ![t] = v \in setBar]
  BY <1>2, <1>4, <1>5
<1>. HIDE DEF v
<1>7. (CASE call[t].op = "add" ->
             setBar' = setBar \union {v} /\ resultBar' = [resultBar EXCEPT ![t] = v \notin setBar]
        [] call[t].op = "remove" ->
             setBar' = setBar \ {v} /\ resultBar' = [resultBar EXCEPT ![t] = v \in setBar]
        [] call[t].op = "contains" ->
             setBar' = setBar /\ resultBar' = [resultBar EXCEPT ![t] = v \in setBar])
  BY <1>0, <1>6 DEF Op
<1>. QED
  BY <1>1, <1>3, <1>7 DEF Set!TakeEffect, phaseBar, Phase, Effective, resultBar, setBar, v

\* Every step is a step of the set, or is not seen.
LEMMA SetStep ==
  ASSUME Inv, NEW t \in Threads, Step(t)
  PROVE  Set!Next \/ UNCHANGED Set!vars
<1>0. /\ TypeOK /\ TypeOK' /\ ShapeOf(t) /\ setBar = Vals(mem) /\ setBar' = Vals(mem')
  BY TypesStep, SetBar DEF Inv, Shape
<1>1. ASSUME NEW c \in Set!Calls, Call(t, c)
      PROVE  Set!Call(t)
  <2>1. /\ pc[t] = "idle" /\ pc'[t] = "acquire" /\ mem' = mem /\ res' = res
        /\ call' = [call EXCEPT ![t] = c]
    BY <1>0, <1>1 DEF Call, TypeOK
  <2>2. phaseBar[t] = "idle" /\ phaseBar' = [phaseBar EXCEPT ![t] = "called"]
    BY <2>1, OneThread DEF Phase, Effective
  <2>3. resultBar' = resultBar
    <3>1. ~Effective(t) /\ ~Effective(t)'
      BY <2>1 DEF Effective
    <3>2. resultBar' = [resultBar EXCEPT ![t] = FALSE] /\ resultBar[t] = FALSE
      BY <3>1, OneThread
    <3>. QED
      BY <3>2 DEF resultBar
  <2>4. setBar' = setBar
    BY <1>0, <2>1
  <2>. QED
    BY <1>1, <2>1, <2>2, <2>3, <2>4
       DEF Set!Call, phaseBar, Phase, Effective, resultBar, setBar
<1>2. ASSUME Return(t)
      PROVE  Set!Return(t)
  <2>1. pc[t] = "done" /\ pc'[t] = "idle" /\ mem' = mem /\ call' = call
    BY <1>0, <1>2 DEF Return, TypeOK
  <2>2. phaseBar[t] = "done" /\ phaseBar' = [phaseBar EXCEPT ![t] = "idle"]
    BY <2>1, OneThread DEF Phase, Effective
  <2>3. resultBar' = [resultBar EXCEPT ![t] = FALSE]
    <3>1. ~Effective(t)'
      BY <2>1 DEF Effective
    <3>. QED
      BY <3>1, OneThread
  <2>4. setBar' = setBar
    BY <1>0, <2>1
  <2>. QED
    BY <2>1, <2>2, <2>3, <2>4 DEF Set!Return, phaseBar, Phase, Effective, resultBar, setBar
<1>3. ASSUME Acquire(t) \/ TxAbort(t) \/ Release(t) \/ First(t) \/ ReadNext(t) \/ ReadVal(t)
             \/ Insert(t) \/ Unlink(t)
      PROVE  Set!TakeEffect(t) \/ UNCHANGED Set!vars
  <2>1. pc[t] \notin {"idle", "done"} /\ pc'[t] # "idle" /\ call' = call
    <3>1. CASE Acquire(t) \/ TxAbort(t)
      BY <1>0, <3>1 DEF Acquire, TxAbort, TypeOK, ShapeOf, InSection
    <3>2. CASE Release(t)
      BY <1>0, <3>2, ReleaseEffect
    <3>3. CASE First(t) \/ ReadNext(t) \/ ReadVal(t) \/ Insert(t) \/ Unlink(t)
      <4>1. InSection(t) /\ InSection(t)'
        BY <3>3, SectionStep DEF Inv
      <4>2. call' = call
        BY <3>3 DEF First, ReadNext, ReadVal, Read, Insert, Unlink, Write
      <4>. QED
        BY <4>1, <4>2 DEF InSection
    <3>. QED
      BY <1>3, <3>1, <3>2, <3>3
  <2>2. CASE ~Effective(t) /\ Effective(t)'
    BY <2>2, TakesEffect
  <2>3. CASE ~Effective(t) /\ ~Effective(t)'
    <3>1. mem' = mem
      BY <2>3, MemoryStep DEF Inserts, Removes
    <3>2. /\ phaseBar' = [phaseBar EXCEPT ![t] = "called"] /\ phaseBar[t] = "called"
          /\ resultBar' = [resultBar EXCEPT ![t] = FALSE] /\ resultBar[t] = FALSE
      <4>1. Phase(t) = "called" /\ Phase(t)' = "called"
        BY <2>1, <2>3 DEF Phase
      <4>2. (Effective(t) /\ res[t]) = FALSE /\ (Effective(t) /\ res[t])' = FALSE
        BY <2>3
      <4>. QED
        BY <4>1, <4>2, OneThread
    <3>3. phaseBar' = phaseBar /\ resultBar' = resultBar
      BY <3>2 DEF phaseBar, resultBar
    <3>. QED
      BY <1>0, <2>1, <3>1, <3>3
         DEF Set!vars, phaseBar, Phase, Effective, resultBar, setBar
  <2>4. CASE Effective(t)
    <3>1. pc[t] = "release" /\ mode[t] = "lock" /\ htm[t] = "off"
      BY <1>0, <2>1, <2>4 DEF Effective, ShapeOf
    <3>2. Release(t)
      BY <1>3, <3>1 DEF Acquire, TxAbort, First, ReadNext, ReadVal, Insert, Unlink
    <3>3. pc'[t] = "done" /\ res' = res
      BY <1>0, <3>2, ReleaseEffect
    <3>4. mem' = mem
      BY <2>4, MemoryStep DEF Inserts, Removes
    <3>5. Effective(t)'
      BY <3>3 DEF Effective
    <3>6. /\ phaseBar' = [phaseBar EXCEPT ![t] = "done"] /\ phaseBar[t] = "done"
          /\ resultBar' = [resultBar EXCEPT ![t] = res[t]] /\ resultBar[t] = res[t]
      <4>1. Phase(t) = "done" /\ Phase(t)' = "done"
        BY <2>1, <2>4, <3>5 DEF Phase
      <4>2. (Effective(t) /\ res[t]) = res[t] /\ (Effective(t) /\ res[t])' = res[t]
        BY <1>0, <2>4, <3>3, <3>5 DEF TypeOK
      <4>. QED
        BY <4>1, <4>2, OneThread
    <3>7. phaseBar' = phaseBar /\ resultBar' = resultBar
      BY <3>6 DEF phaseBar, resultBar
    <3>. QED
      BY <1>0, <2>1, <3>4, <3>7
         DEF Set!vars, phaseBar, Phase, Effective, resultBar, setBar
  <2>. QED
    BY <2>2, <2>3, <2>4
<1>. QED
  BY <1>1, <1>2, <1>3 DEF Step, Set!Next

\* ImplementsSet: every add, remove and contains takes effect at one moment
\* between its call and its return, on one set of values.
THEOREM Refinement == Spec => ImplementsSet
<1>1. Init => Set!Init
  <2>. SUFFICES ASSUME Init
                PROVE  Set!Init
    OBVIOUS
  <2>1. /\ pc = [t \in Threads |-> "idle"] /\ call = [t \in Threads |-> NoCall]
        /\ mode = [t \in Threads |-> "tx"] /\ res = [t \in Threads |-> FALSE]
    BY DEF Init
  <2>2. TypeOK /\ Sound(mem)
    BY InvInit DEF Inv
  <2>3. call \in [Threads -> Set!Calls]
    BY <2>2 DEF TypeOK
  <2>4. setBar \in SUBSET Values
    BY <2>2, SetBar DEF Vals, Sound, Valued
  <2>5. phaseBar = [t \in Threads |-> "idle"] /\ resultBar = [t \in Threads |-> FALSE]
    BY <2>1 DEF phaseBar, Phase, resultBar, Effective
  <2>. QED
    BY <2>3, <2>4, <2>5 DEF Set!Init, phaseBar, Phase, Effective, resultBar, setBar
<1>2. Inv /\ [Next]_vars => [Set!Next]_Set!vars
  <2>1. ASSUME UNCHANGED vars
        PROVE  UNCHANGED Set!vars
    BY <2>1 DEF vars, Set!vars
  <2>. QED
    BY <2>1, SetStep DEF Next, Step, Finished
<1>. QED
  BY <1>1, <1>2, InvHolds, PTL DEF Spec, ImplementsSet, Set!Spec
=============================================================================
