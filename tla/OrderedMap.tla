----------------------------- MODULE OrderedMap -----------------------------
(***************************************************************************)
(* What the TPC-C tables take their trees for: a map from keys to rows.    *)
(***************************************************************************)
EXTENDS Integers

CONSTANTS Keys, Rows
VARIABLE map    \* pairs of a key and its row

Init == map = {}
Without(k) == {p \in map : p[1] # k}
Put(k, v) == map' = Without(k) \union {<<k, v>>}
Delete(k) == Without(k) # map /\ map' = Without(k)
Next == \E k \in Keys : Delete(k) \/ \E v \in Rows : Put(k, v)
Spec == Init /\ [][Next]_map

Before(k) == {p[1] : p \in {q \in map : q[1] < k}}
\* The last present key before k, zero when there is none
LastBefore(k) ==
  IF Before(k) = {} THEN 0 ELSE CHOOSE j \in Before(k) : \A i \in Before(k) : i <= j
=============================================================================
