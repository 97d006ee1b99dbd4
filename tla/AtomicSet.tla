----------------------------- MODULE AtomicSet -----------------------------
(***************************************************************************)
(* What the hash map of benchmarks/datastructures promises its threads: a  *)
(* set of values on which every call takes effect at one moment between    *)
(* the call and its return.  A call of contains looks up several values at *)
(* that moment and returns the answer for the last one.                    *)
(***************************************************************************)
EXTENDS Integers, Sequences

CONSTANTS Threads, Values, Multiplier
VARIABLES phase, call, set, result

vars == <<phase, call, set, result>>

Updates == [op : {"add", "remove"}, args : [1..1 -> Values]]
Lookups == [op : {"contains"}, args : [1..Multiplier -> Values]]
Calls == Updates \union Lookups
Last(c) == c.args[Len(c.args)]

Init ==
  /\ phase = [t \in Threads |-> "idle"]
  /\ call \in [Threads -> Calls]
  /\ set \in SUBSET Values
  /\ result = [t \in Threads |-> FALSE]

Call(t) ==
  /\ phase[t] = "idle"
  /\ phase' = [phase EXCEPT ![t] = "called"]
  /\ \E c \in Calls : call' = [call EXCEPT ![t] = c]
  /\ UNCHANGED <<set, result>>

TakeEffect(t) ==
  /\ phase[t] = "called"
  /\ phase' = [phase EXCEPT ![t] = "done"]
  /\ LET v == Last(call[t])
     IN  CASE call[t].op = "add" ->
                set' = set \union {v} /\ result' = [result EXCEPT ![t] = v \notin set]
           [] call[t].op = "remove" ->
                set' = set \ {v} /\ result' = [result EXCEPT ![t] = v \in set]
           [] call[t].op = "contains" ->
                set' = set /\ result' = [result EXCEPT ![t] = v \in set]
  /\ UNCHANGED call

Return(t) ==
  /\ phase[t] = "done"
  /\ phase' = [phase EXCEPT ![t] = "idle"]
  /\ result' = [result EXCEPT ![t] = FALSE]
  /\ UNCHANGED <<call, set>>

Next == \E t \in Threads : Call(t) \/ TakeEffect(t) \/ Return(t)

Spec == Init /\ [][Next]_vars
=============================================================================
