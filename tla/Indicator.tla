----------------------------- MODULE Indicator -----------------------------
(***************************************************************************)
(* What the readers' indicator of 10.2-RHTMS promises the lock: snzi_inc   *)
(* and snzi_dec each take effect at one moment between their call and      *)
(* their return, and snzi_query's answer, busy, says at every moment       *)
(* whether the number of those inside is not zero.                         *)
(***************************************************************************)
EXTENDS FiniteSets

CONSTANT Threads
VARIABLES phase,    \* "out", "entering", "in" or "leaving"
          counted,  \* the threads counted in
          busy      \* what snzi_query answers

vars == <<phase, counted, busy>>

Init ==
  /\ phase = [t \in Threads |-> "out"]
  /\ counted = {}
  /\ busy = FALSE

Move(t, from, to) ==
  /\ phase[t] = from
  /\ phase' = [phase EXCEPT ![t] = to]
  /\ UNCHANGED <<counted, busy>>

Call(t) == Move(t, "out", "entering") \/ Move(t, "in", "leaving")

Return(t) == \/ t \in counted /\ Move(t, "entering", "in")
             \/ t \notin counted /\ Move(t, "leaving", "out")

\* Arrivals in, then departures out, take effect.
TakeEffect(in, out) ==
  /\ \A t \in in : phase[t] = "entering" /\ t \notin counted
  /\ \A t \in out : phase[t] = "leaving" /\ t \in counted
  /\ counted' = (counted \union in) \ out
  /\ busy' = (counted' # {})
  /\ UNCHANGED phase

Next == \/ \E t \in Threads : Call(t) \/ Return(t)
        \/ \E in, out \in SUBSET Threads : TakeEffect(in, out)

Spec == Init /\ [][Next]_vars
=============================================================================
