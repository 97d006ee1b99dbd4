--------------------------- MODULE AtomicSections ---------------------------
(***************************************************************************)
(* What every lock under backends/ promises the code between TM_BEGIN_EXT  *)
(* and TM_END: each section takes effect at one moment between its call    *)
(* and its return.  The data are NData words that every write section      *)
(* increments, so one number, value, stands for them all; a section got    *)
(* the value of that moment, for each word.                                *)
(***************************************************************************)
EXTENDS Naturals

CONSTANTS Threads, Data
VARIABLES phase, kind, value, got

vars == <<phase, kind, value, got>>

Nothing == [d \in Data |-> 0]

Init ==
  /\ phase = [t \in Threads |-> "idle"]
  /\ kind \in [Threads -> {"read", "write"}]
  /\ value = 0
  /\ got = [t \in Threads |-> Nothing]

Call(t) ==
  /\ phase[t] = "idle"
  /\ phase' = [phase EXCEPT ![t] = "called"]
  /\ \E k \in {"read", "write"} : kind' = [kind EXCEPT ![t] = k]
  /\ UNCHANGED <<value, got>>

TakeEffect(t) ==
  /\ phase[t] = "called"
  /\ phase' = [phase EXCEPT ![t] = "done"]
  /\ got' = [got EXCEPT ![t] = [d \in Data |-> value]]
  /\ value' = IF kind[t] = "write" THEN value + 1 ELSE value
  /\ UNCHANGED kind

Return(t) ==
  /\ phase[t] = "done"
  /\ phase' = [phase EXCEPT ![t] = "idle"]
  /\ got' = [got EXCEPT ![t] = Nothing]
  /\ UNCHANGED <<kind, value>>

Next == \E t \in Threads : Call(t) \/ TakeEffect(t) \/ Return(t)

Spec == Init /\ [][Next]_vars
=============================================================================
