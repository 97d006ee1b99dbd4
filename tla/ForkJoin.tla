------------------------------ MODULE ForkJoin ------------------------------
(***************************************************************************)
(* What thread_start of backends/common/thread.c promises its caller: every *)
(* thread of the pool runs the function once between the call and the       *)
(* return, and not otherwise.                                               *)
(***************************************************************************)
EXTENDS FiniteSets

CONSTANT Threads
VARIABLES open,     \* thread_start is under way
          pending   \* the threads that have still to run the function

vars == <<open, pending>>

Init == open = FALSE /\ pending = {}

Start == ~open /\ open' = TRUE /\ pending' = Threads

RunFunction(t) ==
  /\ open /\ t \in pending
  /\ pending' = pending \ {t}
  /\ UNCHANGED open

Return == open /\ pending = {} /\ open' = FALSE /\ UNCHANGED pending

Next == Start \/ Return \/ \E t \in Threads : RunFunction(t)

Spec == Init /\ [][Next]_vars
=============================================================================
