------------------------------ MODULE Backends ------------------------------
(***************************************************************************)
(* The backends a program can be built with, side by side: the build       *)
(* (make -DBACKEND) picks one lock, which keeps the same promise as the    *)
(* others to the sections it guards.  backend, chosen at the start, never  *)
(* changes.  The program's part is the same for all: pc, op, done, idx,    *)
(* seen, mem, commits; each lock uses its own words of the rest.           *)
(***************************************************************************)
EXTENDS Integers

CONSTANTS N, NData, MaxTries, MaxOps, Builds  \* Builds: the backends checked

ASSUME ConstantsAssumption ==
  /\ N \in Nat \ {0} /\ NData \in Nat \ {0} /\ MaxTries \in Nat /\ MaxOps \in Nat
  /\ Builds \subseteq {"2.0-NoWait", "10.04-RHTMRW", "10.1-RHTMO",
                       "1.0-htm-sgl", "brlock", "rwl"}

VARIABLES backend, pc, op, done, tries, mode, idx, waited, seen, writer_lock,
          reader_locks, clocks_w, is_waiting, mem, commits, htm, watch, rset, wset

\* readers without transactions; readers that wait for the last writer; waiting
\* readers that share a target.  SpRWLProof is SpRWL with its theorems.
NoWait == INSTANCE SpRWLProof WITH ReaderWait <- "none", ReadersTryHTM <- FALSE,
            NonVariant <- TRUE, Indicator <- "flags", RetryPolicy <- 1
Plain == INSTANCE SpRWLProof WITH ReaderWait <- "plain", ReadersTryHTM <- TRUE,
            NonVariant <- FALSE, Indicator <- "flags", RetryPolicy <- 0
Sync == INSTANCE SpRWLProof WITH ReaderWait <- "sync", ReadersTryHTM <- TRUE,
            NonVariant <- TRUE, Indicator <- "flags", RetryPolicy <- 2
Sgl == INSTANCE HTMLock WITH RetryPolicy <- 1
Br == INSTANCE BRLock WITH RetryPolicy <- 1
Rw == INSTANCE RWLock WITH RetryPolicy <- 1

vars == <<backend, Plain!vars>>
Threads == Plain!Threads
Data == Plain!Data

Init == backend \in Builds /\ Plain!Init

\* What a lock has no use for
Waits == <<waited, clocks_w, is_waiting>>
SglIdle == <<Waits, reader_locks>>
BrIdle == <<Waits, tries, mode>>

SpRWLNext(t) ==
  \/ /\ backend = "2.0-NoWait"
     /\ \/ \E o \in {"read", "write"} : NoWait!Start(t, o)
        \/ NoWait!TxAbort(t) \/ NoWait!Run(t)
  \/ /\ backend = "10.04-RHTMRW"
     /\ \/ \E o \in {"read", "write"} : Plain!Start(t, o)
        \/ Plain!TxAbort(t) \/ Plain!Run(t)
  \/ /\ backend = "10.1-RHTMO"
     /\ \/ \E o \in {"read", "write"} : Sync!Start(t, o)
        \/ Sync!TxAbort(t) \/ Sync!Run(t)

SimpleNext(t) ==
  \/ /\ backend = "1.0-htm-sgl"
     /\ \/ \E o \in {"read", "write"} : Sgl!Start(t, o)
        \/ Sgl!TxAbort(t) \/ Sgl!Run(t)
     /\ UNCHANGED SglIdle
  \/ /\ backend = "brlock"
     /\ (\E o \in {"read", "write"} : Br!Start(t, o)) \/ Br!Run(t)
     /\ UNCHANGED BrIdle
  \/ /\ backend = "rwl"
     /\ (\E o \in {"read", "write"} : Rw!Start(t, o)) \/ Rw!Run(t)
     /\ UNCHANGED BrIdle

Next == \/ /\ \E t \in Threads : SpRWLNext(t) \/ SimpleNext(t)
           /\ UNCHANGED backend
        \/ Plain!Finished /\ UNCHANGED backend

Spec == Init /\ [][Next]_vars

\* The operating system runs every thread.  Stated for the builds that
\* EveryOpEnds is about.
RunFair(t) ==
  /\ \/ backend = "10.1-RHTMO" /\ Sync!Run(t)
     \/ backend = "brlock" /\ Br!Run(t) /\ UNCHANGED BrIdle
     \/ backend = "rwl" /\ Rw!Run(t) /\ UNCHANGED BrIdle
  /\ UNCHANGED backend
FairSpec == Spec /\ \A t \in Threads : WF_vars(RunFair(t))

----------------------------------------------------------------------------
(* Properties: what the program relies on, whichever lock it was built with. *)

Over(t) ==    \* the section has taken effect
  pc[t] \in {"w_unclock", "w_done", "w_unflag", "w_open", "r_clear", "r_done"}
\* Reads in place: without a transaction, and past the acquire
ReadsBare(t) == pc[t] \in {"r_read", "r_clear"} /\ htm[t] = "off"

\* No step changes the data while a section reads them in place: writers that
\* write in place wait for its flag or mutex, and transactions do not commit.
ReadersUndisturbed ==
  [][(\E t \in Threads : ReadsBare(t)) => mem' = mem]_vars

\* Every section of a program built with one of the simpler locks ends: a
\* writer that gathers the readers' mutexes one by one, and readers and other
\* writers behind it, never wait for ever.  So it does where readers take over
\* each other's targets and leave transactions open.
EveryOpEnds ==
  \A t \in Threads :
    backend \in {"10.1-RHTMO", "brlock", "rwl"} /\ pc[t] # "idle" ~> pc[t] = "idle"

phaseBar == [t \in Threads |-> IF pc[t] = "idle" THEN "idle"
                               ELSE IF Over(t) THEN "done" ELSE "called"]
gotBar == [t \in Threads |-> IF Over(t) THEN seen[t] ELSE [d \in Data |-> 0]]
Atomic == INSTANCE AtomicSections
            WITH phase <- phaseBar, kind <- op, value <- commits, got <- gotBar
\* Whichever backend the build picks implements atomic sections: a program that
\* is right with one of them is right with each.
ImplementsAtomic == Atomic!Spec
=============================================================================
