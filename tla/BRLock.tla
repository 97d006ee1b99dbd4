------------------------------- MODULE BRLock -------------------------------
(***************************************************************************)
(* The big reader lock of backends/brlock/spec.h: a mutex per thread, which*)
(* its thread takes to read, and writer_lock.  A writer takes writer_lock  *)
(* and then every mutex, its own included, in order.  Each mutex is a word *)
(* that a compare-and-swap takes from 0 to 1; looking at it before, in the *)
(* spin loop, changes nothing.                                             *)
(***************************************************************************)
EXTENDS Sections

VARIABLES writer_lock, reader_locks

Start(t, o) ==
  /\ Begin(t, o, IF o = "read" THEN "r_lock" ELSE "w_cas")
  /\ UNCHANGED <<writer_lock, reader_locks, txvars>>

SetMutex(u, v) ==
  /\ reader_locks' = [reader_locks EXCEPT ![u] = v]
  /\ UNCHANGED <<progress, seen, mem, writer_lock, txvars>>
SetLock(v) ==
  /\ writer_lock' = v
  /\ UNCHANGED <<seen, mem, commits, reader_locks, txvars>>

\* ACQUIRE_READ_LOCK, RELEASE_READ_LOCK
RLock(t) ==
  /\ reader_locks[t] = 0 /\ Jump(t, "r_lock", "r_read")
  /\ SetMutex(t, 1) /\ UNCHANGED <<idx, commits>>
RClear(t) == End(t, "r_clear") /\ reader_locks' = [reader_locks EXCEPT ![t] = 0]
             /\ UNCHANGED <<writer_lock, txvars>>

\* ACQUIRE_WRITE_LOCK
WLock(t) == writer_lock = 0 /\ Jump(t, "w_cas", "w_flags") /\ SetLock(1)
            /\ UNCHANGED <<progress, idx>>
BugLast == N - 1
LastMutex == N
WFlags(t) ==
  /\ pc[t] = "w_flags" /\ reader_locks[idx[t]] = 0
  /\ SetMutex(idx[t], 1) /\ EndRound(t, idx[t] = LastMutex, "w_flags", "w_read")
  /\ UNCHANGED commits

\* RELEASE_WRITE_LOCK: the section takes effect as the first mutex opens.
BugOwnMutex(t) == reader_locks' = [reader_locks EXCEPT ![t] = 0]
OpenMutex(t) == reader_locks' = [reader_locks EXCEPT ![idx[t]] = 0]
WUnflag(t) ==
  /\ pc[t] \in {"w_full", "w_unflag"} /\ OpenMutex(t)
  /\ EndRound(t, idx[t] = N, "w_unflag", "w_open")
  /\ commits' = IF pc[t] = "w_full" THEN commits + 1 ELSE commits
  /\ UNCHANGED <<progress, seen, mem, writer_lock, txvars>>
WUnlock(t) ==
  /\ End(t, "w_open") /\ writer_lock' = 0
  /\ UNCHANGED <<reader_locks, txvars>>

Run(t) ==
  \/ RLock(t) \/ RClear(t) \/ WLock(t) \/ WFlags(t) \/ WUnflag(t) \/ WUnlock(t)
  \/ /\ WriteSection(t, "w_full") \/ ReadSection(t, "r_clear")
     /\ UNCHANGED <<writer_lock, reader_locks>>
=============================================================================
