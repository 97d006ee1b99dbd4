------------------------------- MODULE RWLock -------------------------------
(***************************************************************************)
(* backends/rwl/spec.h: four macros around a pthread_rwlock_t (external),  *)
(* here the set of its holders: reader_locks says which threads hold it    *)
(* to read, writer_lock whether one holds it to write.  An acquire call    *)
(* that returns an error (EAGAIN, EDEADLK) is made again, and changes      *)
(* nothing.                                                                *)
(***************************************************************************)
EXTENDS Sections

VARIABLES writer_lock, reader_locks

Start(t, o) ==
  /\ Begin(t, o, IF o = "read" THEN "r_lock" ELSE "w_lock")
  /\ UNCHANGED <<writer_lock, reader_locks, txvars>>

RdLock(t) ==
  /\ writer_lock = 0 /\ Jump(t, "r_lock", "r_read")
  /\ reader_locks' = [reader_locks EXCEPT ![t] = 1]
  /\ UNCHANGED <<progress, idx, data, writer_lock, txvars>>
NoReaders == \A u \in Threads : reader_locks[u] = 0
WrLock(t) ==
  /\ writer_lock = 0 /\ NoReaders /\ Jump(t, "w_lock", "w_read")
  /\ writer_lock' = 1
  /\ UNCHANGED <<progress, idx, data, reader_locks, txvars>>

\* RELEASE_READ_LOCK, RELEASE_WRITE_LOCK
RdUnlock(t) ==
  /\ End(t, "r_clear")
  /\ reader_locks' = [reader_locks EXCEPT ![t] = 0]
  /\ UNCHANGED <<writer_lock, txvars>>
WrUnlock(t) ==
  /\ Jump(t, "w_full", "w_done")
  /\ writer_lock' = 0
  /\ commits' = commits + 1
  /\ UNCHANGED <<progress, idx, seen, mem, reader_locks, txvars>>

Run(t) ==
  \/ RdLock(t) \/ WrLock(t) \/ RdUnlock(t) \/ WrUnlock(t)
  \/ /\ WriteSection(t, "w_full") \/ ReadSection(t, "r_clear")
     /\ UNCHANGED <<writer_lock, reader_locks>>
  \/ End(t, "w_done") /\ UNCHANGED <<writer_lock, reader_locks, txvars>>
=============================================================================
