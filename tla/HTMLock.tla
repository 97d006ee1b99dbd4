------------------------------ MODULE HTMLock ------------------------------
(***************************************************************************)
(* Transactional lock elision, backends/1.0-htm-sgl/spec.h: every section, *)
(* a read section too, is a hardware transaction that watches writer_lock; *)
(* out of tries it takes writer_lock.                                      *)
(***************************************************************************)
EXTENDS Sections

CONSTANT MaxTries                     \* HTM_RETRIES
VARIABLES tries, mode, writer_lock    \* tries, local_exec_mode (0 HTM, 2 lock)

Start(t, o) ==
  /\ Begin(t, o, "w_spin")
  /\ tries' = [tries EXCEPT ![t] = MaxTries]
  /\ mode' = [mode EXCEPT ![t] = 0]
  /\ UNCHANGED <<writer_lock, txvars>>

\* while (IS_LOCKED) cpu_relax()
Spin(t) ==
  /\ writer_lock = 0 /\ Jump(t, "w_spin", "w_begin")
  /\ UNCHANGED <<progress, idx, data, tries, mode, writer_lock, txvars>>

\* An attempt that failed leaves b tries: back into the loop, or USE_GL.
Fail(t, b) ==
  /\ tries' = [tries EXCEPT ![t] = b]
  /\ mode' = [mode EXCEPT ![t] = IF b > 0 THEN 0 ELSE 2]
  /\ Goto(t, IF b > 0 THEN "w_spin" ELSE "w_cas")
  /\ idx' = [idx EXCEPT ![t] = 1]
  /\ htm' = [htm EXCEPT ![t] = "off"]
  /\ TxEnd(t)
  /\ UNCHANGED <<progress, data, writer_lock>>
TxAbort(t) ==
  /\ htm[t] # "off"
  /\ \E b \in {tries[t] - 1, SpendBudget(tries[t])} : Fail(t, b)

Entry(t) == IF op[t] = "read" THEN "r_read" ELSE "w_read"
\* USE_HTM: _xbegin, then IS_LOCKED inside the transaction
BugUnsubscribed == {}
Subscribed == {Lock}
TxBegin(t) ==
  /\ writer_lock = 0 /\ Jump(t, "w_begin", Entry(t))
  /\ htm' = [htm EXCEPT ![t] = "on"]
  /\ watch' = [watch EXCEPT ![t] = Subscribed]
  /\ UNCHANGED <<progress, idx, data, tries, mode, writer_lock, rset, wset>>
TxBeginLocked(t) == pc[t] = "w_begin" /\ writer_lock # 0 /\ Fail(t, tries[t] - 1)

SetLock(t, v) ==
  /\ writer_lock' = v
  /\ htm' = DoomByLockWord(t, Lock)
  /\ UNCHANGED <<progress, idx, seen, mem, tries, mode, watch, rset, wset>>

\* USE_GL
Cas(t) == Jump(t, "w_cas", Entry(t)) /\ writer_lock = 0 /\ SetLock(t, 1) /\ UNCHANGED commits

\* UNLOCK: END_HTM, or RELEASE_LOCK
Release(t) == IF mode[t] = 0 THEN "w_end_htm" ELSE "w_unlock"
Committed(t) == commits' = IF op[t] = "write" THEN commits + 1 ELSE commits
EndHtm(t) ==
  /\ htm[t] = "on" /\ Jump(t, "w_end_htm", "w_done")
  /\ mem' = [d \in Data |-> IF d \in wset[t] THEN seen[t][d] + 1 ELSE mem[d]]
  /\ htm' = [htm EXCEPT ![t] = "off"]
  /\ TxEnd(t)
  /\ Committed(t)
  /\ UNCHANGED <<progress, idx, seen, tries, mode, writer_lock>>
Unlock(t) == Jump(t, "w_unlock", "w_done") /\ SetLock(t, 0) /\ Committed(t)

Run(t) ==
  \/ Spin(t) \/ TxBegin(t) \/ TxBeginLocked(t) \/ Cas(t) \/ EndHtm(t) \/ Unlock(t)
  \/ /\ WriteSection(t, Release(t)) \/ ReadSection(t, Release(t))
     /\ UNCHANGED <<tries, mode, writer_lock>>
  \/ End(t, "w_done") /\ UNCHANGED <<tries, mode, writer_lock, txvars>>
  \/ ~Live(t) /\ TxAbort(t)
=============================================================================
