------------------------------- MODULE HERWL -------------------------------
(***************************************************************************)
(* The hardware read-write lock elision of backends/herwl/spec.h with the  *)
(* POWER8 half of backends/common/tm.h.  A reader never speculates: it     *)
(* makes its counter odd while it reads.  A writer tries hardware          *)
(* transactions first, whose commit it holds back, suspended, until the    *)
(* readers have left; then, alone under writer_lock = 1, rollback-only     *)
(* transactions, which track what they write and not what they read; then  *)
(* it sets writer_lock = 2, which also stops the readers.                  *)
(*                                                                         *)
(* Every access to a shared word is one action, in the order of the code   *)
(* (the accesses are taken to be as its barriers place them).  A write     *)
(* section reads and increments each of the words Data; a read section     *)
(* reads them.  An operator named Bug... is a broken form of the one below *)
(* it; nothing uses it.                                                    *)
(***************************************************************************)
EXTENDS Transactions

CONSTANTS
  HtmTries,     \* HTM_RETRIES
  RotTries,     \* ROT_RETRIES
  MaxCalls      \* bound: sections all threads start together

ASSUME ConstantsAssumption ==
  /\ N \in Nat /\ N >= 1 /\ NData \in Nat /\ NData >= 1
  /\ HtmTries \in Nat /\ RotTries \in Nat /\ RetryPolicy \in {0, 1, 2}
  /\ MaxCalls \in Nat

VARIABLES
  pc,           \* where each thread is
  op,           \* "read" or "write": ro of TM_BEGIN_EXT
  tries, mode,  \* tries and local_exec_mode: 0 HTM, 1 ROT, 2 global lock
  idx,          \* index of the loop the thread is in
  snapshot,     \* counters_snapshot of QUIESCENCE_CALL
  seen,         \* the values the thread's section read
  writer_lock,  \* 0 free, 1 a writer's, 2 closed to readers too
  reader_locks, \* per thread, odd while it reads
  mem,          \* the protected data
  commits,      \* history: write sections completed
  calls         \* sections started

locals == <<op, tries, mode, snapshot>>
vars == <<pc, locals, idx, seen, writer_lock, reader_locks, mem, txvars, commits, calls>>

\* What the macros and the section declare goes out of scope.
Unseen == [d \in Data |-> 0]
NoSnapshot == [u \in Threads |-> 0]
Forget(t) ==
  /\ seen' = [seen EXCEPT ![t] = Unseen]
  /\ snapshot' = [snapshot EXCEPT ![t] = NoSnapshot]

Init ==
  /\ pc = [t \in Threads |-> "idle"]
  /\ op = [t \in Threads |-> "read"]
  /\ tries = [t \in Threads |-> HtmTries]
  /\ mode = [t \in Threads |-> 0]
  /\ idx = [t \in Threads |-> 1]
  /\ snapshot = [t \in Threads |-> NoSnapshot]
  /\ seen = [t \in Threads |-> Unseen]
  /\ writer_lock = 0
  /\ reader_locks = [t \in Threads |-> 0]
  /\ mem = [d \in Data |-> 0]
  /\ NoTransactions
  /\ commits = 0
  /\ calls = 0

Goto(t, l) == pc' = [pc EXCEPT ![t] = l]
\* A round of a for loop is over: on to the next at again, or out of the loop
EndRound(t, last, again, out) ==
  /\ idx' = [idx EXCEPT ![t] = IF last THEN 1 ELSE @ + 1]
  /\ Goto(t, IF last THEN out ELSE again)

----------------------------------------------------------------------------
(* ACQUIRE_READ_LOCK and RELEASE_READ_LOCK. *)

Flip(t) ==
  /\ reader_locks' = [reader_locks EXCEPT ![t] = @ + 1]
  /\ UNCHANGED <<locals, idx, seen, writer_lock, mem, txvars, commits, calls>>

Look(t, from, to) ==
  /\ pc[t] = from /\ Goto(t, to)
  /\ UNCHANGED <<locals, idx, seen, writer_lock, reader_locks, mem, txvars, commits, calls>>

RSpin(t) == writer_lock # 2 /\ Look(t, "r_spin", "r_enter")
REnter(t) == pc[t] = "r_enter" /\ Flip(t) /\ Goto(t, "r_check")
BugNoRecheck(t) == Look(t, "r_check", "r_read")
RCheck(t) == Look(t, "r_check", IF writer_lock = 2 THEN "r_retreat" ELSE "r_read")
BugStayOdd(t) == Look(t, "r_retreat", "r_spin")
RRetreat(t) == pc[t] = "r_retreat" /\ Flip(t) /\ Goto(t, "r_spin")
RLeave(t) ==
  /\ pc[t] = "r_leave" /\ Goto(t, "idle")
  /\ reader_locks' = [reader_locks EXCEPT ![t] = @ + 1]
  /\ Forget(t)
  /\ UNCHANGED <<op, tries, mode, idx, writer_lock, mem, txvars, commits, calls>>

----------------------------------------------------------------------------
(* ACQUIRE_WRITE_LOCK. *)

\* TM_BEGIN_MUT
Start(t, o) ==
  /\ pc[t] = "idle" /\ calls < MaxCalls
  /\ calls' = calls + 1
  /\ op' = [op EXCEPT ![t] = o]
  /\ IF o = "read"
     THEN Goto(t, "r_spin") /\ UNCHANGED <<tries, mode>>
     ELSE /\ mode' = [mode EXCEPT ![t] = IF HtmTries > 0 THEN 0 ELSE 1]
          /\ tries' = [tries EXCEPT ![t] = IF HtmTries > 0 THEN HtmTries ELSE RotTries]
          /\ Goto(t, IF HtmTries > 0 THEN "w_spin" ELSE "w_cas")
  /\ UNCHANGED <<idx, snapshot, seen, writer_lock, reader_locks, mem, txvars, commits>>

\* Where an attempt that failed leaves the thread, with b tries: HTM falls
\* back to ROT with tries of its own, ROT to the global lock.
NextMode(t, b) == IF b > 0 THEN mode[t] ELSE mode[t] + 1
Retry(m) == IF m = 0 THEN "w_spin" ELSE IF m = 1 THEN "w_rot" ELSE "w_global"
Fail(t, b) ==
  /\ tries' = [tries EXCEPT ![t] = IF mode[t] = 0 /\ b <= 0 THEN RotTries ELSE b]
  /\ mode' = [mode EXCEPT ![t] = NextMode(t, b)]
  /\ Goto(t, IF mode[t] = 0 /\ b <= 0 THEN "w_cas" ELSE Retry(NextMode(t, b)))
  /\ idx' = [idx EXCEPT ![t] = 1]
  /\ htm' = [htm EXCEPT ![t] = "off"]
  /\ TxEnd(t)
  /\ Forget(t)
  /\ UNCHANGED <<op, writer_lock, reader_locks, mem, commits, calls>>

\* The processor rolls back; a suspended transaction only when it resumes.
\* USE_HTM takes two tries for a conflict and one for the rest, and one more than
\* SPEND_BUDGET for a footprint that is too large; USE_ROT one, or SPEND_BUDGET.
CanAbort(t) == htm[t] # "off" /\ pc[t] # "w_suspended"
Overflow(t) ==
  CanAbort(t) /\ Fail(t, SpendBudget(tries[t]) - (IF mode[t] = 0 THEN 1 ELSE 0))
Conflict(t) == CanAbort(t) /\ Fail(t, tries[t] - (IF mode[t] = 0 THEN 2 ELSE 1))
OtherAbort(t) == CanAbort(t) /\ Fail(t, tries[t] - 1)
TxAbort(t) == Overflow(t) \/ Conflict(t) \/ OtherAbort(t)

WSpin(t) == writer_lock = 0 /\ Look(t, "w_spin", "w_begin")

Begin(t, W, l) ==
  /\ htm' = [htm EXCEPT ![t] = "on"]
  /\ watch' = [watch EXCEPT ![t] = W]
  /\ Goto(t, l)
  /\ UNCHANGED <<locals, idx, seen, writer_lock, reader_locks, mem, rset, wset, commits, calls>>

\* USE_HTM: __TM_begin, and IS_LOCKED inside the transaction
BugUnsubscribed == {}
Subscribed == {Lock}
WBegin(t) == pc[t] = "w_begin" /\ writer_lock = 0 /\ Begin(t, Subscribed, "w_read")
WBeginLocked(t) == pc[t] = "w_begin" /\ writer_lock # 0 /\ Fail(t, tries[t] - 1)

SetLock(t, v) ==
  /\ writer_lock' = v
  /\ htm' = DoomByLockWord(t, Lock)
  /\ UNCHANGED <<locals, idx, seen, reader_locks, mem, watch, rset, wset, calls>>

\* USE_ROT: writer_lock from 0 to 1, then rollback-only transactions
WCas(t) ==
  /\ pc[t] = "w_cas" /\ writer_lock = 0
  /\ IF tries[t] > 0 THEN Goto(t, "w_rot") /\ UNCHANGED mode
     ELSE Goto(t, "w_global") /\ mode' = [mode EXCEPT ![t] = 2]
  /\ writer_lock' = 1
  /\ htm' = DoomByLockWord(t, Lock)
  /\ UNCHANGED <<op, tries, snapshot, idx, seen, reader_locks, mem, watch, rset, wset,
                 commits, calls>>
WBeginRot(t) == pc[t] = "w_rot" /\ Begin(t, {}, "w_read")

\* ACQUIRE_GLOBAL_LOCK
WGlobal(t) == pc[t] = "w_global" /\ SetLock(t, 2) /\ Goto(t, "w_quiesce") /\ UNCHANGED commits

----------------------------------------------------------------------------
(* The section. *)

Load(t) ==
  /\ Live(t)
  /\ seen' = [seen EXCEPT ![t][idx[t]] = mem[idx[t]]]
  /\ rset' = IF htm[t] = "on" /\ mode[t] = 0
             THEN [rset EXCEPT ![t] = @ \union {idx[t]}] ELSE rset
  /\ htm' = DoomByRead(t, {idx[t]})
  /\ UNCHANGED <<locals, writer_lock, reader_locks, mem, watch, wset, commits, calls>>

Store(t) ==
  /\ Live(t)
  /\ wset' = IF htm[t] = "on" THEN [wset EXCEPT ![t] = @ \union {idx[t]}] ELSE wset
  /\ mem' = IF htm[t] = "on" THEN mem ELSE [mem EXCEPT ![idx[t]] = seen[t][idx[t]] + 1]
  /\ htm' = DoomByWrite(t, {idx[t]})
  /\ UNCHANGED <<locals, seen, writer_lock, reader_locks, watch, rset, commits, calls>>

WRead(t) == pc[t] = "w_read" /\ Load(t) /\ Goto(t, "w_write") /\ UNCHANGED idx
BugNoQuiescence(t) == IF mode[t] = 0 THEN "w_end" ELSE IF mode[t] = 1 THEN "w_snap" ELSE "w_unlock"
WriteRelease(t) ==
  IF mode[t] = 0 THEN "w_suspended" ELSE IF mode[t] = 1 THEN "w_snap" ELSE "w_unlock"
WWrite(t) ==
  pc[t] = "w_write" /\ Store(t) /\ EndRound(t, idx[t] = NData, "w_read", WriteRelease(t))
RRead(t) ==
  pc[t] = "r_read" /\ Load(t) /\ EndRound(t, idx[t] = NData, "r_read", "r_leave")

----------------------------------------------------------------------------
(* RELEASE_WRITE_LOCK. *)

Odd(c) == c % 2 = 1
Waiting(t, last, again, out) ==
  /\ EndRound(t, last, again, out)
  /\ UNCHANGED <<locals, seen, writer_lock, reader_locks, mem, txvars, commits, calls>>

\* QUIESCENCE_CALL_GL: suspended, or before a section under the global lock.
\* Suspended code runs on in a transaction that is doomed.
Quiet(t) == ~Odd(reader_locks[idx[t]])
WQuiesce(t) ==
  /\ pc[t] \in {"w_suspended", "w_quiesce"} /\ Quiet(t)
  /\ Waiting(t, idx[t] = N, pc[t], IF pc[t] = "w_quiesce" THEN "w_read" ELSE "w_end")

\* QUIESCENCE_CALL: note who is reading, then wait for each to move
WSnap(t) ==
  /\ pc[t] = "w_snap" /\ Live(t)
  /\ LET c == reader_locks[idx[t]]
     IN  snapshot' = [snapshot EXCEPT ![t][idx[t]] = IF Odd(c) THEN c ELSE 0]
  /\ EndRound(t, idx[t] = N, "w_snap", "w_drain")
  /\ UNCHANGED <<op, tries, mode, seen, writer_lock, reader_locks, mem, txvars, commits, calls>>

BugNotBefore(t) == reader_locks[idx[t]] >= snapshot[t][idx[t]]
Moved(t) == snapshot[t][idx[t]] = 0 \/ reader_locks[idx[t]] # snapshot[t][idx[t]]
WDrain(t) ==
  /\ pc[t] = "w_drain" /\ Live(t) /\ Moved(t)
  /\ Waiting(t, idx[t] = N, "w_drain", "w_end")

\* __TM_end: the writes take effect together
WEnd(t) ==
  /\ pc[t] = "w_end" /\ htm[t] = "on"
  /\ mem' = [d \in Data |-> IF d \in wset[t] THEN seen[t][d] + 1 ELSE mem[d]]
  /\ htm' = [htm EXCEPT ![t] = "off"]
  /\ TxEnd(t)
  /\ commits' = commits + 1
  /\ Goto(t, IF mode[t] = 0 THEN "w_done" ELSE "w_unlock")
  /\ UNCHANGED <<locals, idx, seen, writer_lock, reader_locks, calls>>

BugDecrement(t) ==        \* one off the lock where the code clears it
  /\ pc[t] = "w_unlock" /\ Goto(t, "w_done")
  /\ commits' = IF mode[t] = 2 THEN commits + 1 ELSE commits
  /\ SetLock(t, writer_lock - 1)
WUnlock(t) ==
  /\ pc[t] = "w_unlock" /\ Goto(t, "w_done")
  /\ commits' = IF mode[t] = 2 THEN commits + 1 ELSE commits
  /\ SetLock(t, 0)

WDone(t) ==
  /\ pc[t] = "w_done" /\ Goto(t, "idle")
  /\ tries' = [tries EXCEPT ![t] = HtmTries]
  /\ mode' = [mode EXCEPT ![t] = 0]
  /\ Forget(t)
  /\ UNCHANGED <<op, idx, writer_lock, reader_locks, mem, txvars, commits, calls>>

----------------------------------------------------------------------------
Run(t) ==
  \/ RSpin(t) \/ REnter(t) \/ RCheck(t) \/ RRetreat(t) \/ RRead(t) \/ RLeave(t)
  \/ WSpin(t) \/ WBegin(t) \/ WBeginLocked(t) \/ WCas(t) \/ WBeginRot(t) \/ WGlobal(t)
  \/ WRead(t) \/ WWrite(t) \/ WQuiesce(t) \/ WSnap(t) \/ WDrain(t) \/ WEnd(t)
  \/ WUnlock(t) \/ WDone(t)
  \/ ~Live(t) /\ TxAbort(t)

Finished ==
  /\ calls = MaxCalls /\ \A t \in Threads : pc[t] = "idle"
  /\ UNCHANGED vars

Next == \/ \E t \in Threads :
             \/ \E o \in {"read", "write"} : Start(t, o)
             \/ TxAbort(t)
             \/ Run(t)
        \/ Finished

Spec == Init /\ [][Next]_vars

\* The operating system runs every thread; calls, and aborts nothing forces,
\* are not fair.
FairSpec == Spec /\ \A t \in Threads : WF_vars(Run(t))

----------------------------------------------------------------------------
(* Properties. *)

Labels == {"idle", "r_spin", "r_enter", "r_check", "r_retreat", "r_read", "r_leave",
           "w_spin", "w_begin", "w_cas", "w_rot", "w_global", "w_quiesce", "w_read",
           "w_write", "w_suspended", "w_snap", "w_drain", "w_end", "w_unlock", "w_done"}

\* Every variable keeps its type; no attempt starts with its tries spent (two go
\* at once on POWER8); and a counter is odd exactly while its thread is between
\* entering and leaving.
TypeOK ==
  /\ pc \in [Threads -> Labels] /\ op \in [Threads -> {"read", "write"}]
  /\ mode \in [Threads -> 0..2] /\ tries \in [Threads -> Int]
  /\ idx \in [Threads -> Nat] /\ snapshot \in [Threads -> [Threads -> Nat]]
  /\ seen \in [Threads -> [Data -> Nat]] /\ mem \in [Data -> Nat]
  /\ writer_lock \in 0..2 /\ reader_locks \in [Threads -> Nat]
  /\ htm \in [Threads -> {"off", "on", "doomed"}] /\ watch \in [Threads -> SUBSET {Lock}]
  /\ rset \in [Threads -> SUBSET Data] /\ wset \in [Threads -> SUBSET Data]
  /\ commits \in Nat /\ calls \in 0..MaxCalls
  /\ \A t \in Threads :
       /\ htm[t] = "off" \/ tries[t] > 0
       /\ Odd(reader_locks[t]) <=> pc[t] \in {"r_check", "r_retreat", "r_read", "r_leave"}

Reads(t) == pc[t] \in {"r_read", "r_leave"}
GlobalSection(t) == mode[t] = 2 /\ pc[t] \in {"w_read", "w_write", "w_unlock"}

\* A section under the global lock runs alone: ACQUIRE_GLOBAL_LOCK's store and
\* quiescence against the reader's counter and second look.
GlobalRunsAlone ==
  \A w \in Threads : GlobalSection(w) =>
    \A u \in Threads \ {w} : ~Reads(u) /\ ~GlobalSection(u) /\ htm[u] # "on"

\* Thread t has read word d in the section it is in
HasRead(t, d) ==
  \/ pc[t] \in {"w_read", "r_read"} /\ d < idx[t]
  \/ pc[t] = "w_write" /\ d <= idx[t]
  \/ pc[t] \in {"r_leave", "w_suspended", "w_snap", "w_drain", "w_end", "w_unlock", "w_done"}

\* The data never change under a reader, although no writer but one in the
\* global section stops readers from coming: those present when a transaction
\* looked are waited for, and those that come later doom it when they read.
ReadersUndisturbed ==
  [][(\E t \in Threads : Reads(t) /\ HasRead(t, 1)) => mem' = mem]_vars

\* Every section reads the data as of one moment, also a rollback-only
\* transaction, whose reads the processor does not track.
OneImage ==
  \A t \in Threads : htm[t] # "doomed" =>
    \A d, e \in Data : HasRead(t, d) /\ HasRead(t, e) => seen[t][d] = seen[t][e]

\* Every section ends: writers that wait for readers' counters, suspended or
\* not, and readers that wait for the global lock never wait for ever.
EveryOpEnds == \A t \in Threads : pc[t] # "idle" ~> pc[t] = "idle"

\* The lock implements atomic sections: a write section takes effect when its
\* transaction commits or its global lock is released, a read section with its
\* last read.
Over(t) == pc[t] \in {"r_leave", "w_done"} \/ (pc[t] = "w_unlock" /\ mode[t] = 1)
Phase(t) == IF pc[t] = "idle" THEN "idle" ELSE IF Over(t) THEN "done" ELSE "called"
phaseBar == [t \in Threads |-> Phase(t)]
gotBar == [t \in Threads |-> IF Over(t) THEN seen[t] ELSE Unseen]
Atomic == INSTANCE AtomicSections
            WITH phase <- phaseBar, kind <- op, value <- commits, got <- gotBar
\* Each section takes effect at one moment between its call and its return, on
\* the data as they were then.
ImplementsAtomic == Atomic!Spec
=============================================================================
