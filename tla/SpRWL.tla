------------------------------- MODULE SpRWL -------------------------------
(***************************************************************************)
(* The speculative read-write lock of backends/{2.0-NoWait, 10.02-RHTMNW,  *)
(* 10.04-RHTMRW, 10.05-RHTMRS, 10.1-RHTMO, 10.2-RHTMS}/spec.h together     *)
(* with the macros of backends/common/tm.h that the lock is built from     *)
(* (Intel path).  A writer speculates in a hardware transaction, which     *)
(* watches writer_lock and, just before it commits, every reader's flag;   *)
(* out of retries it takes writer_lock and waits for the flagged readers.  *)
(* A reader may speculate too; out of retries it reads without a           *)
(* transaction, under its own flag.                                        *)
(*                                                                         *)
(* Every access to a shared word is one action.  The section a program     *)
(* protects is reduced to what the lock must protect: a writer reads and   *)
(* increments each of the words Data, in order; a reader reads them.       *)
(*                                                                         *)
(* An operator named Bug... is a broken form of the one below it; nothing  *)
(* uses it.                                                                *)
(***************************************************************************)
EXTENDS Transactions

CONSTANTS
  MaxTries,     \* HTM_RETRIES
  ReaderWait,   \* READER_WAIT_FUNCTION: "none", "plain" (10.04), "sync" (10.05, 10.1, 10.2)
  ReadersTryHTM,\* FALSE in 2.0-NoWait, whose readers are never transactions
  NonVariant,   \* NON_VARIANT is defined: tm.h:383 replaces RELEASE_READ_LOCK
  Indicator,    \* readers' indicator: "flags", or "snzi" (10.2)
  MaxOps        \* bound: operations per thread

ASSUME ConstantsAssumption ==
  /\ N \in Nat /\ N >= 1 /\ NData \in Nat /\ NData >= 1
  /\ MaxTries \in Nat /\ RetryPolicy \in {0, 1, 2}
  /\ ReaderWait \in {"none", "plain", "sync"}
  /\ ReadersTryHTM \in BOOLEAN /\ NonVariant \in BOOLEAN
  /\ Indicator \in {"flags", "snzi"}
  /\ ~ReadersTryHTM => NonVariant
  /\ MaxOps \in Nat

None == 0                 \* waited_thread and is_waiting are stored plus one

VARIABLES
  pc,           \* where each thread is
  op,           \* "read" or "write": ro of TM_BEGIN_EXT
  done,         \* operations each thread has completed
  tries, mode,  \* tries and local_exec_mode: 0 HTM, 1 uninstrumented reader, 2 lock
  idx,          \* index of the loop the thread is in
  waited,       \* waited_thread of READER_WAIT_FUNCTION
  seen,         \* the values the thread's section read
  writer_lock, reader_locks, clocks_w, is_waiting,     \* struct spec_rwlock
  mem,          \* the protected data
  commits       \* history: write sections completed

locals == <<op, done, tries, mode, waited>>
lockvars == <<writer_lock, reader_locks, clocks_w, is_waiting>>
vars == <<pc, locals, idx, seen, lockvars, mem, txvars, commits>>

----------------------------------------------------------------------------
Init ==
  /\ pc = [t \in Threads |-> "idle"]
  /\ op = [t \in Threads |-> "read"]
  /\ done = [t \in Threads |-> 0]
  /\ tries = [t \in Threads |-> MaxTries]
  /\ mode = [t \in Threads |-> 0]
  /\ idx = [t \in Threads |-> 1]
  /\ waited = [t \in Threads |-> None]
  /\ seen = [t \in Threads |-> [d \in Data |-> 0]]
  /\ writer_lock = 0
  /\ reader_locks = [t \in Threads |-> 0]
  /\ clocks_w = [t \in Threads |-> 0]
  /\ is_waiting = [t \in Threads |-> None]
  /\ mem = [d \in Data |-> 0]
  /\ NoTransactions
  /\ commits = 0

Goto(t, l) == pc' = [pc EXCEPT ![t] = l]
SetIdx(t, i) == idx' = [idx EXCEPT ![t] = i]
BugNoReset(t, last, again, out) ==
  /\ SetIdx(t, idx[t] + 1)
  /\ Goto(t, IF last THEN out ELSE again)
\* A round of a for loop is over: on to the next at again, or out of the loop
EndRound(t, last, again, out) ==
  /\ SetIdx(t, IF last THEN 1 ELSE idx[t] + 1)
  /\ Goto(t, IF last THEN out ELSE again)

\* Where USE_HTM leaves the thread after an abort that left b tries: the next
\* round of the acquire loop, or its fallback.
ScanRound == IF ReaderWait = "sync" THEN "r_scan" ELSE "r_clock"
ReadMode == IF ReaderWait = "none" THEN "r_flag" ELSE ScanRound

Fail(t, b) ==
  /\ tries' = [tries EXCEPT ![t] = b]
  /\ mode' = [mode EXCEPT ![t] = IF b > 0 THEN 0 ELSE IF op[t] = "write" THEN 2 ELSE 1]
  /\ Goto(t, IF op[t] = "write"
             THEN IF b > 0 THEN "w_spin" ELSE "w_cas"
             ELSE IF b > 0 THEN "r_spin" ELSE ReadMode)
  /\ SetIdx(t, 1)
  /\ waited' = [waited EXCEPT ![t] = None]
  /\ htm' = [htm EXCEPT ![t] = "off"]
  /\ TxEnd(t)
  /\ UNCHANGED <<op, done, seen, lockvars, mem, commits>>

\* The hardware aborts the transaction: a conflict, an interrupt, a nesting
\* limit (one try), or a capacity overflow (SPEND_BUDGET).  WRITER_WAIT_FUNCTION,
\* a delay bounded by the clock, is not a step.
TxAbort(t) ==
  /\ htm[t] # "off"
  /\ \E b \in {tries[t] - 1, SpendBudget(tries[t])} : Fail(t, b)

\* TM_BEGIN_MUT: the caller asks for a section, and the acquire macro starts.
Start(t, o) ==
  /\ pc[t] = "idle" /\ done[t] < MaxOps
  /\ op' = [op EXCEPT ![t] = o]
  /\ LET htmFirst == o = "write" \/ ReadersTryHTM
     IN  /\ tries' = [tries EXCEPT ![t] = MaxTries]
         /\ mode' = IF htmFirst THEN [mode EXCEPT ![t] = 0] ELSE mode
         /\ Goto(t, IF o = "write" THEN "w_spin"
                    ELSE IF htmFirst THEN "r_spin" ELSE "r_flag")
  /\ SetIdx(t, 1)
  /\ UNCHANGED <<done, waited, seen, lockvars, mem, txvars, commits>>

\* while (IS_LOCKED) cpu_relax(), in both acquire loops
Spin(t) ==
  /\ pc[t] \in {"w_spin", "r_spin"} /\ writer_lock = 0
  /\ Goto(t, IF pc[t] = "r_spin" THEN "r_begin"
             ELSE IF ReaderWait = "none" THEN "w_begin" ELSE "w_clock")
  /\ UNCHANGED <<locals, idx, seen, lockvars, mem, txvars, commits>>

\* START_RDTSC_W2: announce when this writer expects to end
WClock(t) ==
  /\ pc[t] \in {"w_clock", "w_clock2"}
  /\ clocks_w' = [clocks_w EXCEPT ![t] = 1]
  /\ Goto(t, IF pc[t] = "w_clock" THEN "w_begin" ELSE "w_read")
  /\ UNCHANGED <<locals, idx, seen, writer_lock, reader_locks, is_waiting,
                 mem, txvars, commits>>

\* USE_HTM: _xbegin, then IS_LOCKED inside the transaction
BugNoSubscription == TRUE
Unlocked == writer_lock = 0
TxBegin(t) ==
  /\ pc[t] \in {"w_begin", "r_begin"} /\ Unlocked
  /\ htm' = [htm EXCEPT ![t] = "on"]
  /\ watch' = [watch EXCEPT ![t] = {Lock}]
  /\ Goto(t, IF pc[t] = "w_begin" THEN "w_read" ELSE "r_read")
  /\ UNCHANGED <<locals, idx, seen, lockvars, mem, rset, wset, commits>>

TxBeginLocked(t) ==
  /\ pc[t] \in {"w_begin", "r_begin"} /\ ~Unlocked
  /\ Fail(t, tries[t] - 1)

----------------------------------------------------------------------------
(* The section. *)

BugReadRelease(t) == IF mode[t] = 0 THEN "open" ELSE "r_clear"
\* What the end of a read section does first: the RELEASE_READ_LOCK in force.
\* With NON_VARIANT it ends no transaction: the thread runs on inside it.
ReadRelease(t) ==
  IF ~NonVariant /\ mode[t] = 0 THEN "r_end_htm"
  ELSE IF htm[t] = "on" THEN "open" ELSE "r_clear"
WriteRelease(t) == IF mode[t] = 0 THEN "w_check" ELSE "w_unlock"

Load(t) ==
  /\ Live(t)
  /\ seen' = [seen EXCEPT ![t][idx[t]] = mem[idx[t]]]
  /\ rset' = IF htm[t] = "on" THEN [rset EXCEPT ![t] = @ \union {idx[t]}] ELSE rset
  /\ htm' = DoomByRead(t, {idx[t]})
  /\ UNCHANGED <<locals, lockvars, mem, watch, wset, commits>>

Store(t) ==
  /\ Live(t)
  /\ wset' = IF htm[t] = "on" THEN [wset EXCEPT ![t] = @ \union {idx[t]}] ELSE wset
  /\ mem' = IF htm[t] = "on" THEN mem ELSE [mem EXCEPT ![idx[t]] = seen[t][idx[t]] + 1]
  /\ htm' = DoomByWrite(t, {idx[t]})
  /\ UNCHANGED <<locals, seen, lockvars, watch, rset, commits>>

WRead(t) == pc[t] = "w_read" /\ Load(t) /\ Goto(t, "w_write") /\ UNCHANGED idx

WWrite(t) ==
  /\ pc[t] = "w_write" /\ Store(t)
  /\ EndRound(t, idx[t] = NData, "w_read", WriteRelease(t))

RRead(t) ==
  /\ pc[t] = "r_read" /\ Load(t)
  /\ EndRound(t, idx[t] = NData, "r_read", ReadRelease(t))

----------------------------------------------------------------------------
(* The readers' indicator: one flag per thread, read one at a time, or a    *)
(* SNZI whose single query answers for all of them.                         *)

Polled(i) == IF Indicator = "flags" THEN {i} ELSE Threads
BugSkipLast(S) == \A u \in S \ {N} : reader_locks[u] = 0
NoneFlagged(S) == \A u \in S : reader_locks[u] = 0
LastPoll(i) == Indicator = "snzi" \/ i = N

BugCheckUnwatched(t) ==   \* the check is made before the transaction, not in it
  /\ pc[t] = "w_check" /\ htm[t] = "on" /\ NoneFlagged(Polled(idx[t]))
  /\ EndRound(t, LastPoll(idx[t]), "w_check", "w_end_htm")
  /\ UNCHANGED <<locals, seen, lockvars, mem, txvars, commits>>
\* RELEASE_WRITE_LOCK, mode 0: a flagged reader aborts the transaction
WCheck(t) ==
  /\ pc[t] = "w_check" /\ htm[t] = "on" /\ NoneFlagged(Polled(idx[t]))
  /\ watch' = [watch EXCEPT ![t] = @ \union Polled(idx[t])]
  /\ EndRound(t, LastPoll(idx[t]), "w_check", "w_end_htm")
  /\ UNCHANGED <<locals, seen, lockvars, mem, htm, rset, wset, commits>>

WCheckAbort(t) ==
  /\ pc[t] = "w_check" /\ htm[t] = "on" /\ ~NoneFlagged(Polled(idx[t]))
  /\ Fail(t, tries[t] - 1)

\* END_HTM: the writes take effect together
WEndHtm(t) ==
  /\ pc[t] = "w_end_htm" /\ htm[t] = "on"
  /\ mem' = [d \in Data |-> IF d \in wset[t] THEN seen[t][d] + 1 ELSE mem[d]]
  /\ htm' = [htm EXCEPT ![t] = "off"]
  /\ TxEnd(t)
  /\ commits' = commits + 1
  /\ Goto(t, "w_unclock")
  /\ UNCHANGED <<locals, idx, seen, lockvars>>

BugCas(t) ==              \* a test and a set that are not one step
  /\ pc[t] = "w_cas"
  /\ writer_lock' = 1
  /\ htm' = DoomByLockWord(t, Lock)
  /\ Goto(t, "w_drain")
  /\ UNCHANGED <<locals, idx, seen, reader_locks, clocks_w, is_waiting, mem,
                 watch, rset, wset, commits>>
\* USE_GL, then the wait for every flagged reader
WCas(t) ==
  /\ pc[t] = "w_cas" /\ writer_lock = 0
  /\ writer_lock' = 1
  /\ htm' = DoomByLockWord(t, Lock)
  /\ Goto(t, "w_drain")
  /\ UNCHANGED <<locals, idx, seen, reader_locks, clocks_w, is_waiting, mem,
                 watch, rset, wset, commits>>

WDrain(t) ==
  /\ pc[t] = "w_drain" /\ NoneFlagged(Polled(idx[t]))
  /\ EndRound(t, LastPoll(idx[t]), "w_drain",
              IF ReaderWait = "none" THEN "w_read" ELSE "w_clock2")
  /\ UNCHANGED <<locals, seen, lockvars, mem, txvars, commits>>

\* RELEASE_LOCK
WUnlock(t) ==
  /\ pc[t] = "w_unlock"
  /\ writer_lock' = 0
  /\ htm' = DoomByLockWord(t, Lock)
  /\ commits' = commits + 1
  /\ Goto(t, "w_unclock")
  /\ UNCHANGED <<locals, idx, seen, reader_locks, clocks_w, is_waiting, mem,
                 watch, rset, wset>>

BugKeepClock(t) ==
  /\ pc[t] = "w_unclock"
  /\ done' = [done EXCEPT ![t] = @ + 1]
  /\ Goto(t, "idle")
  /\ UNCHANGED <<op, tries, mode, waited, idx, seen, lockvars, mem, txvars, commits>>
\* END_RDTSC_W2, and the section is over
WUnclock(t) ==
  /\ pc[t] = "w_unclock"
  /\ clocks_w' = [clocks_w EXCEPT ![t] = 0]
  /\ done' = [done EXCEPT ![t] = @ + 1]
  /\ Goto(t, "idle")
  /\ UNCHANGED <<op, tries, mode, waited, idx, seen, writer_lock, reader_locks,
                 is_waiting, mem, txvars, commits>>

----------------------------------------------------------------------------
(* READER_WAIT_FUNCTION. *)

\* A waiting reader's target is taken over as it is: the readers of 10.05 on
\* start together.
RScan(t) ==
  /\ pc[t] = "r_scan"
  /\ IF is_waiting[idx[t]] # None
     THEN waited' = [waited EXCEPT ![t] = is_waiting[idx[t]]] /\ Goto(t, "r_mark")
     ELSE UNCHANGED waited /\ Goto(t, "r_clock")
  /\ UNCHANGED <<op, done, tries, mode, idx, seen, lockvars, mem, txvars, commits>>

\* Otherwise the latest clock wins: with the times abstracted, either of two.  The
\* winner is loaded again for its time, and may have been withdrawn by then.
EndClock(t, w) ==
  /\ waited' = [waited EXCEPT ![t] = w]
  /\ EndRound(t, idx[t] = N, ScanRound,
              IF w = None THEN "r_flag"
              ELSE IF ReaderWait = "sync" THEN "r_mark" ELSE "r_wait")
RClock(t) ==
  /\ pc[t] = "r_clock"
  /\ \/ (clocks_w[idx[t]] = 0 \/ waited[t] # None) /\ EndClock(t, waited[t])
     \/ /\ clocks_w[idx[t]] # 0
        /\ waited' = [waited EXCEPT ![t] = idx[t]]
        /\ Goto(t, "r_clock2") /\ UNCHANGED idx
  /\ UNCHANGED <<op, done, tries, mode, seen, lockvars, mem, txvars, commits>>
RClock2(t) ==
  /\ pc[t] = "r_clock2"
  /\ EndClock(t, IF clocks_w[idx[t]] = 0 THEN None ELSE idx[t])
  /\ UNCHANGED <<op, done, tries, mode, seen, lockvars, mem, txvars, commits>>

RMark(t) ==
  /\ pc[t] = "r_mark"
  /\ is_waiting' = [is_waiting EXCEPT ![t] = waited[t]]
  /\ SetIdx(t, 1)
  /\ Goto(t, "r_wait")
  /\ UNCHANGED <<locals, seen, writer_lock, reader_locks, clocks_w, mem, txvars, commits>>

RWait(t) ==
  /\ pc[t] = "r_wait" /\ clocks_w[waited[t]] = 0
  /\ Goto(t, IF ReaderWait = "sync" THEN "r_unmark" ELSE "r_flag")
  /\ UNCHANGED <<locals, idx, seen, lockvars, mem, txvars, commits>>

RUnmark(t) ==
  /\ pc[t] = "r_unmark"
  /\ is_waiting' = [is_waiting EXCEPT ![t] = None]
  /\ Goto(t, "r_flag")
  /\ UNCHANGED <<locals, idx, seen, writer_lock, reader_locks, clocks_w, mem, txvars, commits>>

----------------------------------------------------------------------------
(* READ_MODE: raise the flag, fence, look at the lock, retreat if taken. *)

\* reader_locks[t] = v, or snzi_inc and snzi_dec
SetFlag(t, v) ==
  /\ reader_locks' = [reader_locks EXCEPT ![t] = v]
  /\ htm' = DoomByLockWord(t, t)
  /\ UNCHANGED <<locals, idx, seen, writer_lock, clocks_w, is_waiting, mem,
                 watch, rset, wset, commits>>

RFlag(t) == pc[t] = "r_flag" /\ SetFlag(t, 1) /\ Goto(t, "r_recheck")

BugNoRecheck(t) ==
  /\ pc[t] = "r_recheck" /\ Goto(t, "r_read")
  /\ UNCHANGED <<locals, idx, seen, lockvars, mem, txvars, commits>>
RRecheck(t) ==
  /\ pc[t] = "r_recheck"
  /\ Goto(t, IF writer_lock = 0 THEN "r_read" ELSE "r_back")
  /\ UNCHANGED <<locals, idx, seen, lockvars, mem, txvars, commits>>

RBack(t) == pc[t] = "r_back" /\ SetFlag(t, 0) /\ Goto(t, "r_lockwait")

RLockWait(t) ==
  /\ pc[t] = "r_lockwait" /\ writer_lock = 0
  /\ Goto(t, "r_flag")
  /\ UNCHANGED <<locals, idx, seen, lockvars, mem, txvars, commits>>

\* RELEASE_READ_LOCK
REndHtm(t) ==
  /\ pc[t] = "r_end_htm" /\ htm[t] = "on"
  /\ htm' = [htm EXCEPT ![t] = "off"]
  /\ TxEnd(t)
  /\ Goto(t, "r_done")
  /\ UNCHANGED <<locals, idx, seen, lockvars, mem, commits>>

RClear(t) == pc[t] = "r_clear" /\ SetFlag(t, 0) /\ Goto(t, "r_done")

\* END_RDTSC_R2, and the section is over
RDone(t) ==
  /\ pc[t] = "r_done"
  /\ done' = [done EXCEPT ![t] = @ + 1]
  /\ Goto(t, "idle")
  /\ UNCHANGED <<op, tries, mode, waited, idx, seen, lockvars, mem, txvars, commits>>

----------------------------------------------------------------------------
\* What the thread itself does: an abort that must come belongs to it (a
\* doomed transaction rolls back, an open one is interrupted or nests too deep).
MustAbort(t) == (htm[t] = "doomed" \/ pc[t] = "open") /\ TxAbort(t)

Run(t) ==
  \/ Spin(t) \/ WClock(t) \/ TxBegin(t) \/ TxBeginLocked(t)
  \/ WRead(t) \/ WWrite(t) \/ RRead(t)
  \/ WCheck(t) \/ WCheckAbort(t) \/ WEndHtm(t)
  \/ WCas(t) \/ WDrain(t) \/ WUnlock(t) \/ WUnclock(t)
  \/ RScan(t) \/ RClock(t) \/ RClock2(t) \/ RMark(t) \/ RWait(t) \/ RUnmark(t)
  \/ RFlag(t) \/ RRecheck(t) \/ RBack(t) \/ RLockWait(t)
  \/ REndHtm(t) \/ RClear(t) \/ RDone(t)
  \/ MustAbort(t)

\* Every thread has done its operations and is joined.
Finished ==
  /\ \A t \in Threads : pc[t] = "idle" /\ done[t] = MaxOps
  /\ UNCHANGED vars

Next == \/ \E t \in Threads :
             \/ \E o \in {"read", "write"} : Start(t, o)
             \/ TxAbort(t)
             \/ Run(t)
        \/ Finished

Spec == Init /\ [][Next]_vars

\* The operating system runs every thread: weak fairness of what it does
\* itself.  Starting an operation, and aborts nothing forces, are not fair.
FairSpec == Spec /\ \A t \in Threads : WF_vars(Run(t))

----------------------------------------------------------------------------
(* Properties. *)

Labels == {"idle", "w_spin", "w_clock", "w_begin", "w_read", "w_write",
           "w_check", "w_end_htm", "w_cas", "w_drain", "w_clock2", "w_unlock",
           "w_unclock", "r_spin", "r_begin", "r_read", "r_end_htm", "open",
           "r_scan", "r_clock", "r_clock2", "r_mark", "r_wait", "r_unmark", "r_flag",
           "r_recheck", "r_back", "r_lockwait", "r_clear", "r_done"}

Types ==
  /\ pc \in [Threads -> Labels]
  /\ op \in [Threads -> {"read", "write"}]
  /\ done \in [Threads -> Nat]
  /\ tries \in [Threads -> -1..MaxTries]
  /\ mode \in [Threads -> 0..2]
  /\ idx \in [Threads -> Nat]
  /\ waited \in [Threads -> 0..N]
  /\ seen \in [Threads -> [Data -> Nat]]
  /\ writer_lock \in {0, 1}
  /\ reader_locks \in [Threads -> {0, 1}]
  /\ clocks_w \in [Threads -> {0, 1}]
  /\ is_waiting \in [Threads -> 0..N]
  /\ mem \in [Data -> Nat]
  /\ htm \in [Threads -> {"off", "on", "doomed"}]
  /\ watch \in [Threads -> SUBSET (0..N)]
  /\ rset \in [Threads -> SUBSET Data]
  /\ wset \in [Threads -> SUBSET Data]
  /\ commits \in Nat

\* A loop over the threads or the words stays inside its array.
IndexInBounds ==
  \A t \in Threads :
    idx[t] \in IF pc[t] \in {"w_read", "w_write", "r_read"} THEN Data
              ELSE IF pc[t] \in {"w_check", "w_drain", "r_scan", "r_clock", "r_clock2", "r_mark"}
              THEN Threads ELSE {1}

\* An attempt is made only with a budget that is not overdrawn.
BudgetInBounds ==
  \A t \in Threads :
    htm[t] # "off" \/ pc[t] \in {"w_spin", "w_clock", "w_begin", "r_spin", "r_begin"}
      => tries[t] >= 0

\* Every variable keeps its type, every loop index the bound of its array, and
\* waited_thread names a thread whenever READER_WAIT_FUNCTION waits for it;
\* tries never falls more than one below zero.
TypeOK ==
  /\ Types
  /\ IndexInBounds
  /\ BudgetInBounds
  /\ \A t \in Threads : pc[t] \in {"r_mark", "r_wait"} => waited[t] # None

\* A reader without a transaction, past its check of the lock
ReadsBare(t) == pc[t] \in {"r_read", "r_clear"} /\ htm[t] = "off"
\* A writer that holds the lock, and one that has also seen every reader out
LockSection(t) == \/ pc[t] \in {"w_clock2", "w_unlock"}
                  \/ pc[t] \in {"w_read", "w_write"} /\ htm[t] = "off"
HoldsLock(t) == pc[t] = "w_drain" \/ LockSection(t)

\* The lock excludes: while a writer is in its section under writer_lock, no
\* reader is in one without a transaction, and no other writer holds the lock
\* (READ_MODE's flag-fence-check against USE_GL's lock-then-scan).
LockExcludes ==
  \A w \in Threads : LockSection(w) =>
    \A u \in Threads \ {w} : ~ReadsBare(u) /\ ~HoldsLock(u)

\* Thread t has read word d in the section it is in
HasRead(t, d) ==
  \/ pc[t] \in {"w_read", "r_read"} /\ d < idx[t]
  \/ pc[t] = "w_write" /\ d <= idx[t]
  \/ pc[t] \in {"w_check", "w_end_htm", "w_unlock", "w_unclock",
                "r_end_htm", "r_clear", "r_done"}

\* Every section, committed or not, reads the data as of one moment: a reader
\* never sees half of a writer's updates, and neither does a transaction that
\* has not been rolled back yet, whichever way the two run.
OneImage ==
  \A t \in Threads : htm[t] # "doomed" =>
    \A d, e \in Data : HasRead(t, d) /\ HasRead(t, e) => seen[t][d] = seen[t][e]

\* Every completed write section took effect exactly once: outside a section
\* under the lock, each word counts them.
NoLostUpdate ==
  (\A w \in Threads : ~LockSection(w)) => \A d \in Data : mem[d] = commits

\* No step changes the data while a reader is reading without a transaction:
\* RELEASE_WRITE_LOCK aborts (or the flag's store dooms) every transaction that
\* would commit, and USE_GL's holder waits.
ReadersUndisturbed ==
  [][(\E t \in Threads : ReadsBare(t)) => mem' = mem]_vars

\* While writer_lock is held nothing commits but its holder, at its release:
\* no transaction slips in under the lock (the subscription in USE_HTM).
OnlyHolderCommits ==
  [][writer_lock = 1 /\ commits' # commits => writer_lock' = 0]_vars

\* A transaction is open only between its begin and its section's release: the
\* release spec.h:174 defines ends it (END_HTM).
NoOpenTransaction ==
  \A t \in Threads : htm[t] = "on" =>
    pc[t] \in {"w_read", "w_write", "w_check", "w_end_htm", "r_read", "r_end_htm"}

\* Every section ends: no thread waits for ever on a lock, a flag, a clock or a
\* transaction, whatever the others do in their bounded number of sections.
EveryOpEnds == \A t \in Threads : pc[t] # "idle" ~> pc[t] = "idle"

----------------------------------------------------------------------------
(* The lock implements atomic sections.  A write section takes effect at     *)
(* its commit or its release, a read section at its commit or its last read. *)

Phase(l) == IF l = "idle" THEN "idle"
            ELSE IF l \in {"w_unclock", "r_clear", "r_done"} THEN "done" ELSE "called"
phaseBar == [t \in Threads |-> Phase(pc[t])]
gotBar == [t \in Threads |-> IF Phase(pc[t]) = "done" THEN seen[t] ELSE [d \in Data |-> 0]]

Atomic == INSTANCE AtomicSections
            WITH phase <- phaseBar, kind <- op, value <- commits, got <- gotBar
\* Each section takes effect at one moment between its call and its return, and
\* returns the data as they were then: the lock implements AtomicSections.
ImplementsAtomic == Atomic!Spec
=============================================================================
