----------------------------- MODULE SpRWLProof -----------------------------
(***************************************************************************)
(* Theorems about SpRWL, for any number of threads, words, retries and     *)
(* operations, and for every variant of the lock.                          *)
(***************************************************************************)
EXTENDS SpRWL, TLAPS

\* Abbreviations of the steps and of their UNCHANGED lists are read as they stand.
USE DEF Goto, SetIdx, locals, lockvars, txvars

\* An open transaction watches the lock, which is free; a thread is inside one
\* exactly where its label says.
TxShape ==
  \A t \in Threads :
    /\ htm[t] = "on" => Lock \in watch[t] /\ writer_lock = 0
    /\ htm[t] # "off" => pc[t] \in {"w_read", "w_write", "w_check", "w_end_htm",
                                    "r_read", "r_end_htm", "open"}
    /\ pc[t] \in {"w_check", "w_end_htm", "r_end_htm", "open"} => htm[t] # "off"

\* local_exec_mode tells the release macros how the section was entered.
ModeShape ==
  \A t \in Threads :
    /\ pc[t] \in {"w_spin", "w_clock", "w_begin", "r_spin", "r_begin"} => mode[t] = 0
    /\ pc[t] \in {"w_cas", "w_drain", "w_clock2"} => mode[t] # 0
    /\ pc[t] \in {"w_read", "w_write"} => (mode[t] = 0 <=> htm[t] # "off")
    /\ ~NonVariant /\ pc[t] = "r_read" => (mode[t] = 0 <=> htm[t] # "off")
    /\ ~NonVariant /\ pc[t] \in {"r_scan", "r_clock", "r_clock2", "r_mark", "r_wait", "r_unmark",
                   "r_flag", "r_recheck", "r_back", "r_lockwait"} => mode[t] # 0

\* writer_lock is taken when a thread holds it, and one thread does.
LockShape ==
  \A w \in Threads : HoldsLock(w) =>
    writer_lock = 1 /\ \A u \in Threads : HoldsLock(u) => u = w

\* A reader's flag is up from READ_MODE's store to its release.
FlagShape ==
  \A t \in Threads :
    ReadsBare(t) \/ pc[t] \in {"r_recheck", "r_back"} => reader_locks[t] = 1

\* The readers the holder's scan has passed are not in their sections.
Drained ==
  \A w, u \in Threads :
    LockSection(w) \/ (pc[w] = "w_drain" /\ u < idx[w]) => ~ReadsBare(u)

\* The flags a committing transaction's scan has passed are down and watched.
Checked ==
  \A t, u \in Threads :
    /\ htm[t] = "on"
    /\ pc[t] = "w_end_htm" \/ (pc[t] = "w_check" /\ u < idx[t])
    => u \in watch[t] /\ reader_locks[u] = 0

Exclusion ==
  TypeOK /\ TxShape /\ ModeShape /\ LockShape /\ FlagShape /\ Drained /\ Checked

----------------------------------------------------------------------------
\* A transaction keeps exactly what its section has touched so far, and two
\* open ones do not conflict.
HasWritten(t, d) ==
  \/ pc[t] \in {"w_read", "w_write"} /\ d < idx[t]
  \/ pc[t] \in {"w_check", "w_end_htm"}

FootprintOf(t, d) ==
  /\ htm[t] = "off" => d \notin rset[t] /\ d \notin wset[t]
  /\ htm[t] = "on" =>
       /\ HasRead(t, d) => d \in rset[t]
       /\ d \in wset[t] <=> HasWritten(t, d)
Footprint == \A t \in Threads, d \in Data : FootprintOf(t, d)

NoConflict ==
  \A t, u \in Threads, d \in Data :
    t # u /\ htm[t] = "on" /\ htm[u] = "on" /\ d \in wset[t]
      => d \notin rset[u] /\ d \notin wset[u]

\* What an open transaction or a bare reader has read is still what is there.
Current ==
  \A t \in Threads, d \in Data :
    (htm[t] = "on" \/ ReadsBare(t)) /\ HasRead(t, d) => seen[t][d] = mem[d]

\* The holder's section: the words before its index are one ahead.
HalfDone ==
  \A w \in Threads, d \in Data : LockSection(w) =>
    /\ HasRead(w, d) => seen[w][d] = commits
    /\ mem[d] = IF pc[w] = "w_unlock" \/ (pc[w] # "w_clock2" /\ d < idx[w])
                THEN commits + 1 ELSE commits

\* A section that has taken effect keeps its image until it returns.
Kept ==
  \A t \in Threads : pc[t] \in {"w_unclock", "r_done"} =>
    \A d, e \in Data : seen[t][d] = seen[t][e]

Image == Footprint /\ NoConflict /\ Current /\ HalfDone /\ Kept /\ NoLostUpdate

----------------------------------------------------------------------------
(* Types. *)

\* The sets of threads and of words are intervals from 1.
LEMMA Ranges ==
  /\ \A i : i \in Threads <=> i \in Nat /\ 1 <= i /\ i <= N
  /\ \A i : i \in Data <=> i \in Nat /\ 1 <= i /\ i <= NData
  /\ N \in Nat /\ NData \in Nat /\ N >= 1 /\ NData >= 1 /\ 1 \in Data /\ 1 \in Threads
  /\ \A i \in Threads : i # N => i + 1 \in Threads
  /\ \A i \in Data : i # NData => i + 1 \in Data
  BY ConstantsAssumption DEF ConstantsAssumption, Threads, Data

\* What a failed attempt leaves in tries.
LEMMA Budgets ==
  ASSUME NEW b \in -1..MaxTries, b >= 0
  PROVE  b - 1 \in -1..MaxTries /\ SpendBudget(b) \in -1..MaxTries
<1>1. MaxTries \in Nat
  BY ConstantsAssumption DEF ConstantsAssumption
<1>2. b \div 2 \in 0..b
  BY <1>1
<1> QED
  BY <1>1, <1>2 DEF SpendBudget

\* What a look at a writer's clock does to the reader, by either load.
ClockNext == {"r_scan", "r_clock", "r_clock2", "r_mark", "r_wait", "r_flag"}
ClockEffect(t, w, k, l) ==
  /\ pc[t] \in {"r_clock", "r_clock2"}
  /\ pc' = [pc EXCEPT ![t] = l] /\ idx' = [idx EXCEPT ![t] = k]
  /\ waited' = [waited EXCEPT ![t] = w]
  /\ l \in {"r_wait", "r_flag"} => k = 1
  /\ l \in {"r_mark", "r_wait"} => w # None
  /\ UNCHANGED <<op, done, tries, mode, seen, lockvars, mem, txvars, commits>>

LEMMA ClockStep ==
  ASSUME TypeOK, NEW t \in Threads, RClock(t) \/ RClock2(t)
  PROVE  \E w \in 0..N, k \in Threads, l \in ClockNext : ClockEffect(t, w, k, l)
<1>1. idx[t] \in Threads /\ waited[t] \in 0..N /\ (idx[t] # N => idx[t] + 1 \in Threads)
  BY Ranges DEF RClock, RClock2, IndexInBounds, TypeOK, Types
<1>2. idx[t] \in 0..N /\ idx[t] # None /\ None \in 0..N
  BY <1>1, Ranges DEF None
<1>3. ASSUME NEW w \in 0..N, EndClock(t, w), pc[t] \in {"r_clock", "r_clock2"},
             UNCHANGED <<op, done, tries, mode, seen, lockvars, mem, txvars, commits>>
      PROVE  \E k \in Threads, l \in ClockNext : ClockEffect(t, w, k, l)
  <2>. DEFINE K == IF idx[t] = N THEN 1 ELSE idx[t] + 1
              L == IF idx[t] = N
                   THEN IF w = None THEN "r_flag"
                        ELSE IF ReaderWait = "sync" THEN "r_mark" ELSE "r_wait"
                   ELSE ScanRound
  <2>1. K \in Threads /\ L \in ClockNext
    BY <1>1, Ranges DEF ClockNext, ScanRound
  <2>2. ClockEffect(t, w, K, L)
    BY <1>3 DEF EndClock, EndRound, SetIdx, Goto, ScanRound, ClockEffect
  <2>. QED
    BY <2>1, <2>2
<1>4. ASSUME pc[t] = "r_clock", waited' = [waited EXCEPT ![t] = idx[t]],
             Goto(t, "r_clock2"), UNCHANGED idx,
             UNCHANGED <<op, done, tries, mode, seen, lockvars, mem, txvars, commits>>
      PROVE  ClockEffect(t, idx[t], idx[t], "r_clock2")
  BY <1>4 DEF ClockEffect, Goto, TypeOK, Types
<1>5. "r_clock2" \in ClockNext
  BY DEF ClockNext
<1>6. CASE RClock(t)
  <2>1. EndClock(t, waited[t]) => \E k \in Threads, l \in ClockNext : ClockEffect(t, waited[t], k, l)
    BY <1>1, <1>3, <1>6 DEF RClock
  <2>2. ~EndClock(t, waited[t]) => ClockEffect(t, idx[t], idx[t], "r_clock2")
    BY <1>4, <1>6 DEF RClock
  <2>. QED
    BY <1>1, <1>2, <1>5, <2>1, <2>2
<1>7. CASE RClock2(t)
  BY <1>2, <1>3, <1>7 DEF RClock2
<1> QED
  BY <1>6, <1>7

\* Ending a round of a loop keeps the labels and the indices in their types.
LEMMA EndRoundType ==
  ASSUME TypeOK, NEW t \in Threads, NEW last \in BOOLEAN, NEW again \in Labels,
         NEW out \in Labels, EndRound(t, last, again, out)
  PROVE  pc' \in [Threads -> Labels] /\ idx' \in [Threads -> Nat]
  BY DEF EndRound, TypeOK, Types

\* A load keeps the transaction, its reads and what was seen in their types.
LEMMA LoadType ==
  ASSUME TypeOK, NEW t \in Threads, idx[t] \in Data, Load(t)
  PROVE  /\ htm' \in [Threads -> {"off", "on", "doomed"}]
         /\ rset' \in [Threads -> SUBSET Data]
         /\ seen' \in [Threads -> [Data -> Nat]]
  BY DEF TypeOK, Types, Load, DoomByRead

\* A store keeps the transaction, its writes and the data in their types.
LEMMA StoreType ==
  ASSUME TypeOK, NEW t \in Threads, idx[t] \in Data, Store(t)
  PROVE  /\ htm' \in [Threads -> {"off", "on", "doomed"}]
         /\ wset' \in [Threads -> SUBSET Data]
         /\ mem' \in [Data -> Nat]
  BY DEF TypeOK, Types, Store, DoomByWrite

\* The initial state has its types.
LEMMA InitType == Init => TypeOK
  BY ConstantsAssumption, Ranges DEF ConstantsAssumption, Init, NoTransactions, TypeOK,
      Types, IndexInBounds, BudgetInBounds, Labels, None

\* A failed attempt (the code after _xbegin in USE_HTM) keeps the types.
LEMMA FailType ==
  ASSUME TypeOK, NEW t \in Threads, NEW b \in -1..MaxTries, Fail(t, b)
  PROVE  TypeOK'
<1>1. pc' \in [Threads -> Labels]
  BY DEF Fail, Labels, ReadMode, ScanRound, TypeOK, Types
<1>2. mode' \in [Threads -> 0..2] /\ idx' \in [Threads -> Nat]
     /\ waited' \in [Threads -> 0..N]
  BY Ranges DEF Fail, TypeOK, Types, None
<1>3. Types'
  BY <1>1, <1>2 DEF Fail, TxEnd, TypeOK, Types
<1>4. IndexInBounds'
  BY Ranges DEF Fail, ReadMode, ScanRound, TypeOK, Types, IndexInBounds
<1>5. BudgetInBounds'
  BY DEF Fail, ReadMode, ScanRound, TypeOK, Types, BudgetInBounds
<1>6. \A u \in Threads : pc'[u] \in {"r_mark", "r_wait"} => waited'[u] # None
  BY DEF Fail, ReadMode, ScanRound, TypeOK, Types
<1> QED
  BY <1>3, <1>4, <1>5, <1>6 DEF TypeOK

\* Every step keeps the types, the bounds of the arrays and the budget.
LEMMA TypeStep == TypeOK /\ [Next]_vars => TypeOK'
<1> SUFFICES ASSUME TypeOK, [Next]_vars PROVE TypeOK'
  OBVIOUS
<1>0. CASE UNCHANGED vars
  BY <1>0 DEF vars, TypeOK, Types, IndexInBounds, BudgetInBounds
<1>1. ASSUME NEW t \in Threads, NEW o \in {"read", "write"}, Start(t, o) PROVE TypeOK'
  <2>1. Types'
    BY <1>1, Ranges, ConstantsAssumption DEF Start, Labels, Lock, TypeOK, Types
  <2>2. IndexInBounds'
    BY <1>1, Ranges DEF Start, IndexInBounds, TypeOK, Types
  <2>3. BudgetInBounds'
    BY <1>1, ConstantsAssumption DEF Start, ConstantsAssumption, BudgetInBounds, TypeOK,
        Types
  <2> QED
    BY <1>1, <2>1, <2>2, <2>3, Ranges DEF Start, None, TypeOK, Types
<1>2. ASSUME NEW t \in Threads, Spin(t) PROVE TypeOK'
  <2>1. Types'
    BY <1>2, Ranges, ConstantsAssumption DEF Spin, Labels, Lock, TypeOK, Types
  <2>2. IndexInBounds'
    BY <1>2, Ranges DEF Spin, IndexInBounds, TypeOK, Types
  <2>3. BudgetInBounds'
    BY <1>2, ConstantsAssumption DEF Spin, ConstantsAssumption, BudgetInBounds, TypeOK,
        Types
  <2> QED
    BY <1>2, <2>1, <2>2, <2>3, Ranges DEF Spin, None, TypeOK, Types
<1>3. ASSUME NEW t \in Threads, WClock(t) PROVE TypeOK'
  <2>1. Types'
    BY <1>3, Ranges, ConstantsAssumption DEF WClock, Labels, Lock, TypeOK, Types
  <2>2. IndexInBounds'
    BY <1>3, Ranges DEF WClock, IndexInBounds, TypeOK, Types
  <2>3. BudgetInBounds'
    BY <1>3, ConstantsAssumption DEF WClock, ConstantsAssumption, BudgetInBounds,
        TypeOK, Types
  <2> QED
    BY <1>3, <2>1, <2>2, <2>3, Ranges DEF WClock, None, TypeOK, Types
<1>4. ASSUME NEW t \in Threads, TxBegin(t) PROVE TypeOK'
  <2>1. Types'
    BY <1>4, Ranges, ConstantsAssumption DEF TxBegin, Labels, Lock, TypeOK, Types
  <2>2. IndexInBounds'
    BY <1>4, Ranges DEF TxBegin, IndexInBounds, TypeOK, Types
  <2>3. BudgetInBounds'
    BY <1>4, ConstantsAssumption DEF TxBegin, ConstantsAssumption, BudgetInBounds,
        TypeOK, Types
  <2> QED
    BY <1>4, <2>1, <2>2, <2>3, Ranges DEF TxBegin, None, TypeOK, Types
<1>5. ASSUME NEW t \in Threads, TxBeginLocked(t) PROVE TypeOK'
  BY <1>5, Budgets, FailType DEF TxBeginLocked, TypeOK, Types, BudgetInBounds
<1>6. ASSUME NEW t \in Threads, WRead(t) PROVE TypeOK'
  <2>1. idx[t] \in Data
    BY <1>6, Ranges DEF WRead, TypeOK, Types, IndexInBounds
  <2>2. pc' \in [Threads -> Labels] /\ idx' \in [Threads -> Nat]
    BY <1>6 DEF WRead, Labels, TypeOK, Types
  <2>3. Types'
    BY <1>6, <2>1, <2>2, LoadType DEF WRead, Load, DoomByRead, TypeOK, Types
  <2>4. IndexInBounds'
    <3>1. CASE idx[t] = NData
      BY <1>6, <2>1, <3>1, Ranges DEF WRead, IndexInBounds, Labels, TypeOK, Types
    <3>2. CASE idx[t] # NData
      <4>1. idx[t] + 1 \in Data
        BY <2>1, <3>2, Ranges
      <4> QED
        BY <1>6, <2>1, <3>2, <4>1, Ranges DEF WRead, IndexInBounds, Labels, TypeOK,
            Types
    <3> QED
      BY <3>1, <3>2
  <2>5. BudgetInBounds'
    BY <1>6 DEF WRead, Load, DoomByRead, BudgetInBounds, Labels, TypeOK, Types
  <2> QED
    BY <1>6, <2>3, <2>4, <2>5 DEF WRead, Load, DoomByRead, Labels, TypeOK, Types
<1>7. ASSUME NEW t \in Threads, WWrite(t) PROVE TypeOK'
  <2>1. idx[t] \in Data
    BY <1>7, Ranges DEF WWrite, TypeOK, Types, IndexInBounds
  <2>2. pc' \in [Threads -> Labels] /\ idx' \in [Threads -> Nat]
    BY <1>7 DEF WWrite, Labels, EndRound, WriteRelease, TypeOK, Types
  <2>3. Types'
    BY <1>7, <2>1, <2>2, StoreType DEF WWrite, Store, DoomByWrite, TypeOK, Types
  <2>4. IndexInBounds'
    <3>1. CASE idx[t] = NData
      BY <1>7, <2>1, <3>1, Ranges DEF WWrite, IndexInBounds, Labels, EndRound,
          WriteRelease, TypeOK, Types
    <3>2. CASE idx[t] # NData
      <4>1. idx[t] + 1 \in Data
        BY <2>1, <3>2, Ranges
      <4> QED
        BY <1>7, <2>1, <3>2, <4>1, Ranges DEF WWrite, IndexInBounds, Labels, EndRound,
            WriteRelease, TypeOK, Types
    <3> QED
      BY <3>1, <3>2
  <2>5. BudgetInBounds'
    BY <1>7 DEF WWrite, Store, DoomByWrite, BudgetInBounds, Labels, EndRound,
        WriteRelease, TypeOK, Types
  <2> QED
    BY <1>7, <2>3, <2>4, <2>5 DEF WWrite, Store, DoomByWrite, Labels, EndRound,
        WriteRelease, TypeOK, Types
<1>8. ASSUME NEW t \in Threads, RRead(t) PROVE TypeOK'
  <2>1. idx[t] \in Data
    BY <1>8, Ranges DEF RRead, TypeOK, Types, IndexInBounds
  <2>2. pc' \in [Threads -> Labels] /\ idx' \in [Threads -> Nat]
    BY <1>8 DEF RRead, Labels, EndRound, ReadRelease, TypeOK, Types
  <2>3. Types'
    BY <1>8, <2>1, <2>2, LoadType DEF RRead, Load, DoomByRead, TypeOK, Types
  <2>4. IndexInBounds'
    <3>1. CASE idx[t] = NData
      BY <1>8, <2>1, <3>1, Ranges DEF RRead, IndexInBounds, Labels, EndRound,
          ReadRelease, TypeOK, Types
    <3>2. CASE idx[t] # NData
      <4>1. idx[t] + 1 \in Data
        BY <2>1, <3>2, Ranges
      <4> QED
        BY <1>8, <2>1, <3>2, <4>1, Ranges DEF RRead, IndexInBounds, Labels, EndRound,
            ReadRelease, TypeOK, Types
    <3> QED
      BY <3>1, <3>2
  <2>5. BudgetInBounds'
    BY <1>8 DEF RRead, Load, DoomByRead, BudgetInBounds, Labels, EndRound, ReadRelease,
        TypeOK, Types
  <2> QED
    BY <1>8, <2>3, <2>4, <2>5 DEF RRead, Load, DoomByRead, Labels, EndRound,
        ReadRelease, TypeOK, Types
<1>9. ASSUME NEW t \in Threads, WCheck(t) PROVE TypeOK'
  <2>0. idx[t] \in Threads
    BY <1>9 DEF WCheck, IndexInBounds, TypeOK
  <2>1. idx[t] \in Threads /\ (~(LastPoll(idx[t])) => idx[t] + 1 \in Threads)
    BY <2>0, Ranges DEF LastPoll
  <2>2. idx' \in [Threads -> Nat] /\ pc' \in [Threads -> Labels]
    BY <1>9, <2>1 DEF WCheck, LastPoll, Polled, EndRound, Labels, TypeOK, Types
  <2>3. watch' \in [Threads -> SUBSET (0..N)]
    BY <1>9, <2>1, Ranges DEF WCheck, Polled, TypeOK, Types
  <2>4. Types'
    BY <1>9, <2>2, <2>3 DEF WCheck, TypeOK, Types
  <2>5. IndexInBounds'
    <3>1. CASE LastPoll(idx[t])
      BY <1>9, <2>1, <3>1, Ranges DEF WCheck, LastPoll, Polled, EndRound, IndexInBounds,
          TypeOK, Types
    <3>2. CASE ~(LastPoll(idx[t]))
      BY <1>9, <2>1, <3>2, Ranges DEF WCheck, LastPoll, Polled, EndRound, IndexInBounds,
          TypeOK, Types
    <3> QED
      BY <3>1, <3>2
  <2>6. BudgetInBounds'
    BY <1>9 DEF WCheck, LastPoll, Polled, EndRound, BudgetInBounds, TypeOK, Types
  <2> QED
    BY <1>9, <2>4, <2>5, <2>6, Ranges DEF WCheck, LastPoll, Polled, EndRound, None,
        TypeOK, Types
<1>10. ASSUME NEW t \in Threads, WCheckAbort(t) PROVE TypeOK'
  BY <1>10, Budgets, FailType DEF WCheckAbort, TypeOK, Types, BudgetInBounds
<1>11. ASSUME NEW t \in Threads, WEndHtm(t) PROVE TypeOK'
  <2>1. Types'
    BY <1>11, Ranges, ConstantsAssumption DEF WEndHtm, TxEnd, Labels, Lock, TypeOK,
        Types
  <2>2. IndexInBounds'
    BY <1>11, Ranges DEF WEndHtm, TxEnd, IndexInBounds, TypeOK, Types
  <2>3. BudgetInBounds'
    BY <1>11, ConstantsAssumption DEF WEndHtm, TxEnd, ConstantsAssumption,
        BudgetInBounds, TypeOK, Types
  <2> QED
    BY <1>11, <2>1, <2>2, <2>3, Ranges DEF WEndHtm, TxEnd, None, TypeOK, Types
<1>12. ASSUME NEW t \in Threads, WCas(t) PROVE TypeOK'
  <2>1. Types'
    BY <1>12, Ranges, ConstantsAssumption DEF WCas, DoomByLockWord, Labels, Lock,
        TypeOK, Types
  <2>2. IndexInBounds'
    BY <1>12, Ranges DEF WCas, DoomByLockWord, IndexInBounds, TypeOK, Types
  <2>3. BudgetInBounds'
    BY <1>12, ConstantsAssumption DEF WCas, DoomByLockWord, ConstantsAssumption,
        BudgetInBounds, TypeOK, Types
  <2> QED
    BY <1>12, <2>1, <2>2, <2>3, Ranges DEF WCas, DoomByLockWord, None, TypeOK, Types
<1>13. ASSUME NEW t \in Threads, WDrain(t) PROVE TypeOK'
  <2>0. idx[t] \in Threads
    BY <1>13 DEF WDrain, IndexInBounds, TypeOK
  <2>1. idx[t] \in Threads /\ (~(LastPoll(idx[t])) => idx[t] + 1 \in Threads)
    BY <2>0, Ranges DEF LastPoll
  <2>2. idx' \in [Threads -> Nat] /\ pc' \in [Threads -> Labels]
    BY <1>13, <2>1 DEF WDrain, LastPoll, EndRound, Labels, TypeOK, Types
  <2>3. waited' \in [Threads -> 0..N]
    BY <1>13, <2>1, Ranges DEF WDrain, None, TypeOK, Types
  <2>4. Types'
    BY <1>13, <2>2, <2>3 DEF WDrain, TypeOK, Types
  <2>5. IndexInBounds'
    <3>1. CASE LastPoll(idx[t])
      BY <1>13, <2>1, <3>1, Ranges DEF WDrain, LastPoll, EndRound, IndexInBounds,
          TypeOK, Types
    <3>2. CASE ~(LastPoll(idx[t]))
      BY <1>13, <2>1, <3>2, Ranges DEF WDrain, LastPoll, EndRound, IndexInBounds,
          TypeOK, Types
    <3> QED
      BY <3>1, <3>2
  <2>6. BudgetInBounds'
    BY <1>13 DEF WDrain, LastPoll, EndRound, BudgetInBounds, TypeOK, Types
  <2> QED
    BY <1>13, <2>4, <2>5, <2>6, Ranges DEF WDrain, LastPoll, EndRound, None, TypeOK,
        Types
<1>14. ASSUME NEW t \in Threads, WUnlock(t) PROVE TypeOK'
  <2>1. Types'
    BY <1>14, Ranges, ConstantsAssumption DEF WUnlock, DoomByLockWord, Labels, Lock,
        TypeOK, Types
  <2>2. IndexInBounds'
    BY <1>14, Ranges DEF WUnlock, DoomByLockWord, IndexInBounds, TypeOK, Types
  <2>3. BudgetInBounds'
    BY <1>14, ConstantsAssumption DEF WUnlock, DoomByLockWord, ConstantsAssumption,
        BudgetInBounds, TypeOK, Types
  <2> QED
    BY <1>14, <2>1, <2>2, <2>3, Ranges DEF WUnlock, DoomByLockWord, None, TypeOK, Types
<1>15. ASSUME NEW t \in Threads, WUnclock(t) PROVE TypeOK'
  <2>1. Types'
    BY <1>15, Ranges, ConstantsAssumption DEF WUnclock, Labels, Lock, TypeOK, Types
  <2>2. IndexInBounds'
    BY <1>15, Ranges DEF WUnclock, IndexInBounds, TypeOK, Types
  <2>3. BudgetInBounds'
    BY <1>15, ConstantsAssumption DEF WUnclock, ConstantsAssumption, BudgetInBounds,
        TypeOK, Types
  <2> QED
    BY <1>15, <2>1, <2>2, <2>3, Ranges DEF WUnclock, None, TypeOK, Types
<1>16. ASSUME NEW t \in Threads, RScan(t) PROVE TypeOK'
  <2>0. idx[t] \in Threads /\ is_waiting[idx[t]] \in 0..N
    BY <1>16 DEF RScan, IndexInBounds, TypeOK, Types
  <2>1. Types'
    <3>1. PICK w \in 0..N, l \in {"r_mark", "r_clock"} :
            waited' = [waited EXCEPT ![t] = w] /\ pc' = [pc EXCEPT ![t] = l]
      <4>1. waited[t] \in 0..N /\ waited = [waited EXCEPT ![t] = waited[t]]
        BY DEF TypeOK, Types
      <4>. QED
        BY <1>16, <2>0, <4>1 DEF RScan
    <3>. QED
      BY <1>16, <3>1 DEF RScan, Labels, TypeOK, Types
  <2>2. IndexInBounds'
    BY <1>16, <2>0 DEF RScan, IndexInBounds, TypeOK, Types
  <2>3. BudgetInBounds'
    BY <1>16 DEF RScan, BudgetInBounds, TypeOK, Types
  <2>4. \A u \in Threads : pc'[u] \in {"r_mark", "r_wait"} => waited'[u] # None
    BY <1>16, <2>0 DEF RScan, None, TypeOK, Types
  <2> QED
    BY <2>1, <2>2, <2>3, <2>4 DEF TypeOK
<1>17. ASSUME NEW t \in Threads, RClock(t) \/ RClock2(t) PROVE TypeOK'
  <2>1. PICK w \in 0..N, k \in Threads, l \in ClockNext : ClockEffect(t, w, k, l)
    BY <1>17, ClockStep
  <2>2. Types'
    BY <2>1, Ranges DEF ClockEffect, ClockNext, Labels, TypeOK, Types
  <2>3. IndexInBounds'
    BY <2>1, Ranges DEF ClockEffect, ClockNext, IndexInBounds, TypeOK, Types
  <2>4. BudgetInBounds'
    BY <2>1 DEF ClockEffect, ClockNext, BudgetInBounds, TypeOK, Types
  <2>5. \A u \in Threads : pc'[u] \in {"r_mark", "r_wait"} => waited'[u] # None
    BY <2>1 DEF ClockEffect, TypeOK, Types
  <2> QED
    BY <2>2, <2>3, <2>4, <2>5 DEF TypeOK
<1>18. ASSUME NEW t \in Threads, RMark(t) PROVE TypeOK'
  <2>1. Types'
    BY <1>18, Ranges, ConstantsAssumption DEF RMark, Labels, Lock, TypeOK, Types
  <2>2. IndexInBounds'
    BY <1>18, Ranges DEF RMark, IndexInBounds, TypeOK, Types
  <2>3. BudgetInBounds'
    BY <1>18, ConstantsAssumption DEF RMark, ConstantsAssumption, BudgetInBounds,
        TypeOK, Types
  <2> QED
    BY <1>18, <2>1, <2>2, <2>3, Ranges DEF RMark, None, TypeOK, Types
<1>19. ASSUME NEW t \in Threads, RWait(t) PROVE TypeOK'
  <2>1. Types'
    BY <1>19, Ranges, ConstantsAssumption DEF RWait, Labels, Lock, TypeOK, Types
  <2>2. IndexInBounds'
    BY <1>19, Ranges DEF RWait, IndexInBounds, TypeOK, Types
  <2>3. BudgetInBounds'
    BY <1>19, ConstantsAssumption DEF RWait, ConstantsAssumption, BudgetInBounds,
        TypeOK, Types
  <2> QED
    BY <1>19, <2>1, <2>2, <2>3, Ranges DEF RWait, None, TypeOK, Types
<1>20. ASSUME NEW t \in Threads, RUnmark(t) PROVE TypeOK'
  <2>1. Types'
    BY <1>20, Ranges, ConstantsAssumption DEF RUnmark, None, Labels, Lock, TypeOK, Types
  <2>2. IndexInBounds'
    BY <1>20, Ranges DEF RUnmark, None, IndexInBounds, TypeOK, Types
  <2>3. BudgetInBounds'
    BY <1>20, ConstantsAssumption DEF RUnmark, None, ConstantsAssumption,
        BudgetInBounds, TypeOK, Types
  <2> QED
    BY <1>20, <2>1, <2>2, <2>3, Ranges DEF RUnmark, None, TypeOK, Types
<1>21. ASSUME NEW t \in Threads, RFlag(t) PROVE TypeOK'
  <2>1. Types'
    BY <1>21, Ranges, ConstantsAssumption DEF RFlag, SetFlag, DoomByLockWord, Labels,
        Lock, TypeOK, Types
  <2>2. IndexInBounds'
    BY <1>21, Ranges DEF RFlag, SetFlag, DoomByLockWord, IndexInBounds, TypeOK, Types
  <2>3. BudgetInBounds'
    BY <1>21, ConstantsAssumption DEF RFlag, SetFlag, DoomByLockWord,
        ConstantsAssumption, BudgetInBounds, TypeOK, Types
  <2> QED
    BY <1>21, <2>1, <2>2, <2>3, Ranges DEF RFlag, SetFlag, DoomByLockWord, None, TypeOK,
        Types
<1>22. ASSUME NEW t \in Threads, RRecheck(t) PROVE TypeOK'
  <2>1. Types'
    BY <1>22, Ranges, ConstantsAssumption DEF RRecheck, Labels, Lock, TypeOK, Types
  <2>2. IndexInBounds'
    BY <1>22, Ranges DEF RRecheck, IndexInBounds, TypeOK, Types
  <2>3. BudgetInBounds'
    BY <1>22, ConstantsAssumption DEF RRecheck, ConstantsAssumption, BudgetInBounds,
        TypeOK, Types
  <2> QED
    BY <1>22, <2>1, <2>2, <2>3, Ranges DEF RRecheck, None, TypeOK, Types
<1>23. ASSUME NEW t \in Threads, RBack(t) PROVE TypeOK'
  <2>1. Types'
    BY <1>23, Ranges, ConstantsAssumption DEF RBack, SetFlag, DoomByLockWord, Labels,
        Lock, TypeOK, Types
  <2>2. IndexInBounds'
    BY <1>23, Ranges DEF RBack, SetFlag, DoomByLockWord, IndexInBounds, TypeOK, Types
  <2>3. BudgetInBounds'
    BY <1>23, ConstantsAssumption DEF RBack, SetFlag, DoomByLockWord,
        ConstantsAssumption, BudgetInBounds, TypeOK, Types
  <2> QED
    BY <1>23, <2>1, <2>2, <2>3, Ranges DEF RBack, SetFlag, DoomByLockWord, None, TypeOK,
        Types
<1>24. ASSUME NEW t \in Threads, RLockWait(t) PROVE TypeOK'
  <2>1. Types'
    BY <1>24, Ranges, ConstantsAssumption DEF RLockWait, Labels, Lock, TypeOK, Types
  <2>2. IndexInBounds'
    BY <1>24, Ranges DEF RLockWait, IndexInBounds, TypeOK, Types
  <2>3. BudgetInBounds'
    BY <1>24, ConstantsAssumption DEF RLockWait, ConstantsAssumption, BudgetInBounds,
        TypeOK, Types
  <2> QED
    BY <1>24, <2>1, <2>2, <2>3, Ranges DEF RLockWait, None, TypeOK, Types
<1>25. ASSUME NEW t \in Threads, REndHtm(t) PROVE TypeOK'
  <2>1. Types'
    BY <1>25, Ranges, ConstantsAssumption DEF REndHtm, TxEnd, Labels, Lock, TypeOK,
        Types
  <2>2. IndexInBounds'
    BY <1>25, Ranges DEF REndHtm, TxEnd, IndexInBounds, TypeOK, Types
  <2>3. BudgetInBounds'
    BY <1>25, ConstantsAssumption DEF REndHtm, TxEnd, ConstantsAssumption,
        BudgetInBounds, TypeOK, Types
  <2> QED
    BY <1>25, <2>1, <2>2, <2>3, Ranges DEF REndHtm, TxEnd, None, TypeOK, Types
<1>26. ASSUME NEW t \in Threads, RClear(t) PROVE TypeOK'
  <2>1. Types'
    BY <1>26, Ranges, ConstantsAssumption DEF RClear, SetFlag, DoomByLockWord, Labels,
        Lock, TypeOK, Types
  <2>2. IndexInBounds'
    BY <1>26, Ranges DEF RClear, SetFlag, DoomByLockWord, IndexInBounds, TypeOK, Types
  <2>3. BudgetInBounds'
    BY <1>26, ConstantsAssumption DEF RClear, SetFlag, DoomByLockWord,
        ConstantsAssumption, BudgetInBounds, TypeOK, Types
  <2> QED
    BY <1>26, <2>1, <2>2, <2>3, Ranges DEF RClear, SetFlag, DoomByLockWord, None,
        TypeOK, Types
<1>27. ASSUME NEW t \in Threads, RDone(t) PROVE TypeOK'
  <2>1. Types'
    BY <1>27, Ranges, ConstantsAssumption DEF RDone, Labels, Lock, TypeOK, Types
  <2>2. IndexInBounds'
    BY <1>27, Ranges DEF RDone, IndexInBounds, TypeOK, Types
  <2>3. BudgetInBounds'
    BY <1>27, ConstantsAssumption DEF RDone, ConstantsAssumption, BudgetInBounds,
        TypeOK, Types
  <2> QED
    BY <1>27, <2>1, <2>2, <2>3, Ranges DEF RDone, None, TypeOK, Types
<1>28. ASSUME NEW t \in Threads, TxAbort(t) PROVE TypeOK'
  BY <1>28, Budgets, FailType DEF TxAbort, TypeOK, Types, BudgetInBounds
<1>29. CASE Finished
  BY <1>0, <1>29 DEF Finished
<1> QED
  BY <1>0, <1>1, <1>2, <1>3, <1>4, <1>5, <1>6, <1>7, <1>8, <1>9, <1>10, <1>11, <1>12,
      <1>13, <1>14, <1>15, <1>16, <1>17, <1>18, <1>19, <1>20, <1>21, <1>22, <1>23,
      <1>24, <1>25, <1>26, <1>27, <1>28, <1>29 DEF Next, Run, MustAbort

----------------------------------------------------------------------------
(* Exclusion. *)

\* The initial state satisfies the invariant of the lock.
LEMMA ExclusionInit == Init => Exclusion
  BY InitType DEF Init, NoTransactions, Exclusion, TxShape, ModeShape, LockShape,
      FlagShape, Drained, Checked, HoldsLock, LockSection, ReadsBare

\* A failed attempt leaves the other threads' protection as it was.
LEMMA FailExclusion ==
  ASSUME Exclusion, NEW t \in Threads, NEW b \in Int, Fail(t, b),
         htm[t] # "off" \/ pc[t] \in {"w_begin", "r_begin"}
  PROVE  TxShape' /\ ModeShape' /\ LockShape' /\ FlagShape' /\ Drained' /\ Checked'
<1> USE DEF Exclusion, Fail, TxEnd, ReadMode, ScanRound, TypeOK, Types
<1>1. TxShape'
  BY DEF TxShape
<1>2. ModeShape'
  BY DEF ModeShape, TxShape
<1>3. LockShape'
  BY DEF TxShape, LockShape, HoldsLock, LockSection
<1>4. FlagShape'
  BY DEF FlagShape, ReadsBare
<1>5. Drained'
  BY DEF TxShape, Drained, LockSection, ReadsBare
<1>6. Checked'
  BY DEF Checked
<1> QED
  BY <1>1, <1>2, <1>3, <1>4, <1>5, <1>6

\* Every step keeps the invariant of the lock: flags, scans and subscription.
LEMMA ExclusionStep == Exclusion /\ [Next]_vars => Exclusion'
<1> SUFFICES ASSUME Exclusion, [Next]_vars PROVE Exclusion'
  OBVIOUS
<1> DEFINE Goal == TxShape /\ ModeShape /\ LockShape /\ FlagShape /\ Drained /\ Checked
<1> SUFFICES Goal'
  BY TypeStep DEF Exclusion
<1>0. CASE UNCHANGED vars
  BY <1>0 DEF vars, Exclusion, TxShape, ModeShape, LockShape, FlagShape, Drained,
      Checked, HoldsLock, LockSection, ReadsBare
<1>1. ASSUME NEW t \in Threads, NEW o \in {"read", "write"}, Start(t, o) PROVE Goal'
  <2>1. TxShape'
    BY <1>1, Ranges DEF Start, Exclusion, TxShape, TypeOK, Types
  <2>2. ModeShape'
    BY <1>1, ConstantsAssumption DEF Start, ConstantsAssumption, Exclusion, ModeShape,
        TxShape, TypeOK, Types
  <2>3. LockShape'
    BY <1>1, Ranges DEF Start, Exclusion, TxShape, ModeShape, LockShape, HoldsLock,
        LockSection, TypeOK, Types
  <2>4. FlagShape'
    BY <1>1, Ranges DEF Start, Exclusion, FlagShape, TxShape, ReadsBare, TypeOK, Types
  <2>5. Drained'
    BY <1>1, Ranges DEF Start, Exclusion, TxShape, ModeShape, Drained, LockSection,
        ReadsBare, FlagShape, LockShape, HoldsLock, TypeOK, Types
  <2>6. Checked'
    BY <1>1, Ranges DEF Start, Exclusion, Checked, TxShape, TypeOK, Types
  <2> QED
    BY <2>1, <2>2, <2>3, <2>4, <2>5, <2>6
<1>2. ASSUME NEW t \in Threads, Spin(t) PROVE Goal'
  <2>1. TxShape'
    BY <1>2, Ranges DEF Spin, Exclusion, TxShape, TypeOK, Types
  <2>2. ModeShape'
    BY <1>2, Ranges DEF Spin, Exclusion, ModeShape, TxShape, TypeOK, Types
  <2>3. LockShape'
    BY <1>2, Ranges DEF Spin, Exclusion, TxShape, ModeShape, LockShape, HoldsLock,
        LockSection, TypeOK, Types
  <2>4. FlagShape'
    BY <1>2, Ranges DEF Spin, Exclusion, FlagShape, TxShape, ReadsBare, TypeOK, Types
  <2>5. Drained'
    BY <1>2, Ranges DEF Spin, Exclusion, TxShape, ModeShape, Drained, LockSection,
        ReadsBare, FlagShape, LockShape, HoldsLock, TypeOK, Types
  <2>6. Checked'
    BY <1>2, Ranges DEF Spin, Exclusion, Checked, TxShape, TypeOK, Types
  <2> QED
    BY <2>1, <2>2, <2>3, <2>4, <2>5, <2>6
<1>3. ASSUME NEW t \in Threads, WClock(t) PROVE Goal'
  <2>1. TxShape'
    BY <1>3, Ranges DEF WClock, Exclusion, TxShape, TypeOK, Types
  <2>2. ModeShape'
    BY <1>3, Ranges DEF WClock, Exclusion, ModeShape, TxShape, TypeOK, Types
  <2>3. LockShape'
    BY <1>3, Ranges DEF WClock, Exclusion, TxShape, ModeShape, LockShape, HoldsLock,
        LockSection, TypeOK, Types
  <2>4. FlagShape'
    BY <1>3, Ranges DEF WClock, Exclusion, FlagShape, TxShape, ReadsBare, TypeOK, Types
  <2>5. Drained'
    BY <1>3, Ranges DEF WClock, Exclusion, TxShape, ModeShape, Drained, LockSection,
        ReadsBare, FlagShape, LockShape, HoldsLock, TypeOK, Types
  <2>6. Checked'
    BY <1>3, Ranges DEF WClock, Exclusion, Checked, TxShape, TypeOK, Types
  <2> QED
    BY <2>1, <2>2, <2>3, <2>4, <2>5, <2>6
<1>4. ASSUME NEW t \in Threads, TxBegin(t) PROVE Goal'
  <2>1. TxShape'
    BY <1>4, Ranges DEF TxBegin, Lock, Unlocked, Exclusion, TxShape, TypeOK, Types
  <2>2. ModeShape'
    BY <1>4, Ranges DEF TxBegin, Lock, Unlocked, Exclusion, ModeShape, TxShape, TypeOK,
        Types
  <2>3. LockShape'
    BY <1>4, Ranges DEF TxBegin, Lock, Unlocked, Exclusion, TxShape, ModeShape,
        LockShape, HoldsLock, LockSection, TypeOK, Types
  <2>4. FlagShape'
    BY <1>4, Ranges DEF TxBegin, Lock, Unlocked, Exclusion, FlagShape, TxShape,
        ReadsBare, TypeOK, Types
  <2>5. Drained'
    BY <1>4, Ranges DEF TxBegin, Lock, Unlocked, Exclusion, TxShape, ModeShape, Drained,
        LockSection, ReadsBare, FlagShape, LockShape, HoldsLock, TypeOK, Types
  <2>6. Checked'
    BY <1>4, Ranges DEF TxBegin, Lock, Unlocked, Exclusion, Checked, TxShape, TypeOK,
        Types
  <2> QED
    BY <2>1, <2>2, <2>3, <2>4, <2>5, <2>6
<1>5. ASSUME NEW t \in Threads, TxBeginLocked(t) PROVE Goal'
  BY <1>5, Budgets, FailExclusion DEF TxBeginLocked, Exclusion, TypeOK, Types
<1>6. ASSUME NEW t \in Threads, WRead(t) PROVE Goal'
  <2>1. TxShape'
    BY <1>6, Ranges DEF WRead, Load, DoomByRead, Exclusion, TxShape, TypeOK, Types
  <2>2. ModeShape'
    BY <1>6, Ranges DEF WRead, Load, DoomByRead, Exclusion, ModeShape, TxShape, TypeOK,
        Types
  <2>3. LockShape'
    BY <1>6, Ranges DEF WRead, Load, DoomByRead, Exclusion, TxShape, ModeShape,
        LockShape, HoldsLock, LockSection, TypeOK, Types
  <2>4. FlagShape'
    BY <1>6, Ranges DEF WRead, Load, DoomByRead, Exclusion, FlagShape, TxShape,
        ReadsBare, TypeOK, Types
  <2>5. Drained'
    BY <1>6, Ranges DEF WRead, Load, DoomByRead, Exclusion, TxShape, ModeShape, Drained,
        LockSection, ReadsBare, FlagShape, LockShape, HoldsLock, TypeOK, Types
  <2>6. Checked'
    BY <1>6, Ranges DEF WRead, Load, DoomByRead, Exclusion, Checked, TxShape, TypeOK,
        Types
  <2> QED
    BY <2>1, <2>2, <2>3, <2>4, <2>5, <2>6
<1>7. ASSUME NEW t \in Threads, WWrite(t) PROVE Goal'
  <2>1. TxShape'
    BY <1>7 DEF WWrite, Store, DoomByWrite, EndRound, WriteRelease, Exclusion, TxShape,
        ModeShape, TypeOK, Types
  <2>2. ModeShape'
    BY <1>7, Ranges DEF WWrite, Store, DoomByWrite, EndRound, WriteRelease, Exclusion,
        ModeShape, TxShape, TypeOK, Types
  <2>3. LockShape'
    BY <1>7, Ranges DEF WWrite, Store, DoomByWrite, EndRound, WriteRelease, Exclusion,
        TxShape, ModeShape, LockShape, HoldsLock, LockSection, TypeOK, Types
  <2>4. FlagShape'
    BY <1>7, Ranges DEF WWrite, Store, DoomByWrite, EndRound, WriteRelease, Exclusion,
        FlagShape, TxShape, ReadsBare, TypeOK, Types
  <2>5. Drained'
    BY <1>7, Ranges DEF WWrite, Store, DoomByWrite, EndRound, WriteRelease, Exclusion,
        TxShape, ModeShape, Drained, LockSection, ReadsBare, FlagShape, LockShape,
        HoldsLock, TypeOK, Types
  <2>6. Checked'
    BY <1>7, Ranges DEF WWrite, Store, DoomByWrite, EndRound, WriteRelease, Exclusion,
        Checked, TxShape, TypeOK, Types
  <2> QED
    BY <2>1, <2>2, <2>3, <2>4, <2>5, <2>6
<1>8. ASSUME NEW t \in Threads, RRead(t) PROVE Goal'
  <2>1. TxShape'
    <3>1. ReadRelease(t) = "r_end_htm" => htm[t] # "off"
      BY <1>8, ConstantsAssumption DEF ConstantsAssumption, RRead, ReadRelease,
          Exclusion, ModeShape
    <3>2. ReadRelease(t) \in {"r_end_htm", "open", "r_clear"}
      BY DEF ReadRelease
    <3>3. ReadRelease(t) = "open" => htm[t] # "off"
      BY DEF ReadRelease
    <3>4. ReadRelease(t) = "r_clear" => htm[t] # "on"
      BY <1>8 DEF ReadRelease, RRead, Load, Live, Exclusion, ModeShape, TypeOK, Types
    <3> QED
      BY <1>8, <3>1, <3>2, <3>3, <3>4 DEF RRead, Load, Live, DoomByRead, EndRound,
          Exclusion, TxShape, TypeOK, Types
  <2>2. ModeShape'
    BY <1>8, Ranges DEF RRead, Load, DoomByRead, EndRound, ReadRelease, Exclusion,
        ModeShape, TxShape, TypeOK, Types
  <2>3. LockShape'
    BY <1>8, Ranges DEF RRead, Load, DoomByRead, EndRound, ReadRelease, Exclusion,
        TxShape, ModeShape, LockShape, HoldsLock, LockSection, TypeOK, Types
  <2>4. FlagShape'
    BY <1>8, Ranges DEF RRead, Load, DoomByRead, EndRound, ReadRelease, Exclusion,
        FlagShape, TxShape, ReadsBare, TypeOK, Types
  <2>5. Drained'
    BY <1>8, Ranges DEF RRead, Load, DoomByRead, EndRound, ReadRelease, Exclusion,
        TxShape, ModeShape, Drained, LockSection, ReadsBare, FlagShape, LockShape,
        HoldsLock, TypeOK, Types
  <2>6. Checked'
    BY <1>8, Ranges DEF RRead, Load, DoomByRead, EndRound, ReadRelease, Exclusion,
        Checked, TxShape, TypeOK, Types
  <2> QED
    BY <2>1, <2>2, <2>3, <2>4, <2>5, <2>6
<1>9. ASSUME NEW t \in Threads, WCheck(t) PROVE Goal'
  <2>1. TxShape'
    BY <1>9, Ranges DEF WCheck, EndRound, LastPoll, Polled, NoneFlagged, Exclusion,
        TxShape, TypeOK, Types
  <2>2. ModeShape'
    BY <1>9, Ranges DEF WCheck, EndRound, LastPoll, Polled, NoneFlagged, Exclusion,
        ModeShape, TxShape, TypeOK, Types
  <2>3. LockShape'
    BY <1>9, Ranges DEF WCheck, EndRound, LastPoll, Polled, NoneFlagged, Exclusion,
        TxShape, ModeShape, LockShape, HoldsLock, LockSection, TypeOK, Types
  <2>4. FlagShape'
    BY <1>9, Ranges DEF WCheck, EndRound, LastPoll, Polled, NoneFlagged, Exclusion,
        FlagShape, TxShape, ReadsBare, TypeOK, Types
  <2>5. Drained'
    BY <1>9, Ranges DEF WCheck, EndRound, LastPoll, Polled, NoneFlagged, Exclusion,
        TxShape, ModeShape, Drained, LockSection, ReadsBare, FlagShape, LockShape,
        HoldsLock, TypeOK, Types
  <2>6. Checked'
    BY <1>9, Ranges DEF WCheck, EndRound, LastPoll, Polled, NoneFlagged, Exclusion,
        Checked, TxShape, TypeOK, Types
  <2> QED
    BY <2>1, <2>2, <2>3, <2>4, <2>5, <2>6
<1>10. ASSUME NEW t \in Threads, WCheckAbort(t) PROVE Goal'
  BY <1>10, Budgets, FailExclusion DEF WCheckAbort, Exclusion, TypeOK, Types
<1>11. ASSUME NEW t \in Threads, WEndHtm(t) PROVE Goal'
  <2>1. TxShape'
    BY <1>11, Ranges DEF WEndHtm, TxEnd, Exclusion, TxShape, TypeOK, Types
  <2>2. ModeShape'
    BY <1>11, Ranges DEF WEndHtm, TxEnd, Exclusion, ModeShape, TxShape, TypeOK, Types
  <2>3. LockShape'
    BY <1>11, Ranges DEF WEndHtm, TxEnd, Exclusion, TxShape, ModeShape, LockShape,
        HoldsLock, LockSection, TypeOK, Types
  <2>4. FlagShape'
    BY <1>11, Ranges DEF WEndHtm, TxEnd, Exclusion, FlagShape, TxShape, ReadsBare,
        TypeOK, Types
  <2>5. Drained'
    BY <1>11, Ranges DEF WEndHtm, TxEnd, Exclusion, TxShape, ModeShape, Drained,
        LockSection, ReadsBare, FlagShape, LockShape, HoldsLock, TypeOK, Types
  <2>6. Checked'
    BY <1>11, Ranges DEF WEndHtm, TxEnd, Exclusion, Checked, TxShape, TypeOK, Types
  <2> QED
    BY <2>1, <2>2, <2>3, <2>4, <2>5, <2>6
<1>12. ASSUME NEW t \in Threads, WCas(t) PROVE Goal'
  <2>1. TxShape'
    BY <1>12, Ranges DEF WCas, DoomByLockWord, Exclusion, TxShape, TypeOK, Types
  <2>2. ModeShape'
    BY <1>12, Ranges DEF WCas, DoomByLockWord, Exclusion, ModeShape, TxShape, TypeOK,
        Types
  <2>3. LockShape'
    BY <1>12, Ranges DEF WCas, DoomByLockWord, Exclusion, TxShape, ModeShape, LockShape,
        HoldsLock, LockSection, TypeOK, Types
  <2>4. FlagShape'
    BY <1>12, Ranges DEF WCas, DoomByLockWord, Exclusion, FlagShape, TxShape, ReadsBare,
        TypeOK, Types
  <2>5. Drained'
    <3>1. idx[t] = 1
      BY <1>12 DEF WCas, Exclusion, IndexInBounds, TypeOK
    <3> QED
      BY <1>12, <3>1, Ranges DEF WCas, DoomByLockWord, Exclusion, TxShape, ModeShape,
          Drained, LockSection, ReadsBare, FlagShape, LockShape, HoldsLock, TypeOK,
          Types
  <2>6. Checked'
    BY <1>12, Ranges DEF WCas, DoomByLockWord, Exclusion, Checked, TxShape, TypeOK,
        Types
  <2> QED
    BY <2>1, <2>2, <2>3, <2>4, <2>5, <2>6
<1>13. ASSUME NEW t \in Threads, WDrain(t) PROVE Goal'
  <2>1. TxShape'
    BY <1>13, Ranges DEF WDrain, EndRound, LastPoll, Polled, NoneFlagged, Exclusion,
        TxShape, TypeOK, Types
  <2>2. ModeShape'
    BY <1>13, Ranges DEF WDrain, EndRound, LastPoll, Polled, NoneFlagged, Exclusion,
        ModeShape, TxShape, TypeOK, Types
  <2>3. LockShape'
    BY <1>13, Ranges DEF WDrain, EndRound, LastPoll, Polled, NoneFlagged, Exclusion,
        TxShape, ModeShape, LockShape, HoldsLock, LockSection, TypeOK, Types
  <2>4. FlagShape'
    BY <1>13, Ranges DEF WDrain, EndRound, LastPoll, Polled, NoneFlagged, Exclusion,
        FlagShape, TxShape, ReadsBare, TypeOK, Types
  <2>5. Drained'
    <3> SUFFICES ASSUME NEW w \in Threads, NEW u \in Threads,
                        (LockSection(w) \/ (pc[w] = "w_drain" /\ u < idx[w]))'
                 PROVE  ~ReadsBare(u)'
      BY DEF Drained
    <3>1. ~ReadsBare(u) => ~ReadsBare(u)'
      BY <1>13 DEF WDrain, EndRound, ReadsBare, Exclusion, TypeOK, Types
    <3>2. CASE w # t
      BY <1>13, <3>1, <3>2 DEF WDrain, EndRound, LastPoll, Polled, NoneFlagged,
          Exclusion, Drained, LockSection, TypeOK, Types
    <3>3. CASE w = t /\ u < idx[t]
      BY <1>13, <3>1, <3>3 DEF WDrain, Exclusion, Drained
    <3>4. CASE w = t /\ u >= idx[t]
      <4>1. reader_locks[u] = 0
        <5>1. CASE LastPoll(idx[t])
          BY <1>13, <3>4, <5>1, Ranges DEF WDrain, NoneFlagged, Polled, LastPoll,
              Exclusion, TypeOK, Types
        <5>2. CASE ~LastPoll(idx[t])
          <6>1. u < idx[t] + 1
            BY <1>13, <3>4, <5>2 DEF WDrain, EndRound, LockSection, Exclusion, TypeOK,
                Types
          <6>0. idx[t] \in Nat /\ u \in Nat
            BY Ranges DEF Exclusion, TypeOK, Types
          <6>2. u = idx[t]
            BY <3>4, <6>0, <6>1
          <6>3. idx[t] \in Polled(idx[t])
            BY <5>2, ConstantsAssumption DEF ConstantsAssumption, Polled, LastPoll
          <6> QED
            BY <1>13, <6>2, <6>3 DEF WDrain, NoneFlagged
        <5> QED
          BY <5>1, <5>2
      <4> QED
        BY <3>1, <4>1 DEF Exclusion, FlagShape
    <3> QED
      BY <3>2, <3>3, <3>4, Ranges DEF Exclusion, TypeOK, Types
  <2>6. Checked'
    BY <1>13, Ranges DEF WDrain, EndRound, LastPoll, Polled, NoneFlagged, Exclusion,
        Checked, TxShape, TypeOK, Types
  <2> QED
    BY <2>1, <2>2, <2>3, <2>4, <2>5, <2>6
<1>14. ASSUME NEW t \in Threads, WUnlock(t) PROVE Goal'
  <2>1. TxShape'
    BY <1>14, Ranges DEF WUnlock, DoomByLockWord, Exclusion, TxShape, TypeOK, Types
  <2>2. ModeShape'
    BY <1>14, Ranges DEF WUnlock, DoomByLockWord, Exclusion, ModeShape, TxShape, TypeOK,
        Types
  <2>3. LockShape'
    BY <1>14, Ranges DEF WUnlock, DoomByLockWord, Exclusion, TxShape, ModeShape,
        LockShape, HoldsLock, LockSection, TypeOK, Types
  <2>4. FlagShape'
    BY <1>14, Ranges DEF WUnlock, DoomByLockWord, Exclusion, FlagShape, TxShape,
        ReadsBare, TypeOK, Types
  <2>5. Drained'
    BY <1>14, Ranges DEF WUnlock, DoomByLockWord, Exclusion, TxShape, ModeShape,
        Drained, LockSection, ReadsBare, FlagShape, LockShape, HoldsLock, TypeOK, Types
  <2>6. Checked'
    BY <1>14, Ranges DEF WUnlock, DoomByLockWord, Exclusion, Checked, TxShape, TypeOK,
        Types
  <2> QED
    BY <2>1, <2>2, <2>3, <2>4, <2>5, <2>6
<1>15. ASSUME NEW t \in Threads, WUnclock(t) PROVE Goal'
  <2>1. TxShape'
    BY <1>15, Ranges DEF WUnclock, Exclusion, TxShape, TypeOK, Types
  <2>2. ModeShape'
    BY <1>15, Ranges DEF WUnclock, Exclusion, ModeShape, TxShape, TypeOK, Types
  <2>3. LockShape'
    BY <1>15, Ranges DEF WUnclock, Exclusion, TxShape, ModeShape, LockShape, HoldsLock,
        LockSection, TypeOK, Types
  <2>4. FlagShape'
    BY <1>15, Ranges DEF WUnclock, Exclusion, FlagShape, TxShape, ReadsBare, TypeOK,
        Types
  <2>5. Drained'
    BY <1>15, Ranges DEF WUnclock, Exclusion, TxShape, ModeShape, Drained, LockSection,
        ReadsBare, FlagShape, LockShape, HoldsLock, TypeOK, Types
  <2>6. Checked'
    BY <1>15, Ranges DEF WUnclock, Exclusion, Checked, TxShape, TypeOK, Types
  <2> QED
    BY <2>1, <2>2, <2>3, <2>4, <2>5, <2>6
<1>16. ASSUME NEW t \in Threads, RScan(t) PROVE Goal'
  <2>1. TxShape'
    BY <1>16, Ranges DEF RScan, Exclusion, TxShape, TypeOK, Types
  <2>2. ModeShape'
    BY <1>16, Ranges DEF RScan, Exclusion, ModeShape, TxShape, TypeOK, Types
  <2>3. LockShape'
    <3>1. /\ writer_lock' = writer_lock /\ htm' = htm
          /\ \A u \in Threads : HoldsLock(u)' => HoldsLock(u)
      BY <1>16 DEF RScan, Exclusion, HoldsLock, LockSection, TypeOK, Types
    <3> QED
      BY <3>1 DEF Exclusion, LockShape
  <2>4. FlagShape'
    BY <1>16, Ranges DEF RScan, Exclusion, FlagShape, TxShape, ReadsBare, TypeOK, Types
  <2>5. Drained'
    BY <1>16, Ranges DEF RScan, Exclusion, TxShape, ModeShape, Drained, LockSection,
        ReadsBare, FlagShape, LockShape, HoldsLock, TypeOK, Types
  <2>6. Checked'
    BY <1>16, Ranges DEF RScan, Exclusion, Checked, TxShape, TypeOK, Types
  <2> QED
    BY <2>1, <2>2, <2>3, <2>4, <2>5, <2>6
<1>17. ASSUME NEW t \in Threads, RClock(t) \/ RClock2(t) PROVE Goal'
  <2>1. TxShape'
    BY <1>17, Ranges DEF RClock, RClock2, EndClock, EndRound, ScanRound, Exclusion,
        TxShape, TypeOK, Types
  <2>2. ModeShape'
    BY <1>17, Ranges DEF RClock, RClock2, EndClock, EndRound, ScanRound, Exclusion,
        ModeShape, TxShape, TypeOK, Types
  <2>3. LockShape'
    BY <1>17, Ranges DEF RClock, RClock2, EndClock, EndRound, ScanRound, Exclusion,
        TxShape, ModeShape, LockShape, HoldsLock, LockSection, TypeOK, Types
  <2>4. FlagShape'
    BY <1>17, Ranges DEF RClock, RClock2, EndClock, EndRound, ScanRound, Exclusion,
        FlagShape, TxShape, ReadsBare, TypeOK, Types
  <2>5. Drained'
    BY <1>17, Ranges DEF RClock, RClock2, EndClock, EndRound, ScanRound, Exclusion,
        TxShape, ModeShape, Drained, LockSection, ReadsBare, FlagShape, LockShape,
        HoldsLock, TypeOK, Types
  <2>6. Checked'
    BY <1>17, Ranges DEF RClock, RClock2, EndClock, EndRound, ScanRound, Exclusion,
        Checked, TxShape, TypeOK, Types
  <2> QED
    BY <2>1, <2>2, <2>3, <2>4, <2>5, <2>6
<1>18. ASSUME NEW t \in Threads, RMark(t) PROVE Goal'
  <2>1. TxShape'
    BY <1>18, Ranges DEF RMark, Exclusion, TxShape, TypeOK, Types
  <2>2. ModeShape'
    BY <1>18, Ranges DEF RMark, Exclusion, ModeShape, TxShape, TypeOK, Types
  <2>3. LockShape'
    BY <1>18, Ranges DEF RMark, Exclusion, TxShape, ModeShape, LockShape, HoldsLock,
        LockSection, TypeOK, Types
  <2>4. FlagShape'
    BY <1>18, Ranges DEF RMark, Exclusion, FlagShape, TxShape, ReadsBare, TypeOK, Types
  <2>5. Drained'
    BY <1>18, Ranges DEF RMark, Exclusion, TxShape, ModeShape, Drained, LockSection,
        ReadsBare, FlagShape, LockShape, HoldsLock, TypeOK, Types
  <2>6. Checked'
    BY <1>18, Ranges DEF RMark, Exclusion, Checked, TxShape, TypeOK, Types
  <2> QED
    BY <2>1, <2>2, <2>3, <2>4, <2>5, <2>6
<1>19. ASSUME NEW t \in Threads, RWait(t) PROVE Goal'
  <2>1. TxShape'
    BY <1>19, Ranges DEF RWait, Exclusion, TxShape, TypeOK, Types
  <2>2. ModeShape'
    BY <1>19, Ranges DEF RWait, Exclusion, ModeShape, TxShape, TypeOK, Types
  <2>3. LockShape'
    BY <1>19, Ranges DEF RWait, Exclusion, TxShape, ModeShape, LockShape, HoldsLock,
        LockSection, TypeOK, Types
  <2>4. FlagShape'
    BY <1>19, Ranges DEF RWait, Exclusion, FlagShape, TxShape, ReadsBare, TypeOK, Types
  <2>5. Drained'
    BY <1>19, Ranges DEF RWait, Exclusion, TxShape, ModeShape, Drained, LockSection,
        ReadsBare, FlagShape, LockShape, HoldsLock, TypeOK, Types
  <2>6. Checked'
    BY <1>19, Ranges DEF RWait, Exclusion, Checked, TxShape, TypeOK, Types
  <2> QED
    BY <2>1, <2>2, <2>3, <2>4, <2>5, <2>6
<1>20. ASSUME NEW t \in Threads, RUnmark(t) PROVE Goal'
  <2>1. TxShape'
    BY <1>20, Ranges DEF RUnmark, Exclusion, TxShape, TypeOK, Types
  <2>2. ModeShape'
    BY <1>20, Ranges DEF RUnmark, Exclusion, ModeShape, TxShape, TypeOK, Types
  <2>3. LockShape'
    BY <1>20, Ranges DEF RUnmark, Exclusion, TxShape, ModeShape, LockShape, HoldsLock,
        LockSection, TypeOK, Types
  <2>4. FlagShape'
    BY <1>20, Ranges DEF RUnmark, Exclusion, FlagShape, TxShape, ReadsBare, TypeOK,
        Types
  <2>5. Drained'
    BY <1>20, Ranges DEF RUnmark, Exclusion, TxShape, ModeShape, Drained, LockSection,
        ReadsBare, FlagShape, LockShape, HoldsLock, TypeOK, Types
  <2>6. Checked'
    BY <1>20, Ranges DEF RUnmark, Exclusion, Checked, TxShape, TypeOK, Types
  <2> QED
    BY <2>1, <2>2, <2>3, <2>4, <2>5, <2>6
<1>21. ASSUME NEW t \in Threads, RFlag(t) PROVE Goal'
  <2>1. TxShape'
    BY <1>21, Ranges DEF RFlag, SetFlag, DoomByLockWord, Exclusion, TxShape, TypeOK,
        Types
  <2>2. ModeShape'
    BY <1>21, Ranges DEF RFlag, SetFlag, DoomByLockWord, Exclusion, ModeShape, TxShape,
        TypeOK, Types
  <2>3. LockShape'
    BY <1>21, Ranges DEF RFlag, SetFlag, DoomByLockWord, Exclusion, TxShape, ModeShape,
        LockShape, HoldsLock, LockSection, TypeOK, Types
  <2>4. FlagShape'
    BY <1>21, Ranges DEF RFlag, SetFlag, DoomByLockWord, Exclusion, FlagShape, TxShape,
        ReadsBare, TypeOK, Types
  <2>5. Drained'
    BY <1>21, Ranges DEF RFlag, SetFlag, DoomByLockWord, Exclusion, TxShape, ModeShape,
        Drained, LockSection, ReadsBare, FlagShape, LockShape, HoldsLock, TypeOK, Types
  <2>6. Checked'
    BY <1>21, Ranges DEF RFlag, SetFlag, DoomByLockWord, Exclusion, Checked, TxShape,
        TypeOK, Types
  <2> QED
    BY <2>1, <2>2, <2>3, <2>4, <2>5, <2>6
<1>22. ASSUME NEW t \in Threads, RRecheck(t) PROVE Goal'
  <2>1. TxShape'
    BY <1>22, Ranges DEF RRecheck, Exclusion, TxShape, TypeOK, Types
  <2>2. ModeShape'
    BY <1>22, Ranges DEF RRecheck, Exclusion, ModeShape, TxShape, TypeOK, Types
  <2>3. LockShape'
    BY <1>22, Ranges DEF RRecheck, Exclusion, TxShape, ModeShape, LockShape, HoldsLock,
        LockSection, TypeOK, Types
  <2>4. FlagShape'
    BY <1>22, Ranges DEF RRecheck, Exclusion, FlagShape, TxShape, ReadsBare, TypeOK,
        Types
  <2>5. Drained'
    BY <1>22, Ranges DEF RRecheck, Exclusion, TxShape, ModeShape, Drained, LockSection,
        ReadsBare, FlagShape, LockShape, HoldsLock, TypeOK, Types
  <2>6. Checked'
    BY <1>22, Ranges DEF RRecheck, Exclusion, Checked, TxShape, TypeOK, Types
  <2> QED
    BY <2>1, <2>2, <2>3, <2>4, <2>5, <2>6
<1>23. ASSUME NEW t \in Threads, RBack(t) PROVE Goal'
  <2>1. TxShape'
    BY <1>23, Ranges DEF RBack, SetFlag, DoomByLockWord, Exclusion, TxShape, TypeOK,
        Types
  <2>2. ModeShape'
    BY <1>23, Ranges DEF RBack, SetFlag, DoomByLockWord, Exclusion, ModeShape, TxShape,
        TypeOK, Types
  <2>3. LockShape'
    BY <1>23, Ranges DEF RBack, SetFlag, DoomByLockWord, Exclusion, TxShape, ModeShape,
        LockShape, HoldsLock, LockSection, TypeOK, Types
  <2>4. FlagShape'
    BY <1>23, Ranges DEF RBack, SetFlag, DoomByLockWord, Exclusion, FlagShape, TxShape,
        ReadsBare, TypeOK, Types
  <2>5. Drained'
    BY <1>23, Ranges DEF RBack, SetFlag, DoomByLockWord, Exclusion, TxShape, ModeShape,
        Drained, LockSection, ReadsBare, FlagShape, LockShape, HoldsLock, TypeOK, Types
  <2>6. Checked'
    BY <1>23, Ranges DEF RBack, SetFlag, DoomByLockWord, Exclusion, Checked, TxShape,
        TypeOK, Types
  <2> QED
    BY <2>1, <2>2, <2>3, <2>4, <2>5, <2>6
<1>24. ASSUME NEW t \in Threads, RLockWait(t) PROVE Goal'
  <2>1. TxShape'
    BY <1>24, Ranges DEF RLockWait, Exclusion, TxShape, TypeOK, Types
  <2>2. ModeShape'
    BY <1>24, Ranges DEF RLockWait, Exclusion, ModeShape, TxShape, TypeOK, Types
  <2>3. LockShape'
    BY <1>24, Ranges DEF RLockWait, Exclusion, TxShape, ModeShape, LockShape, HoldsLock,
        LockSection, TypeOK, Types
  <2>4. FlagShape'
    BY <1>24, Ranges DEF RLockWait, Exclusion, FlagShape, TxShape, ReadsBare, TypeOK,
        Types
  <2>5. Drained'
    BY <1>24, Ranges DEF RLockWait, Exclusion, TxShape, ModeShape, Drained, LockSection,
        ReadsBare, FlagShape, LockShape, HoldsLock, TypeOK, Types
  <2>6. Checked'
    BY <1>24, Ranges DEF RLockWait, Exclusion, Checked, TxShape, TypeOK, Types
  <2> QED
    BY <2>1, <2>2, <2>3, <2>4, <2>5, <2>6
<1>25. ASSUME NEW t \in Threads, REndHtm(t) PROVE Goal'
  <2>1. TxShape'
    BY <1>25, Ranges DEF REndHtm, TxEnd, Exclusion, TxShape, TypeOK, Types
  <2>2. ModeShape'
    BY <1>25, Ranges DEF REndHtm, TxEnd, Exclusion, ModeShape, TxShape, TypeOK, Types
  <2>3. LockShape'
    BY <1>25, Ranges DEF REndHtm, TxEnd, Exclusion, TxShape, ModeShape, LockShape,
        HoldsLock, LockSection, TypeOK, Types
  <2>4. FlagShape'
    BY <1>25, Ranges DEF REndHtm, TxEnd, Exclusion, FlagShape, TxShape, ReadsBare,
        TypeOK, Types
  <2>5. Drained'
    BY <1>25, Ranges DEF REndHtm, TxEnd, Exclusion, TxShape, ModeShape, Drained,
        LockSection, ReadsBare, FlagShape, LockShape, HoldsLock, TypeOK, Types
  <2>6. Checked'
    BY <1>25, Ranges DEF REndHtm, TxEnd, Exclusion, Checked, TxShape, TypeOK, Types
  <2> QED
    BY <2>1, <2>2, <2>3, <2>4, <2>5, <2>6
<1>26. ASSUME NEW t \in Threads, RClear(t) PROVE Goal'
  <2>1. TxShape'
    BY <1>26, Ranges DEF RClear, SetFlag, DoomByLockWord, Exclusion, TxShape, TypeOK,
        Types
  <2>2. ModeShape'
    BY <1>26, Ranges DEF RClear, SetFlag, DoomByLockWord, Exclusion, ModeShape, TxShape,
        TypeOK, Types
  <2>3. LockShape'
    BY <1>26, Ranges DEF RClear, SetFlag, DoomByLockWord, Exclusion, TxShape, ModeShape,
        LockShape, HoldsLock, LockSection, TypeOK, Types
  <2>4. FlagShape'
    BY <1>26, Ranges DEF RClear, SetFlag, DoomByLockWord, Exclusion, FlagShape, TxShape,
        ReadsBare, TypeOK, Types
  <2>5. Drained'
    BY <1>26, Ranges DEF RClear, SetFlag, DoomByLockWord, Exclusion, TxShape, ModeShape,
        Drained, LockSection, ReadsBare, FlagShape, LockShape, HoldsLock, TypeOK, Types
  <2>6. Checked'
    BY <1>26, Ranges DEF RClear, SetFlag, DoomByLockWord, Exclusion, Checked, TxShape,
        TypeOK, Types
  <2> QED
    BY <2>1, <2>2, <2>3, <2>4, <2>5, <2>6
<1>27. ASSUME NEW t \in Threads, RDone(t) PROVE Goal'
  <2>1. TxShape'
    BY <1>27, Ranges DEF RDone, Exclusion, TxShape, TypeOK, Types
  <2>2. ModeShape'
    BY <1>27, Ranges DEF RDone, Exclusion, ModeShape, TxShape, TypeOK, Types
  <2>3. LockShape'
    BY <1>27, Ranges DEF RDone, Exclusion, TxShape, ModeShape, LockShape, HoldsLock,
        LockSection, TypeOK, Types
  <2>4. FlagShape'
    BY <1>27, Ranges DEF RDone, Exclusion, FlagShape, TxShape, ReadsBare, TypeOK, Types
  <2>5. Drained'
    BY <1>27, Ranges DEF RDone, Exclusion, TxShape, ModeShape, Drained, LockSection,
        ReadsBare, FlagShape, LockShape, HoldsLock, TypeOK, Types
  <2>6. Checked'
    BY <1>27, Ranges DEF RDone, Exclusion, Checked, TxShape, TypeOK, Types
  <2> QED
    BY <2>1, <2>2, <2>3, <2>4, <2>5, <2>6
<1>28. ASSUME NEW t \in Threads, TxAbort(t) PROVE Goal'
  BY <1>28, Budgets, FailExclusion DEF TxAbort, Exclusion, TypeOK, Types
<1>29. CASE Finished
  BY <1>0, <1>29 DEF Finished
<1> QED
  BY <1>0, <1>1, <1>2, <1>3, <1>4, <1>5, <1>6, <1>7, <1>8, <1>9, <1>10, <1>11, <1>12,
      <1>13, <1>14, <1>15, <1>16, <1>17, <1>18, <1>19, <1>20, <1>21, <1>22, <1>23,
      <1>24, <1>25, <1>26, <1>27, <1>28, <1>29 DEF Next, Run, MustAbort

\* Every variable keeps its type (TypeOK): the loops of spec.h stay inside their
\* arrays and the retry budget is never overdrawn by more than one.
THEOREM TypeCorrect == Spec => []TypeOK
<1>1. Init => TypeOK
  BY InitType
<1>2. TypeOK /\ [Next]_vars => TypeOK'
  BY TypeStep
<1> QED
  BY <1>1, <1>2, PTL DEF Spec

\* The lock's inductive invariant: what the flags, the holder's scan and the
\* transactions' watch say about who is in a section (READ_MODE, USE_GL, USE_HTM).
THEOREM ExclusionHolds == Spec => []Exclusion
<1>1. Init => Exclusion
  BY ExclusionInit
<1>2. Exclusion /\ [Next]_vars => Exclusion'
  BY ExclusionStep
<1> QED
  BY <1>1, <1>2, PTL DEF Spec

\* LockExcludes: no reader is past READ_MODE's check while a writer is in its
\* section under writer_lock, and no two writers hold it.
THEOREM LockExclusion == Spec => []LockExcludes
<1>1. Exclusion => LockExcludes
  BY DEF Exclusion, LockShape, Drained, HoldsLock, LockExcludes
<1> QED
  BY <1>1, ExclusionHolds, PTL

\* ReadersUndisturbed: the data do not change under a reader that runs without
\* a transaction, neither by a commit nor by the lock's holder.
THEOREM ReadersProtected == Spec => ReadersUndisturbed
<1>1. ASSUME Exclusion, [Next]_vars, NEW r \in Threads, ReadsBare(r)
      PROVE  mem' = mem
  <2>1. ASSUME NEW t \in Threads, WWrite(t) PROVE mem' = mem
    <3>1. htm[t] # "off"
      BY <1>1, <2>1 DEF WWrite, Exclusion, Drained, LockSection
    <3>2. htm[t] = "on"
      BY <2>1, <3>1, <1>1 DEF WWrite, Store, Live, Exclusion, TypeOK, Types
    <3> QED
      BY <2>1, <3>2 DEF WWrite, Store
  <2>2. ASSUME NEW t \in Threads, WEndHtm(t) PROVE mem' = mem
    <3>1. reader_locks[r] = 0
      BY <1>1, <2>2 DEF WEndHtm, Exclusion, Checked
    <3> QED
      BY <1>1, <3>1 DEF Exclusion, FlagShape
  <2>3. CASE UNCHANGED vars
    BY <2>3 DEF vars
  <2>4. CASE Finished
    BY <2>3, <2>4 DEF Finished
  <2>5. ASSUME NEW t \in Threads,
               \/ \E o \in {"read", "write"} : Start(t, o)
               \/ TxAbort(t)
               \/ Run(t) /\ ~WWrite(t) /\ ~WEndHtm(t)
        PROVE  mem' = mem
    <3>1. CASE TxAbort(t)
      BY <3>1 DEF TxAbort, Fail
    <3>2. CASE \E o \in {"read", "write"} : Start(t, o)
      BY <3>2 DEF Start
    <3>3. CASE Run(t) /\ ~WWrite(t) /\ ~WEndHtm(t)
      BY <3>1, <3>3 DEF Run, MustAbort, Spin, WClock, TxBegin, TxBeginLocked, Fail,
          WRead, RRead, Load, WCheck, WCheckAbort, WCas, WDrain, WUnlock, WUnclock,
          RScan, RClock, RClock2, EndClock, RMark, RWait, RUnmark, RFlag, SetFlag,
          RRecheck, RBack, RLockWait, REndHtm, RClear, RDone
    <3> QED
      BY <2>5, <3>1, <3>2, <3>3
  <2> QED
    BY <1>1, <2>1, <2>2, <2>3, <2>4, <2>5 DEF Next
<1>2. Exclusion /\ [Next]_vars => ((\E t \in Threads : ReadsBare(t)) => mem' = mem)
  BY <1>1
<1> QED
  BY <1>2, ExclusionHolds, PTL DEF Spec, ReadersUndisturbed

\* OnlyHolderCommits: while writer_lock is held, the one commit is its release.
THEOREM HolderCommits == Spec => OnlyHolderCommits
<1>1. ASSUME Exclusion, [Next]_vars, writer_lock = 1, commits' # commits
      PROVE  writer_lock' = 0
  <2>1. ASSUME NEW t \in Threads, WEndHtm(t) PROVE FALSE
    BY <1>1, <2>1 DEF WEndHtm, Exclusion, TxShape
  <2>2. ASSUME NEW t \in Threads, WUnlock(t) PROVE writer_lock' = 0
    BY <2>2 DEF WUnlock
  <2>3. CASE UNCHANGED vars
    BY <1>1, <2>3 DEF vars
  <2>4. CASE Finished
    BY <2>3, <2>4 DEF Finished
  <2>5. ASSUME NEW t \in Threads,
               \/ \E o \in {"read", "write"} : Start(t, o)
               \/ TxAbort(t)
               \/ Run(t) /\ ~WEndHtm(t) /\ ~WUnlock(t)
        PROVE  commits' = commits
    <3>1. CASE TxAbort(t)
      BY <3>1 DEF TxAbort, Fail
    <3>2. CASE \E o \in {"read", "write"} : Start(t, o)
      BY <3>2 DEF Start
    <3>3. CASE Run(t) /\ ~WEndHtm(t) /\ ~WUnlock(t)
      BY <3>1, <3>3 DEF Run, MustAbort, Spin, WClock, TxBegin, TxBeginLocked, Fail,
          WRead, WWrite, Store, RRead, Load, WCheck, WCheckAbort, WCas, WDrain,
          WUnclock, RScan, RClock, RClock2, EndClock, RMark, RWait, RUnmark, RFlag,
          SetFlag, RRecheck, RBack, RLockWait, REndHtm, RClear, RDone
    <3> QED
      BY <2>5, <3>1, <3>2, <3>3
  <2> QED
    BY <1>1, <2>1, <2>2, <2>3, <2>4, <2>5 DEF Next
<1>2. Exclusion /\ [Next]_vars =>
        (writer_lock = 1 /\ commits' # commits => writer_lock' = 0)
  BY <1>1
<1> QED
  BY <1>2, ExclusionHolds, PTL DEF Spec, OnlyHolderCommits

----------------------------------------------------------------------------
(* The image each section reads. *)

\* The initial state satisfies the invariant of the data.
LEMMA ImageInit == Init => Image
  BY DEF Init, NoTransactions, Image, Footprint, FootprintOf, NoConflict, HasWritten,
      Current, HalfDone, Kept, NoLostUpdate, HasRead, ReadsBare, LockSection

\* Under an open transaction or a bare reader no section runs under the lock.
LEMMA Quiet ==
  ASSUME Exclusion, Image, NEW t \in Threads, htm[t] = "on" \/ ReadsBare(t)
  PROVE  /\ \A w \in Threads : ~LockSection(w)
         /\ \A d \in Data : mem[d] = commits
<1>1. \A w \in Threads : ~LockSection(w)
  BY DEF Exclusion, TxShape, LockShape, HoldsLock, Drained
<1> QED
  BY <1>1 DEF Image, NoLostUpdate

\* A failed attempt leaves the data as they are.
LEMMA FailImage ==
  ASSUME Exclusion, Image, NEW t \in Threads, NEW b \in Int, Fail(t, b),
         htm[t] # "off" \/ pc[t] \in {"w_begin", "r_begin"}
  PROVE  Footprint' /\ NoConflict' /\ Current' /\ HalfDone' /\ Kept' /\ NoLostUpdate'
<1> USE DEF Exclusion, Image, Fail, TxEnd, ReadMode, ScanRound, TypeOK, Types
<1>1. Footprint'
  BY DEF Footprint, FootprintOf, HasRead, HasWritten
<1>2. NoConflict'
  BY DEF NoConflict
<1>3. Current'
  BY DEF Current, HasRead, ReadsBare
<1>4. HalfDone'
  BY DEF HalfDone, HasRead, LockSection
<1>5. Kept'
  BY DEF Kept
<1>6. NoLostUpdate'
  <2>1. ~LockSection(t)
    BY DEF LockSection, TxShape
  <2>2. \A w \in Threads : LockSection(w) => LockSection(w)'
    BY <2>1 DEF LockSection
  <2> QED
    BY <2>2 DEF NoLostUpdate
<1> QED
  BY <1>1, <1>2, <1>3, <1>4, <1>5, <1>6

\* Every step keeps the invariant of the data: what each section has read and
\* written is what memory holds, or will.
LEMMA ImageStep == Exclusion /\ Image /\ [Next]_vars => Image'
<1> SUFFICES ASSUME Exclusion, Image, [Next]_vars PROVE Image'
  OBVIOUS
<1> USE DEF Image
<1>0. CASE UNCHANGED vars
  BY <1>0 DEF vars, Footprint, FootprintOf, NoConflict, HasWritten, Current, HalfDone,
      Kept, NoLostUpdate, HasRead, ReadsBare, LockSection
<1>1. ASSUME NEW t \in Threads, NEW o \in {"read", "write"}, Start(t, o) PROVE Image'
  <2>1. Footprint'
    BY <1>1, Ranges DEF Start, Exclusion, Footprint, FootprintOf, HasRead, HasWritten,
        TypeOK, Types
  <2>2. NoConflict'
    BY <1>1, Ranges DEF Start, Exclusion, NoConflict, TypeOK, Types
  <2>3. Current'
    BY <1>1, Ranges DEF Start, Exclusion, Current, HasRead, ReadsBare, TypeOK, Types
  <2>4. HalfDone'
    BY <1>1, Ranges DEF Start, Exclusion, HalfDone, HasRead, LockSection, TypeOK, Types
  <2>5. Kept'
    BY <1>1, Ranges DEF Start, Exclusion, Kept, TypeOK, Types
  <2>6. NoLostUpdate'
    BY <1>1, Ranges DEF Start, Exclusion, NoLostUpdate, LockSection, TypeOK, Types
  <2> QED
    BY <2>1, <2>2, <2>3, <2>4, <2>5, <2>6
<1>2. ASSUME NEW t \in Threads, Spin(t) PROVE Image'
  <2>1. Footprint'
    BY <1>2, Ranges DEF Spin, Exclusion, Footprint, FootprintOf, HasRead, HasWritten,
        TypeOK, Types
  <2>2. NoConflict'
    BY <1>2, Ranges DEF Spin, Exclusion, NoConflict, TypeOK, Types
  <2>3. Current'
    BY <1>2, Ranges DEF Spin, Exclusion, Current, HasRead, ReadsBare, TypeOK, Types
  <2>4. HalfDone'
    BY <1>2, Ranges DEF Spin, Exclusion, HalfDone, HasRead, LockSection, TypeOK, Types
  <2>5. Kept'
    BY <1>2, Ranges DEF Spin, Exclusion, Kept, TypeOK, Types
  <2>6. NoLostUpdate'
    BY <1>2, Ranges DEF Spin, Exclusion, NoLostUpdate, LockSection, TypeOK, Types
  <2> QED
    BY <2>1, <2>2, <2>3, <2>4, <2>5, <2>6
<1>3. ASSUME NEW t \in Threads, WClock(t) PROVE Image'
  <2>0. idx[t] = 1 /\ \A d \in Data : ~(d < idx[t])
    <3>1. idx[t] = 1
      BY <1>3 DEF WClock, Exclusion, TypeOK, IndexInBounds
    <3> QED
      BY <3>1, Ranges
  <2>1. Footprint'
    BY <1>3, <2>0 DEF WClock, Exclusion, Footprint, FootprintOf, HasRead, HasWritten,
        TypeOK, Types
  <2>2. NoConflict'
    BY <1>3, <2>0 DEF WClock, Exclusion, NoConflict, TypeOK, Types
  <2>3. Current'
    BY <1>3, <2>0 DEF WClock, Exclusion, Current, HasRead, ReadsBare, TypeOK, Types
  <2>4. HalfDone'
    BY <1>3, <2>0 DEF WClock, Exclusion, HalfDone, HasRead, LockSection, TypeOK, Types
  <2>5. Kept'
    BY <1>3, <2>0 DEF WClock, Exclusion, Kept, TypeOK, Types
  <2>6. NoLostUpdate'
    <3>1. \A w \in Threads : LockSection(w) => LockSection(w)'
      BY <1>3 DEF WClock, LockSection, Exclusion, TxShape, TypeOK, Types
    <3> QED
      BY <1>3, <3>1 DEF WClock, NoLostUpdate
  <2> QED
    BY <2>1, <2>2, <2>3, <2>4, <2>5, <2>6
<1>4. ASSUME NEW t \in Threads, TxBegin(t) PROVE Image'
  <2>0. idx[t] = 1 /\ \A d \in Data : ~(d < idx[t])
    <3>1. idx[t] = 1
      BY <1>4 DEF TxBegin, Exclusion, TypeOK, IndexInBounds
    <3> QED
      BY <3>1, Ranges
  <2>1. Footprint'
    BY <1>4, <2>0 DEF TxBegin, Lock, Unlocked, Exclusion, TxShape, Footprint,
        FootprintOf, HasRead, HasWritten, TypeOK, Types
  <2>2. NoConflict'
    <3>1. htm[t] = "off"
      BY <1>4 DEF TxBegin, Exclusion, TxShape, TypeOK, Types
    <3>2. rset' = rset /\ wset' = wset /\ htm' = [htm EXCEPT ![t] = "on"]
      BY <1>4 DEF TxBegin
    <3> QED
      BY <3>1, <3>2 DEF NoConflict, Footprint, FootprintOf, Exclusion, TypeOK, Types
  <2>3. Current'
    BY <1>4, <2>0 DEF TxBegin, Lock, Unlocked, Exclusion, Current, HasRead, ReadsBare,
        TypeOK, Types
  <2>4. HalfDone'
    BY <1>4, <2>0 DEF TxBegin, Lock, Unlocked, Exclusion, HalfDone, HasRead,
        LockSection, TypeOK, Types
  <2>5. Kept'
    BY <1>4, <2>0 DEF TxBegin, Lock, Unlocked, Exclusion, Kept, TypeOK, Types
  <2>6. NoLostUpdate'
    BY <1>4, <2>0 DEF TxBegin, Lock, Unlocked, Exclusion, NoLostUpdate, LockSection,
        TypeOK, Types
  <2> QED
    BY <2>1, <2>2, <2>3, <2>4, <2>5, <2>6
<1>5. ASSUME NEW t \in Threads, TxBeginLocked(t) PROVE Image'
  BY <1>5, Budgets, FailImage DEF TxBeginLocked, Exclusion, TypeOK, Types
<1>6. ASSUME NEW t \in Threads, WRead(t) PROVE Image'
  <2>0. /\ idx[t] \in Data /\ idx[t] \in Nat
        /\ \A d \in Data : /\ d <= idx[t] <=> d < idx[t] \/ d = idx[t]
                           /\ d < idx[t] + 1 <=> d <= idx[t]
        /\ \A d \in Data : idx[t] = NData => d <= idx[t]
        /\ \A d \in Data : ~(d < 1)
    <3>1. idx[t] \in Data
      BY <1>6 DEF WRead, Exclusion, TypeOK, IndexInBounds
    <3> QED
      BY <3>1, Ranges
  <2>1. Footprint'
    BY <1>6, <2>0 DEF WRead, Load, DoomByRead, Exclusion, Footprint, FootprintOf,
        HasRead, HasWritten, TypeOK, Types
  <2>2. NoConflict'
    BY <1>6, <2>0 DEF WRead, Load, DoomByRead, Exclusion, NoConflict, TypeOK, Types
  <2>3. Current'
    BY <1>6, <2>0 DEF WRead, Load, DoomByRead, Exclusion, Current, HasRead, ReadsBare,
        TypeOK, Types
  <2>4. HalfDone'
    BY <1>6, <2>0 DEF WRead, Load, DoomByRead, Exclusion, HalfDone, HasRead,
        LockSection, TypeOK, Types
  <2>5. Kept'
    BY <1>6, <2>0 DEF WRead, Load, DoomByRead, Exclusion, Kept, TypeOK, Types
  <2>6. NoLostUpdate'
    BY <1>6, <2>0 DEF WRead, Load, DoomByRead, Exclusion, NoLostUpdate, LockSection,
        TypeOK, Types
  <2> QED
    BY <2>1, <2>2, <2>3, <2>4, <2>5, <2>6
<1>7. ASSUME NEW t \in Threads, WWrite(t) PROVE Image'
  <2>0. /\ idx[t] \in Data /\ idx[t] \in Nat
        /\ \A d \in Data : /\ d <= idx[t] <=> d < idx[t] \/ d = idx[t]
                           /\ d < idx[t] + 1 <=> d <= idx[t]
        /\ \A d \in Data : idx[t] = NData => d <= idx[t]
        /\ \A d \in Data : ~(d < 1)
    <3>1. idx[t] \in Data
      BY <1>7 DEF WWrite, Exclusion, TypeOK, IndexInBounds
    <3> QED
      BY <3>1, Ranges
  <2>a. /\ htm[t] = "on" => \/ pc'[t] = "w_check" /\ \A d \in Data : d <= idx[t]
                            \/ pc'[t] = "w_read" /\ \A d \in Data : d < idx'[t] <=> d <= idx[t]
        /\ pc'[t] \in {"w_check", "w_unlock", "w_read"} /\ (pc'[t] = "w_unlock" => htm[t] # "on")
    <3>1. CASE idx[t] = NData
      <4>1. pc'[t] = IF mode[t] = 0 THEN "w_check" ELSE "w_unlock"
        BY <1>7, <3>1 DEF WWrite, EndRound, WriteRelease, Exclusion, TypeOK, Types
      <4>2. mode[t] = 0 <=> htm[t] # "off"
        BY <1>7 DEF WWrite, Exclusion, ModeShape
      <4>3. htm[t] \in {"on", "off"}
        BY <1>7 DEF WWrite, Store, Live, Exclusion, TypeOK, Types
      <4> QED
        BY <2>0, <3>1, <4>1, <4>2, <4>3
    <3>2. CASE idx[t] # NData
      BY <1>7, <2>0, <3>2 DEF WWrite, EndRound, Exclusion, TypeOK, Types
    <3> QED
      BY <3>1, <3>2
  <2>1. Footprint'
    <3> SUFFICES ASSUME NEW u \in Threads, NEW d \in Data PROVE FootprintOf(u, d)'
      BY DEF Footprint
    <3>1. CASE u # t
      BY <1>7, <3>1 DEF WWrite, Store, DoomByWrite, EndRound, HasRead, HasWritten,
          Footprint, FootprintOf, Exclusion, TypeOK, Types
    <3>2. CASE u = t
      <4>1. /\ htm'[t] = htm[t] /\ rset' = rset
            /\ wset'[t] = IF htm[t] = "on" THEN wset[t] \union {idx[t]} ELSE wset[t]
        BY <1>7 DEF WWrite, Store, DoomByWrite, Exclusion, TypeOK, Types
      <4>2. HasRead(t, d) <=> d <= idx[t]
        BY <1>7 DEF WWrite, HasRead
      <4>3. HasWritten(t, d) <=> d < idx[t]
        BY <1>7 DEF WWrite, HasWritten
      <4>4. htm[t] = "on" => /\ HasWritten(t, d)' <=> d <= idx[t]
                             /\ HasRead(t, d)' <=> d <= idx[t]
        BY <2>a DEF HasWritten, HasRead
      <4> QED
        BY <2>0, <3>2, <4>1, <4>2, <4>3, <4>4 DEF Footprint, FootprintOf
    <3> QED
      BY <3>1, <3>2
  <2>2. NoConflict'
    BY <1>7, <2>0 DEF WWrite, Store, DoomByWrite, EndRound, WriteRelease, Exclusion,
        NoConflict, TypeOK, Types
  <2>3. Current'
    <3> SUFFICES ASSUME NEW u \in Threads, NEW d \in Data,
                        ((htm[u] = "on" \/ ReadsBare(u)) /\ HasRead(u, d))'
                 PROVE  (seen[u][d] = mem[d])'
      BY DEF Current
    <3>1. CASE u # t
      <4>1. (htm[u] = "on" \/ ReadsBare(u)) /\ HasRead(u, d)
        BY <1>7, <3>1 DEF WWrite, Store, DoomByWrite, EndRound, HasRead, ReadsBare,
            Exclusion, TypeOK, Types
      <4>2. htm[t] = "on"
        BY <1>7, <4>1, Quiet DEF WWrite, Store, Live, LockSection, Exclusion, TypeOK,
            Types
      <4> QED
        BY <1>7, <4>1, <4>2 DEF WWrite, Store, Current
    <3>2. CASE u = t
      <4>1. htm[t] = "on"
        BY <1>7, <2>a, <3>2 DEF WWrite, Store, DoomByWrite, ReadsBare, Exclusion,
            TypeOK, Types
      <4>2. d <= idx[t]
        BY <2>a, <3>2, <4>1 DEF HasRead
      <4>3. HasRead(t, d)
        BY <1>7, <4>2 DEF WWrite, HasRead
      <4> QED
        BY <1>7, <3>2, <4>1, <4>3 DEF WWrite, Store, Current
    <3> QED
      BY <3>1, <3>2
  <2>4. HalfDone'
    <3> SUFFICES ASSUME NEW w \in Threads, NEW d \in Data, LockSection(w)'
                 PROVE  (/\ HasRead(w, d) => seen[w][d] = commits
                         /\ mem[d] = IF pc[w] = "w_unlock" \/ (pc[w] # "w_clock2" /\ d < idx[w])
                                     THEN commits + 1 ELSE commits)'
      BY DEF HalfDone
    <3>1. LockSection(w)
      BY <1>7, <2>a DEF WWrite, Store, Live, DoomByWrite, EndRound, LockSection,
          Exclusion, TypeOK, Types
    <3>2. CASE w # t
      <4>1. htm[t] = "on"
        BY <1>7, <3>1, <3>2 DEF WWrite, Store, Live, LockSection, HoldsLock, Exclusion,
            LockShape, TypeOK, Types
      <4> QED
        BY <1>7, <3>1, <3>2, <4>1 DEF WWrite, Store, EndRound, HalfDone, HasRead,
            Exclusion, TypeOK, Types
    <3>3. CASE w = t
      <4>1. htm[t] = "off"
        BY <1>7, <3>1, <3>3 DEF WWrite, LockSection
      <4>2. /\ mem' = [mem EXCEPT ![idx[t]] = seen[t][idx[t]] + 1]
            /\ seen' = seen /\ commits' = commits
        BY <1>7, <4>1 DEF WWrite, Store
      <4>3. \A e \in Data : HasRead(t, e) <=> e <= idx[t]
        BY <1>7 DEF WWrite, HasRead
      <4>4. \A e \in Data : mem[e] = IF e < idx[t] THEN commits + 1 ELSE commits
        BY <1>7, <3>1, <3>3 DEF WWrite, HalfDone
      <4>5. seen[t][idx[t]] = commits
        BY <2>0, <3>1, <3>3, <4>3 DEF HalfDone
      <4>6. mem'[d] = IF d <= idx[t] THEN commits + 1 ELSE commits
        BY <2>0, <4>2, <4>4, <4>5 DEF Exclusion, TypeOK, Types
      <4>7. CASE idx[t] = NData
        <5>1. d <= idx[t]
          BY <2>0, <4>7
        <5>2. pc'[t] = "w_unlock"
          BY <1>7, <4>1, <4>7 DEF WWrite, EndRound, WriteRelease, Exclusion, ModeShape,
              TypeOK, Types
        <5> QED
          BY <3>1, <3>3, <4>2, <4>3, <4>6, <5>1, <5>2 DEF HalfDone
      <4>8. CASE idx[t] # NData
        <5>1. pc'[t] = "w_read" /\ idx'[t] = idx[t] + 1
          BY <1>7, <4>8 DEF WWrite, EndRound, Exclusion, TypeOK, Types
        <5>2. HasRead(t, d)' <=> d <= idx[t]
          BY <2>0, <5>1 DEF HasRead
        <5> QED
          BY <2>0, <3>1, <3>3, <4>2, <4>3, <4>6, <5>1, <5>2 DEF HalfDone
      <4> QED
        BY <4>7, <4>8
    <3> QED
      BY <3>2, <3>3
  <2>5. Kept'
    BY <1>7, <2>0 DEF WWrite, Store, DoomByWrite, EndRound, WriteRelease, Exclusion,
        Kept, TypeOK, Types
  <2>6. NoLostUpdate'
    <3>1. CASE htm[t] = "on"
      <4>1. \A w \in Threads : LockSection(w) => LockSection(w)'
        BY <1>7, <3>1 DEF WWrite, Store, DoomByWrite, EndRound, WriteRelease,
            LockSection, Exclusion, TypeOK, Types
      <4> QED
        BY <1>7, <3>1, <4>1 DEF WWrite, Store, NoLostUpdate
    <3>2. CASE htm[t] # "on"
      <4>1. LockSection(t)'
        BY <1>7, <3>2 DEF WWrite, Store, DoomByWrite, EndRound, WriteRelease, Live,
            LockSection, Exclusion, ModeShape, TypeOK, Types
      <4> QED
        BY <4>1 DEF NoLostUpdate
    <3> QED
      BY <3>1, <3>2
  <2> QED
    BY <2>1, <2>2, <2>3, <2>4, <2>5, <2>6
<1>8. ASSUME NEW t \in Threads, RRead(t) PROVE Image'
  <2>0. /\ idx[t] \in Data /\ idx[t] \in Nat
        /\ \A d \in Data : /\ d <= idx[t] <=> d < idx[t] \/ d = idx[t]
                           /\ d < idx[t] + 1 <=> d <= idx[t]
        /\ \A d \in Data : idx[t] = NData => d <= idx[t]
        /\ \A d \in Data : ~(d < 1)
    <3>1. idx[t] \in Data
      BY <1>8 DEF RRead, Exclusion, TypeOK, IndexInBounds
    <3> QED
      BY <3>1, Ranges
  <2>1. Footprint'
    BY <1>8, <2>0 DEF RRead, Load, DoomByRead, EndRound, ReadRelease, Exclusion,
        Footprint, FootprintOf, HasRead, HasWritten, TypeOK, Types
  <2>2. NoConflict'
    BY <1>8, <2>0 DEF RRead, Load, DoomByRead, EndRound, ReadRelease, Exclusion,
        NoConflict, TypeOK, Types
  <2>3. Current'
    BY <1>8, <2>0 DEF RRead, Load, DoomByRead, EndRound, ReadRelease, Exclusion,
        Current, HasRead, ReadsBare, TypeOK, Types
  <2>4. HalfDone'
    BY <1>8, <2>0 DEF RRead, Load, DoomByRead, EndRound, ReadRelease, Exclusion,
        HalfDone, HasRead, LockSection, TypeOK, Types
  <2>5. Kept'
    BY <1>8, <2>0 DEF RRead, Load, DoomByRead, EndRound, ReadRelease, Exclusion, Kept,
        TypeOK, Types
  <2>6. NoLostUpdate'
    BY <1>8, <2>0 DEF RRead, Load, DoomByRead, EndRound, ReadRelease, Exclusion,
        NoLostUpdate, LockSection, TypeOK, Types
  <2> QED
    BY <2>1, <2>2, <2>3, <2>4, <2>5, <2>6
<1>9. ASSUME NEW t \in Threads, WCheck(t) PROVE Image'
  <2>1. Footprint'
    BY <1>9, Ranges DEF WCheck, EndRound, Exclusion, Footprint, FootprintOf, HasRead,
        HasWritten, TypeOK, Types
  <2>2. NoConflict'
    BY <1>9, Ranges DEF WCheck, EndRound, Exclusion, NoConflict, TypeOK, Types
  <2>3. Current'
    BY <1>9, Ranges DEF WCheck, EndRound, Exclusion, Current, HasRead, ReadsBare,
        TypeOK, Types
  <2>4. HalfDone'
    BY <1>9, Ranges DEF WCheck, EndRound, Exclusion, HalfDone, HasRead, LockSection,
        TypeOK, Types
  <2>5. Kept'
    BY <1>9, Ranges DEF WCheck, EndRound, Exclusion, Kept, TypeOK, Types
  <2>6. NoLostUpdate'
    BY <1>9, Ranges DEF WCheck, EndRound, Exclusion, NoLostUpdate, LockSection, TypeOK,
        Types
  <2> QED
    BY <2>1, <2>2, <2>3, <2>4, <2>5, <2>6
<1>10. ASSUME NEW t \in Threads, WCheckAbort(t) PROVE Image'
  BY <1>10, Budgets, FailImage DEF WCheckAbort, Exclusion, TypeOK, Types
<1>11. ASSUME NEW t \in Threads, WEndHtm(t) PROVE Image'
  <2>0. /\ \A w \in Threads : ~LockSection(w)
        /\ \A d \in Data : seen[t][d] = commits /\ mem[d] = commits /\ mem'[d] = commits + 1
    <3>1. \A d \in Data : d \in wset[t] /\ seen[t][d] = mem[d]
      BY <1>11 DEF WEndHtm, Footprint, FootprintOf, HasWritten, Current, HasRead
    <3> QED
      BY <1>11, <3>1, Quiet DEF WEndHtm
  <2>1. Footprint'
    BY <1>11, Ranges DEF WEndHtm, TxEnd, Exclusion, Footprint, FootprintOf, HasRead,
        HasWritten, TypeOK, Types
  <2>2. NoConflict'
    BY <1>11, Ranges DEF WEndHtm, TxEnd, Exclusion, NoConflict, TypeOK, Types
  <2>3. Current'
    <3> SUFFICES ASSUME NEW u \in Threads, NEW d \in Data,
                        ((htm[u] = "on" \/ ReadsBare(u)) /\ HasRead(u, d))'
                 PROVE  (seen[u][d] = mem[d])'
      BY DEF Current
    <3>1. u # t
      BY <1>11 DEF WEndHtm, TxEnd, ReadsBare, Exclusion, TypeOK, Types
    <3>2. (htm[u] = "on" \/ ReadsBare(u)) /\ HasRead(u, d)
      BY <1>11, <3>1 DEF WEndHtm, ReadsBare, HasRead, Exclusion, TypeOK, Types
    <3>3. ~ReadsBare(u)
      BY <1>11 DEF WEndHtm, Exclusion, Checked, FlagShape
    <3>4. d \notin wset[t]
      BY <1>11, <3>1, <3>2, <3>3 DEF WEndHtm, Footprint, FootprintOf, NoConflict
    <3> QED
      BY <1>11, <3>2, <3>3, <3>4 DEF WEndHtm, Current
  <2>4. HalfDone'
    <3>1. \A w \in Threads : ~LockSection(w)'
      BY <1>11, Quiet DEF WEndHtm, LockSection, Exclusion, TypeOK, Types
    <3> QED
      BY <3>1 DEF HalfDone
  <2>5. Kept'
    BY <1>11, <2>0, Quiet DEF WEndHtm, Kept, Exclusion, TypeOK, Types
  <2>6. NoLostUpdate'
    BY <1>11, <2>0 DEF WEndHtm, NoLostUpdate
  <2> QED
    BY <2>1, <2>2, <2>3, <2>4, <2>5, <2>6
<1>12. ASSUME NEW t \in Threads, WCas(t) PROVE Image'
  <2>1. Footprint'
    BY <1>12, Ranges DEF WCas, DoomByLockWord, Exclusion, Footprint, FootprintOf,
        HasRead, HasWritten, TypeOK, Types
  <2>2. NoConflict'
    BY <1>12, Ranges DEF WCas, DoomByLockWord, Exclusion, NoConflict, TypeOK, Types
  <2>3. Current'
    BY <1>12, Ranges DEF WCas, DoomByLockWord, Exclusion, Current, HasRead, ReadsBare,
        TypeOK, Types
  <2>4. HalfDone'
    BY <1>12, Ranges DEF WCas, DoomByLockWord, Exclusion, HalfDone, HasRead,
        LockSection, TypeOK, Types
  <2>5. Kept'
    BY <1>12, Ranges DEF WCas, DoomByLockWord, Exclusion, Kept, TypeOK, Types
  <2>6. NoLostUpdate'
    BY <1>12, Ranges DEF WCas, DoomByLockWord, Exclusion, NoLostUpdate, LockSection,
        TypeOK, Types
  <2> QED
    BY <2>1, <2>2, <2>3, <2>4, <2>5, <2>6
<1>13. ASSUME NEW t \in Threads, WDrain(t) PROVE Image'
  <2>1. Footprint'
    BY <1>13, Ranges DEF WDrain, EndRound, Exclusion, Footprint, FootprintOf, HasRead,
        HasWritten, TypeOK, Types
  <2>2. NoConflict'
    BY <1>13, Ranges DEF WDrain, EndRound, Exclusion, NoConflict, TypeOK, Types
  <2>3. Current'
    BY <1>13, Ranges DEF WDrain, EndRound, Exclusion, Current, HasRead, ReadsBare,
        TypeOK, Types
  <2>4. HalfDone'
    <3>1. mem' = mem /\ commits' = commits /\ seen' = seen
      BY <1>13 DEF WDrain
    <3>2. \A w \in Threads \ {t} : /\ pc'[w] = pc[w] /\ idx'[w] = idx[w]
                                   /\ LockSection(w)' <=> LockSection(w)
                                   /\ \A d \in Data : HasRead(w, d)' <=> HasRead(w, d)
      BY <1>13 DEF WDrain, EndRound, LockSection, HasRead, Exclusion, TypeOK, Types
    <3>3. \A d \in Data : mem[d] = commits
      BY <1>13 DEF WDrain, Exclusion, LockShape, HoldsLock, LockSection, NoLostUpdate
    <3>4. LockSection(t)' => pc'[t] = "w_clock2" \/ (pc'[t] = "w_read" /\ idx'[t] = 1)
      BY <1>13 DEF WDrain, EndRound, LockSection, Exclusion, TypeOK, Types
    <3>5. LockSection(t)' => \A d \in Data : ~HasRead(t, d)'
      BY <3>4, Ranges DEF HasRead
    <3>6. \A d \in Data : ~(d < 1)
      BY Ranges
    <3> QED
      BY <3>1, <3>2, <3>3, <3>4, <3>5, <3>6 DEF HalfDone
  <2>5. Kept'
    BY <1>13, Ranges DEF WDrain, EndRound, Exclusion, Kept, TypeOK, Types
  <2>6. NoLostUpdate'
    BY <1>13, Ranges DEF WDrain, EndRound, Exclusion, NoLostUpdate, LockSection, TypeOK,
        Types
  <2> QED
    BY <2>1, <2>2, <2>3, <2>4, <2>5, <2>6
<1>14. ASSUME NEW t \in Threads, WUnlock(t) PROVE Image'
  <2>1. Footprint'
    BY <1>14, Ranges DEF WUnlock, DoomByLockWord, Exclusion, Footprint, FootprintOf,
        HasRead, HasWritten, TypeOK, Types
  <2>2. NoConflict'
    BY <1>14, Ranges DEF WUnlock, DoomByLockWord, Exclusion, NoConflict, TypeOK, Types
  <2>3. Current'
    BY <1>14, Ranges DEF WUnlock, DoomByLockWord, Exclusion, Current, HasRead,
        ReadsBare, TypeOK, Types
  <2>4. HalfDone'
    <3>1. \A w \in Threads : ~LockSection(w)'
      BY <1>14 DEF WUnlock, DoomByLockWord, LockSection, HoldsLock, Exclusion,
          LockShape, TypeOK, Types
    <3> QED
      BY <3>1 DEF HalfDone
  <2>5. Kept'
    <3>1. \A d \in Data : seen[t][d] = commits
      BY <1>14 DEF WUnlock, HalfDone, HasRead, LockSection
    <3> QED
      BY <1>14, <3>1 DEF WUnlock, Kept, Exclusion, TypeOK, Types
  <2>6. NoLostUpdate'
    BY <1>14 DEF WUnlock, HalfDone, LockSection, NoLostUpdate
  <2> QED
    BY <2>1, <2>2, <2>3, <2>4, <2>5, <2>6
<1>15. ASSUME NEW t \in Threads, WUnclock(t) PROVE Image'
  <2>1. Footprint'
    BY <1>15, Ranges DEF WUnclock, Exclusion, Footprint, FootprintOf, HasRead,
        HasWritten, TypeOK, Types
  <2>2. NoConflict'
    BY <1>15, Ranges DEF WUnclock, Exclusion, NoConflict, TypeOK, Types
  <2>3. Current'
    BY <1>15, Ranges DEF WUnclock, Exclusion, Current, HasRead, ReadsBare, TypeOK, Types
  <2>4. HalfDone'
    BY <1>15, Ranges DEF WUnclock, Exclusion, HalfDone, HasRead, LockSection, TypeOK,
        Types
  <2>5. Kept'
    BY <1>15, Ranges DEF WUnclock, Exclusion, Kept, TypeOK, Types
  <2>6. NoLostUpdate'
    BY <1>15, Ranges DEF WUnclock, Exclusion, NoLostUpdate, LockSection, TypeOK, Types
  <2> QED
    BY <2>1, <2>2, <2>3, <2>4, <2>5, <2>6
<1>16. ASSUME NEW t \in Threads, RScan(t) PROVE Image'
  <2>1. Footprint'
    BY <1>16, Ranges DEF RScan, Exclusion, Footprint, FootprintOf, HasRead, HasWritten,
        TypeOK, Types
  <2>2. NoConflict'
    BY <1>16, Ranges DEF RScan, Exclusion, NoConflict, TypeOK, Types
  <2>3. Current'
    BY <1>16, Ranges DEF RScan, Exclusion, Current, HasRead, ReadsBare, TypeOK, Types
  <2>4. HalfDone'
    BY <1>16, Ranges DEF RScan, Exclusion, HalfDone, HasRead, LockSection, TypeOK, Types
  <2>5. Kept'
    <3>1. /\ seen' = seen
          /\ \A u \in Threads : pc'[u] \in {"w_unclock", "r_done"}
                                  => pc[u] \in {"w_unclock", "r_done"}
      BY <1>16 DEF RScan, Exclusion, TypeOK, Types
    <3> QED
      BY <3>1 DEF Kept
  <2>6. NoLostUpdate'
    BY <1>16, Ranges DEF RScan, Exclusion, NoLostUpdate, LockSection, TypeOK, Types
  <2> QED
    BY <2>1, <2>2, <2>3, <2>4, <2>5, <2>6
<1>17. ASSUME NEW t \in Threads, RClock(t) \/ RClock2(t) PROVE Image'
  <2>1. Footprint'
    BY <1>17, Ranges DEF RClock, RClock2, EndClock, EndRound, ScanRound, Exclusion,
        Footprint, FootprintOf, HasRead, HasWritten, TypeOK, Types
  <2>2. NoConflict'
    BY <1>17, Ranges DEF RClock, RClock2, EndClock, EndRound, ScanRound, Exclusion,
        NoConflict, TypeOK, Types
  <2>3. Current'
    BY <1>17, Ranges DEF RClock, RClock2, EndClock, EndRound, ScanRound, Exclusion,
        Current, HasRead, ReadsBare, TypeOK, Types
  <2>4. HalfDone'
    <3>1. PICK w \in 0..N, k \in Threads, l \in ClockNext : ClockEffect(t, w, k, l)
      BY <1>17, ClockStep DEF Exclusion
    <3>2. /\ seen' = seen /\ mem' = mem /\ commits' = commits /\ htm' = htm
          /\ \A u \in Threads \ {t} : pc'[u] = pc[u] /\ idx'[u] = idx[u]
          /\ pc[t] \in {"r_clock", "r_clock2"} /\ pc'[t] \in ClockNext
      BY <3>1 DEF ClockEffect, Exclusion, TypeOK, Types
    <3>3. ASSUME NEW u \in Threads, LockSection(u)'
          PROVE  u # t /\ LockSection(u) /\ pc'[u] = pc[u] /\ idx'[u] = idx[u]
      BY <3>2, <3>3 DEF LockSection, ClockNext
    <3>4. ASSUME NEW u \in Threads, LockSection(u)', NEW d \in Data, HasRead(u, d)'
          PROVE  HasRead(u, d)
      BY <3>3, <3>4 DEF HasRead
    <3>. QED
      BY <3>2, <3>3, <3>4 DEF HalfDone
  <2>5. Kept'
    <3>1. /\ seen' = seen
          /\ \A u \in Threads : pc'[u] \in {"w_unclock", "r_done"}
                                  => pc[u] \in {"w_unclock", "r_done"}
      BY <1>17, ClockStep DEF ClockEffect, ClockNext, Exclusion, TypeOK, Types
    <3> QED
      BY <3>1 DEF Kept
  <2>6. NoLostUpdate'
    BY <1>17, Ranges DEF RClock, RClock2, EndClock, EndRound, ScanRound, Exclusion,
        NoLostUpdate, LockSection, TypeOK, Types
  <2> QED
    BY <2>1, <2>2, <2>3, <2>4, <2>5, <2>6
<1>18. ASSUME NEW t \in Threads, RMark(t) PROVE Image'
  <2>1. Footprint'
    BY <1>18, Ranges DEF RMark, Exclusion, Footprint, FootprintOf, HasRead, HasWritten,
        TypeOK, Types
  <2>2. NoConflict'
    BY <1>18, Ranges DEF RMark, Exclusion, NoConflict, TypeOK, Types
  <2>3. Current'
    BY <1>18, Ranges DEF RMark, Exclusion, Current, HasRead, ReadsBare, TypeOK, Types
  <2>4. HalfDone'
    BY <1>18, Ranges DEF RMark, Exclusion, HalfDone, HasRead, LockSection, TypeOK, Types
  <2>5. Kept'
    BY <1>18, Ranges DEF RMark, Exclusion, Kept, TypeOK, Types
  <2>6. NoLostUpdate'
    BY <1>18, Ranges DEF RMark, Exclusion, NoLostUpdate, LockSection, TypeOK, Types
  <2> QED
    BY <2>1, <2>2, <2>3, <2>4, <2>5, <2>6
<1>19. ASSUME NEW t \in Threads, RWait(t) PROVE Image'
  <2>1. Footprint'
    BY <1>19, Ranges DEF RWait, Exclusion, Footprint, FootprintOf, HasRead, HasWritten,
        TypeOK, Types
  <2>2. NoConflict'
    BY <1>19, Ranges DEF RWait, Exclusion, NoConflict, TypeOK, Types
  <2>3. Current'
    BY <1>19, Ranges DEF RWait, Exclusion, Current, HasRead, ReadsBare, TypeOK, Types
  <2>4. HalfDone'
    BY <1>19, Ranges DEF RWait, Exclusion, HalfDone, HasRead, LockSection, TypeOK, Types
  <2>5. Kept'
    BY <1>19, Ranges DEF RWait, Exclusion, Kept, TypeOK, Types
  <2>6. NoLostUpdate'
    BY <1>19, Ranges DEF RWait, Exclusion, NoLostUpdate, LockSection, TypeOK, Types
  <2> QED
    BY <2>1, <2>2, <2>3, <2>4, <2>5, <2>6
<1>20. ASSUME NEW t \in Threads, RUnmark(t) PROVE Image'
  <2>1. Footprint'
    BY <1>20, Ranges DEF RUnmark, Exclusion, Footprint, FootprintOf, HasRead,
        HasWritten, TypeOK, Types
  <2>2. NoConflict'
    BY <1>20, Ranges DEF RUnmark, Exclusion, NoConflict, TypeOK, Types
  <2>3. Current'
    BY <1>20, Ranges DEF RUnmark, Exclusion, Current, HasRead, ReadsBare, TypeOK, Types
  <2>4. HalfDone'
    BY <1>20, Ranges DEF RUnmark, Exclusion, HalfDone, HasRead, LockSection, TypeOK,
        Types
  <2>5. Kept'
    BY <1>20, Ranges DEF RUnmark, Exclusion, Kept, TypeOK, Types
  <2>6. NoLostUpdate'
    BY <1>20, Ranges DEF RUnmark, Exclusion, NoLostUpdate, LockSection, TypeOK, Types
  <2> QED
    BY <2>1, <2>2, <2>3, <2>4, <2>5, <2>6
<1>21. ASSUME NEW t \in Threads, RFlag(t) PROVE Image'
  <2>1. Footprint'
    BY <1>21, Ranges DEF RFlag, SetFlag, DoomByLockWord, Exclusion, Footprint,
        FootprintOf, HasRead, HasWritten, TypeOK, Types
  <2>2. NoConflict'
    BY <1>21, Ranges DEF RFlag, SetFlag, DoomByLockWord, Exclusion, NoConflict, TypeOK,
        Types
  <2>3. Current'
    BY <1>21, Ranges DEF RFlag, SetFlag, DoomByLockWord, Exclusion, Current, HasRead,
        ReadsBare, TypeOK, Types
  <2>4. HalfDone'
    BY <1>21, Ranges DEF RFlag, SetFlag, DoomByLockWord, Exclusion, HalfDone, HasRead,
        LockSection, TypeOK, Types
  <2>5. Kept'
    BY <1>21, Ranges DEF RFlag, SetFlag, DoomByLockWord, Exclusion, Kept, TypeOK, Types
  <2>6. NoLostUpdate'
    BY <1>21, Ranges DEF RFlag, SetFlag, DoomByLockWord, Exclusion, NoLostUpdate,
        LockSection, TypeOK, Types
  <2> QED
    BY <2>1, <2>2, <2>3, <2>4, <2>5, <2>6
<1>22. ASSUME NEW t \in Threads, RRecheck(t) PROVE Image'
  <2>0. idx[t] = 1 /\ \A d \in Data : ~(d < idx[t])
    <3>1. idx[t] = 1
      BY <1>22 DEF RRecheck, Exclusion, TypeOK, IndexInBounds
    <3> QED
      BY <3>1, Ranges
  <2>1. Footprint'
    BY <1>22, <2>0 DEF RRecheck, Exclusion, Footprint, FootprintOf, HasRead, HasWritten,
        TypeOK, Types
  <2>2. NoConflict'
    BY <1>22, <2>0 DEF RRecheck, Exclusion, NoConflict, TypeOK, Types
  <2>3. Current'
    BY <1>22, <2>0 DEF RRecheck, Exclusion, Current, HasRead, ReadsBare, TypeOK, Types
  <2>4. HalfDone'
    BY <1>22, <2>0 DEF RRecheck, Exclusion, HalfDone, HasRead, LockSection, TypeOK,
        Types
  <2>5. Kept'
    BY <1>22, <2>0 DEF RRecheck, Exclusion, Kept, TypeOK, Types
  <2>6. NoLostUpdate'
    BY <1>22, <2>0 DEF RRecheck, Exclusion, NoLostUpdate, LockSection, TypeOK, Types
  <2> QED
    BY <2>1, <2>2, <2>3, <2>4, <2>5, <2>6
<1>23. ASSUME NEW t \in Threads, RBack(t) PROVE Image'
  <2>1. Footprint'
    BY <1>23, Ranges DEF RBack, SetFlag, DoomByLockWord, Exclusion, Footprint,
        FootprintOf, HasRead, HasWritten, TypeOK, Types
  <2>2. NoConflict'
    BY <1>23, Ranges DEF RBack, SetFlag, DoomByLockWord, Exclusion, NoConflict, TypeOK,
        Types
  <2>3. Current'
    BY <1>23, Ranges DEF RBack, SetFlag, DoomByLockWord, Exclusion, Current, HasRead,
        ReadsBare, TypeOK, Types
  <2>4. HalfDone'
    BY <1>23, Ranges DEF RBack, SetFlag, DoomByLockWord, Exclusion, HalfDone, HasRead,
        LockSection, TypeOK, Types
  <2>5. Kept'
    BY <1>23, Ranges DEF RBack, SetFlag, DoomByLockWord, Exclusion, Kept, TypeOK, Types
  <2>6. NoLostUpdate'
    BY <1>23, Ranges DEF RBack, SetFlag, DoomByLockWord, Exclusion, NoLostUpdate,
        LockSection, TypeOK, Types
  <2> QED
    BY <2>1, <2>2, <2>3, <2>4, <2>5, <2>6
<1>24. ASSUME NEW t \in Threads, RLockWait(t) PROVE Image'
  <2>1. Footprint'
    BY <1>24, Ranges DEF RLockWait, Exclusion, Footprint, FootprintOf, HasRead,
        HasWritten, TypeOK, Types
  <2>2. NoConflict'
    BY <1>24, Ranges DEF RLockWait, Exclusion, NoConflict, TypeOK, Types
  <2>3. Current'
    BY <1>24, Ranges DEF RLockWait, Exclusion, Current, HasRead, ReadsBare, TypeOK,
        Types
  <2>4. HalfDone'
    BY <1>24, Ranges DEF RLockWait, Exclusion, HalfDone, HasRead, LockSection, TypeOK,
        Types
  <2>5. Kept'
    BY <1>24, Ranges DEF RLockWait, Exclusion, Kept, TypeOK, Types
  <2>6. NoLostUpdate'
    BY <1>24, Ranges DEF RLockWait, Exclusion, NoLostUpdate, LockSection, TypeOK, Types
  <2> QED
    BY <2>1, <2>2, <2>3, <2>4, <2>5, <2>6
<1>25. ASSUME NEW t \in Threads, REndHtm(t) PROVE Image'
  <2>1. Footprint'
    BY <1>25, Ranges DEF REndHtm, TxEnd, Exclusion, Footprint, FootprintOf, HasRead,
        HasWritten, TypeOK, Types
  <2>2. NoConflict'
    BY <1>25, Ranges DEF REndHtm, TxEnd, Exclusion, NoConflict, TypeOK, Types
  <2>3. Current'
    BY <1>25, Ranges DEF REndHtm, TxEnd, Exclusion, Current, HasRead, ReadsBare, TypeOK,
        Types
  <2>4. HalfDone'
    BY <1>25, Ranges DEF REndHtm, TxEnd, Exclusion, HalfDone, HasRead, LockSection,
        TypeOK, Types
  <2>5. Kept'
    <3>1. \A d \in Data : seen[t][d] = commits
      BY <1>25, Quiet DEF REndHtm, Current, HasRead
    <3> QED
      BY <1>25, <3>1 DEF REndHtm, Kept, Exclusion, TypeOK, Types
  <2>6. NoLostUpdate'
    BY <1>25, Ranges DEF REndHtm, TxEnd, Exclusion, NoLostUpdate, LockSection, TypeOK,
        Types
  <2> QED
    BY <2>1, <2>2, <2>3, <2>4, <2>5, <2>6
<1>26. ASSUME NEW t \in Threads, RClear(t) PROVE Image'
  <2>1. Footprint'
    BY <1>26, Ranges DEF RClear, SetFlag, DoomByLockWord, Exclusion, Footprint,
        FootprintOf, HasRead, HasWritten, TypeOK, Types
  <2>2. NoConflict'
    BY <1>26, Ranges DEF RClear, SetFlag, DoomByLockWord, Exclusion, NoConflict, TypeOK,
        Types
  <2>3. Current'
    BY <1>26, Ranges DEF RClear, SetFlag, DoomByLockWord, Exclusion, Current, HasRead,
        ReadsBare, TypeOK, Types
  <2>4. HalfDone'
    BY <1>26, Ranges DEF RClear, SetFlag, DoomByLockWord, Exclusion, HalfDone, HasRead,
        LockSection, TypeOK, Types
  <2>5. Kept'
    <3>1. ReadsBare(t)
      BY <1>26 DEF RClear, ReadsBare, Exclusion, TxShape, TypeOK, Types
    <3>2. \A d \in Data : seen[t][d] = commits
      BY <1>26, <3>1, Quiet DEF RClear, Current, HasRead
    <3> QED
      BY <1>26, <3>2 DEF RClear, SetFlag, Kept, Exclusion, TypeOK, Types
  <2>6. NoLostUpdate'
    BY <1>26, Ranges DEF RClear, SetFlag, DoomByLockWord, Exclusion, NoLostUpdate,
        LockSection, TypeOK, Types
  <2> QED
    BY <2>1, <2>2, <2>3, <2>4, <2>5, <2>6
<1>27. ASSUME NEW t \in Threads, RDone(t) PROVE Image'
  <2>1. Footprint'
    BY <1>27, Ranges DEF RDone, Exclusion, Footprint, FootprintOf, HasRead, HasWritten,
        TypeOK, Types
  <2>2. NoConflict'
    BY <1>27, Ranges DEF RDone, Exclusion, NoConflict, TypeOK, Types
  <2>3. Current'
    BY <1>27, Ranges DEF RDone, Exclusion, Current, HasRead, ReadsBare, TypeOK, Types
  <2>4. HalfDone'
    BY <1>27, Ranges DEF RDone, Exclusion, HalfDone, HasRead, LockSection, TypeOK, Types
  <2>5. Kept'
    BY <1>27, Ranges DEF RDone, Exclusion, Kept, TypeOK, Types
  <2>6. NoLostUpdate'
    BY <1>27, Ranges DEF RDone, Exclusion, NoLostUpdate, LockSection, TypeOK, Types
  <2> QED
    BY <2>1, <2>2, <2>3, <2>4, <2>5, <2>6
<1>28. ASSUME NEW t \in Threads, TxAbort(t) PROVE Image'
  BY <1>28, Budgets, FailImage DEF TxAbort, Exclusion, TypeOK, Types
<1>29. CASE Finished
  BY <1>0, <1>29 DEF Finished
<1> QED
  BY <1>0, <1>1, <1>2, <1>3, <1>4, <1>5, <1>6, <1>7, <1>8, <1>9, <1>10, <1>11, <1>12,
      <1>13, <1>14, <1>15, <1>16, <1>17, <1>18, <1>19, <1>20, <1>21, <1>22, <1>23,
      <1>24, <1>25, <1>26, <1>27, <1>28, <1>29 DEF Next, Run, MustAbort

\* OneImage: whichever way a section runs, and even if it is rolled back later,
\* it reads the data as of one moment.
THEOREM SectionsReadOneImage == Spec => []OneImage
<1>1. Init => Exclusion /\ Image
  BY ExclusionInit, ImageInit
<1>2. Exclusion /\ Image /\ [Next]_vars => Exclusion' /\ Image'
  BY ExclusionStep, ImageStep
<1>3. Exclusion /\ Image => OneImage
  <2> SUFFICES ASSUME Exclusion, Image, NEW t \in Threads, htm[t] # "doomed",
                      NEW d \in Data, NEW e \in Data, HasRead(t, d), HasRead(t, e)
               PROVE  seen[t][d] = seen[t][e]
    BY DEF OneImage
  <2>1. CASE htm[t] = "on" \/ ReadsBare(t)
    BY <2>1, Quiet DEF Image, Current
  <2>2. CASE LockSection(t)
    BY <2>2 DEF Image, HalfDone
  <2>3. CASE pc[t] \in {"w_unclock", "r_done"}
    BY <2>3 DEF Image, Kept
  <2>4. htm[t] \in {"on", "off"}
    BY DEF Exclusion, TypeOK, Types
  <2> QED
    BY <2>1, <2>2, <2>3, <2>4 DEF HasRead, ReadsBare, LockSection, Exclusion, TxShape
<1> QED
  BY <1>1, <1>2, <1>3, PTL DEF Spec

\* The data's inductive invariant, next to the lock's: transactions do not
\* conflict, what a section has read is current, and no update is lost.
THEOREM ImageHolds == Spec => [](Exclusion /\ Image)
<1>1. Init => Exclusion /\ Image
  BY ExclusionInit, ImageInit
<1>2. Exclusion /\ Image /\ [Next]_vars => Exclusion' /\ Image'
  BY ExclusionStep, ImageStep
<1> QED
  BY <1>1, <1>2, PTL DEF Spec

\* NoLostUpdate: with no section under the lock, each word counts the write
\* sections completed, by transactions and by lock holders together.
THEOREM UpdatesKept == Spec => []NoLostUpdate
  BY ImageHolds, PTL DEF Image

----------------------------------------------------------------------------
(* SpRWL implements AtomicSections. *)

\* The labels a thread can be at for the operation it was called for.
WriteLabels == {"w_spin", "w_clock", "w_begin", "w_read", "w_write", "w_check",
                "w_end_htm", "w_cas", "w_drain", "w_clock2", "w_unlock", "w_unclock"}
OpShape ==
  \A t \in Threads : pc[t] # "idle" =>
    op[t] = IF pc[t] \in WriteLabels THEN "write" ELSE "read"

\* A section stays the kind it was called as (ro of TM_BEGIN_EXT).
LEMMA OpShapeStep == TypeOK /\ TxShape /\ OpShape /\ [Next]_vars => OpShape'
<1> SUFFICES ASSUME TypeOK, TxShape, OpShape, [Next]_vars PROVE OpShape'
  OBVIOUS
<1> USE DEF OpShape, WriteLabels
<1>0. CASE UNCHANGED vars
  BY <1>0 DEF vars
<1>a. ASSUME NEW t \in Threads, NEW b \in Int, Fail(t, b) PROVE OpShape'
  BY <1>a DEF Fail, ReadMode, ScanRound, TypeOK, Types
<1>1. ASSUME NEW t \in Threads, NEW o \in {"read", "write"}, Start(t, o) PROVE OpShape'
  BY <1>1 DEF Start, TypeOK, Types
<1>2. ASSUME NEW t \in Threads, Spin(t) PROVE OpShape'
  BY <1>2 DEF Spin, TypeOK, Types
<1>3. ASSUME NEW t \in Threads, WClock(t) PROVE OpShape'
  BY <1>3 DEF WClock, TypeOK, Types
<1>4. ASSUME NEW t \in Threads, TxBegin(t) PROVE OpShape'
  BY <1>4 DEF TxBegin, TypeOK, Types
<1>5. ASSUME NEW t \in Threads, TxBeginLocked(t) PROVE OpShape'
  BY <1>5, <1>a, Budgets DEF TxBeginLocked, TypeOK, Types, BudgetInBounds
<1>6. ASSUME NEW t \in Threads, WRead(t) PROVE OpShape'
  BY <1>6 DEF WRead, Load, TypeOK, Types
<1>7. ASSUME NEW t \in Threads, WWrite(t) PROVE OpShape'
  BY <1>7 DEF WWrite, Store, EndRound, WriteRelease, TypeOK, Types
<1>8. ASSUME NEW t \in Threads, RRead(t) PROVE OpShape'
  BY <1>8 DEF RRead, Load, EndRound, ReadRelease, TypeOK, Types
<1>9. ASSUME NEW t \in Threads, WCheck(t) PROVE OpShape'
  BY <1>9 DEF WCheck, EndRound, TypeOK, Types
<1>10. ASSUME NEW t \in Threads, WCheckAbort(t) PROVE OpShape'
  BY <1>10, <1>a, Budgets DEF WCheckAbort, TypeOK, Types, BudgetInBounds
<1>11. ASSUME NEW t \in Threads, WEndHtm(t) PROVE OpShape'
  BY <1>11 DEF WEndHtm, TypeOK, Types
<1>12. ASSUME NEW t \in Threads, WCas(t) PROVE OpShape'
  BY <1>12 DEF WCas, TypeOK, Types
<1>13. ASSUME NEW t \in Threads, WDrain(t) PROVE OpShape'
  BY <1>13 DEF WDrain, EndRound, TypeOK, Types
<1>14. ASSUME NEW t \in Threads, WUnlock(t) PROVE OpShape'
  BY <1>14 DEF WUnlock, TypeOK, Types
<1>15. ASSUME NEW t \in Threads, WUnclock(t) PROVE OpShape'
  BY <1>15 DEF WUnclock, TypeOK, Types
<1>16. ASSUME NEW t \in Threads, RScan(t) PROVE OpShape'
  <2>1. pc[t] = "r_scan" /\ op' = op /\ \E l \in {"r_mark", "r_clock"} : pc' = [pc EXCEPT ![t] = l]
    BY <1>16 DEF RScan
  <2>. QED
    BY <2>1 DEF TypeOK, Types
<1>17. ASSUME NEW t \in Threads, RClock(t) \/ RClock2(t) PROVE OpShape'
  <2>1. PICK w \in 0..N, k \in Threads, l \in ClockNext : ClockEffect(t, w, k, l)
    BY <1>17, ClockStep
  <2>2. /\ op' = op /\ \A u \in Threads \ {t} : pc'[u] = pc[u]
        /\ pc[t] \in {"r_clock", "r_clock2"} /\ pc'[t] \in ClockNext
    BY <2>1 DEF ClockEffect, TypeOK, Types
  <2>. QED
    BY <2>2 DEF ClockNext
<1>18. ASSUME NEW t \in Threads, RMark(t) PROVE OpShape'
  BY <1>18 DEF RMark, TypeOK, Types
<1>19. ASSUME NEW t \in Threads, RWait(t) PROVE OpShape'
  BY <1>19 DEF RWait, TypeOK, Types
<1>20. ASSUME NEW t \in Threads, RUnmark(t) PROVE OpShape'
  BY <1>20 DEF RUnmark, TypeOK, Types
<1>21. ASSUME NEW t \in Threads, RFlag(t) PROVE OpShape'
  BY <1>21 DEF RFlag, SetFlag, TypeOK, Types
<1>22. ASSUME NEW t \in Threads, RRecheck(t) PROVE OpShape'
  BY <1>22 DEF RRecheck, TypeOK, Types
<1>23. ASSUME NEW t \in Threads, RBack(t) PROVE OpShape'
  BY <1>23 DEF RBack, SetFlag, TypeOK, Types
<1>24. ASSUME NEW t \in Threads, RLockWait(t) PROVE OpShape'
  BY <1>24 DEF RLockWait, TypeOK, Types
<1>25. ASSUME NEW t \in Threads, REndHtm(t) PROVE OpShape'
  BY <1>25 DEF REndHtm, TypeOK, Types
<1>26. ASSUME NEW t \in Threads, RClear(t) PROVE OpShape'
  BY <1>26 DEF RClear, SetFlag, TypeOK, Types
<1>27. ASSUME NEW t \in Threads, RDone(t) PROVE OpShape'
  BY <1>27 DEF RDone, TypeOK, Types
<1>28. ASSUME NEW t \in Threads, TxAbort(t) PROVE OpShape'
  BY <1>28, <1>a, Budgets DEF TxAbort, TypeOK, Types, BudgetInBounds
<1>29. CASE Finished
  BY <1>0, <1>29 DEF Finished
<1> QED
  BY <1>0, <1>a, <1>1, <1>2, <1>3, <1>4, <1>5, <1>6, <1>7, <1>8, <1>9, <1>10, <1>11,
      <1>12, <1>13, <1>14, <1>15, <1>16, <1>17, <1>18, <1>19, <1>20, <1>21, <1>22,
      <1>23, <1>24, <1>25, <1>26, <1>27, <1>28, <1>29 DEF Next, Run, MustAbort

\* A step inside one phase of a section is a stutter of the abstract one.
LEMMA Stutter ==
  ASSUME TypeOK, NEW t \in Threads, op' = op, commits' = commits,
         pc' \in [Threads -> Labels], Phase(pc'[t]) = Phase(pc[t]),
         \A u \in Threads \ {t} : pc'[u] = pc[u] /\ seen'[u] = seen[u],
         Phase(pc[t]) = "called" \/ seen'[t] = seen[t]
  PROVE  UNCHANGED Atomic!vars
<1>1. \A u \in Threads : Phase(pc'[u]) = Phase(pc[u])
  OBVIOUS
<1>2. \A u \in Threads : Phase(pc[u]) = "done" => seen'[u] = seen[u]
  BY DEF Phase
<1>3. phaseBar' = phaseBar
  BY <1>1 DEF phaseBar
<1>4. gotBar' = gotBar
  BY <1>1, <1>2 DEF gotBar
<1> QED
  BY <1>3, <1>4 DEF Atomic!vars

\* A failed attempt is a stutter of the atomic section.
LEMMA FailStutter ==
  ASSUME TypeOK, TypeOK', NEW t \in Threads, NEW b \in Int, Fail(t, b),
         Phase(pc[t]) = "called"
  PROVE  UNCHANGED Atomic!vars
<1>1. Phase(pc'[t]) = "called"
  BY DEF Fail, ReadMode, ScanRound, Phase, TypeOK, Types
<1> QED
  BY <1>1, Stutter DEF Fail, TypeOK, Types

\* Every step of the lock is a step of the atomic sections, or a stutter.
LEMMA AtomicStep ==
  Exclusion /\ Image /\ OpShape /\ [Next]_vars => [Atomic!Next]_(Atomic!vars)
<1> SUFFICES ASSUME Exclusion, Image, OpShape, [Next]_vars
             PROVE  [Atomic!Next]_(Atomic!vars)
  OBVIOUS
<1>t. TypeOK /\ TypeOK'
  BY TypeStep DEF Exclusion
<1>0. CASE UNCHANGED vars
  BY <1>0 DEF vars, Atomic!vars, phaseBar, gotBar
<1>1. ASSUME NEW t \in Threads, NEW o \in {"read", "write"}, Start(t, o) PROVE Atomic!Call(t)
  <2>1. phaseBar' = [phaseBar EXCEPT ![t] = "called"]
    BY <1>1, <1>t DEF Start, phaseBar, Phase, TypeOK, Types
  <2>2. gotBar' = gotBar
    BY <1>1, <1>t DEF Start, gotBar, Phase, TypeOK, Types
  <2>3. phaseBar[t] = "idle" /\ \E k \in {"read", "write"} : op' = [op EXCEPT ![t] = k]
    BY <1>1 DEF Start, phaseBar, Phase
  <2> QED
    BY <1>1, <2>1, <2>2, <2>3 DEF Start, Atomic!Call
<1>2. ASSUME NEW t \in Threads, Spin(t) PROVE UNCHANGED Atomic!vars
  <2>1. Phase(pc'[t]) = Phase(pc[t]) /\ op' = op /\ commits' = commits
    BY <1>2, <1>t DEF Spin, Phase, TypeOK, Types
  <2>2. \A u \in Threads \ {t} : pc'[u] = pc[u] /\ seen'[u] = seen[u]
    BY <1>2, <1>t DEF Spin, TypeOK, Types
  <2>3. Phase(pc[t]) = "called" \/ seen'[t] = seen[t]
    BY <1>2 DEF Spin, Phase
  <2> QED
    BY <1>t, <2>1, <2>2, <2>3, Stutter DEF TypeOK, Types
<1>3. ASSUME NEW t \in Threads, WClock(t) PROVE UNCHANGED Atomic!vars
  <2>1. Phase(pc'[t]) = Phase(pc[t]) /\ op' = op /\ commits' = commits
    BY <1>3, <1>t DEF WClock, Phase, TypeOK, Types
  <2>2. \A u \in Threads \ {t} : pc'[u] = pc[u] /\ seen'[u] = seen[u]
    BY <1>3, <1>t DEF WClock, TypeOK, Types
  <2>3. Phase(pc[t]) = "called" \/ seen'[t] = seen[t]
    BY <1>3 DEF WClock, Phase
  <2> QED
    BY <1>t, <2>1, <2>2, <2>3, Stutter DEF TypeOK, Types
<1>4. ASSUME NEW t \in Threads, TxBegin(t) PROVE UNCHANGED Atomic!vars
  <2>1. Phase(pc'[t]) = Phase(pc[t]) /\ op' = op /\ commits' = commits
    BY <1>4, <1>t DEF TxBegin, Phase, TypeOK, Types
  <2>2. \A u \in Threads \ {t} : pc'[u] = pc[u] /\ seen'[u] = seen[u]
    BY <1>4, <1>t DEF TxBegin, TypeOK, Types
  <2>3. Phase(pc[t]) = "called" \/ seen'[t] = seen[t]
    BY <1>4 DEF TxBegin, Phase
  <2> QED
    BY <1>t, <2>1, <2>2, <2>3, Stutter DEF TypeOK, Types
<1>5. ASSUME NEW t \in Threads, TxBeginLocked(t) PROVE UNCHANGED Atomic!vars
  <2>1. Phase(pc[t]) = "called"
    BY <1>5 DEF TxBeginLocked, Phase
  <2> QED
    BY <1>5, <1>t, <2>1, FailStutter DEF TxBeginLocked, TypeOK, Types
<1>6. ASSUME NEW t \in Threads, WRead(t) PROVE UNCHANGED Atomic!vars
  <2>1. Phase(pc'[t]) = Phase(pc[t]) /\ op' = op /\ commits' = commits
    BY <1>6, <1>t DEF WRead, Load, Phase, TypeOK, Types
  <2>2. \A u \in Threads \ {t} : pc'[u] = pc[u] /\ seen'[u] = seen[u]
    BY <1>6, <1>t DEF WRead, Load, TypeOK, Types
  <2>3. Phase(pc[t]) = "called" \/ seen'[t] = seen[t]
    BY <1>6 DEF WRead, Load, Phase
  <2> QED
    BY <1>t, <2>1, <2>2, <2>3, Stutter DEF TypeOK, Types
<1>7. ASSUME NEW t \in Threads, WWrite(t) PROVE UNCHANGED Atomic!vars
  <2>1. Phase(pc'[t]) = Phase(pc[t]) /\ op' = op /\ commits' = commits
    BY <1>7, <1>t DEF WWrite, Store, EndRound, WriteRelease, Phase, TypeOK, Types
  <2>2. \A u \in Threads \ {t} : pc'[u] = pc[u] /\ seen'[u] = seen[u]
    BY <1>7, <1>t DEF WWrite, Store, EndRound, WriteRelease, TypeOK, Types
  <2>3. Phase(pc[t]) = "called" \/ seen'[t] = seen[t]
    BY <1>7 DEF WWrite, Store, EndRound, WriteRelease, Phase
  <2> QED
    BY <1>t, <2>1, <2>2, <2>3, Stutter DEF TypeOK, Types
<1>8. ASSUME NEW t \in Threads, RRead(t) PROVE Atomic!TakeEffect(t) \/ UNCHANGED Atomic!vars
  <2>0. idx[t] \in Data /\ Phase(pc[t]) = "called"
    BY <1>8, <1>t DEF RRead, TypeOK, IndexInBounds, Phase
  <2>1. op' = op /\ commits' = commits /\ op[t] = "read" /\ pc' \in [Threads -> Labels]
    BY <1>8, <1>t DEF RRead, Load, OpShape, WriteLabels, TypeOK, Types
  <2>2. \A u \in Threads \ {t} : pc'[u] = pc[u] /\ seen'[u] = seen[u]
    BY <1>8, <1>t, <2>0 DEF RRead, Load, EndRound, TypeOK, Types
  <2>3. CASE Phase(pc'[t]) = "called"
    BY <1>t, <2>0, <2>1, <2>2, <2>3, Stutter
  <2>4. CASE Phase(pc'[t]) # "called"
    <3>1. idx[t] = NData /\ pc'[t] = "r_clear"
      BY <1>8, <1>t, <2>4 DEF RRead, EndRound, ReadRelease, Phase, TypeOK, Types
    <3>2. htm[t] = "off"
      <4>1. ReadRelease(t) = "r_clear"
        BY <1>8, <1>t, <3>1 DEF RRead, EndRound, TypeOK, Types
      <4>2. htm[t] # "on"
        BY <1>8, <4>1, ConstantsAssumption DEF ConstantsAssumption, RRead, ReadRelease,
            Exclusion, ModeShape
      <4> QED
        BY <1>8, <1>t, <4>2 DEF RRead, Load, Live, TypeOK, Types
    <3>3. ReadsBare(t)
      BY <1>8, <3>2 DEF RRead, ReadsBare
    <3>4. \A d \in Data : mem[d] = commits
      BY <3>3, Quiet
    <3>5. \A d \in Data : d = idx[t] \/ HasRead(t, d)
      BY <1>8, <2>0, <3>1, Ranges DEF RRead, HasRead
    <3>6. \A d \in Data : seen'[t][d] = commits
      BY <1>8, <1>t, <2>0, <3>3, <3>4, <3>5 DEF RRead, Load, Image, Current, TypeOK,
          Types
    <3>7. seen'[t] = [d \in Data |-> commits]
      BY <1>t, <3>6 DEF TypeOK, Types
    <3>8. phaseBar' = [phaseBar EXCEPT ![t] = "done"] /\ phaseBar[t] = "called"
      BY <2>0, <2>2, <3>1 DEF phaseBar, Phase
    <3>9. gotBar' = [gotBar EXCEPT ![t] = [d \in Data |-> commits]]
      BY <2>2, <3>1, <3>7 DEF gotBar, Phase
    <3> QED
      BY <2>1, <3>8, <3>9 DEF Atomic!TakeEffect
  <2> QED
    BY <2>3, <2>4
<1>9. ASSUME NEW t \in Threads, WCheck(t) PROVE UNCHANGED Atomic!vars
  <2>1. Phase(pc'[t]) = Phase(pc[t]) /\ op' = op /\ commits' = commits
    BY <1>9, <1>t DEF WCheck, EndRound, Phase, TypeOK, Types
  <2>2. \A u \in Threads \ {t} : pc'[u] = pc[u] /\ seen'[u] = seen[u]
    BY <1>9, <1>t DEF WCheck, EndRound, TypeOK, Types
  <2>3. Phase(pc[t]) = "called" \/ seen'[t] = seen[t]
    BY <1>9 DEF WCheck, EndRound, Phase
  <2> QED
    BY <1>t, <2>1, <2>2, <2>3, Stutter DEF TypeOK, Types
<1>10. ASSUME NEW t \in Threads, WCheckAbort(t) PROVE UNCHANGED Atomic!vars
  <2>1. Phase(pc[t]) = "called"
    BY <1>10 DEF WCheckAbort, Phase
  <2> QED
    BY <1>10, <1>t, <2>1, FailStutter DEF WCheckAbort, TypeOK, Types
<1>11. ASSUME NEW t \in Threads, WEndHtm(t) PROVE Atomic!TakeEffect(t)
  <2>1. phaseBar' = [phaseBar EXCEPT ![t] = "done"] /\ phaseBar[t] = "called"
    BY <1>11, <1>t DEF WEndHtm, phaseBar, Phase, TypeOK, Types
  <2>2. seen' = seen /\ seen[t] = [d \in Data |-> commits]
    <3>1. \A d \in Data : HasRead(t, d)
      BY <1>11 DEF WEndHtm, HasRead
    <3>2. \A d \in Data : seen[t][d] = mem[d] /\ mem[d] = commits
      BY <1>11, <3>1, Quiet DEF WEndHtm, Image, Current
    <3> QED
      BY <1>11, <1>t, <3>2 DEF WEndHtm, TypeOK, Types
  <2>3. gotBar' = [gotBar EXCEPT ![t] = [d \in Data |-> commits]]
    BY <1>11, <1>t, <2>2 DEF WEndHtm, gotBar, Phase, TypeOK, Types
  <2>4. op' = op /\ commits' = IF op[t] = "write" THEN commits + 1 ELSE commits
    BY <1>11, <1>t DEF WEndHtm, OpShape, WriteLabels, TypeOK, Types
  <2> QED
    BY <2>1, <2>3, <2>4 DEF Atomic!TakeEffect
<1>12. ASSUME NEW t \in Threads, WCas(t) PROVE UNCHANGED Atomic!vars
  <2>1. Phase(pc'[t]) = Phase(pc[t]) /\ op' = op /\ commits' = commits
    BY <1>12, <1>t DEF WCas, Phase, TypeOK, Types
  <2>2. \A u \in Threads \ {t} : pc'[u] = pc[u] /\ seen'[u] = seen[u]
    BY <1>12, <1>t DEF WCas, TypeOK, Types
  <2>3. Phase(pc[t]) = "called" \/ seen'[t] = seen[t]
    BY <1>12 DEF WCas, Phase
  <2> QED
    BY <1>t, <2>1, <2>2, <2>3, Stutter DEF TypeOK, Types
<1>13. ASSUME NEW t \in Threads, WDrain(t) PROVE UNCHANGED Atomic!vars
  <2>1. Phase(pc'[t]) = Phase(pc[t]) /\ op' = op /\ commits' = commits
    BY <1>13, <1>t DEF WDrain, EndRound, Phase, TypeOK, Types
  <2>2. \A u \in Threads \ {t} : pc'[u] = pc[u] /\ seen'[u] = seen[u]
    BY <1>13, <1>t DEF WDrain, EndRound, TypeOK, Types
  <2>3. Phase(pc[t]) = "called" \/ seen'[t] = seen[t]
    BY <1>13 DEF WDrain, EndRound, Phase
  <2> QED
    BY <1>t, <2>1, <2>2, <2>3, Stutter DEF TypeOK, Types
<1>14. ASSUME NEW t \in Threads, WUnlock(t) PROVE Atomic!TakeEffect(t)
  <2>1. phaseBar' = [phaseBar EXCEPT ![t] = "done"] /\ phaseBar[t] = "called"
    BY <1>14, <1>t DEF WUnlock, phaseBar, Phase, TypeOK, Types
  <2>2. seen' = seen /\ seen[t] = [d \in Data |-> commits]
    <3>1. \A d \in Data : HasRead(t, d)
      BY <1>14 DEF WUnlock, HasRead
    <3>2. \A d \in Data : seen[t][d] = commits
      BY <1>14, <3>1 DEF WUnlock, Image, HalfDone, LockSection
    <3> QED
      BY <1>14, <1>t, <3>2 DEF WUnlock, TypeOK, Types
  <2>3. gotBar' = [gotBar EXCEPT ![t] = [d \in Data |-> commits]]
    BY <1>14, <1>t, <2>2 DEF WUnlock, gotBar, Phase, TypeOK, Types
  <2>4. op' = op /\ commits' = IF op[t] = "write" THEN commits + 1 ELSE commits
    BY <1>14, <1>t DEF WUnlock, OpShape, WriteLabels, TypeOK, Types
  <2> QED
    BY <2>1, <2>3, <2>4 DEF Atomic!TakeEffect
<1>15. ASSUME NEW t \in Threads, WUnclock(t) PROVE Atomic!Return(t)
  <2>1. phaseBar' = [phaseBar EXCEPT ![t] = "idle"]
    BY <1>15, <1>t DEF WUnclock, phaseBar, Phase, TypeOK, Types
  <2>2. gotBar' = [gotBar EXCEPT ![t] = Atomic!Nothing]
    BY <1>15, <1>t DEF WUnclock, gotBar, Phase, Atomic!Nothing, TypeOK, Types
  <2>3. phaseBar[t] = "done"
    BY <1>15 DEF WUnclock, phaseBar, Phase
  <2> QED
    BY <1>15, <2>1, <2>2, <2>3 DEF WUnclock, Atomic!Return
<1>16. ASSUME NEW t \in Threads, RScan(t) PROVE UNCHANGED Atomic!vars
  <2>1. Phase(pc'[t]) = Phase(pc[t]) /\ op' = op /\ commits' = commits
    BY <1>16, <1>t DEF RScan, Phase, TypeOK, Types
  <2>2. \A u \in Threads \ {t} : pc'[u] = pc[u] /\ seen'[u] = seen[u]
    BY <1>16, <1>t DEF RScan, TypeOK, Types
  <2>3. Phase(pc[t]) = "called" \/ seen'[t] = seen[t]
    BY <1>16 DEF RScan, Phase
  <2> QED
    BY <1>t, <2>1, <2>2, <2>3, Stutter DEF TypeOK, Types
<1>17. ASSUME NEW t \in Threads, RClock(t) \/ RClock2(t) PROVE UNCHANGED Atomic!vars
  <2>1. Phase(pc'[t]) = Phase(pc[t]) /\ op' = op /\ commits' = commits
    BY <1>17, <1>t DEF RClock, RClock2, EndClock, EndRound, ScanRound, Phase, TypeOK,
        Types
  <2>2. \A u \in Threads \ {t} : pc'[u] = pc[u] /\ seen'[u] = seen[u]
    BY <1>17, <1>t DEF RClock, RClock2, EndClock, EndRound, ScanRound, TypeOK, Types
  <2>3. Phase(pc[t]) = "called" \/ seen'[t] = seen[t]
    BY <1>17 DEF RClock, RClock2, EndClock, EndRound, ScanRound, Phase
  <2> QED
    BY <1>t, <2>1, <2>2, <2>3, Stutter DEF TypeOK, Types
<1>18. ASSUME NEW t \in Threads, RMark(t) PROVE UNCHANGED Atomic!vars
  <2>1. Phase(pc'[t]) = Phase(pc[t]) /\ op' = op /\ commits' = commits
    BY <1>18, <1>t DEF RMark, Phase, TypeOK, Types
  <2>2. \A u \in Threads \ {t} : pc'[u] = pc[u] /\ seen'[u] = seen[u]
    BY <1>18, <1>t DEF RMark, TypeOK, Types
  <2>3. Phase(pc[t]) = "called" \/ seen'[t] = seen[t]
    BY <1>18 DEF RMark, Phase
  <2> QED
    BY <1>t, <2>1, <2>2, <2>3, Stutter DEF TypeOK, Types
<1>19. ASSUME NEW t \in Threads, RWait(t) PROVE UNCHANGED Atomic!vars
  <2>1. Phase(pc'[t]) = Phase(pc[t]) /\ op' = op /\ commits' = commits
    BY <1>19, <1>t DEF RWait, Phase, TypeOK, Types
  <2>2. \A u \in Threads \ {t} : pc'[u] = pc[u] /\ seen'[u] = seen[u]
    BY <1>19, <1>t DEF RWait, TypeOK, Types
  <2>3. Phase(pc[t]) = "called" \/ seen'[t] = seen[t]
    BY <1>19 DEF RWait, Phase
  <2> QED
    BY <1>t, <2>1, <2>2, <2>3, Stutter DEF TypeOK, Types
<1>20. ASSUME NEW t \in Threads, RUnmark(t) PROVE UNCHANGED Atomic!vars
  <2>1. Phase(pc'[t]) = Phase(pc[t]) /\ op' = op /\ commits' = commits
    BY <1>20, <1>t DEF RUnmark, Phase, TypeOK, Types
  <2>2. \A u \in Threads \ {t} : pc'[u] = pc[u] /\ seen'[u] = seen[u]
    BY <1>20, <1>t DEF RUnmark, TypeOK, Types
  <2>3. Phase(pc[t]) = "called" \/ seen'[t] = seen[t]
    BY <1>20 DEF RUnmark, Phase
  <2> QED
    BY <1>t, <2>1, <2>2, <2>3, Stutter DEF TypeOK, Types
<1>21. ASSUME NEW t \in Threads, RFlag(t) PROVE UNCHANGED Atomic!vars
  <2>1. Phase(pc'[t]) = Phase(pc[t]) /\ op' = op /\ commits' = commits
    BY <1>21, <1>t DEF RFlag, SetFlag, Phase, TypeOK, Types
  <2>2. \A u \in Threads \ {t} : pc'[u] = pc[u] /\ seen'[u] = seen[u]
    BY <1>21, <1>t DEF RFlag, SetFlag, TypeOK, Types
  <2>3. Phase(pc[t]) = "called" \/ seen'[t] = seen[t]
    BY <1>21 DEF RFlag, SetFlag, Phase
  <2> QED
    BY <1>t, <2>1, <2>2, <2>3, Stutter DEF TypeOK, Types
<1>22. ASSUME NEW t \in Threads, RRecheck(t) PROVE UNCHANGED Atomic!vars
  <2>1. Phase(pc'[t]) = Phase(pc[t]) /\ op' = op /\ commits' = commits
    BY <1>22, <1>t DEF RRecheck, Phase, TypeOK, Types
  <2>2. \A u \in Threads \ {t} : pc'[u] = pc[u] /\ seen'[u] = seen[u]
    BY <1>22, <1>t DEF RRecheck, TypeOK, Types
  <2>3. Phase(pc[t]) = "called" \/ seen'[t] = seen[t]
    BY <1>22 DEF RRecheck, Phase
  <2> QED
    BY <1>t, <2>1, <2>2, <2>3, Stutter DEF TypeOK, Types
<1>23. ASSUME NEW t \in Threads, RBack(t) PROVE UNCHANGED Atomic!vars
  <2>1. Phase(pc'[t]) = Phase(pc[t]) /\ op' = op /\ commits' = commits
    BY <1>23, <1>t DEF RBack, SetFlag, Phase, TypeOK, Types
  <2>2. \A u \in Threads \ {t} : pc'[u] = pc[u] /\ seen'[u] = seen[u]
    BY <1>23, <1>t DEF RBack, SetFlag, TypeOK, Types
  <2>3. Phase(pc[t]) = "called" \/ seen'[t] = seen[t]
    BY <1>23 DEF RBack, SetFlag, Phase
  <2> QED
    BY <1>t, <2>1, <2>2, <2>3, Stutter DEF TypeOK, Types
<1>24. ASSUME NEW t \in Threads, RLockWait(t) PROVE UNCHANGED Atomic!vars
  <2>1. Phase(pc'[t]) = Phase(pc[t]) /\ op' = op /\ commits' = commits
    BY <1>24, <1>t DEF RLockWait, Phase, TypeOK, Types
  <2>2. \A u \in Threads \ {t} : pc'[u] = pc[u] /\ seen'[u] = seen[u]
    BY <1>24, <1>t DEF RLockWait, TypeOK, Types
  <2>3. Phase(pc[t]) = "called" \/ seen'[t] = seen[t]
    BY <1>24 DEF RLockWait, Phase
  <2> QED
    BY <1>t, <2>1, <2>2, <2>3, Stutter DEF TypeOK, Types
<1>25. ASSUME NEW t \in Threads, REndHtm(t) PROVE Atomic!TakeEffect(t)
  <2>1. phaseBar' = [phaseBar EXCEPT ![t] = "done"] /\ phaseBar[t] = "called"
    BY <1>25, <1>t DEF REndHtm, phaseBar, Phase, TypeOK, Types
  <2>2. seen' = seen /\ seen[t] = [d \in Data |-> commits]
    <3>1. \A d \in Data : HasRead(t, d)
      BY <1>25 DEF REndHtm, HasRead
    <3>2. \A d \in Data : seen[t][d] = mem[d] /\ mem[d] = commits
      BY <1>25, <3>1, Quiet DEF REndHtm, Image, Current
    <3> QED
      BY <1>25, <1>t, <3>2 DEF REndHtm, TypeOK, Types
  <2>3. gotBar' = [gotBar EXCEPT ![t] = [d \in Data |-> commits]]
    BY <1>25, <1>t, <2>2 DEF REndHtm, gotBar, Phase, TypeOK, Types
  <2>4. op' = op /\ commits' = IF op[t] = "write" THEN commits + 1 ELSE commits
    BY <1>25, <1>t DEF REndHtm, OpShape, WriteLabels, TypeOK, Types
  <2> QED
    BY <2>1, <2>3, <2>4 DEF Atomic!TakeEffect
<1>26. ASSUME NEW t \in Threads, RClear(t) PROVE UNCHANGED Atomic!vars
  <2>1. Phase(pc'[t]) = Phase(pc[t]) /\ op' = op /\ commits' = commits
    BY <1>26, <1>t DEF RClear, SetFlag, Phase, TypeOK, Types
  <2>2. \A u \in Threads \ {t} : pc'[u] = pc[u] /\ seen'[u] = seen[u]
    BY <1>26, <1>t DEF RClear, SetFlag, TypeOK, Types
  <2>3. Phase(pc[t]) = "called" \/ seen'[t] = seen[t]
    BY <1>26 DEF RClear, SetFlag, Phase
  <2> QED
    BY <1>t, <2>1, <2>2, <2>3, Stutter DEF TypeOK, Types
<1>27. ASSUME NEW t \in Threads, RDone(t) PROVE Atomic!Return(t)
  <2>1. phaseBar' = [phaseBar EXCEPT ![t] = "idle"]
    BY <1>27, <1>t DEF RDone, phaseBar, Phase, TypeOK, Types
  <2>2. gotBar' = [gotBar EXCEPT ![t] = Atomic!Nothing]
    BY <1>27, <1>t DEF RDone, gotBar, Phase, Atomic!Nothing, TypeOK, Types
  <2>3. phaseBar[t] = "done"
    BY <1>27 DEF RDone, phaseBar, Phase
  <2> QED
    BY <1>27, <2>1, <2>2, <2>3 DEF RDone, Atomic!Return
<1>28. ASSUME NEW t \in Threads, TxAbort(t) PROVE UNCHANGED Atomic!vars
  <2>1. Phase(pc[t]) = "called"
    BY <1>28 DEF TxAbort, Exclusion, TxShape, Phase
  <2> QED
    BY <1>28, <1>t, <2>1, Budgets, FailStutter DEF TxAbort, TypeOK, Types,
        BudgetInBounds
<1>29. CASE Finished
  BY <1>0, <1>29 DEF Finished
<1> QED
  BY <1>0, <1>t, <1>1, <1>2, <1>3, <1>4, <1>5, <1>6, <1>7, <1>8, <1>9, <1>10, <1>11,
      <1>12, <1>13, <1>14, <1>15, <1>16, <1>17, <1>18, <1>19, <1>20, <1>21, <1>22,
      <1>23, <1>24, <1>25, <1>26, <1>27, <1>28, <1>29 DEF Next, Run, MustAbort,
      Atomic!Next

\* ImplementsAtomic: every section of the lock, in a transaction, under a flag or
\* under writer_lock, takes effect at one moment between its call and return.
THEOREM Refinement == Spec => ImplementsAtomic
<1>1. Init => Atomic!Init
  BY DEF Init, NoTransactions, Atomic!Init, Atomic!Nothing, phaseBar, gotBar, Phase
<1>2. Init => OpShape
  BY DEF Init, NoTransactions, OpShape
<1>3. Exclusion /\ OpShape /\ [Next]_vars => OpShape'
  BY OpShapeStep DEF Exclusion
<1> QED
  BY <1>1, <1>2, <1>3, ImageHolds, AtomicStep, PTL DEF Spec, ImplementsAtomic,
      Atomic!Spec

----------------------------------------------------------------------------
(* The release of a read section that ran in a transaction. *)

\* Only RELEASE_READ_LOCK as NON_VARIANT redefines it leaves a transaction open.
NoneRunsOn == \A t \in Threads : pc[t] # "open"

\* Without NON_VARIANT no step leaves a transaction open.
LEMMA NoneRunsOnStep ==
  ASSUME ~NonVariant, Exclusion, NoneRunsOn, [Next]_vars
  PROVE  NoneRunsOn'
<1>0. CASE UNCHANGED vars
  BY <1>0 DEF vars, NoneRunsOn
<1>1. ASSUME NEW t \in Threads, RRead(t) PROVE NoneRunsOn'
  <2>1. ReadRelease(t) # "open"
    BY <1>1 DEF RRead, ReadRelease, Exclusion, ModeShape
  <2> QED
    BY <1>1, <2>1 DEF RRead, EndRound, NoneRunsOn, Exclusion, TypeOK, Types
<1>2. ASSUME NEW t \in Threads, NEW o \in {"read", "write"}, Start(t, o)
      PROVE  NoneRunsOn'
  BY <1>2 DEF Start, NoneRunsOn, Exclusion, TypeOK, Types
<1>3. ASSUME NEW t \in Threads, NEW b, Fail(t, b) PROVE NoneRunsOn'
  BY <1>3 DEF Fail, ReadMode, ScanRound, NoneRunsOn, Exclusion, TypeOK, Types
<1>4. ASSUME NEW t \in Threads, TxAbort(t) PROVE NoneRunsOn'
  BY <1>3, <1>4 DEF TxAbort
<1>5. ASSUME NEW t \in Threads, Run(t), ~RRead(t), ~MustAbort(t) PROVE NoneRunsOn'
  BY <1>3, <1>5 DEF Run, Spin, WClock, TxBegin, TxBeginLocked, WRead, WWrite,
      WriteRelease, EndRound, WCheck, WCheckAbort, WEndHtm, WCas, WDrain, WUnlock,
      WUnclock, RScan, RClock, RClock2, EndClock, ScanRound, RMark, RWait, RUnmark,
      RFlag, RRecheck, RBack, RLockWait, REndHtm, RClear, RDone, NoneRunsOn, Exclusion,
      TypeOK, Types
<1>6. CASE Finished
  BY <1>0, <1>6 DEF Finished
<1> QED
  BY <1>0, <1>1, <1>2, <1>4, <1>5, <1>6 DEF Next, MustAbort

\* NoOpenTransaction: where RELEASE_READ_LOCK is spec.h's own (NON_VARIANT is not
\* defined, spec.h:174), every transaction ends with its section.  With tm.h's it
\* does not: see the run open_transaction.
THEOREM TransactionsEnd ==
  ASSUME ~NonVariant
  PROVE  Spec => []NoOpenTransaction
<1>1. Init => NoneRunsOn
  BY DEF Init, NoneRunsOn
<1>2. Exclusion /\ NoneRunsOn /\ [Next]_vars => NoneRunsOn'
  BY NoneRunsOnStep
<1>3. Exclusion /\ NoneRunsOn => NoOpenTransaction
  BY DEF Exclusion, TxShape, NoneRunsOn, NoOpenTransaction
<1> QED
  BY <1>1, <1>2, <1>3, ExclusionHolds, PTL DEF Spec
=============================================================================
