----------------------------- MODULE HERWLProof -----------------------------
(***************************************************************************)
(* Theorems about HERWL, for any number of threads, words, tries and       *)
(* sections.                                                               *)
(***************************************************************************)
EXTENDS HERWL, TLAPS

\* Abbreviations of the steps and of their UNCHANGED lists are read as they stand.
USE DEF Goto, Look, locals, txvars

\* The conjuncts of TypeOK: what each variable ranges over, and whose counter is odd.
Types ==
  /\ pc \in [Threads -> Labels] /\ op \in [Threads -> {"read", "write"}]
  /\ mode \in [Threads -> 0..2] /\ tries \in [Threads -> Int]
  /\ idx \in [Threads -> Nat] /\ snapshot \in [Threads -> [Threads -> Nat]]
  /\ seen \in [Threads -> [Data -> Nat]] /\ mem \in [Data -> Nat]
  /\ writer_lock \in 0..2 /\ reader_locks \in [Threads -> Nat]
  /\ htm \in [Threads -> {"off", "on", "doomed"}] /\ watch \in [Threads -> SUBSET {Lock}]
  /\ rset \in [Threads -> SUBSET Data] /\ wset \in [Threads -> SUBSET Data]
  /\ commits \in Nat /\ calls \in 0..MaxCalls
Parity ==
  \A t \in Threads :
    Odd(reader_locks[t]) <=> pc[t] \in {"r_check", "r_retreat", "r_read", "r_leave"}

\* A loop over the words or the threads stays inside its array.
IndexInBounds ==
  \A t \in Threads :
    idx[t] \in IF pc[t] \in {"w_read", "w_write", "r_read"} THEN Data
              ELSE IF pc[t] \in {"w_suspended", "w_quiesce", "w_snap", "w_drain"}
              THEN Threads ELSE {1}

\* local_exec_mode tells which of the three ways the writer has taken, and an
\* attempt of the first two has tries left.
ModeShape ==
  \A t \in Threads :
    /\ pc[t] \in {"idle", "r_spin", "r_enter", "r_check", "r_retreat", "r_read",
                  "r_leave", "w_spin", "w_begin", "w_suspended"} => mode[t] = 0
    /\ pc[t] \in {"w_cas", "w_rot", "w_snap", "w_drain"} => mode[t] = 1
    /\ pc[t] \in {"w_global", "w_quiesce"} => mode[t] = 2
    /\ pc[t] = "w_end" => mode[t] # 2
    /\ pc[t] = "w_unlock" => mode[t] # 0
    /\ htm[t] # "off" \/ pc[t] \in {"w_spin", "w_begin", "w_rot"} => tries[t] > 0

\* A transaction is there from its begin to its end, and a hardware one runs
\* only while writer_lock is free, which it watches.
TxShape ==
  \A t \in Threads :
    /\ htm[t] # "off" <=>
         \/ pc[t] \in {"w_read", "w_write"} /\ mode[t] # 2
         \/ pc[t] \in {"w_suspended", "w_snap", "w_drain", "w_end"}
    /\ htm[t] = "on" /\ mode[t] = 0 => Lock \in watch[t] /\ writer_lock = 0

\* writer_lock says how far its holder is, and one thread holds it.
HoldsLock(t) ==
  \/ pc[t] \in {"w_rot", "w_global"}
  \/ pc[t] \in {"w_quiesce", "w_read", "w_write", "w_snap", "w_drain", "w_end", "w_unlock"}
     /\ mode[t] # 0
LockShape ==
  \A w \in Threads : HoldsLock(w) =>
    /\ writer_lock = IF mode[w] = 2 /\ pc[w] # "w_global" THEN 2 ELSE 1
    /\ \A u \in Threads : HoldsLock(u) => u = w

\* The readers the global lock's quiescence has passed stay out.
ReadersOut ==
  \A w, u \in Threads :
    GlobalSection(w) \/ (pc[w] = "w_quiesce" /\ u < idx[w]) => ~Reads(u)

Shape ==
  Types /\ Parity /\ IndexInBounds /\ ModeShape /\ TxShape /\ LockShape /\ ReadersOut

----------------------------------------------------------------------------
\* A transaction tracks what its section has touched: a rollback-only one only
\* what it has written.
HasWritten(t, d) ==
  \/ pc[t] \in {"w_read", "w_write"} /\ d < idx[t]
  \/ pc[t] \in {"w_suspended", "w_snap", "w_drain", "w_end", "w_unlock"}
FootprintOf(t, d) ==
  /\ htm[t] = "off" => d \notin rset[t] /\ d \notin wset[t]
  /\ htm[t] = "on" =>
       /\ mode[t] = 0 /\ HasRead(t, d) => d \in rset[t]
       /\ d \in wset[t] <=> HasWritten(t, d)
Footprint == \A t \in Threads, d \in Data : FootprintOf(t, d)

NoConflict ==
  \A t, u \in Threads, d \in Data :
    t # u /\ htm[t] = "on" /\ htm[u] = "on" /\ d \in wset[t]
      => d \notin rset[u] /\ d \notin wset[u]

\* A reader is in its section with something read.
Started(u) == Reads(u) /\ HasRead(u, 1)

\* No reader that a transaction's quiescence has passed has read anything: one
\* that came later dooms the transaction when it reads.
Waited ==
  \A w, u \in Threads :
    htm[w] = "on" /\ (pc[w] = "w_end" \/ (pc[w] \in {"w_suspended", "w_drain"} /\ u < idx[w]))
      => ~Started(u)

\* Whom a rollback-only transaction must still wait for is in its snapshot.
Noted ==
  \A w, u \in Threads :
    /\ htm[w] = "on"
    /\ pc[w] = "w_drain" \/ (pc[w] = "w_snap" /\ u < idx[w])
    /\ Started(u)
    => snapshot[w][u] = reader_locks[u]

\* What an open transaction or a reader has read is still what is there.
Current ==
  \A t \in Threads, d \in Data :
    (htm[t] = "on" \/ Reads(t)) /\ HasRead(t, d) => seen[t][d] = mem[d]

\* The data count the write sections; under the global lock the words that the
\* holder has written are one ahead.
Whole ==
  (\A w \in Threads : ~GlobalSection(w)) => \A d \in Data : mem[d] = commits
HalfDone ==
  \A w \in Threads, d \in Data : GlobalSection(w) =>
    /\ HasRead(w, d) => seen[w][d] = commits
    /\ mem[d] = IF HasWritten(w, d) THEN commits + 1 ELSE commits

\* A write section that has taken effect keeps its image until it returns.
Kept ==
  \A t \in Threads : pc[t] = "w_done" \/ (pc[t] = "w_unlock" /\ mode[t] = 1) =>
    \A d, e \in Data : seen[t][d] = seen[t][e]

Image ==
  Footprint /\ NoConflict /\ Waited /\ Noted /\ Current /\ Whole /\ HalfDone /\ Kept

----------------------------------------------------------------------------
(* Who may be where. *)

\* The sets of threads and of words are intervals from 1.
LEMMA Ranges ==
  /\ \A i : i \in Threads <=> i \in Nat /\ 1 <= i /\ i <= N
  /\ \A i : i \in Data <=> i \in Nat /\ 1 <= i /\ i <= NData
  /\ N \in Nat /\ NData \in Nat /\ N >= 1 /\ NData >= 1 /\ 1 \in Data /\ 1 \in Threads
  /\ \A i \in Threads : i # N => i + 1 \in Threads
  /\ \A i \in Data : i # NData => i + 1 \in Data
  BY ConstantsAssumption DEF ConstantsAssumption, Threads, Data

\* A counter that is incremented changes its parity.
LEMMA OddFlip ==
  ASSUME NEW c \in Nat
  PROVE  Odd(c + 1) <=> ~Odd(c)
  BY DEF Odd

\* SPEND_BUDGET gives an integer.
LEMMA Budget ==
  ASSUME NEW b \in Int
  PROVE  SpendBudget(b) \in Int
  BY DEF SpendBudget

\* TypeOK is what the invariant says first.
LEMMA ShapeTyped == Shape => TypeOK
  BY DEF Shape, Types, Parity, ModeShape, TypeOK

\* The shape of the lock holds at the start.
LEMMA ShapeInit == Init => Shape
  BY Ranges, ConstantsAssumption DEF ConstantsAssumption, Init, NoTransactions, Unseen,
     NoSnapshot, Labels, Odd, Shape, Types, Parity, IndexInBounds, ModeShape, TxShape,
     LockShape, HoldsLock, ReadersOut, GlobalSection, Reads

\* A failed attempt (what USE_HTM and USE_ROT do after an abort).
LEMMA FailShape ==
  ASSUME Shape, NEW t \in Threads, NEW b \in Int, Fail(t, b),
         htm[t] # "off" \/ pc[t] = "w_begin"
  PROVE  Shape'
<1>1. mode[t] \in {0, 1}
  BY DEF Shape, Types, ModeShape, TxShape
<1>2. pc'[t] = IF b > 0 THEN IF mode[t] = 0 THEN "w_spin" ELSE "w_rot"
               ELSE IF mode[t] = 0 THEN "w_cas" ELSE "w_global"
  BY <1>1 DEF Fail, NextMode, Retry, Shape, Types
<1>3. mode'[t] = IF b > 0 THEN mode[t] ELSE mode[t] + 1
  BY <1>1 DEF Fail, NextMode, Shape, Types
<1>4. /\ \A u \in Threads : u # t =>
           pc'[u] = pc[u] /\ mode'[u] = mode[u] /\ tries'[u] = tries[u] /\ idx'[u] = idx[u]
      /\ idx'[t] = 1 /\ htm'[t] = "off"
      /\ \A u \in Threads : u # t => htm'[u] = htm[u] /\ watch'[u] = watch[u]
  BY DEF Fail, TxEnd, Shape, Types
<1>5. Types'
  BY <1>1, <1>2, <1>3, Ranges, ConstantsAssumption DEF ConstantsAssumption, Fail, NextMode,
     Retry, TxEnd, Forget, Unseen, NoSnapshot, Labels, Shape, Types
<1>6. Parity'
  BY <1>2, <1>4 DEF Fail, Shape, Parity, Types, ModeShape, TxShape
<1>7. IndexInBounds'
  BY <1>2, <1>4 DEF Shape, IndexInBounds
<1>8. ModeShape'
  BY <1>1, <1>2, <1>3, <1>4 DEF Fail, Shape, ModeShape, Types
<1>9. TxShape'
  BY <1>2, <1>4 DEF Fail, Shape, TxShape, Types
<1>10. LockShape'
  BY <1>1, <1>2, <1>3, <1>4 DEF Fail, Shape, LockShape, HoldsLock, ModeShape, TxShape, Types
<1>11. ReadersOut'
  BY <1>2, <1>4 DEF Shape, ReadersOut, GlobalSection, Reads
<1> QED
  BY <1>5, <1>6, <1>7, <1>8, <1>9, <1>10, <1>11 DEF Shape

\* Every step keeps the shape.
LEMMA ShapeStep == Shape /\ [Next]_vars => Shape'
<1> SUFFICES ASSUME Shape, [Next]_vars PROVE Shape'
  OBVIOUS
<1>0. CASE UNCHANGED vars
  BY <1>0 DEF vars, Shape, Types, Parity, IndexInBounds, ModeShape, TxShape, LockShape,
     HoldsLock, ReadersOut, GlobalSection, Reads
<1>1. ASSUME NEW t \in Threads, NEW o \in {"read", "write"}, Start(t, o)
      PROVE  Shape'
  <2>a. pc[t] = "idle" /\ mode[t] = 0
    BY <1>1 DEF Start, ModeShape, Shape
  <2>b. htm[t] = "off"
    BY <2>a DEF TxShape, Shape
  <2>c. calls' \in 0..MaxCalls
    BY <1>1, ConstantsAssumption DEF Start, ConstantsAssumption, Types, Shape
  <2>0. \/ pc'[t] = "r_spin" /\ mode'[t] = 0 /\ tries'[t] = tries[t]
        \/ pc'[t] = "w_spin" /\ mode'[t] = 0 /\ tries'[t] \in Int /\ tries'[t] > 0
        \/ pc'[t] = "w_cas" /\ mode'[t] = 1 /\ tries'[t] \in Int
    <3>1. CASE o = "read"
      BY <1>1, <2>a, <3>1 DEF Start, Types, Shape
    <3>2. CASE o = "write" /\ HtmTries > 0
      BY <1>1, <3>2, ConstantsAssumption DEF Start, ConstantsAssumption, Types, Shape
    <3>3. CASE o = "write" /\ ~(HtmTries > 0)
      BY <1>1, <3>3, ConstantsAssumption DEF Start, ConstantsAssumption, Types, Shape
    <3> QED
      BY <3>1, <3>2, <3>3
  <2>e. /\ \A u \in Threads : u # t =>
             pc'[u] = pc[u] /\ mode'[u] = mode[u] /\ tries'[u] = tries[u]
        /\ writer_lock' = writer_lock /\ idx' = idx
    BY <1>1 DEF Start, Types, Shape
  <2>1. Types'
    <3>1. pc'[t] \in Labels /\ mode'[t] \in 0..2 /\ tries'[t] \in Int
      BY <2>0, <1>1 DEF Labels, Start, Types, Shape
    <3>2. pc' \in [Threads -> Labels]
      BY <3>1, <1>1 DEF Start, Types, Shape
    <3>3. mode' \in [Threads -> 0..2] /\ tries' \in [Threads -> Int]
      BY <3>1, <1>1 DEF Start, Types, Shape
    <3> QED
      BY <1>1, <2>c, <3>2, <3>3 DEF Start, Types, Shape
  <2>2. Parity'
    BY <1>1, <2>a, <2>b, <2>0, <2>e DEF Start, Parity, Types, Shape
  <2>3. IndexInBounds'
    BY <1>1, <2>a, <2>b, <2>0, <2>e DEF Start, IndexInBounds, Types, Shape
  <2>4. ModeShape'
    BY <1>1, <2>a, <2>b, <2>0, <2>e DEF Start, ModeShape, TxShape, Types, Shape
  <2>5. TxShape'
    BY <1>1, <2>a, <2>b, <2>0, <2>e DEF Start, TxShape, Types, Shape
  <2>6. LockShape'
    BY <2>0, <2>e DEF LockShape, HoldsLock, Shape
  <2>7. ReadersOut'
    BY <2>0, <2>e DEF ReadersOut, GlobalSection, Reads, Shape
  <2> QED
    BY <2>1, <2>2, <2>3, <2>4, <2>5, <2>6, <2>7 DEF Shape
<1>2. ASSUME NEW t \in Threads, RSpin(t) PROVE Shape'
  <2>1. Types'
    BY <1>2, Ranges DEF RSpin, Types, Labels, Shape
  <2>2. Parity'
    BY <1>2, Ranges, OddFlip DEF RSpin, Parity, Types, Shape
  <2>3. IndexInBounds'
    BY <1>2, Ranges DEF RSpin, IndexInBounds, Types, Shape
  <2>4. ModeShape'
    BY <1>2, Ranges DEF RSpin, ModeShape, Types, Shape
  <2>5. TxShape'
    BY <1>2, Ranges DEF RSpin, TxShape, Types, Lock, Live, Shape
  <2>6. LockShape'
    BY <1>2, Ranges DEF RSpin, LockShape, HoldsLock, ModeShape, TxShape, Types, Lock,
        Shape
  <2>7. ReadersOut'
    BY <1>2, Ranges DEF RSpin, ReadersOut, Reads, GlobalSection, LockShape, HoldsLock,
        ModeShape, Types, Shape
  <2> QED
    BY <2>1, <2>2, <2>3, <2>4, <2>5, <2>6, <2>7 DEF Shape
<1>3. ASSUME NEW t \in Threads, REnter(t) PROVE Shape'
  <2>1. Types'
    BY <1>3, Ranges DEF REnter, Flip, Types, Labels, Shape
  <2>2. Parity'
    BY <1>3, Ranges, OddFlip DEF REnter, Flip, Parity, Types, Shape
  <2>3. IndexInBounds'
    BY <1>3, Ranges DEF REnter, Flip, IndexInBounds, Types, Shape
  <2>4. ModeShape'
    BY <1>3, Ranges DEF REnter, Flip, ModeShape, Types, Shape
  <2>5. TxShape'
    BY <1>3, Ranges DEF REnter, Flip, TxShape, Types, Lock, Live, Shape
  <2>6. LockShape'
    BY <1>3, Ranges DEF REnter, Flip, LockShape, HoldsLock, ModeShape, TxShape, Types,
        Lock, Shape
  <2>7. ReadersOut'
    BY <1>3, Ranges DEF REnter, Flip, ReadersOut, Reads, GlobalSection, LockShape,
        HoldsLock, ModeShape, Types, Shape
  <2> QED
    BY <2>1, <2>2, <2>3, <2>4, <2>5, <2>6, <2>7 DEF Shape
<1>4. ASSUME NEW t \in Threads, RCheck(t) PROVE Shape'
  <2>1. Types'
    BY <1>4, Ranges DEF RCheck, Types, Labels, Shape
  <2>2. Parity'
    BY <1>4, Ranges, OddFlip DEF RCheck, Parity, Types, Shape
  <2>3. IndexInBounds'
    BY <1>4, Ranges DEF RCheck, IndexInBounds, Types, Shape
  <2>4. ModeShape'
    BY <1>4, Ranges DEF RCheck, ModeShape, Types, Shape
  <2>5. TxShape'
    BY <1>4, Ranges DEF RCheck, TxShape, Types, Lock, Live, Shape
  <2>6. LockShape'
    BY <1>4, Ranges DEF RCheck, LockShape, HoldsLock, ModeShape, TxShape, Types, Lock,
        Shape
  <2>7. ReadersOut'
    BY <1>4, Ranges DEF RCheck, ReadersOut, Reads, GlobalSection, LockShape,
        HoldsLock, ModeShape, Types, Shape
  <2> QED
    BY <2>1, <2>2, <2>3, <2>4, <2>5, <2>6, <2>7 DEF Shape
<1>5. ASSUME NEW t \in Threads, RRetreat(t) PROVE Shape'
  <2>1. Types'
    BY <1>5, Ranges DEF RRetreat, Flip, Types, Labels, Shape
  <2>2. Parity'
    BY <1>5, Ranges, OddFlip DEF RRetreat, Flip, Parity, Types, Shape
  <2>3. IndexInBounds'
    BY <1>5, Ranges DEF RRetreat, Flip, IndexInBounds, Types, Shape
  <2>4. ModeShape'
    BY <1>5, Ranges DEF RRetreat, Flip, ModeShape, Types, Shape
  <2>5. TxShape'
    BY <1>5, Ranges DEF RRetreat, Flip, TxShape, Types, Lock, Live, Shape
  <2>6. LockShape'
    BY <1>5, Ranges DEF RRetreat, Flip, LockShape, HoldsLock, ModeShape, TxShape,
        Types, Lock, Shape
  <2>7. ReadersOut'
    BY <1>5, Ranges DEF RRetreat, Flip, ReadersOut, Reads, GlobalSection, LockShape,
        HoldsLock, ModeShape, Types, Shape
  <2> QED
    BY <2>1, <2>2, <2>3, <2>4, <2>5, <2>6, <2>7 DEF Shape
<1>6. ASSUME NEW t \in Threads, RRead(t) PROVE Shape'
  <2>0. idx[t] \in Data
    BY <1>6 DEF RRead, Shape, IndexInBounds
  <2>1. Types'
    <3>1. pc' \in [Threads -> Labels] /\ idx' \in [Threads -> Nat]
      BY <1>6, <2>0, Ranges DEF RRead, Load, DoomByRead, EndRound, Types, Labels,
          Shape
    <3>2. seen' \in [Threads -> [Data -> Nat]]
      BY <1>6, <2>0, Ranges DEF RRead, Load, DoomByRead, EndRound, Types, Labels,
          Shape
    <3>3. rset' \in [Threads -> SUBSET Data]
      BY <1>6, <2>0, Ranges DEF RRead, Load, DoomByRead, EndRound, Types, Labels,
          Shape
    <3>4. htm' \in [Threads -> {"off", "on", "doomed"}]
      BY <1>6, <2>0, Ranges DEF RRead, Load, DoomByRead, EndRound, Types, Labels,
          Shape
    <3> QED
      BY <1>6, <3>1, <3>2, <3>3, <3>4 DEF RRead, Load, DoomByRead, EndRound, Types,
          Shape
  <2>2. Parity'
    BY <1>6, Ranges, OddFlip DEF RRead, Load, DoomByRead, EndRound, Parity, Types,
        Shape
  <2>3. IndexInBounds'
    BY <1>6, Ranges DEF RRead, Load, DoomByRead, EndRound, IndexInBounds, Types, Shape
  <2>4. ModeShape'
    BY <1>6, Ranges DEF RRead, Load, DoomByRead, EndRound, ModeShape, Types, Shape
  <2>5. TxShape'
    BY <1>6, Ranges DEF RRead, Load, DoomByRead, EndRound, TxShape, Types, Lock, Live,
        Shape
  <2>6. LockShape'
    BY <1>6, Ranges DEF RRead, Load, DoomByRead, EndRound, LockShape, HoldsLock,
        ModeShape, TxShape, Types, Lock, Shape
  <2>7. ReadersOut'
    BY <1>6, Ranges DEF RRead, Load, DoomByRead, EndRound, ReadersOut, Reads,
        GlobalSection, LockShape, HoldsLock, ModeShape, Types, Shape
  <2> QED
    BY <2>1, <2>2, <2>3, <2>4, <2>5, <2>6, <2>7 DEF Shape
<1>7. ASSUME NEW t \in Threads, RLeave(t) PROVE Shape'
  <2>1. Types'
    BY <1>7, Ranges DEF RLeave, Forget, Unseen, NoSnapshot, Types, Labels, Shape
  <2>2. Parity'
    BY <1>7, Ranges, OddFlip DEF RLeave, Forget, Parity, Types, Shape
  <2>3. IndexInBounds'
    BY <1>7, Ranges DEF RLeave, Forget, IndexInBounds, Types, Shape
  <2>4. ModeShape'
    BY <1>7, Ranges DEF RLeave, Forget, ModeShape, Types, Shape
  <2>5. TxShape'
    BY <1>7, Ranges DEF RLeave, Forget, TxShape, Types, Lock, Live, Shape
  <2>6. LockShape'
    BY <1>7, Ranges DEF RLeave, Forget, LockShape, HoldsLock, ModeShape, TxShape,
        Types, Lock, Shape
  <2>7. ReadersOut'
    BY <1>7, Ranges DEF RLeave, Forget, ReadersOut, Reads, GlobalSection, LockShape,
        HoldsLock, ModeShape, Types, Shape
  <2> QED
    BY <2>1, <2>2, <2>3, <2>4, <2>5, <2>6, <2>7 DEF Shape
<1>8. ASSUME NEW t \in Threads, WSpin(t) PROVE Shape'
  <2>1. Types'
    BY <1>8, Ranges DEF WSpin, Types, Labels, Shape
  <2>2. Parity'
    BY <1>8, Ranges, OddFlip DEF WSpin, Parity, Types, Shape
  <2>3. IndexInBounds'
    BY <1>8, Ranges DEF WSpin, IndexInBounds, Types, Shape
  <2>4. ModeShape'
    BY <1>8, Ranges DEF WSpin, ModeShape, Types, Shape
  <2>5. TxShape'
    BY <1>8, Ranges DEF WSpin, TxShape, Types, Lock, Live, Shape
  <2>6. LockShape'
    BY <1>8, Ranges DEF WSpin, LockShape, HoldsLock, ModeShape, TxShape, Types, Lock,
        Shape
  <2>7. ReadersOut'
    BY <1>8, Ranges DEF WSpin, ReadersOut, Reads, GlobalSection, LockShape, HoldsLock,
        ModeShape, Types, Shape
  <2> QED
    BY <2>1, <2>2, <2>3, <2>4, <2>5, <2>6, <2>7 DEF Shape
<1>9. ASSUME NEW t \in Threads, WBegin(t) PROVE Shape'
  <2>1. Types'
    BY <1>9, Ranges DEF WBegin, Begin, Subscribed, Types, Labels, Shape
  <2>2. Parity'
    BY <1>9, Ranges, OddFlip DEF WBegin, Begin, Subscribed, Parity, Types, Shape
  <2>3. IndexInBounds'
    BY <1>9, Ranges DEF WBegin, Begin, Subscribed, IndexInBounds, Types, Shape
  <2>4. ModeShape'
    BY <1>9, Ranges DEF WBegin, Begin, Subscribed, ModeShape, Types, Shape
  <2>5. TxShape'
    BY <1>9, Ranges DEF WBegin, Begin, Subscribed, ModeShape, TxShape, Types, Lock,
        Live, Shape
  <2>6. LockShape'
    BY <1>9, Ranges DEF WBegin, Begin, Subscribed, LockShape, HoldsLock, ModeShape,
        TxShape, Types, Lock, Shape
  <2>7. ReadersOut'
    BY <1>9, Ranges DEF WBegin, Begin, Subscribed, ReadersOut, Reads, GlobalSection,
        LockShape, HoldsLock, ModeShape, Types, Shape
  <2> QED
    BY <2>1, <2>2, <2>3, <2>4, <2>5, <2>6, <2>7 DEF Shape
<1>10. ASSUME NEW t \in Threads, WBeginLocked(t) PROVE Shape'
  <2>1. pc[t] = "w_begin" /\ Fail(t, tries[t] - 1)
    BY <1>10 DEF WBeginLocked
  <2>2. tries[t] - 1 \in Int
    BY DEF Shape, Types
  <2>. QED
    BY <2>1, <2>2, FailShape
<1>11. ASSUME NEW t \in Threads, WCas(t) PROVE Shape'
  <2>0. /\ pc[t] = "w_cas" /\ \E l \in {"w_rot", "w_global"} : pc' = [pc EXCEPT ![t] = l]
        /\ mode' = mode \/ mode' = [mode EXCEPT ![t] = 2]
        /\ idx' = idx /\ pc \in [Threads -> Labels] /\ mode \in [Threads -> 0..2]
    BY <1>11 DEF WCas, Shape, Types
  <2>1. Types'
    <3>1. pc' \in [Threads -> Labels] /\ mode' \in [Threads -> 0..2]
      BY <2>0 DEF Labels
    <3>2. htm' \in [Threads -> {"off", "on", "doomed"}] /\ writer_lock' \in 0..2
      BY <1>11 DEF WCas, DoomByLockWord, Types, Shape
    <3>. QED
      BY <1>11, <3>1, <3>2 DEF WCas, Types, Shape
  <2>2. Parity'
    <3>1. reader_locks' = reader_locks
      BY <1>11 DEF WCas
    <3>. QED
      BY <2>0, <3>1 DEF Parity, Shape
  <2>3. IndexInBounds'
    BY <1>11, Ranges DEF WCas, DoomByLockWord, IndexInBounds, Types, Shape
  <2>4. ModeShape'
    BY <1>11, Ranges DEF WCas, DoomByLockWord, ModeShape, Types, Shape
  <2>5. TxShape'
    BY <1>11, Ranges DEF WCas, DoomByLockWord, TxShape, Types, Lock, Live, Shape
  <2>6. LockShape'
    BY <1>11, Ranges DEF WCas, DoomByLockWord, LockShape, HoldsLock, ModeShape,
        TxShape, Types, Lock, Shape
  <2>7. ReadersOut'
    <3>1. /\ \A u \in Threads : Reads(u)' => Reads(u)
          /\ \A w \in Threads : GlobalSection(w)' => GlobalSection(w)
          /\ \A w \in Threads : pc'[w] = "w_quiesce" => pc[w] = "w_quiesce"
      BY <2>0 DEF Reads, GlobalSection
    <3>. QED
      BY <2>0, <3>1 DEF ReadersOut, Shape
  <2> QED
    BY <2>1, <2>2, <2>3, <2>4, <2>5, <2>6, <2>7 DEF Shape
<1>12. ASSUME NEW t \in Threads, WBeginRot(t) PROVE Shape'
  <2>1. Types'
    BY <1>12, Ranges DEF WBeginRot, Begin, Types, Labels, Shape
  <2>2. Parity'
    BY <1>12, Ranges, OddFlip DEF WBeginRot, Begin, Parity, Types, Shape
  <2>3. IndexInBounds'
    BY <1>12, Ranges DEF WBeginRot, Begin, IndexInBounds, Types, Shape
  <2>4. ModeShape'
    BY <1>12, Ranges DEF WBeginRot, Begin, ModeShape, Types, Shape
  <2>5. TxShape'
    BY <1>12, Ranges DEF WBeginRot, Begin, ModeShape, TxShape, Types, Lock, Live,
        Shape
  <2>6. LockShape'
    BY <1>12, Ranges DEF WBeginRot, Begin, LockShape, HoldsLock, ModeShape, TxShape,
        Types, Lock, Shape
  <2>7. ReadersOut'
    BY <1>12, Ranges DEF WBeginRot, Begin, ReadersOut, Reads, GlobalSection,
        LockShape, HoldsLock, ModeShape, Types, Shape
  <2> QED
    BY <2>1, <2>2, <2>3, <2>4, <2>5, <2>6, <2>7 DEF Shape
<1>13. ASSUME NEW t \in Threads, WGlobal(t) PROVE Shape'
  <2>1. Types'
    BY <1>13, Ranges DEF WGlobal, SetLock, DoomByLockWord, Types, Labels, Shape
  <2>2. Parity'
    BY <1>13, Ranges, OddFlip DEF WGlobal, SetLock, DoomByLockWord, Parity, Types,
        Shape
  <2>3. IndexInBounds'
    BY <1>13, Ranges DEF WGlobal, SetLock, DoomByLockWord, IndexInBounds, Types, Shape
  <2>4. ModeShape'
    BY <1>13, Ranges DEF WGlobal, SetLock, DoomByLockWord, ModeShape, Types, Shape
  <2>5. TxShape'
    BY <1>13, Ranges DEF WGlobal, SetLock, DoomByLockWord, TxShape, Types, Lock, Live,
        Shape
  <2>6. LockShape'
    BY <1>13, Ranges DEF WGlobal, SetLock, DoomByLockWord, LockShape, HoldsLock,
        ModeShape, TxShape, Types, Lock, Shape
  <2>7. ReadersOut'
    <3>1. pc'[t] = "w_quiesce" /\ idx'[t] = 1
      BY <1>13 DEF WGlobal, SetLock, IndexInBounds, Types, Shape
    <3>2. \A u \in Threads : u # t => pc'[u] = pc[u] /\ mode'[u] = mode[u] /\ idx'[u] = idx[u]
      BY <1>13 DEF WGlobal, SetLock, Types, Shape
    <3>3. \A u \in Threads : ~(u < 1)
      BY Ranges
    <3> QED
      BY <3>1, <3>2, <3>3, <1>13 DEF WGlobal, ReadersOut, GlobalSection, Reads, Shape
  <2> QED
    BY <2>1, <2>2, <2>3, <2>4, <2>5, <2>6, <2>7 DEF Shape
<1>14. ASSUME NEW t \in Threads, WRead(t) PROVE Shape'
  <2>0. idx[t] \in Data
    BY <1>14 DEF WRead, Shape, IndexInBounds
  <2>1. Types'
    <3>1. pc' \in [Threads -> Labels] /\ idx' \in [Threads -> Nat]
      BY <1>14, <2>0, Ranges DEF WRead, Load, DoomByRead, Types, Labels, Shape
    <3>2. seen' \in [Threads -> [Data -> Nat]]
      BY <1>14, <2>0, Ranges DEF WRead, Load, DoomByRead, Types, Labels, Shape
    <3>3. rset' \in [Threads -> SUBSET Data]
      BY <1>14, <2>0, Ranges DEF WRead, Load, DoomByRead, Types, Labels, Shape
    <3>4. htm' \in [Threads -> {"off", "on", "doomed"}]
      BY <1>14, <2>0, Ranges DEF WRead, Load, DoomByRead, Types, Labels, Shape
    <3> QED
      BY <1>14, <3>1, <3>2, <3>3, <3>4 DEF WRead, Load, DoomByRead, Types, Shape
  <2>2. Parity'
    BY <1>14, Ranges, OddFlip DEF WRead, Load, DoomByRead, Parity, Types, Shape
  <2>3. IndexInBounds'
    BY <1>14, Ranges DEF WRead, Load, DoomByRead, IndexInBounds, Types, Shape
  <2>4. ModeShape'
    BY <1>14, Ranges DEF WRead, Load, DoomByRead, ModeShape, Types, Shape
  <2>5. TxShape'
    BY <1>14, Ranges DEF WRead, Load, DoomByRead, TxShape, Types, Lock, Live, Shape
  <2>6. LockShape'
    BY <1>14, Ranges DEF WRead, Load, DoomByRead, LockShape, HoldsLock, ModeShape,
        TxShape, Types, Lock, Shape
  <2>7. ReadersOut'
    BY <1>14, Ranges DEF WRead, Load, DoomByRead, ReadersOut, Reads, GlobalSection,
        LockShape, HoldsLock, ModeShape, Types, Shape
  <2> QED
    BY <2>1, <2>2, <2>3, <2>4, <2>5, <2>6, <2>7 DEF Shape
<1>15. ASSUME NEW t \in Threads, WWrite(t) PROVE Shape'
  <2>0. idx[t] \in Data
    BY <1>15 DEF WWrite, Shape, IndexInBounds
  <2>1. Types'
    <3>1. pc' \in [Threads -> Labels] /\ idx' \in [Threads -> Nat]
      BY <1>15, <2>0, Ranges DEF WWrite, Store, DoomByWrite, EndRound, WriteRelease,
          Types, Labels, Shape
    <3>2. mem' \in [Data -> Nat]
      BY <1>15, <2>0, Ranges DEF WWrite, Store, DoomByWrite, EndRound, WriteRelease,
          Types, Labels, Shape
    <3>3. wset' \in [Threads -> SUBSET Data]
      BY <1>15, <2>0, Ranges DEF WWrite, Store, DoomByWrite, EndRound, WriteRelease,
          Types, Labels, Shape
    <3>4. htm' \in [Threads -> {"off", "on", "doomed"}]
      BY <1>15, <2>0, Ranges DEF WWrite, Store, DoomByWrite, EndRound, WriteRelease,
          Types, Labels, Shape
    <3> QED
      BY <1>15, <3>1, <3>2, <3>3, <3>4 DEF WWrite, Store, DoomByWrite, EndRound,
          WriteRelease, Types, Shape
  <2>2. Parity'
    BY <1>15, Ranges, OddFlip DEF WWrite, Store, DoomByWrite, EndRound, WriteRelease,
        Parity, Types, Shape
  <2>3. IndexInBounds'
    BY <1>15, Ranges DEF WWrite, Store, DoomByWrite, EndRound, WriteRelease,
        IndexInBounds, Types, Shape
  <2>4. ModeShape'
    BY <1>15, Ranges DEF WWrite, Store, DoomByWrite, EndRound, WriteRelease,
        ModeShape, Types, Shape
  <2>5. TxShape'
    BY <1>15, Ranges DEF WWrite, Store, DoomByWrite, EndRound, WriteRelease, TxShape,
        Types, Lock, Live, Shape
  <2>6. LockShape'
    BY <1>15, Ranges DEF WWrite, Store, DoomByWrite, EndRound, WriteRelease,
        LockShape, HoldsLock, ModeShape, TxShape, Types, Lock, Shape
  <2>7. ReadersOut'
    BY <1>15, Ranges DEF WWrite, Store, DoomByWrite, EndRound, WriteRelease,
        ReadersOut, Reads, GlobalSection, LockShape, HoldsLock, ModeShape, Types,
        Shape
  <2> QED
    BY <2>1, <2>2, <2>3, <2>4, <2>5, <2>6, <2>7 DEF Shape
<1>16. ASSUME NEW t \in Threads, WQuiesce(t) PROVE Shape'
  <2>1. Types'
    BY <1>16, Ranges DEF WQuiesce, Waiting, Quiet, EndRound, Types, Labels, Shape
  <2>2. Parity'
    BY <1>16, Ranges, OddFlip DEF WQuiesce, Waiting, Quiet, EndRound, Parity, Types,
        Shape
  <2>3. IndexInBounds'
    BY <1>16, Ranges DEF WQuiesce, Waiting, Quiet, EndRound, IndexInBounds, Types,
        Shape
  <2>4. ModeShape'
    BY <1>16, Ranges DEF WQuiesce, Waiting, Quiet, EndRound, ModeShape, Types, Shape
  <2>5. TxShape'
    BY <1>16, Ranges DEF WQuiesce, Waiting, Quiet, EndRound, ModeShape, TxShape,
        Types, Lock, Live, Shape
  <2>6. LockShape'
    BY <1>16, Ranges DEF WQuiesce, Waiting, Quiet, EndRound, LockShape, HoldsLock,
        ModeShape, TxShape, Types, Lock, Shape
  <2>7. ReadersOut'
    BY <1>16, Ranges DEF WQuiesce, Waiting, Quiet, EndRound, Parity, IndexInBounds,
        ReadersOut, Reads, GlobalSection, LockShape, HoldsLock, ModeShape, Types,
        Shape
  <2> QED
    BY <2>1, <2>2, <2>3, <2>4, <2>5, <2>6, <2>7 DEF Shape
<1>17. ASSUME NEW t \in Threads, WSnap(t) PROVE Shape'
  <2>0. idx[t] \in Threads
    BY <1>17 DEF WSnap, Shape, IndexInBounds
  <2>1. Types'
    <3>1. pc' \in [Threads -> Labels] /\ idx' \in [Threads -> Nat]
      BY <1>17, <2>0, Ranges DEF WSnap, EndRound, Types, Labels, Shape
    <3>2. snapshot' \in [Threads -> [Threads -> Nat]]
      BY <1>17, <2>0, Ranges DEF WSnap, EndRound, Types, Labels, Shape
    <3> QED
      BY <1>17, <3>1, <3>2 DEF WSnap, EndRound, Types, Shape
  <2>2. Parity'
    BY <1>17, Ranges, OddFlip DEF WSnap, EndRound, Parity, Types, Shape
  <2>3. IndexInBounds'
    BY <1>17, Ranges DEF WSnap, EndRound, IndexInBounds, Types, Shape
  <2>4. ModeShape'
    BY <1>17, Ranges DEF WSnap, EndRound, ModeShape, Types, Shape
  <2>5. TxShape'
    BY <1>17, Ranges DEF WSnap, EndRound, TxShape, Types, Lock, Live, Shape
  <2>6. LockShape'
    BY <1>17, Ranges DEF WSnap, EndRound, LockShape, HoldsLock, ModeShape, TxShape,
        Types, Lock, Shape
  <2>7. ReadersOut'
    BY <1>17, Ranges DEF WSnap, EndRound, ReadersOut, Reads, GlobalSection, LockShape,
        HoldsLock, ModeShape, Types, Shape
  <2> QED
    BY <2>1, <2>2, <2>3, <2>4, <2>5, <2>6, <2>7 DEF Shape
<1>18. ASSUME NEW t \in Threads, WDrain(t) PROVE Shape'
  <2>1. Types'
    BY <1>18, Ranges DEF WDrain, Waiting, Moved, EndRound, Types, Labels, Shape
  <2>2. Parity'
    BY <1>18, Ranges, OddFlip DEF WDrain, Waiting, Moved, EndRound, Parity, Types,
        Shape
  <2>3. IndexInBounds'
    BY <1>18, Ranges DEF WDrain, Waiting, Moved, EndRound, IndexInBounds, Types, Shape
  <2>4. ModeShape'
    BY <1>18, Ranges DEF WDrain, Waiting, Moved, EndRound, ModeShape, Types, Shape
  <2>5. TxShape'
    BY <1>18, Ranges DEF WDrain, Waiting, Moved, EndRound, TxShape, Types, Lock, Live,
        Shape
  <2>6. LockShape'
    BY <1>18, Ranges DEF WDrain, Waiting, Moved, EndRound, LockShape, HoldsLock,
        ModeShape, TxShape, Types, Lock, Shape
  <2>7. ReadersOut'
    BY <1>18, Ranges DEF WDrain, Waiting, Moved, EndRound, ReadersOut, Reads,
        GlobalSection, LockShape, HoldsLock, ModeShape, Types, Shape
  <2> QED
    BY <2>1, <2>2, <2>3, <2>4, <2>5, <2>6, <2>7 DEF Shape
<1>19. ASSUME NEW t \in Threads, WEnd(t) PROVE Shape'
  <2>1. Types'
    BY <1>19, Ranges DEF WEnd, TxEnd, Types, Labels, Shape
  <2>2. Parity'
    BY <1>19, Ranges, OddFlip DEF WEnd, TxEnd, Parity, Types, Shape
  <2>3. IndexInBounds'
    BY <1>19, Ranges DEF WEnd, TxEnd, IndexInBounds, Types, Shape
  <2>4. ModeShape'
    BY <1>19, Ranges DEF WEnd, TxEnd, ModeShape, Types, Shape
  <2>5. TxShape'
    BY <1>19, Ranges DEF WEnd, TxEnd, TxShape, Types, Lock, Live, Shape
  <2>6. LockShape'
    BY <1>19, Ranges DEF WEnd, TxEnd, LockShape, HoldsLock, ModeShape, TxShape, Types,
        Lock, Shape
  <2>7. ReadersOut'
    BY <1>19, Ranges DEF WEnd, TxEnd, ReadersOut, Reads, GlobalSection, LockShape,
        HoldsLock, ModeShape, Types, Shape
  <2> QED
    BY <2>1, <2>2, <2>3, <2>4, <2>5, <2>6, <2>7 DEF Shape
<1>20. ASSUME NEW t \in Threads, WUnlock(t) PROVE Shape'
  <2>1. Types'
    BY <1>20, Ranges DEF WUnlock, SetLock, DoomByLockWord, Types, Labels, Shape
  <2>2. Parity'
    BY <1>20, Ranges, OddFlip DEF WUnlock, SetLock, DoomByLockWord, Parity, Types,
        Shape
  <2>3. IndexInBounds'
    BY <1>20, Ranges DEF WUnlock, SetLock, DoomByLockWord, IndexInBounds, Types, Shape
  <2>4. ModeShape'
    BY <1>20, Ranges DEF WUnlock, SetLock, DoomByLockWord, ModeShape, Types, Shape
  <2>5. TxShape'
    BY <1>20, Ranges DEF WUnlock, SetLock, DoomByLockWord, TxShape, Types, Lock, Live,
        Shape
  <2>6. LockShape'
    BY <1>20, Ranges DEF WUnlock, SetLock, DoomByLockWord, LockShape, HoldsLock,
        ModeShape, TxShape, Types, Lock, Shape
  <2>7. ReadersOut'
    BY <1>20, Ranges DEF WUnlock, SetLock, DoomByLockWord, ReadersOut, Reads,
        GlobalSection, LockShape, HoldsLock, ModeShape, Types, Shape
  <2> QED
    BY <2>1, <2>2, <2>3, <2>4, <2>5, <2>6, <2>7 DEF Shape
<1>21. ASSUME NEW t \in Threads, WDone(t) PROVE Shape'
  <2>1. Types'
    BY <1>21, Ranges, ConstantsAssumption DEF WDone, Forget, Unseen, NoSnapshot,
        ConstantsAssumption, Types, Labels, Shape
  <2>2. Parity'
    BY <1>21, Ranges, OddFlip DEF WDone, Forget, Parity, Types, Shape
  <2>3. IndexInBounds'
    BY <1>21, Ranges DEF WDone, Forget, IndexInBounds, Types, Shape
  <2>4. ModeShape'
    BY <1>21, Ranges, ConstantsAssumption DEF WDone, Forget, TxShape, ModeShape,
        Types, Shape
  <2>5. TxShape'
    BY <1>21, Ranges DEF WDone, Forget, TxShape, Types, Lock, Live, Shape
  <2>6. LockShape'
    BY <1>21, Ranges DEF WDone, Forget, LockShape, HoldsLock, ModeShape, TxShape,
        Types, Lock, Shape
  <2>7. ReadersOut'
    BY <1>21, Ranges DEF WDone, Forget, ReadersOut, Reads, GlobalSection, LockShape,
        HoldsLock, ModeShape, Types, Shape
  <2> QED
    BY <2>1, <2>2, <2>3, <2>4, <2>5, <2>6, <2>7 DEF Shape
<1>22. ASSUME NEW t \in Threads, TxAbort(t) PROVE Shape'
  BY <1>22, FailShape, Budget DEF TxAbort, Overflow, Conflict, OtherAbort, CanAbort,
      Shape, ModeShape, TxShape, Types
<1>23. CASE Finished
  BY <1>0, <1>23 DEF Finished
<1> QED
  BY <1>0, <1>1, <1>2, <1>3, <1>4, <1>5, <1>6, <1>7, <1>8, <1>9, <1>10, <1>11, <1>12,
     <1>13, <1>14, <1>15, <1>16, <1>17, <1>18, <1>19, <1>20, <1>21, <1>22, <1>23
     DEF Next, Run

----------------------------------------------------------------------------
(* What the sections read and write. *)

\* No section has read or written at the start.
LEMMA ImageInit == Init => Image
  BY DEF Init, NoTransactions, Image, Footprint, FootprintOf, NoConflict, Waited, Noted,
     Current, Whole, HalfDone, Kept, HasRead, HasWritten, Started, Reads, GlobalSection

\* A reader that has read a word has read the first.
LEMMA FirstRead ==
  ASSUME NEW t \in Threads, NEW d \in Data, IndexInBounds, Reads(t), HasRead(t, d)
  PROVE  Started(t)
  BY Ranges DEF IndexInBounds, Reads, HasRead, Started

\* Beside an open transaction or a reader no section runs under the global lock.
LEMMA NoneGlobal ==
  ASSUME Shape, Image, NEW t \in Threads, htm[t] = "on" \/ Reads(t)
  PROVE  /\ \A w \in Threads : ~GlobalSection(w)
         /\ \A d \in Data : mem[d] = commits
<1>1. \A w \in Threads : ~GlobalSection(w)
  <2> SUFFICES ASSUME NEW w \in Threads, GlobalSection(w) PROVE FALSE
    OBVIOUS
  <2>1. HoldsLock(w) /\ writer_lock = 2
    BY DEF GlobalSection, HoldsLock, LockShape, Shape
  <2>2. CASE Reads(t)
    BY <2>2 DEF ReadersOut, Shape
  <2>3. CASE htm[t] = "on"
    <3>1. mode[t] = 0 => writer_lock = 0
      BY <2>3 DEF TxShape, Shape
    <3>2. mode[t] # 0 => HoldsLock(t)
      BY <2>3 DEF TxShape, ModeShape, HoldsLock, Shape
    <3>3. w = t
      BY <2>1, <3>1, <3>2 DEF LockShape, Shape
    <3> QED
      BY <2>3, <3>3 DEF GlobalSection, TxShape, Shape
  <2> QED
    BY <2>2, <2>3
<1> QED
  BY <1>1 DEF Image, Whole

\* A thread that after its step has touched nothing and changed no data leaves
\* the others as they were, but for those it has doomed.
Untouched(t) ==
  /\ ~GlobalSection(t)
  /\ \/ pc'[t] \in Labels \ {"r_read", "r_leave", "w_read", "w_write", "w_suspended",
                             "w_snap", "w_drain", "w_end", "w_unlock", "w_done"}
        /\ htm'[t] = "off"
     \/ pc'[t] = "r_read" /\ idx'[t] = 1 /\ htm'[t] = "off"
     \/ pc'[t] = "w_read" /\ idx'[t] = 1 /\ mode'[t] # 2
  /\ \A d \in Data : d \notin rset'[t] /\ d \notin wset'[t]
  /\ \A u \in Threads \ {t} :
       /\ pc'[u] = pc[u] /\ mode'[u] = mode[u] /\ idx'[u] = idx[u] /\ seen'[u] = seen[u]
       /\ rset'[u] = rset[u] /\ wset'[u] = wset[u]
       /\ reader_locks'[u] = reader_locks[u] /\ snapshot'[u] = snapshot[u]
       /\ htm'[u] = htm[u] \/ (htm[u] = "on" /\ htm'[u] = "doomed")
  /\ mem' = mem /\ commits' = commits

\* A step that touches neither the words nor what was read keeps the images.
LEMMA UntouchedImage ==
  ASSUME Image, NEW t \in Threads, Untouched(t)
  PROVE  Image'
<1> USE DEF Image
<1>0. \A d \in Data : ~(d < 1) /\ d \in Int
  BY Ranges
<1>1. \A d \in Data : ~HasWritten(t, d)' /\ ~(Reads(t)' /\ HasRead(t, d)')
                   /\ ~(htm'[t] = "on" /\ HasRead(t, d)')
  BY <1>0 DEF Untouched, HasRead, HasWritten, Reads
<1>2. /\ ~Started(t)' /\ ~GlobalSection(t)'
      /\ \A u \in Threads \ {t} :
           /\ Started(u)' <=> Started(u)
           /\ GlobalSection(u)' <=> GlobalSection(u)
           /\ Reads(u)' <=> Reads(u)
           /\ \A d \in Data : HasRead(u, d)' <=> HasRead(u, d)
           /\ \A d \in Data : HasWritten(u, d)' <=> HasWritten(u, d)
  BY <1>1, Ranges DEF Untouched, HasRead, HasWritten, Reads, Started, GlobalSection
<1>3. Footprint'
  BY <1>1, <1>2 DEF Untouched, Footprint, FootprintOf
<1>4. NoConflict'
  BY DEF Untouched, NoConflict
<1>5. Waited'
  BY <1>2 DEF Untouched, Waited
<1>6. Noted'
  BY <1>2 DEF Untouched, Noted
<1>7. Current'
  BY <1>1, <1>2 DEF Untouched, Current
<1>8. Whole'
  BY <1>2 DEF Untouched, Whole
<1>9. HalfDone'
  BY <1>2 DEF Untouched, HalfDone
<1>10. Kept'
  BY DEF Untouched, Kept
<1> QED
  BY <1>3, <1>4, <1>5, <1>6, <1>7, <1>8, <1>9, <1>10

\* A failed attempt has touched nothing.
LEMMA FailUntouched ==
  ASSUME Shape, NEW t \in Threads, NEW b \in Int, Fail(t, b),
         htm[t] # "off" \/ pc[t] = "w_begin"
  PROVE  Untouched(t)
<1>1. mode[t] \in {0, 1} /\ ~GlobalSection(t)
  BY DEF Shape, Types, ModeShape, TxShape, GlobalSection
<1>2. pc'[t] \in {"w_spin", "w_rot", "w_cas", "w_global"}
  BY <1>1 DEF Fail, NextMode, Retry, Shape, Types
<1>3. pc'[t] \in Labels \ {"r_read", "r_leave", "w_read", "w_write", "w_suspended",
                           "w_snap", "w_drain", "w_end", "w_unlock", "w_done"}
  BY <1>2 DEF Labels
<1> QED
  BY <1>1, <1>3 DEF Fail, TxEnd, Forget, Shape, Types, Untouched

\* The steps before a section, and those of a reader that leaves.
LEMMA UntouchedStep ==
  ASSUME Shape, Image, NEW t \in Threads,
         \/ \E o \in {"read", "write"} : Start(t, o)
         \/ RSpin(t) \/ REnter(t) \/ RCheck(t) \/ RRetreat(t) \/ RLeave(t)
         \/ WSpin(t) \/ WBegin(t) \/ WBeginLocked(t) \/ WCas(t) \/ WBeginRot(t)
         \/ WGlobal(t) \/ WDone(t) \/ TxAbort(t)
  PROVE  Untouched(t)
<1>0. htm[t] = "off" => \A d \in Data : d \notin rset[t] /\ d \notin wset[t]
  BY DEF Image, Footprint, FootprintOf
<1>1. ASSUME NEW o \in {"read", "write"}, Start(t, o) PROVE Untouched(t)
  <2>1. htm[t] = "off" /\ ~GlobalSection(t)
    BY <1>1 DEF Start, GlobalSection, TxShape, ModeShape, Shape, Types
  <2> QED
    BY <1>1, <1>0, <2>1 DEF Start, Untouched, Labels, IndexInBounds, ModeShape, Shape,
        Types
<1>2. CASE RSpin(t)
  <2>1. htm[t] = "off" /\ ~GlobalSection(t)
    BY <1>2 DEF RSpin, GlobalSection, TxShape, ModeShape, Shape, Types
  <2> QED
    BY <1>2, <1>0, <2>1 DEF RSpin, Untouched, Labels, IndexInBounds, ModeShape, Shape,
        Types
<1>3. CASE REnter(t)
  <2>1. htm[t] = "off" /\ ~GlobalSection(t)
    BY <1>3 DEF REnter, GlobalSection, TxShape, ModeShape, Shape, Types
  <2> QED
    BY <1>3, <1>0, <2>1 DEF REnter, Flip, Untouched, Labels, IndexInBounds, ModeShape,
        Shape, Types
<1>4. CASE RCheck(t)
  <2>1. htm[t] = "off" /\ ~GlobalSection(t)
    BY <1>4 DEF RCheck, GlobalSection, TxShape, ModeShape, Shape, Types
  <2> QED
    BY <1>4, <1>0, <2>1 DEF RCheck, Untouched, Labels, IndexInBounds, ModeShape,
        Shape, Types
<1>5. CASE RRetreat(t)
  <2>1. htm[t] = "off" /\ ~GlobalSection(t)
    BY <1>5 DEF RRetreat, GlobalSection, TxShape, ModeShape, Shape, Types
  <2> QED
    BY <1>5, <1>0, <2>1 DEF RRetreat, Flip, Untouched, Labels, IndexInBounds,
        ModeShape, Shape, Types
<1>6. CASE RLeave(t)
  <2>1. htm[t] = "off" /\ ~GlobalSection(t)
    BY <1>6 DEF RLeave, GlobalSection, TxShape, ModeShape, Shape, Types
  <2> QED
    BY <1>6, <1>0, <2>1 DEF RLeave, Forget, Untouched, Labels, IndexInBounds,
        ModeShape, Shape, Types
<1>7. CASE WSpin(t)
  <2>1. htm[t] = "off" /\ ~GlobalSection(t)
    BY <1>7 DEF WSpin, GlobalSection, TxShape, ModeShape, Shape, Types
  <2> QED
    BY <1>7, <1>0, <2>1 DEF WSpin, Untouched, Labels, IndexInBounds, ModeShape, Shape,
        Types
<1>8. CASE WBegin(t)
  <2>1. htm[t] = "off" /\ mode[t] # 2 /\ idx[t] = 1
    BY <1>8 DEF WBegin, TxShape, ModeShape, IndexInBounds, Shape
  <2>2. pc'[t] = "w_read" /\ idx'[t] = 1 /\ mode'[t] # 2 /\ ~GlobalSection(t)
    BY <1>8, <2>1 DEF WBegin, Begin, Subscribed, GlobalSection, Shape, Types
  <2>3. \A d \in Data : d \notin rset'[t] /\ d \notin wset'[t]
    BY <1>8, <1>0, <2>1 DEF WBegin, Begin, Subscribed
  <2> QED
    BY <1>8, <2>2, <2>3 DEF WBegin, Begin, Subscribed, Untouched, Shape, Types
<1>9. CASE WBeginLocked(t)
  BY <1>9, FailUntouched DEF WBeginLocked, Shape, Types, ModeShape
<1>10. CASE WCas(t)
  <2>1. htm[t] = "off" /\ ~GlobalSection(t)
    BY <1>10 DEF WCas, GlobalSection, TxShape, ModeShape, Shape, Types
  <2> QED
    BY <1>10, <1>0, <2>1 DEF WCas, DoomByLockWord, Untouched, Labels, IndexInBounds,
        ModeShape, Shape, Types
<1>11. CASE WBeginRot(t)
  <2>1. htm[t] = "off" /\ mode[t] # 2 /\ idx[t] = 1
    BY <1>11 DEF WBeginRot, TxShape, ModeShape, IndexInBounds, Shape
  <2>2. pc'[t] = "w_read" /\ idx'[t] = 1 /\ mode'[t] # 2 /\ ~GlobalSection(t)
    BY <1>11, <2>1 DEF WBeginRot, Begin, GlobalSection, Shape, Types
  <2>3. \A d \in Data : d \notin rset'[t] /\ d \notin wset'[t]
    BY <1>11, <1>0, <2>1 DEF WBeginRot, Begin
  <2> QED
    BY <1>11, <2>2, <2>3 DEF WBeginRot, Begin, Untouched, Shape, Types
<1>12. CASE WGlobal(t)
  <2>1. htm[t] = "off" /\ ~GlobalSection(t)
    BY <1>12 DEF WGlobal, GlobalSection, TxShape, ModeShape, Shape, Types
  <2> QED
    BY <1>12, <1>0, <2>1 DEF WGlobal, SetLock, DoomByLockWord, Untouched, Labels,
        IndexInBounds, ModeShape, Shape, Types
<1>13. CASE WDone(t)
  <2>1. htm[t] = "off" /\ ~GlobalSection(t)
    BY <1>13 DEF WDone, GlobalSection, TxShape, ModeShape, Shape, Types
  <2> QED
    BY <1>13, <1>0, <2>1 DEF WDone, Forget, Untouched, Labels, IndexInBounds,
        ModeShape, Shape, Types
<1>14. CASE TxAbort(t)
  BY <1>14, FailUntouched, Budget DEF TxAbort, Overflow, Conflict, OtherAbort,
      CanAbort, Shape, Types, ModeShape
<1> QED
  BY <1>1, <1>2, <1>3, <1>4, <1>5, <1>6, <1>7, <1>8, <1>9, <1>10, <1>11, <1>12, <1>13,
      <1>14

\* What a hardware or rollback-only transaction has written is seen to conflict.
LEMMA WroteAll ==
  ASSUME Shape, Image, NEW t \in Threads, htm[t] = "on",
         pc[t] \in {"w_suspended", "w_snap", "w_drain", "w_end"}
  PROVE  wset[t] = Data
  BY DEF Image, Footprint, FootprintOf, HasWritten, Shape, Types

\* A load of a word (x = mem[i] in the section).
LEMMA LoadImage ==
  ASSUME Shape, Image, NEW t \in Threads, idx[t] \in Data, Load(t),
         \A u \in Threads \ {t} : pc'[u] = pc[u] /\ idx'[u] = idx[u],
         \/ pc[t] = "w_read" /\ pc'[t] = "w_write" /\ idx'[t] = idx[t]
         \/ /\ pc[t] = "r_read"
            /\ \/ pc'[t] = "r_read" /\ idx'[t] = idx[t] + 1
               \/ pc'[t] = "r_leave" /\ idx[t] = NData
  PROVE  Image'
<1> USE DEF Image
<1>1. /\ \A d \in Data : HasRead(t, d)' <=> (HasRead(t, d) \/ d = idx[t])
      /\ \A d \in Data : HasWritten(t, d)' <=> HasWritten(t, d)
      /\ ~HasWritten(t, idx[t])
      /\ GlobalSection(t)' <=> GlobalSection(t)
      /\ Reads(t)' <=> Reads(t)
  BY Ranges DEF Load, HasRead, HasWritten, GlobalSection, Reads
<1>2. /\ mode' = mode /\ mem' = mem /\ commits' = commits /\ wset' = wset
      /\ snapshot' = snapshot /\ reader_locks' = reader_locks /\ htm'[t] = htm[t]
      /\ \A u \in Threads \ {t} :
           /\ seen'[u] = seen[u] /\ rset'[u] = rset[u]
           /\ htm'[u] = IF htm[u] = "on" /\ idx[t] \in wset[u] THEN "doomed" ELSE htm[u]
           /\ Started(u)' <=> Started(u)
           /\ GlobalSection(u)' <=> GlobalSection(u)
           /\ Reads(u)' <=> Reads(u)
           /\ \A d \in Data : HasRead(u, d)' <=> HasRead(u, d)
           /\ \A d \in Data : HasWritten(u, d)' <=> HasWritten(u, d)
  BY DEF Load, DoomByRead, Started, GlobalSection, Reads, HasRead, HasWritten, Shape, Types
<1>3. /\ seen'[t][idx[t]] = mem[idx[t]]
      /\ \A d \in Data : d # idx[t] => seen'[t][d] = seen[t][d]
      /\ rset'[t] = IF htm[t] = "on" /\ mode[t] = 0 THEN rset[t] \union {idx[t]} ELSE rset[t]
  BY DEF Load, Shape, Types
<1>4. ~(htm'[t] = "on" /\ pc'[t] \in {"w_suspended", "w_snap", "w_drain", "w_end"})
  OBVIOUS
<1>5. \A w \in Threads \ {t} :
        htm'[w] = "on" => ~(pc'[w] \in {"w_suspended", "w_snap", "w_drain", "w_end"})
  BY <1>2, WroteAll
<1>6. Footprint'
  BY <1>1, <1>2, <1>3 DEF Footprint, FootprintOf
<1>7. NoConflict'
  BY <1>2, <1>3 DEF NoConflict
<1>8. Waited' /\ Noted'
  BY <1>4, <1>5 DEF Waited, Noted
<1>9. Current'
  BY <1>1, <1>2, <1>3 DEF Current
<1>10. Whole'
  BY <1>1, <1>2 DEF Whole
<1>11. HalfDone'
  BY <1>1, <1>2, <1>3 DEF HalfDone
<1>12. Kept'
  BY <1>2 DEF Kept
<1> QED
  BY <1>6, <1>7, <1>8, <1>9, <1>10, <1>11, <1>12

\* A store of a word (mem[i]++ in the section): into the transaction, or, under
\* the global lock, into memory.
LEMMA StoreImage ==
  ASSUME Shape, Image, NEW t \in Threads, WWrite(t)
  PROVE  Image'
<1> USE DEF Image
<1>i. idx[t] \in Data /\ pc[t] = "w_write"
  BY DEF WWrite, IndexInBounds, Shape
<1>p. \/ pc'[t] = "w_read" /\ idx'[t] = idx[t] + 1 /\ idx[t] # NData
      \/ /\ idx[t] = NData /\ idx'[t] = 1
         /\ \/ mode[t] = 0 /\ pc'[t] = "w_suspended"
            \/ mode[t] = 1 /\ pc'[t] = "w_snap"
            \/ mode[t] = 2 /\ pc'[t] = "w_unlock"
  BY DEF WWrite, EndRound, WriteRelease, Shape, Types
<1>1. /\ \A d \in Data : HasRead(t, d)' <=> HasRead(t, d)
      /\ \A d \in Data : HasWritten(t, d)' <=> (HasWritten(t, d) \/ d = idx[t])
      /\ HasRead(t, idx[t])
      /\ GlobalSection(t) <=> mode[t] = 2
      /\ GlobalSection(t)' <=> mode'[t] = 2
      /\ ~Reads(t)' /\ ~Reads(t)
  BY <1>i, <1>p, Ranges DEF HasRead, HasWritten, GlobalSection, Reads, WWrite, Store
<1>2. /\ mode' = mode /\ commits' = commits /\ seen' = seen /\ rset' = rset
      /\ snapshot' = snapshot /\ reader_locks' = reader_locks /\ htm'[t] = htm[t]
      /\ \A u \in Threads \ {t} :
           /\ wset'[u] = wset[u] /\ pc'[u] = pc[u] /\ idx'[u] = idx[u]
           /\ htm'[u] = IF htm[u] = "on" /\ (idx[t] \in rset[u] \/ idx[t] \in wset[u])
                        THEN "doomed" ELSE htm[u]
           /\ Started(u)' <=> Started(u)
           /\ GlobalSection(u)' <=> GlobalSection(u)
           /\ Reads(u)' <=> Reads(u)
           /\ \A d \in Data : HasRead(u, d)' <=> HasRead(u, d)
           /\ \A d \in Data : HasWritten(u, d)' <=> HasWritten(u, d)
  BY DEF WWrite, EndRound, Store, DoomByWrite, Started, GlobalSection, Reads, HasRead,
     HasWritten, Shape, Types
<1>3. wset'[t] = IF htm[t] = "on" THEN wset[t] \union {idx[t]} ELSE wset[t]
  BY DEF WWrite, Store, Shape, Types
<1>4. /\ mode[t] = 2 => htm[t] = "off"
      /\ mode[t] # 2 => htm[t] = "on"
  BY <1>i DEF WWrite, Store, Live, TxShape, Shape, Types
<1>5. htm[t] = "on" => mem' = mem
  BY DEF WWrite, Store
<1>6. htm[t] = "off" =>
        /\ mem'[idx[t]] = seen[t][idx[t]] + 1
        /\ \A d \in Data : d # idx[t] => mem'[d] = mem[d]
  BY <1>i DEF WWrite, Store, Shape, Types
<1>7. Footprint'
  BY <1>1, <1>2, <1>3 DEF Footprint, FootprintOf
<1>8. NoConflict'
  BY <1>2, <1>3 DEF NoConflict
<1>9. ~Started(t)' /\ \A u \in Threads : ~(u < 1)
  BY <1>1, Ranges DEF Started
<1>10. Waited'
  BY <1>2, <1>9, <1>p DEF Waited
<1>11. Noted'
  BY <1>2, <1>9, <1>p DEF Noted
<1>12. Current'
  <2>1. CASE htm[t] = "on"
    BY <2>1, <1>1, <1>2, <1>5 DEF Current
  <2>2. CASE htm[t] # "on"
    <3>1. GlobalSection(t)
      BY <2>2, <1>1, <1>4
    <3>2. \A u \in Threads : htm[u] # "on" /\ ~Reads(u)
      BY <3>1, NoneGlobal
    <3> QED
      BY <3>2, <1>1, <1>2 DEF Current
  <2> QED
    BY <2>1, <2>2
<1>13. Whole'
  <2>1. CASE htm[t] = "on"
    BY <2>1, <1>1, <1>2, <1>5 DEF Whole
  <2>2. CASE htm[t] # "on"
    BY <2>2, <1>1, <1>2, <1>4 DEF Whole
  <2> QED
    BY <2>1, <2>2
<1>14. HalfDone'
  <2>1. CASE htm[t] = "on"
    BY <2>1, <1>1, <1>2, <1>4, <1>5 DEF HalfDone
  <2>2. CASE htm[t] # "on"
    <3>1. GlobalSection(t) /\ htm[t] = "off"
      BY <2>2, <1>1, <1>4
    <3>2. \A u \in Threads : GlobalSection(u) => u = t
      BY <3>1 DEF GlobalSection, HoldsLock, LockShape, Shape
    <3>3. seen[t][idx[t]] = commits
      BY <3>1, <1>i, <1>1 DEF HalfDone
    <3> QED
      BY <3>1, <3>2, <3>3, <1>1, <1>2, <1>6 DEF HalfDone
  <2> QED
    BY <2>1, <2>2
<1>15. Kept'
  BY <1>2, <1>4, <1>p DEF Kept
<1> QED
  BY <1>7, <1>8, <1>10, <1>11, <1>12, <1>13, <1>14, <1>15

\* QUIESCENCE_CALL_GL, suspended or under the global lock.
LEMMA QuiesceImage ==
  ASSUME Shape, Image, NEW t \in Threads, WQuiesce(t)
  PROVE  Image'
<1> USE DEF Image
<1>1. idx[t] \in Threads /\ idx[t] \in Nat /\ ~Reads(idx[t])
  BY DEF WQuiesce, Quiet, IndexInBounds, Parity, Reads, Shape, Types
<1>2. \/ pc'[t] = pc[t] /\ idx[t] # N /\ idx'[t] = idx[t] + 1
      \/ pc[t] = "w_suspended" /\ pc'[t] = "w_end" /\ idx[t] = N /\ idx'[t] = 1
      \/ pc[t] = "w_quiesce" /\ pc'[t] = "w_read" /\ idx[t] = N /\ idx'[t] = 1
  BY DEF WQuiesce, Waiting, EndRound, Shape, Types
<1>3. /\ \A u \in Threads \ {t} : pc'[u] = pc[u] /\ idx'[u] = idx[u]
      /\ UNCHANGED <<mode, snapshot, seen, reader_locks, mem, txvars, commits>>
  BY DEF WQuiesce, Waiting, EndRound, Shape, Types
<1>4. \A u \in Threads \ {t} :
        /\ Started(u)' <=> Started(u)
        /\ GlobalSection(u)' <=> GlobalSection(u)
        /\ Reads(u)' <=> Reads(u)
        /\ \A d \in Data : HasRead(u, d)' <=> HasRead(u, d)
        /\ \A d \in Data : HasWritten(u, d)' <=> HasWritten(u, d)
  BY <1>3 DEF Started, GlobalSection, Reads, HasRead, HasWritten
<1>5. /\ pc[t] \in {"w_suspended", "w_quiesce"}
      /\ pc[t] = "w_suspended" => htm[t] # "off"
      /\ pc[t] = "w_quiesce" => htm[t] = "off" /\ mode[t] = 2
      /\ ~Reads(t)' /\ ~Started(t)' /\ ~GlobalSection(t)
      /\ GlobalSection(t)' => pc'[t] = "w_read" /\ idx'[t] = 1
      /\ pc[t] = "w_suspended" =>
           \A d \in Data : HasRead(t, d) /\ HasRead(t, d)'
                           /\ HasWritten(t, d) /\ HasWritten(t, d)'
      /\ pc[t] = "w_quiesce" => \A d \in Data : ~HasRead(t, d)' /\ ~HasWritten(t, d)'
  BY <1>2, Ranges DEF WQuiesce, Reads, Started, GlobalSection, HasRead, HasWritten, TxShape,
     ModeShape, Shape
<1>6. Footprint'
  BY <1>3, <1>4, <1>5 DEF Footprint, FootprintOf
<1>7. NoConflict'
  BY <1>3 DEF NoConflict
<1>8. Waited'
  <2>1. ASSUME NEW u \in Threads, htm[t] = "on", Started(u)',
               pc'[t] = "w_end" \/ (pc'[t] = "w_suspended" /\ u < idx'[t])
        PROVE  FALSE
    <3>1. u # t /\ Started(u)
      BY <2>1, <1>4, <1>5
    <3>2. u = idx[t] \/ u < idx[t]
      BY <2>1, <1>1, <1>2, <1>5, Ranges
    <3> QED
      BY <2>1, <3>1, <3>2, <1>1, <1>2, <1>5 DEF Waited, Started
  <2> QED
    BY <2>1, <1>2, <1>3, <1>4, <1>5 DEF Waited
<1>9. Noted'
  BY <1>2, <1>3, <1>4, <1>5 DEF Noted
<1>10. Current'
  BY <1>3, <1>4, <1>5 DEF Current
<1>11. Whole'
  BY <1>3, <1>4, <1>5 DEF Whole
<1>12. HalfDone'
  <2>1. ASSUME GlobalSection(t)' PROVE \A d \in Data : mem[d] = commits
    <3>1. HoldsLock(t) /\ pc[t] = "w_quiesce"
      BY <2>1, <1>2, <1>5 DEF HoldsLock
    <3>2. \A w \in Threads : ~GlobalSection(w)
      BY <3>1, <1>5 DEF GlobalSection, HoldsLock, LockShape, Shape
    <3> QED
      BY <3>2 DEF Whole
  <2> QED
    BY <2>1, <1>2, <1>3, <1>4, <1>5 DEF HalfDone
<1>13. Kept'
  BY <1>2, <1>3 DEF Kept
<1> QED
  BY <1>6, <1>7, <1>8, <1>9, <1>10, <1>11, <1>12, <1>13

\* QUIESCENCE_CALL of a rollback-only transaction: its snapshot, and its wait.
LEMMA DrainImage ==
  ASSUME Shape, Image, NEW t \in Threads, WSnap(t) \/ WDrain(t)
  PROVE  Image'
<1> USE DEF Image
<1>1. idx[t] \in Threads /\ idx[t] \in Nat /\ htm[t] = "on" /\ mode[t] = 1
  BY DEF WSnap, WDrain, Live, IndexInBounds, TxShape, ModeShape, Shape, Types
<1>2. \/ pc'[t] = pc[t] /\ idx[t] # N /\ idx'[t] = idx[t] + 1
      \/ pc[t] = "w_snap" /\ pc'[t] = "w_drain" /\ idx[t] = N /\ idx'[t] = 1
      \/ pc[t] = "w_drain" /\ pc'[t] = "w_end" /\ idx[t] = N /\ idx'[t] = 1
  BY DEF WSnap, WDrain, Waiting, EndRound, Shape, Types
<1>3. /\ \A u \in Threads \ {t} :
           pc'[u] = pc[u] /\ idx'[u] = idx[u] /\ snapshot'[u] = snapshot[u]
      /\ UNCHANGED <<mode, seen, reader_locks, mem, txvars, commits>>
  BY DEF WSnap, WDrain, Waiting, EndRound, Shape, Types
<1>4. \A u \in Threads \ {t} :
        /\ Started(u)' <=> Started(u)
        /\ GlobalSection(u)' <=> GlobalSection(u)
        /\ Reads(u)' <=> Reads(u)
        /\ \A d \in Data : HasRead(u, d)' <=> HasRead(u, d)
        /\ \A d \in Data : HasWritten(u, d)' <=> HasWritten(u, d)
  BY <1>3 DEF Started, GlobalSection, Reads, HasRead, HasWritten
<1>5. /\ pc[t] \in {"w_snap", "w_drain"}
      /\ ~Reads(t)' /\ ~Started(t)' /\ ~GlobalSection(t) /\ ~GlobalSection(t)'
      /\ \A d \in Data : HasRead(t, d) /\ HasRead(t, d)'
                         /\ HasWritten(t, d) /\ HasWritten(t, d)'
  BY <1>2 DEF WSnap, WDrain, Reads, Started, GlobalSection, HasRead, HasWritten
<1>6. Footprint'
  BY <1>3, <1>4, <1>5 DEF Footprint, FootprintOf
<1>7. NoConflict'
  BY <1>3 DEF NoConflict
<1>8. \A u \in Threads : Started(u) => Odd(reader_locks[u]) /\ reader_locks[u] # 0
  <2>1. \A u \in Threads : Started(u) => Odd(reader_locks[u])
    BY DEF Started, Reads, Parity, Shape
  <2>2. ~Odd(0)
    BY DEF Odd
  <2> QED
    BY <2>1, <2>2
<1>9. Noted'
  <2>1. ASSUME NEW u \in Threads, Started(u)',
               pc'[t] = "w_drain" \/ (pc'[t] = "w_snap" /\ u < idx'[t])
        PROVE  snapshot'[t][u] = reader_locks[u]
    <3>1. u # t /\ Started(u)
      BY <2>1, <1>4, <1>5
    <3>2. CASE pc[t] = "w_snap"
      <4>1. snapshot'[t][idx[t]] = IF Odd(reader_locks[idx[t]]) THEN reader_locks[idx[t]] ELSE 0
        BY <3>2, <1>1 DEF WSnap, WDrain, Shape, Types
      <4>2. \A v \in Threads : v # idx[t] => snapshot'[t][v] = snapshot[t][v]
        BY <3>2, <1>1 DEF WSnap, WDrain, Shape, Types
      <4>3. u = idx[t] \/ u < idx[t]
        BY <2>1, <3>2, <1>1, <1>2, Ranges
      <4> QED
        BY <3>1, <3>2, <4>1, <4>2, <4>3, <1>1, <1>8 DEF Noted
    <3>3. CASE pc[t] = "w_drain"
      <4>1. snapshot' = snapshot
        BY <3>3 DEF WSnap, WDrain, Waiting
      <4> QED
        BY <3>1, <3>3, <4>1, <1>1 DEF Noted
    <3> QED
      BY <1>5, <3>2, <3>3
  <2> QED
    BY <2>1, <1>2, <1>3, <1>4, <1>5 DEF Noted
<1>10. Waited'
  <2>1. ASSUME NEW u \in Threads, Started(u)',
               pc'[t] = "w_end" \/ (pc'[t] = "w_drain" /\ u < idx'[t])
        PROVE  FALSE
    <3>1. u # t /\ Started(u)
      BY <2>1, <1>4, <1>5
    <3>2. pc[t] = "w_drain"
      BY <2>1, <1>2, <1>5, Ranges
    <3>3. u = idx[t] \/ u < idx[t]
      BY <2>1, <3>2, <1>1, <1>2, Ranges
    <3>4. u # idx[t]
      BY <3>1, <3>2, <1>1, <1>8 DEF WSnap, WDrain, Moved, Noted
    <3> QED
      BY <3>1, <3>2, <3>3, <3>4, <1>1 DEF Waited
  <2> QED
    BY <2>1, <1>2, <1>3, <1>4, <1>5 DEF Waited
<1>11. Current'
  BY <1>3, <1>4, <1>5 DEF Current
<1>12. Whole' /\ HalfDone'
  BY <1>3, <1>4, <1>5 DEF Whole, HalfDone
<1>13. Kept'
  BY <1>2, <1>3 DEF Kept
<1> QED
  BY <1>6, <1>7, <1>9, <1>10, <1>11, <1>12, <1>13

\* What a section that is about to take effect has read (END_HTM, or the release
\* of the global lock): one image, the latest.
LEMMA ReadLatest ==
  ASSUME Shape, Image, NEW t \in Threads,
         (pc[t] = "w_end" /\ htm[t] = "on") \/ (pc[t] = "w_unlock" /\ mode[t] = 2)
  PROVE  \A d \in Data : seen[t][d] = commits
<1>1. \A d \in Data : HasRead(t, d)
  BY DEF HasRead
<1>2. CASE pc[t] = "w_end" /\ htm[t] = "on"
  <2>1. \A d \in Data : seen[t][d] = mem[d]
    BY <1>1, <1>2 DEF Image, Current
  <2> QED
    BY <1>2, <2>1, NoneGlobal
<1>3. CASE pc[t] = "w_unlock" /\ mode[t] = 2
  BY <1>1, <1>3 DEF Image, HalfDone, GlobalSection
<1> QED
  BY <1>2, <1>3

\* The transaction commits (__TM_end).
LEMMA EndImage ==
  ASSUME Shape, Image, NEW t \in Threads, WEnd(t)
  PROVE  Image'
<1>0. pc[t] = "w_end" /\ htm[t] = "on"
  BY DEF WEnd
<1>a. wset[t] = Data
  BY <1>0, WroteAll
<1>b. \A d \in Data : seen[t][d] = commits
  BY <1>0, ReadLatest
<1>1. /\ pc[t] = "w_end" /\ htm[t] = "on" /\ wset[t] = Data
      /\ \A d \in Data : seen[t][d] = commits
  BY <1>0, <1>a, <1>b
<1> USE DEF Image
<1>2. mem' = [d \in Data |-> commits + 1] /\ commits' = commits + 1
  BY <1>1 DEF WEnd
<1>3. /\ \A u \in Threads \ {t} :
           /\ pc'[u] = pc[u] /\ htm'[u] = htm[u]
           /\ rset'[u] = rset[u] /\ wset'[u] = wset[u]
      /\ pc'[t] = (IF mode[t] = 0 THEN "w_done" ELSE "w_unlock") /\ htm'[t] = "off"
      /\ rset'[t] = {} /\ wset'[t] = {}
      /\ UNCHANGED <<mode, idx, seen, reader_locks, snapshot>>
  BY DEF WEnd, TxEnd, Shape, Types
<1>4. \A u \in Threads \ {t} :
        /\ Started(u)' <=> Started(u)
        /\ GlobalSection(u)' <=> GlobalSection(u)
        /\ Reads(u)' <=> Reads(u)
        /\ \A d \in Data : HasRead(u, d)' <=> HasRead(u, d)
        /\ \A d \in Data : HasWritten(u, d)' <=> HasWritten(u, d)
  BY <1>3 DEF Started, GlobalSection, Reads, HasRead, HasWritten
<1>5. ~Reads(t)' /\ ~Started(t)' /\ mode[t] \in {0, 1} /\ ~GlobalSection(t)'
  BY <1>1, <1>3 DEF Reads, Started, GlobalSection, ModeShape, Shape, Types
<1>6. \A u \in Threads : ~GlobalSection(u)
  BY <1>1, NoneGlobal
<1>7. Footprint'
  BY <1>3, <1>4 DEF Footprint, FootprintOf
<1>8. NoConflict'
  BY <1>3 DEF NoConflict
<1>9. Waited' /\ Noted'
  BY <1>3, <1>4, <1>5 DEF Waited, Noted
<1>10. Current'
  <2>1. ASSUME NEW u \in Threads \ {t}, NEW d \in Data, HasRead(u, d), htm[u] = "on"
        PROVE  FALSE
    <3>1. CASE mode[u] = 0
      BY <2>1, <3>1, <1>1 DEF Footprint, FootprintOf, NoConflict
    <3>2. CASE mode[u] # 0
      <4>1. HoldsLock(u) /\ writer_lock # 0
        BY <2>1, <3>2 DEF HoldsLock, TxShape, ModeShape, LockShape, Shape
      <4>2. mode[t] # 0
        BY <4>1, <1>1 DEF TxShape, Shape
      <4> QED
        BY <4>1, <4>2, <1>1 DEF HoldsLock, LockShape, Shape
    <3> QED
      BY <3>1, <3>2
  <2>2. ASSUME NEW u \in Threads \ {t}, NEW d \in Data, HasRead(u, d), Reads(u)
        PROVE  FALSE
    BY <2>2, <1>1, FirstRead DEF Waited, Shape
  <2> QED
    BY <2>1, <2>2, <1>3, <1>4, <1>5 DEF Current
<1>11. Whole'
  BY <1>2 DEF Whole
<1>12. HalfDone'
  BY <1>4, <1>5, <1>6 DEF HalfDone
<1>13. Kept'
  BY <1>1, <1>3 DEF Kept
<1> QED
  BY <1>7, <1>8, <1>9, <1>10, <1>11, <1>12, <1>13

\* RELEASE_WRITE_LOCK clears writer_lock.
LEMMA UnlockImage ==
  ASSUME Shape, Image, NEW t \in Threads, WUnlock(t)
  PROVE  Image'
<1> USE DEF Image
<1>0. pc[t] = "w_unlock" /\ mode[t] \in {1, 2}
  BY DEF WUnlock, ModeShape, Shape, Types
<1>1. pc[t] = "w_unlock" /\ mode[t] \in {1, 2} /\ HoldsLock(t) /\ htm[t] = "off"
  <2>1. HoldsLock(t)
    BY <1>0 DEF HoldsLock
  <2>2. htm[t] = "off"
    BY <1>0 DEF TxShape, Shape
  <2> QED
    BY <1>0, <2>1, <2>2
<1>2. /\ \A u \in Threads \ {t} :
           /\ pc'[u] = pc[u]
           /\ htm'[u] = htm[u] \/ (htm[u] = "on" /\ htm'[u] = "doomed")
      /\ pc'[t] = "w_done" /\ htm'[t] = "off"
      /\ UNCHANGED <<mode, idx, seen, reader_locks, snapshot, mem, rset, wset>>
      /\ commits' = IF mode[t] = 2 THEN commits + 1 ELSE commits
  BY <1>1 DEF WUnlock, SetLock, DoomByLockWord, Shape, Types
<1>3. \A u \in Threads \ {t} :
        /\ Started(u)' <=> Started(u)
        /\ GlobalSection(u)' <=> GlobalSection(u)
        /\ Reads(u)' <=> Reads(u)
        /\ \A d \in Data : HasRead(u, d)' <=> HasRead(u, d)
        /\ \A d \in Data : HasWritten(u, d)' <=> HasWritten(u, d)
  BY <1>2 DEF Started, GlobalSection, Reads, HasRead, HasWritten
<1>4. ~Reads(t)' /\ ~Started(t)' /\ ~GlobalSection(t)'
  BY <1>2 DEF Reads, Started, GlobalSection
<1>5. \A u \in Threads \ {t} : ~GlobalSection(u)
  BY <1>1 DEF GlobalSection, HoldsLock, LockShape, Shape
<1>6. Footprint'
  BY <1>1, <1>2, <1>3 DEF Footprint, FootprintOf
<1>7. NoConflict'
  BY <1>2 DEF NoConflict
<1>8. Waited' /\ Noted'
  BY <1>2, <1>3, <1>4 DEF Waited, Noted
<1>9. Current'
  BY <1>2, <1>3, <1>4 DEF Current
<1>10. \A d \in Data : mem[d] = commits'
  <2>1. CASE mode[t] = 2
    BY <2>1, <1>1, <1>2 DEF HalfDone, HasWritten, GlobalSection
  <2>2. CASE mode[t] = 1
    BY <2>2, <1>2, <1>5 DEF Whole, GlobalSection
  <2> QED
    BY <2>1, <2>2, <1>1
<1>11. Whole' /\ HalfDone'
  BY <1>2, <1>3, <1>4, <1>5, <1>10 DEF Whole, HalfDone
<1>12. Kept'
  BY <1>1, <1>2, ReadLatest DEF Kept
<1> QED
  BY <1>6, <1>7, <1>8, <1>9, <1>11, <1>12

\* Every step keeps the image.
LEMMA ImageStep == Shape /\ Image /\ [Next]_vars => Image'
<1> SUFFICES ASSUME Shape, Image, [Next]_vars PROVE Image'
  OBVIOUS
<1>1. CASE UNCHANGED vars
  BY <1>1 DEF vars, Image, Footprint, FootprintOf, NoConflict, Waited, Noted, Current, Whole,
     HalfDone, Kept, HasRead, HasWritten, Started, Reads, GlobalSection
<1>2. ASSUME NEW t \in Threads, WRead(t) PROVE Image'
  <2>1. idx[t] \in Data
    BY <1>2 DEF WRead, IndexInBounds, Shape
  <2> QED
    BY <1>2, <2>1, LoadImage DEF WRead, Shape, Types
<1>3. ASSUME NEW t \in Threads, RRead(t) PROVE Image'
  <2>1. idx[t] \in Data
    BY <1>3 DEF RRead, IndexInBounds, Shape
  <2>2. \/ pc'[t] = "r_read" /\ idx'[t] = idx[t] + 1
        \/ pc'[t] = "r_leave" /\ idx[t] = NData
    BY <1>3 DEF RRead, EndRound, Shape, Types
  <2> QED
    BY <1>3, <2>1, <2>2, LoadImage DEF RRead, EndRound, Shape, Types
<1>4. ASSUME NEW t \in Threads,
             WWrite(t) \/ WQuiesce(t) \/ WSnap(t) \/ WDrain(t) \/ WEnd(t) \/ WUnlock(t)
      PROVE  Image'
  BY <1>4, StoreImage, QuiesceImage, DrainImage, EndImage, UnlockImage
<1>5. ASSUME NEW t \in Threads,
             \/ \E o \in {"read", "write"} : Start(t, o)
             \/ RSpin(t) \/ REnter(t) \/ RCheck(t) \/ RRetreat(t) \/ RLeave(t)
             \/ WSpin(t) \/ WBegin(t) \/ WBeginLocked(t) \/ WCas(t) \/ WBeginRot(t)
             \/ WGlobal(t) \/ WDone(t) \/ TxAbort(t)
      PROVE  Image'
  BY <1>5, UntouchedStep, UntouchedImage
<1>6. CASE Finished
  BY <1>1, <1>6 DEF Finished
<1> QED
  BY <1>1, <1>2, <1>3, <1>4, <1>5, <1>6 DEF Next, Run

----------------------------------------------------------------------------
(* The theorems. *)

\* The inductive invariant of the lock word, the counters and the transactions.
THEOREM ShapeHolds == Spec => []Shape
<1>1. Init => Shape
  BY ShapeInit
<1>2. Shape /\ [Next]_vars => Shape'
  BY ShapeStep
<1> QED
  BY <1>1, <1>2, PTL DEF Spec

\* TypeOK: the types, no attempt with its tries spent, and counters that are odd
\* exactly inside ACQUIRE_READ_LOCK and RELEASE_READ_LOCK.
THEOREM TypeCorrect == Spec => []TypeOK
  BY ShapeHolds, ShapeTyped, PTL

\* GlobalRunsAlone: no reader and no transaction beside ACQUIRE_GLOBAL_LOCK's section.
THEOREM GlobalExclusion == Spec => []GlobalRunsAlone
<1>1. Shape => GlobalRunsAlone
  <2> SUFFICES ASSUME Shape, NEW w \in Threads, GlobalSection(w), NEW u \in Threads \ {w}
               PROVE  ~Reads(u) /\ ~GlobalSection(u) /\ htm[u] # "on"
    BY DEF GlobalRunsAlone
  <2>1. HoldsLock(w) /\ writer_lock = 2
    BY DEF GlobalSection, HoldsLock, LockShape, Shape
  <2>2. ~HoldsLock(u)
    BY <2>1 DEF LockShape, Shape
  <2>3. htm[u] # "on"
    BY <2>1, <2>2 DEF TxShape, ModeShape, HoldsLock, Shape
  <2> QED
    BY <2>2, <2>3 DEF ReadersOut, GlobalSection, HoldsLock, Shape
<1> QED
  BY <1>1, ShapeHolds, PTL

\* The inductive invariant of the data.
THEOREM ImageHolds == Spec => [](Shape /\ Image)
<1>1. Init => Image
  BY ImageInit
<1>2. Shape /\ Image /\ [Next]_vars => Image'
  BY ImageStep
<1> QED
  BY <1>1, <1>2, ShapeHolds, PTL DEF Spec

\* OneImage: every section, a rollback-only transaction too, whose reads nothing
\* tracks, has read the data as of one moment.
THEOREM SectionsReadOneImage == Spec => []OneImage
<1>1. ASSUME Shape, Image PROVE OneImage
  <2> SUFFICES ASSUME NEW t \in Threads, htm[t] # "doomed", NEW d \in Data, NEW e \in Data,
                      HasRead(t, d), HasRead(t, e)
               PROVE  seen[t][d] = seen[t][e]
    BY DEF OneImage
  <2>1. CASE htm[t] = "on" \/ Reads(t)
    BY <2>1, <1>1, NoneGlobal DEF Image, Current
  <2>2. CASE GlobalSection(t)
    BY <2>2, <1>1 DEF Image, HalfDone
  <2>3. CASE pc[t] = "w_done" \/ (pc[t] = "w_unlock" /\ mode[t] = 1)
    BY <2>3, <1>1 DEF Image, Kept
  <2> QED
    BY <2>1, <2>2, <2>3, <1>1
       DEF HasRead, Reads, GlobalSection, TxShape, ModeShape, Shape, Types
<1> QED
  BY <1>1, ImageHolds, PTL

\* ReadersUndisturbed: no commit and no store of the global section changes the data
\* of a reader that has read a word.
THEOREM ReadersProtected == Spec => ReadersUndisturbed
<1>1. ASSUME Shape, Image, [Next]_vars, NEW r \in Threads, Reads(r), HasRead(r, 1)
      PROVE  mem' = mem
  <2>1. ASSUME NEW t \in Threads, WWrite(t) PROVE mem' = mem
    <3>1. ~GlobalSection(t)
      BY <1>1, NoneGlobal
    <3>2. htm[t] = "on"
      BY <2>1, <3>1, <1>1
         DEF WWrite, Store, Live, GlobalSection, TxShape, Shape, Types
    <3> QED
      BY <2>1, <3>2 DEF WWrite, Store
  <2>2. ASSUME NEW t \in Threads, WEnd(t) PROVE FALSE
    BY <1>1, <2>2 DEF WEnd, Image, Waited, Started
  <2>3. CASE UNCHANGED vars
    BY <2>3 DEF vars
  <2>4. ASSUME NEW t \in Threads, TxAbort(t) \/ WBeginLocked(t) PROVE mem' = mem
    BY <2>4 DEF TxAbort, Overflow, Conflict, OtherAbort, WBeginLocked, Fail
  <2>5. ASSUME NEW t \in Threads,
               \/ \E o \in {"read", "write"} : Start(t, o)
               \/ RSpin(t) \/ REnter(t) \/ RCheck(t) \/ RRetreat(t) \/ RRead(t) \/ RLeave(t)
               \/ WSpin(t) \/ WBegin(t) \/ WCas(t) \/ WBeginRot(t) \/ WGlobal(t)
               \/ WRead(t) \/ WQuiesce(t) \/ WSnap(t) \/ WDrain(t) \/ WUnlock(t) \/ WDone(t)
        PROVE  mem' = mem
    BY <2>5 DEF Start, RSpin, REnter, RCheck, RRetreat, Flip, RRead, Load, RLeave, WSpin,
       WBegin, Begin, WCas, WBeginRot, WGlobal, SetLock, WRead, WQuiesce, Waiting, WSnap,
       WDrain, WUnlock, WDone
  <2> QED
    BY <1>1, <2>1, <2>2, <2>3, <2>4, <2>5 DEF Next, Run, Finished
<1>2. Shape /\ Image /\ [Next]_vars =>
        ((\E t \in Threads : Reads(t) /\ HasRead(t, 1)) => mem' = mem)
  BY <1>1
<1> QED
  BY <1>2, ImageHolds, PTL DEF Spec, ReadersUndisturbed

----------------------------------------------------------------------------
(* The lock implements atomic sections. *)

\* A thread in a section is where a section of its kind can be.
ReadLabels == {"r_spin", "r_enter", "r_check", "r_retreat", "r_read", "r_leave"}
OpShape ==
  \A t \in Threads : pc[t] # "idle" =>
    op[t] = IF pc[t] \in ReadLabels THEN "read" ELSE "write"

\* A section stays the kind it was called as (ro of TM_BEGIN_EXT).
LEMMA OpShapeStep == Shape /\ OpShape /\ [Next]_vars => OpShape'
<1> SUFFICES ASSUME Shape, OpShape, [Next]_vars PROVE OpShape'
  OBVIOUS
<1> USE DEF OpShape, ReadLabels
<1>0. CASE UNCHANGED vars
  BY <1>0 DEF vars
<1>a. ASSUME NEW t \in Threads, NEW b \in Int, Fail(t, b),
             htm[t] # "off" \/ pc[t] = "w_begin"
      PROVE  OpShape'
  <2>1. pc[t] \notin ReadLabels \union {"idle"}
    BY <1>a DEF TxShape, Shape
  <2>2. pc'[t] \in {"w_spin", "w_cas", "w_rot", "w_global"}
    BY <1>a DEF Fail, NextMode, Retry, Shape, Types
  <2> QED
    BY <1>a, <2>1, <2>2 DEF Fail, Shape, Types
<1>1. ASSUME NEW t \in Threads, NEW o \in {"read", "write"}, Start(t, o)
      PROVE  OpShape'
  BY <1>1 DEF Start, Shape, Types
<1>2. ASSUME NEW t \in Threads, RSpin(t) PROVE OpShape'
  BY <1>2 DEF RSpin, Shape, Types
<1>3. ASSUME NEW t \in Threads, REnter(t) PROVE OpShape'
  BY <1>3 DEF REnter, Flip, Shape, Types
<1>4. ASSUME NEW t \in Threads, RCheck(t) PROVE OpShape'
  BY <1>4 DEF RCheck, Shape, Types
<1>5. ASSUME NEW t \in Threads, RRetreat(t) PROVE OpShape'
  BY <1>5 DEF RRetreat, Flip, Shape, Types
<1>6. ASSUME NEW t \in Threads, RRead(t) PROVE OpShape'
  BY <1>6 DEF RRead, Load, EndRound, Shape, Types
<1>7. ASSUME NEW t \in Threads, RLeave(t) PROVE OpShape'
  BY <1>7 DEF RLeave, Shape, Types
<1>8. ASSUME NEW t \in Threads, WSpin(t) PROVE OpShape'
  BY <1>8 DEF WSpin, Shape, Types
<1>9. ASSUME NEW t \in Threads, WBegin(t) PROVE OpShape'
  BY <1>9 DEF WBegin, Begin, Shape, Types
<1>10. ASSUME NEW t \in Threads, WBeginLocked(t) PROVE OpShape'
  BY <1>10, <1>a DEF WBeginLocked, Shape, Types, ModeShape
<1>11. ASSUME NEW t \in Threads, WCas(t) PROVE OpShape'
  BY <1>11 DEF WCas, Shape, Types
<1>12. ASSUME NEW t \in Threads, WBeginRot(t) PROVE OpShape'
  BY <1>12 DEF WBeginRot, Begin, Shape, Types
<1>13. ASSUME NEW t \in Threads, WGlobal(t) PROVE OpShape'
  BY <1>13 DEF WGlobal, SetLock, Shape, Types
<1>14. ASSUME NEW t \in Threads, WRead(t) PROVE OpShape'
  BY <1>14 DEF WRead, Load, Shape, Types
<1>15. ASSUME NEW t \in Threads, WWrite(t) PROVE OpShape'
  BY <1>15 DEF WWrite, Store, EndRound, WriteRelease, Shape, Types
<1>16. ASSUME NEW t \in Threads, WQuiesce(t) PROVE OpShape'
  BY <1>16 DEF WQuiesce, Waiting, EndRound, Shape, Types
<1>17. ASSUME NEW t \in Threads, WSnap(t) PROVE OpShape'
  BY <1>17 DEF WSnap, EndRound, Shape, Types
<1>18. ASSUME NEW t \in Threads, WDrain(t) PROVE OpShape'
  BY <1>18 DEF WDrain, Waiting, EndRound, Shape, Types
<1>19. ASSUME NEW t \in Threads, WEnd(t) PROVE OpShape'
  BY <1>19 DEF WEnd, Shape, Types
<1>20. ASSUME NEW t \in Threads, WUnlock(t) PROVE OpShape'
  BY <1>20 DEF WUnlock, SetLock, Shape, Types
<1>21. ASSUME NEW t \in Threads, WDone(t) PROVE OpShape'
  BY <1>21 DEF WDone, Shape, Types
<1>22. ASSUME NEW t \in Threads, TxAbort(t) PROVE OpShape'
  BY <1>22, <1>a, Budget DEF TxAbort, Overflow, Conflict, OtherAbort, CanAbort, Shape,
      Types, ModeShape
<1>23. CASE Finished
  BY <1>0, <1>23 DEF Finished
<1> QED
  BY <1>0, <1>1, <1>2, <1>3, <1>4, <1>5, <1>6, <1>7, <1>8, <1>9, <1>10, <1>11, <1>12,
     <1>13, <1>14, <1>15, <1>16, <1>17, <1>18, <1>19, <1>20, <1>21, <1>22, <1>23
     DEF Next, Run

\* A step of one thread changes the abstract section of that thread alone.
LEMMA OneSection ==
  ASSUME Shape, NEW t \in Threads,
         \A u \in Threads \ {t} : pc'[u] = pc[u] /\ mode'[u] = mode[u] /\ seen'[u] = seen[u]
  PROVE  /\ phaseBar' = [phaseBar EXCEPT ![t] = Phase(t)']
         /\ gotBar' = [gotBar EXCEPT ![t] = IF Over(t)' THEN seen'[t] ELSE Unseen]
<1>1. \A u \in Threads \ {t} : (Over(u)' <=> Over(u)) /\ Phase(u)' = Phase(u)
  BY DEF Over, Phase
<1>2. phaseBar' = [phaseBar EXCEPT ![t] = Phase(t)']
  BY <1>1 DEF phaseBar
<1>3. gotBar' = [gotBar EXCEPT ![t] = IF Over(t)' THEN seen'[t] ELSE Unseen]
  BY <1>1 DEF gotBar, Unseen
<1> QED
  BY <1>2, <1>3

\* A step inside one phase of a section is a stutter of the abstract one.
LEMMA Stutter ==
  ASSUME Shape, NEW t \in Threads, op' = op, commits' = commits,
         \A u \in Threads \ {t} : pc'[u] = pc[u] /\ mode'[u] = mode[u] /\ seen'[u] = seen[u],
         \/ Phase(t) = "called" /\ Phase(t)' = "called"
         \/ Over(t) /\ Over(t)' /\ seen'[t] = seen[t]
  PROVE  UNCHANGED Atomic!vars
<1>1. Phase(t)' = Phase(t) /\ (Over(t)' <=> Over(t)) /\ (Over(t) => seen'[t] = seen[t])
  BY DEF Phase, Over
<1>2. phaseBar' = phaseBar
  BY <1>1, OneSection DEF phaseBar
<1>3. gotBar' = gotBar
  BY <1>1, OneSection DEF gotBar
<1> QED
  BY <1>2, <1>3 DEF Atomic!vars

\* A section that has read one image, the latest, and is over now takes effect.
LEMMA TakesEffect ==
  ASSUME Shape, OpShape, NEW t \in Threads, op' = op, Phase(t) = "called", Over(t)',
         \A u \in Threads \ {t} : pc'[u] = pc[u] /\ mode'[u] = mode[u] /\ seen'[u] = seen[u],
         seen'[t] \in [Data -> Nat], \A d \in Data : seen'[t][d] = commits,
         commits' = IF op[t] = "write" THEN commits + 1 ELSE commits
  PROVE  Atomic!TakeEffect(t)
<1>1. seen'[t] = [d \in Data |-> commits]
  OBVIOUS
<1>2. Phase(t)' = "done"
  BY DEF Over, Phase
<1>3. phaseBar' = [phaseBar EXCEPT ![t] = "done"] /\ phaseBar[t] = "called"
  BY <1>2, OneSection DEF phaseBar
<1>4. gotBar' = [gotBar EXCEPT ![t] = [d \in Data |-> commits]]
  BY <1>1, OneSection
<1> QED
  BY <1>3, <1>4 DEF Atomic!TakeEffect

\* A section that is over returns.
LEMMA Returns ==
  ASSUME Shape, NEW t \in Threads, op' = op, commits' = commits, Over(t),
         pc[t] # "idle", pc'[t] = "idle",
         \A u \in Threads \ {t} : pc'[u] = pc[u] /\ mode'[u] = mode[u] /\ seen'[u] = seen[u]
  PROVE  Atomic!Return(t)
<1>1. phaseBar' = [phaseBar EXCEPT ![t] = "idle"] /\ phaseBar[t] = "done"
  BY OneSection DEF phaseBar, Phase
<1>2. gotBar' = [gotBar EXCEPT ![t] = Atomic!Nothing]
  BY OneSection DEF Over, Unseen, Atomic!Nothing
<1> QED
  BY <1>1, <1>2 DEF Atomic!Return

\* Every step of the lock is a step of the atomic sections, or a stutter.
LEMMA AtomicStep ==
  Shape /\ Image /\ OpShape /\ [Next]_vars => [Atomic!Next]_(Atomic!vars)
<1> SUFFICES ASSUME Shape, Image, OpShape, [Next]_vars
             PROVE  [Atomic!Next]_(Atomic!vars)
  OBVIOUS
<1>t. Shape' /\ Image'
  BY ShapeStep, ImageStep
<1>0. CASE UNCHANGED vars
  BY <1>0 DEF vars, Atomic!vars, phaseBar, gotBar, Phase, Over
<1>a. ASSUME NEW t \in Threads, NEW b \in Int, Fail(t, b),
             htm[t] # "off" \/ pc[t] = "w_begin"
      PROVE  UNCHANGED Atomic!vars
  <2>1. Phase(t) = "called"
    BY <1>a DEF Phase, Over, TxShape, Shape
  <2>2. pc'[t] \in {"w_spin", "w_cas", "w_rot", "w_global"}
    BY <1>a DEF Fail, NextMode, Retry, Shape, Types
  <2>3. Phase(t)' = "called"
    BY <2>2 DEF Phase, Over
  <2>4. /\ op' = op /\ commits' = commits
        /\ \A u \in Threads \ {t} :
             pc'[u] = pc[u] /\ mode'[u] = mode[u] /\ seen'[u] = seen[u]
    BY <1>a DEF Fail, Forget, Shape, Types
  <2> QED
    BY <2>1, <2>3, <2>4, Stutter
<1>1. ASSUME NEW t \in Threads, NEW o \in {"read", "write"}, Start(t, o)
      PROVE  Atomic!Call(t)
  <2>1. pc'[t] \in {"r_spin", "w_spin", "w_cas"} /\ pc[t] = "idle"
    BY <1>1 DEF Start, Shape, Types
  <2>2. Phase(t)' = "called" /\ ~Over(t)' /\ ~Over(t)
    BY <2>1 DEF Phase, Over
  <2>3. \A u \in Threads \ {t} :
          pc'[u] = pc[u] /\ mode'[u] = mode[u] /\ seen'[u] = seen[u]
    BY <1>1 DEF Start, Shape, Types
  <2>4. phaseBar' = [phaseBar EXCEPT ![t] = "called"] /\ phaseBar[t] = "idle"
    BY <2>1, <2>2, <2>3, OneSection DEF phaseBar, Phase
  <2>5. gotBar' = gotBar
    BY <2>2, <2>3, OneSection DEF gotBar
  <2>6. commits' = commits /\ \E k \in {"read", "write"} : op' = [op EXCEPT ![t] = k]
    BY <1>1 DEF Start
  <2> QED
    BY <2>4, <2>5, <2>6 DEF Atomic!Call
<1>2. ASSUME NEW t \in Threads, RSpin(t) PROVE UNCHANGED Atomic!vars
  <2>1. /\ op' = op /\ commits' = commits
        /\ \A u \in Threads \ {t} :
             pc'[u] = pc[u] /\ mode'[u] = mode[u] /\ seen'[u] = seen[u]
    BY <1>2 DEF RSpin, Shape, Types
  <2>2. Phase(t) = "called" /\ Phase(t)' = "called"
    BY <1>2 DEF RSpin, Phase, Over, Shape, Types
  <2> QED
    BY <2>1, <2>2, Stutter
<1>3. ASSUME NEW t \in Threads, REnter(t) PROVE UNCHANGED Atomic!vars
  <2>1. /\ op' = op /\ commits' = commits
        /\ \A u \in Threads \ {t} :
             pc'[u] = pc[u] /\ mode'[u] = mode[u] /\ seen'[u] = seen[u]
    BY <1>3 DEF REnter, Flip, Shape, Types
  <2>2. Phase(t) = "called" /\ Phase(t)' = "called"
    BY <1>3 DEF REnter, Flip, Phase, Over, Shape, Types
  <2> QED
    BY <2>1, <2>2, Stutter
<1>4. ASSUME NEW t \in Threads, RCheck(t) PROVE UNCHANGED Atomic!vars
  <2>1. /\ op' = op /\ commits' = commits
        /\ \A u \in Threads \ {t} :
             pc'[u] = pc[u] /\ mode'[u] = mode[u] /\ seen'[u] = seen[u]
    BY <1>4 DEF RCheck, Shape, Types
  <2>2. Phase(t) = "called" /\ Phase(t)' = "called"
    BY <1>4 DEF RCheck, Phase, Over, Shape, Types
  <2> QED
    BY <2>1, <2>2, Stutter
<1>5. ASSUME NEW t \in Threads, RRetreat(t) PROVE UNCHANGED Atomic!vars
  <2>1. /\ op' = op /\ commits' = commits
        /\ \A u \in Threads \ {t} :
             pc'[u] = pc[u] /\ mode'[u] = mode[u] /\ seen'[u] = seen[u]
    BY <1>5 DEF RRetreat, Flip, Shape, Types
  <2>2. Phase(t) = "called" /\ Phase(t)' = "called"
    BY <1>5 DEF RRetreat, Flip, Phase, Over, Shape, Types
  <2> QED
    BY <2>1, <2>2, Stutter
<1>6. ASSUME NEW t \in Threads, RRead(t)
      PROVE  Atomic!TakeEffect(t) \/ UNCHANGED Atomic!vars
  <2>1. /\ op' = op /\ commits' = commits
        /\ \A u \in Threads \ {t} :
             pc'[u] = pc[u] /\ mode'[u] = mode[u] /\ seen'[u] = seen[u]
    BY <1>6 DEF RRead, Load, EndRound, Shape, Types
  <2>2. Phase(t) = "called"
    BY <1>6 DEF RRead, Phase, Over
  <2>3. CASE pc'[t] = "r_read"
    BY <2>1, <2>2, <2>3, Stutter DEF Phase, Over
  <2>4. CASE pc'[t] = "r_leave"
    <3>1. \A d \in Data : HasRead(t, d)'
      BY <2>4 DEF HasRead
    <3>2. \A d \in Data : seen'[t][d] = mem'[d]
      BY <2>4, <3>1, <1>t DEF Image, Current, Reads
    <3>3. \A d \in Data : mem[d] = commits
      BY <1>6, NoneGlobal DEF RRead, Reads
    <3>4. mem' = mem
      BY <1>6 DEF RRead, Load
    <3>5. seen'[t] \in [Data -> Nat]
      BY <1>t DEF Shape, Types
    <3>6. Over(t)' /\ op[t] = "read"
      BY <1>6, <2>4 DEF Over, RRead, OpShape, ReadLabels
    <3> QED
      BY <2>1, <2>2, <3>2, <3>3, <3>4, <3>5, <3>6, TakesEffect
  <2>5. pc'[t] \in {"r_read", "r_leave"}
    BY <1>6 DEF RRead, EndRound, Shape, Types
  <2> QED
    BY <2>3, <2>4, <2>5
<1>7. ASSUME NEW t \in Threads, RLeave(t) PROVE Atomic!Return(t)
  <2>1. Over(t) /\ pc[t] # "idle" /\ pc'[t] = "idle"
    BY <1>7 DEF RLeave, Forget, Over, Shape, Types
  <2>2. /\ op' = op /\ commits' = commits
        /\ \A u \in Threads \ {t} :
             pc'[u] = pc[u] /\ mode'[u] = mode[u] /\ seen'[u] = seen[u]
    BY <1>7 DEF RLeave, Forget, Shape, Types
  <2> QED
    BY <2>1, <2>2, Returns
<1>8. ASSUME NEW t \in Threads, WSpin(t) PROVE UNCHANGED Atomic!vars
  <2>1. /\ op' = op /\ commits' = commits
        /\ \A u \in Threads \ {t} :
             pc'[u] = pc[u] /\ mode'[u] = mode[u] /\ seen'[u] = seen[u]
    BY <1>8 DEF WSpin, Shape, Types
  <2>2. Phase(t) = "called" /\ Phase(t)' = "called"
    BY <1>8 DEF WSpin, Phase, Over, Shape, Types
  <2> QED
    BY <2>1, <2>2, Stutter
<1>9. ASSUME NEW t \in Threads, WBegin(t) PROVE UNCHANGED Atomic!vars
  <2>1. /\ op' = op /\ commits' = commits
        /\ \A u \in Threads \ {t} :
             pc'[u] = pc[u] /\ mode'[u] = mode[u] /\ seen'[u] = seen[u]
    BY <1>9 DEF WBegin, Begin, Shape, Types
  <2>2. Phase(t) = "called" /\ Phase(t)' = "called"
    BY <1>9 DEF WBegin, Begin, Phase, Over, Shape, Types
  <2> QED
    BY <2>1, <2>2, Stutter
<1>10. ASSUME NEW t \in Threads, WBeginLocked(t) PROVE UNCHANGED Atomic!vars
  BY <1>10, <1>a DEF WBeginLocked, Shape, Types, ModeShape
<1>11. ASSUME NEW t \in Threads, WCas(t) PROVE UNCHANGED Atomic!vars
  <2>1. /\ op' = op /\ commits' = commits
        /\ \A u \in Threads \ {t} :
             pc'[u] = pc[u] /\ mode'[u] = mode[u] /\ seen'[u] = seen[u]
    BY <1>11 DEF WCas, Shape, Types
  <2>2. Phase(t) = "called" /\ Phase(t)' = "called"
    BY <1>11 DEF WCas, Phase, Over, Shape, Types
  <2> QED
    BY <2>1, <2>2, Stutter
<1>12. ASSUME NEW t \in Threads, WBeginRot(t) PROVE UNCHANGED Atomic!vars
  <2>1. /\ op' = op /\ commits' = commits
        /\ \A u \in Threads \ {t} :
             pc'[u] = pc[u] /\ mode'[u] = mode[u] /\ seen'[u] = seen[u]
    BY <1>12 DEF WBeginRot, Begin, Shape, Types
  <2>2. Phase(t) = "called" /\ Phase(t)' = "called"
    BY <1>12 DEF WBeginRot, Begin, Phase, Over, Shape, Types
  <2> QED
    BY <2>1, <2>2, Stutter
<1>13. ASSUME NEW t \in Threads, WGlobal(t) PROVE UNCHANGED Atomic!vars
  <2>1. /\ op' = op /\ commits' = commits
        /\ \A u \in Threads \ {t} :
             pc'[u] = pc[u] /\ mode'[u] = mode[u] /\ seen'[u] = seen[u]
    BY <1>13 DEF WGlobal, SetLock, Shape, Types
  <2>2. Phase(t) = "called" /\ Phase(t)' = "called"
    BY <1>13 DEF WGlobal, SetLock, Phase, Over, Shape, Types
  <2> QED
    BY <2>1, <2>2, Stutter
<1>14. ASSUME NEW t \in Threads, WRead(t) PROVE UNCHANGED Atomic!vars
  <2>1. /\ op' = op /\ commits' = commits
        /\ \A u \in Threads \ {t} :
             pc'[u] = pc[u] /\ mode'[u] = mode[u] /\ seen'[u] = seen[u]
    BY <1>14 DEF WRead, Load, Shape, Types
  <2>2. Phase(t) = "called" /\ Phase(t)' = "called"
    BY <1>14 DEF WRead, Load, Phase, Over, Shape, Types
  <2> QED
    BY <2>1, <2>2, Stutter
<1>15. ASSUME NEW t \in Threads, WWrite(t) PROVE UNCHANGED Atomic!vars
  <2>1. /\ op' = op /\ commits' = commits
        /\ \A u \in Threads \ {t} :
             pc'[u] = pc[u] /\ mode'[u] = mode[u] /\ seen'[u] = seen[u]
    BY <1>15 DEF WWrite, Store, EndRound, WriteRelease, Shape, Types
  <2>2. Phase(t) = "called" /\ Phase(t)' = "called"
    BY <1>15 DEF WWrite, Store, EndRound, WriteRelease, Phase, Over, Shape, Types
  <2> QED
    BY <2>1, <2>2, Stutter
<1>16. ASSUME NEW t \in Threads, WQuiesce(t) PROVE UNCHANGED Atomic!vars
  <2>1. /\ op' = op /\ commits' = commits
        /\ \A u \in Threads \ {t} :
             pc'[u] = pc[u] /\ mode'[u] = mode[u] /\ seen'[u] = seen[u]
    BY <1>16 DEF WQuiesce, Waiting, EndRound, Shape, Types
  <2>2. Phase(t) = "called" /\ Phase(t)' = "called"
    BY <1>16 DEF WQuiesce, Waiting, EndRound, Phase, Over, Shape, Types
  <2> QED
    BY <2>1, <2>2, Stutter
<1>17. ASSUME NEW t \in Threads, WSnap(t) PROVE UNCHANGED Atomic!vars
  <2>1. /\ op' = op /\ commits' = commits
        /\ \A u \in Threads \ {t} :
             pc'[u] = pc[u] /\ mode'[u] = mode[u] /\ seen'[u] = seen[u]
    BY <1>17 DEF WSnap, EndRound, Shape, Types
  <2>2. Phase(t) = "called" /\ Phase(t)' = "called"
    BY <1>17 DEF WSnap, EndRound, Phase, Over, Shape, Types
  <2> QED
    BY <2>1, <2>2, Stutter
<1>18. ASSUME NEW t \in Threads, WDrain(t) PROVE UNCHANGED Atomic!vars
  <2>1. /\ op' = op /\ commits' = commits
        /\ \A u \in Threads \ {t} :
             pc'[u] = pc[u] /\ mode'[u] = mode[u] /\ seen'[u] = seen[u]
    BY <1>18 DEF WDrain, Waiting, EndRound, Shape, Types
  <2>2. Phase(t) = "called" /\ Phase(t)' = "called"
    BY <1>18 DEF WDrain, Waiting, EndRound, Phase, Over, Shape, Types
  <2> QED
    BY <2>1, <2>2, Stutter
<1>19. ASSUME NEW t \in Threads, WEnd(t)
      PROVE  Atomic!TakeEffect(t)
  <2>1. /\ op' = op /\ seen' = seen
        /\ \A u \in Threads \ {t} :
             pc'[u] = pc[u] /\ mode'[u] = mode[u] /\ seen'[u] = seen[u]
    BY <1>19 DEF WEnd, Shape, Types
  <2>2. Phase(t) = "called" /\ op[t] = "write"
    BY <1>19 DEF WEnd, Phase, Over, OpShape, ReadLabels
  <2>3. pc'[t] = (IF mode[t] = 0 THEN "w_done" ELSE "w_unlock") /\ mode'[t] = mode[t]
        /\ mode[t] \in {0, 1} /\ commits' = commits + 1
    BY <1>19 DEF WEnd, ModeShape, Shape, Types
  <2>4. Over(t)'
    BY <2>3 DEF Over
  <2>5. seen[t] \in [Data -> Nat] /\ \A d \in Data : seen[t][d] = commits
    BY <1>19, ReadLatest DEF WEnd, Shape, Types
  <2> QED
    BY <2>1, <2>2, <2>3, <2>4, <2>5, TakesEffect
<1>20. ASSUME NEW t \in Threads, WUnlock(t)
      PROVE  Atomic!TakeEffect(t) \/ UNCHANGED Atomic!vars
  <2>1. /\ op' = op /\ seen' = seen
        /\ \A u \in Threads \ {t} :
             pc'[u] = pc[u] /\ mode'[u] = mode[u] /\ seen'[u] = seen[u]
    BY <1>20 DEF WUnlock, SetLock, Shape, Types
  <2>2. pc[t] = "w_unlock" /\ pc'[t] = "w_done" /\ Over(t)' /\ mode[t] \in {1, 2}
    BY <1>20 DEF WUnlock, Over, ModeShape, Shape, Types
  <2>3. CASE mode[t] = 1
    <3>1. Over(t) /\ commits' = commits
      BY <1>20, <2>2, <2>3 DEF WUnlock, Over
    <3> QED
      BY <2>1, <2>2, <3>1, Stutter
  <2>4. CASE mode[t] = 2
    <3>1. Phase(t) = "called" /\ op[t] = "write" /\ commits' = commits + 1
      BY <1>20, <2>2, <2>4 DEF WUnlock, Phase, Over, OpShape, ReadLabels
    <3>2. seen[t] \in [Data -> Nat] /\ \A d \in Data : seen[t][d] = commits
      BY <2>2, <2>4, ReadLatest DEF Shape, Types
    <3> QED
      BY <2>1, <2>2, <3>1, <3>2, TakesEffect
  <2> QED
    BY <2>2, <2>3, <2>4
<1>21. ASSUME NEW t \in Threads, WDone(t) PROVE Atomic!Return(t)
  <2>1. Over(t) /\ pc[t] # "idle" /\ pc'[t] = "idle"
    BY <1>21 DEF WDone, Forget, Over, Shape, Types
  <2>2. /\ op' = op /\ commits' = commits
        /\ \A u \in Threads \ {t} :
             pc'[u] = pc[u] /\ mode'[u] = mode[u] /\ seen'[u] = seen[u]
    BY <1>21 DEF WDone, Forget, Shape, Types
  <2> QED
    BY <2>1, <2>2, Returns
<1>22. ASSUME NEW t \in Threads, TxAbort(t) PROVE UNCHANGED Atomic!vars
  BY <1>22, <1>a, Budget DEF TxAbort, Overflow, Conflict, OtherAbort, CanAbort, Shape,
      Types, ModeShape
<1>23. CASE Finished
  BY <1>0, <1>23 DEF Finished
<1> QED
  BY <1>0, <1>1, <1>2, <1>3, <1>4, <1>5, <1>6, <1>7, <1>8, <1>9, <1>10, <1>11, <1>12,
     <1>13, <1>14, <1>15, <1>16, <1>17, <1>18, <1>19, <1>20, <1>21, <1>22, <1>23
     DEF Next, Run, Atomic!Next

\* ImplementsAtomic: every section, in a hardware or rollback-only transaction,
\* under the global lock or under a counter, takes effect at one moment between
\* its call and its return.
THEOREM Refinement == Spec => ImplementsAtomic
<1>1. Init => Atomic!Init
  BY DEF Init, NoTransactions, Atomic!Init, Atomic!Nothing, phaseBar, gotBar, Phase, Over,
     Unseen
<1>2. Init => OpShape
  BY DEF Init, OpShape
<1>3. Shape /\ OpShape /\ [Next]_vars => OpShape'
  BY OpShapeStep
<1> QED
  BY <1>1, <1>2, <1>3, ImageHolds, AtomicStep, PTL DEF Spec, ImplementsAtomic, Atomic!Spec
=============================================================================
