-------------------------- MODULE ThreadPoolProof --------------------------
(***************************************************************************)
(* Theorems about ThreadPool, for any number of threads, pools and         *)
(* functions, where pthread_cond_wait returns only when it is signalled.   *)
(***************************************************************************)
EXTENDS ThreadPool, FiniteSetTheorems, TLAPS

InBarrier(t) == \E l \in Crossings : pc[t] = Waiting(l)

\* The threads in pthread_cond_wait have come once more than the others, who
\* are as far as each other; a thread in the barrier has still to leave it.
Level ==
  /\ waiting # Threads
  /\ \A t \in waiting : InBarrier(t)
  /\ \A t, u \in Threads :
       came[t] + (IF u \in waiting THEN 1 ELSE 0)
         = came[u] + (IF t \in waiting THEN 1 ELSE 0)
  /\ \A t \in Threads : came[t] = went[t] + (IF InBarrier(t) THEN 1 ELSE 0)

BarrierInv == TypeOK /\ Level

USE DEF Goto, barrier

----------------------------------------------------------------------------
\* There are N threads, and the program's own is one of them.
LEMMA ThreadCount ==
  /\ IsFiniteSet(Threads) /\ Cardinality(Threads) = N
  /\ 0 \in Threads /\ N \in Nat /\ N >= 1
<1>1. N \in Nat /\ N >= 1
  BY ConstantsAssumption DEF ConstantsAssumption
<1>2. IsFiniteSet(0..N-1) /\ Cardinality(0..N-1) = N
  BY <1>1, FS_Interval
<1> QED
  BY <1>1, <1>2 DEF Threads

\* No label of a caller is a label of the barrier.
LEMMA LabelsApart ==
  ASSUME NEW t \in Threads, NEW l \in Crossings
  PROVE  /\ Waiting(l) \in Labels /\ Waiting(l) \notin Crossings
         /\ After(t, l) \in Labels
         /\ \A k \in Crossings : After(t, l) # Waiting(k) /\ k # Waiting(l)
  BY DEF Crossings, Waiting, After, Labels

\* The labels of a thread outside the barrier are labels.
LEMMA LabelsOutside ==
  Crossings \union {"main", "none", "check", "call", "join", "exited"} \subseteq Labels
  BY DEF Labels

\* The initial state satisfies the invariant of the barrier.
LEMMA BarrierInit == Init => BarrierInv
<1> SUFFICES ASSUME Init PROVE BarrierInv
  OBVIOUS
<1>1. Types
  <2>1. pc \in [Threads -> Labels]
    BY LabelsOutside DEF Init
  <2>2. pool \in BOOLEAN /\ doShutdown \in BOOLEAN
    BY DEF Init
  <2>3. pools \in 0..MaxPools /\ funcPtr \in 0..MaxStarts /\ crossing \in 0..N-1
    BY ThreadCount, ConstantsAssumption DEF Init, ConstantsAssumption
  <2> QED
    BY <2>1, <2>2, <2>3, ThreadCount, ConstantsAssumption DEF Init, Types, ConstantsAssumption
<1>2. Cardinality({}) = 0
  BY FS_EmptySet
<1>3. \A t \in Threads : ~InBarrier(t)
  BY DEF Init, InBarrier, Crossings, Waiting
<1>4. Level
  <2>1. waiting = {} /\ \A t \in Threads : came[t] = 0 /\ went[t] = 0
    BY DEF Init
  <2> QED
    BY <1>3, <2>1, ThreadCount DEF Level
<1> QED
  BY <1>1, <1>2, <1>4 DEF Init, BarrierInv, TypeOK

\* The last thread to come finds all the others waiting.
LEMMA AllWait ==
  ASSUME ~Spurious, BarrierInv, NEW t \in Threads, t \notin waiting, AllHere
  PROVE  waiting = Threads \ {t}
<1>1. waiting \subseteq Threads \ {t} /\ crossing = Cardinality(waiting)
  BY DEF BarrierInv, TypeOK, Types
<1>2. IsFiniteSet(Threads \ {t}) /\ Cardinality(Threads \ {t}) = N - 1
  BY ThreadCount, FS_RemoveElement
<1>3. IsFiniteSet(waiting) /\ Cardinality(waiting) \in Nat
  BY <1>1, <1>2, FS_Subset, FS_CardinalityType
<1>4. Cardinality(waiting) <= N - 1 /\ Cardinality(waiting) + 1 >= N
  BY <1>1, <1>2, FS_Subset DEF AllHere
<1> QED
  BY <1>1, <1>2, <1>3, <1>4, ThreadCount, FS_Subset

\* Every step keeps the invariant of the barrier.
LEMMA BarrierStep ==
  ASSUME ~Spurious, BarrierInv, [Next]_vars
  PROVE  BarrierInv'
<1> USE ThreadCount DEF BarrierInv, TypeOK
<1>1. ASSUME NEW t \in Threads, Cross(t) PROVE BarrierInv'
  <2>1. t \notin waiting /\ ~InBarrier(t)
    BY <1>1, LabelsApart DEF Cross, Level, InBarrier
  <2>2. PICK l \in Crossings : pc[t] = l
    BY <1>1 DEF Cross
  <2>3. CASE AllHere
    <3>1. waiting = Threads \ {t}
      BY <2>1, <2>3, AllWait
    <3>2. /\ crossing' = 0 /\ waiting' = {} /\ Cardinality({}) = 0
          /\ pc' = [pc EXCEPT ![t] = After(t, l)]
          /\ came' = [came EXCEPT ![t] = @ + 1] /\ went' = [went EXCEPT ![t] = @ + 1]
      BY <1>1, <2>2, <2>3, FS_EmptySet DEF Cross
    <3>3. Types'
      BY <1>1, <2>2, <3>2, LabelsApart DEF Cross, Types
    <3>4. \A u \in Threads : InBarrier(u)' <=> InBarrier(u)
      BY <2>1, <2>2, <3>2, LabelsApart DEF InBarrier, Types
    <3>5. Level'
      <4>1. waiting' # Threads /\ \A u \in waiting' : InBarrier(u)'
        BY <3>2
      <4>2. ASSUME NEW u \in Threads, NEW w \in Threads PROVE came'[u] = came'[w]
        BY <3>1, <3>2 DEF Level, Types
      <4>3. ASSUME NEW u \in Threads
            PROVE came'[u] = went'[u] + (IF InBarrier(u)' THEN 1 ELSE 0)
        BY <2>1, <3>2, <3>4 DEF Level, Types
      <4> QED
        BY <3>2, <4>1, <4>2, <4>3 DEF Level
    <3> QED
      BY <3>2, <3>3, <3>5
  <2>4. CASE ~AllHere
    <3>1. /\ crossing' = crossing + 1 /\ waiting' = waiting \union {t}
          /\ pc' = [pc EXCEPT ![t] = Waiting(l)]
          /\ came' = [came EXCEPT ![t] = @ + 1] /\ went' = went
      BY <1>1, <2>2, <2>4 DEF Cross
    <3>2. Types'
      BY <1>1, <2>2, <2>4, <3>1, LabelsApart DEF Cross, Types, AllHere
    <3>3. IsFiniteSet(waiting) /\ crossing' = Cardinality(waiting')
      BY <2>1, <3>1, FS_Subset, FS_AddElement DEF Types
    <3>4. InBarrier(t)' /\ \A u \in Threads \ {t} : InBarrier(u)' <=> InBarrier(u)
      BY <2>2, <3>1 DEF InBarrier, Types
    <3>5. waiting' # Threads
      BY <2>4, <3>1, <3>3, ThreadCount DEF AllHere
    <3>6. Level'
      <4>1. \A u \in waiting' : InBarrier(u)'
        BY <3>1, <3>4 DEF Level, Types
      <4>2. ASSUME NEW u \in Threads, NEW w \in Threads
            PROVE came'[u] + (IF w \in waiting' THEN 1 ELSE 0)
                    = came'[w] + (IF u \in waiting' THEN 1 ELSE 0)
        BY <2>1, <3>1 DEF Level, Types
      <4>3. ASSUME NEW u \in Threads
            PROVE came'[u] = went'[u] + (IF InBarrier(u)' THEN 1 ELSE 0)
        BY <2>1, <3>1, <3>4 DEF Level, Types
      <4> QED
        BY <3>5, <4>1, <4>2, <4>3 DEF Level
    <3> QED
      BY <3>2, <3>3, <3>6
  <2> QED
    BY <2>3, <2>4
<1>2. ASSUME NEW t \in Threads, Awake(t) PROVE BarrierInv'
  <2>1. PICK l \in Crossings : pc[t] = Waiting(l) /\ pc' = [pc EXCEPT ![t] = After(t, l)]
    BY <1>2 DEF Awake
  <2>2. /\ t \notin waiting /\ waiting' = waiting /\ crossing' = crossing
        /\ came' = came /\ went' = [went EXCEPT ![t] = @ + 1]
    BY <1>2 DEF Awake, MayReturn
  <2>3. Types'
    BY <1>2, <2>1, <2>2, LabelsApart DEF Awake, Types
  <2>4. /\ InBarrier(t) /\ ~InBarrier(t)'
        /\ \A u \in Threads \ {t} : InBarrier(u)' <=> InBarrier(u)
    BY <2>1, LabelsApart DEF InBarrier, Types
  <2>5. \A u \in waiting' : InBarrier(u)'
    BY <2>2, <2>4 DEF Level, Types
  <2>6. ASSUME NEW u \in Threads
        PROVE came'[u] = went'[u] + (IF InBarrier(u)' THEN 1 ELSE 0)
    BY <2>2, <2>4 DEF Level, Types
  <2> QED
    BY <2>2, <2>3, <2>5, <2>6 DEF Level
<1>3. ASSUME NEW t \in Threads, Check(t) \/ CallFunction(t) PROVE BarrierInv'
  <2>1. Types'
    BY <1>3 DEF Check, CallFunction, Types, Labels, Crossings
  <2>2. \A u \in Threads : InBarrier(u)' <=> InBarrier(u)
    BY <1>3 DEF Check, CallFunction, Types, InBarrier, Crossings, Waiting
  <2>3. UNCHANGED barrier
    BY <1>3 DEF Check, CallFunction
  <2> QED
    BY <2>1, <2>2, <2>3 DEF Level, Types
<1>4. ASSUME thread_startup PROVE BarrierInv'
  <2>1. Types'
    <3>1. pc' \in [Threads -> Labels]
      BY <1>4, LabelsOutside DEF thread_startup, Crossings
    <3>2. pool' \in BOOLEAN /\ doShutdown' \in BOOLEAN
      BY <1>4 DEF thread_startup
    <3> QED
      BY <1>4, <3>1, <3>2, ConstantsAssumption DEF thread_startup, Types, ConstantsAssumption
  <2>2. \A u \in Threads : ~InBarrier(u)'
    BY <1>4 DEF thread_startup, InBarrier, Crossings, Waiting
  <2> QED
    BY <1>4, <2>1, <2>2, FS_EmptySet DEF thread_startup, Level
<1>5. ASSUME thread_start \/ thread_shutdown PROVE BarrierInv'
  <2>1. Types'
    <3>1. pc' \in [Threads -> Labels]
      BY <1>5, LabelsOutside DEF thread_start, thread_shutdown, Types, Crossings
    <3>2. pool' \in BOOLEAN /\ doShutdown' \in BOOLEAN
      BY <1>5 DEF thread_start, thread_shutdown, Types
    <3> QED
      BY <1>5, <3>1, <3>2, ConstantsAssumption
      DEF thread_start, thread_shutdown, Types, ConstantsAssumption
  <2>2. \A u \in Threads : InBarrier(u)' <=> InBarrier(u)
    BY <1>5 DEF thread_start, thread_shutdown, Types, InBarrier, Crossings, Waiting
  <2>3. UNCHANGED barrier
    BY <1>5 DEF thread_start, thread_shutdown
  <2> QED
    BY <2>1, <2>2, <2>3 DEF Level, Types
<1>6. ASSUME Join PROVE BarrierInv'
  <2>1. Types'
    BY <1>6 DEF Join, Types, Labels
  <2>2. \A u \in Threads : ~InBarrier(u) /\ ~InBarrier(u)'
    BY <1>6 DEF Join, InBarrier, Crossings, Waiting, Secondary
  <2>3. UNCHANGED barrier
    BY <1>6 DEF Join
  <2> QED
    BY <2>1, <2>2, <2>3 DEF Level, Types
<1>7. CASE UNCHANGED vars
  BY <1>7 DEF vars, Types, Level, InBarrier
<1> QED
  BY <1>1, <1>2, <1>3, <1>4, <1>5, <1>6, <1>7 DEF Next, Run, Finished

----------------------------------------------------------------------------
\* The invariant of the barrier: who waits, who has been woken, and who has
\* come how often (barrier_cross).
THEOREM BarrierHolds ==
  ASSUME ~Spurious
  PROVE  Spec => []BarrierInv
<1>1. BarrierInv /\ [Next]_vars => BarrierInv'
  BY BarrierStep
<1> QED
  BY <1>1, BarrierInit, PTL DEF Spec

\* Types, and the barrier's count: crossing is the number of threads waiting.
THEOREM PoolTypes ==
  ASSUME ~Spurious
  PROVE  Spec => []TypeOK
<1>1. BarrierInv => TypeOK
  BY DEF BarrierInv
<1> QED
  BY <1>1, BarrierHolds, PTL

\* GoTogether: no thread goes past a barrier that another has not come to,
\* however often the barrier is used ("If not all here, wait").
THEOREM BarrierSeparates ==
  ASSUME ~Spurious
  PROVE  Spec => []GoTogether
<1>1. BarrierInv => GoTogether
  <2> SUFFICES ASSUME BarrierInv, NEW t \in Threads, NEW u \in Threads
               PROVE  went[t] <= came[u]
    BY DEF GoTogether
  <2>1. came[t] \in Nat /\ came[u] \in Nat /\ went[t] \in Nat
    BY DEF BarrierInv, TypeOK, Types
  <2>2. t \in waiting => InBarrier(t)
    BY DEF BarrierInv, Level
  <2>3. /\ came[t] = went[t] + (IF InBarrier(t) THEN 1 ELSE 0)
        /\ came[t] + (IF u \in waiting THEN 1 ELSE 0)
             = came[u] + (IF t \in waiting THEN 1 ELSE 0)
    BY DEF BarrierInv, Level
  <2> QED
    BY <2>1, <2>2, <2>3
<1> QED
  BY <1>1, BarrierHolds, PTL

----------------------------------------------------------------------------
(* The pool runs each function once.  The barriers divide the threads'     *)
(* progress into stages; which one the pool is in decides what a thread    *)
(* inside pthread_cond_wait waits for.                                     *)

AllRan == \A t \in Threads : ran[t] = funcPtr

\* thread_shutdown has freed the last pool, or there has been none.
NoPool ==
  /\ pc[0] = "main" /\ ~pool /\ waiting = {} /\ AllRan
  /\ \A t \in Secondary : pc[t] = "none"

\* The threads gather at the barrier at the top of the loop: thread 0 is
\* between two functions, has set the next one, or is shutting down.
Gathering ==
  /\ pool
  /\ pc[0] \in {"main", "start", "start_wait", "end_wait", "shutdown", "shutdown_wait"}
  /\ doShutdown <=> pc[0] \in {"shutdown", "shutdown_wait"}
  /\ IF pc[0] \in {"start", "start_wait"} THEN \A t \in Threads : ran[t] # funcPtr ELSE AllRan
  /\ 0 \in waiting <=> pc[0] \in {"start_wait", "shutdown_wait"}
  /\ \A t \in Secondary :
       pc[t] \in IF t \in waiting THEN {"start_wait"} ELSE {"start", "end_wait"}

\* The threads run the function, and gather at the barrier after it.
Running ==
  /\ pool /\ ~doShutdown
  /\ \A t \in Threads :
       /\ t \in waiting => pc[t] = "end_wait"
       /\ t \notin waiting => pc[t] \in {"start_wait", "check", "call", "end"}
       /\ ran[t] = funcPtr <=> pc[t] \in {"end", "end_wait"}

\* The threads leave the loop, and thread 0 joins them.
Stopping ==
  /\ pool /\ doShutdown /\ waiting = {} /\ AllRan
  /\ pc[0] \in {"shutdown_wait", "join"}
  /\ \A t \in Secondary : pc[t] \in {"start_wait", "check", "exited"}

StageInv == NoPool \/ Gathering \/ Running \/ Stopping

Opened == pc[0] \notin {"main", "shutdown", "shutdown_wait", "join"}
Pending == {t \in Threads : ran[t] # funcPtr}

\* What a step of the pool does to a call of thread_start: it is no part of it,
\* it is the call, the return from it, or one thread's run of the function.
ForkStep ==
  \/ Opened' = Opened /\ Pending' = Pending
  \/ ~Opened /\ Opened' /\ Pending' = Threads
  \/ Opened /\ ~Opened' /\ Pending = {} /\ Pending' = {}
  \/ Opened /\ Opened' /\ \E t \in Pending : Pending' = Pending \ {t}

\* The program starts without a pool.
LEMMA StageInit == Init => StageInv
  BY ThreadCount DEF Init, StageInv, NoPool, AllRan, Secondary

\* Nothing is set to run before the last function has returned.
LEMMA PendingEmpty == AllRan <=> Pending = {}
  BY DEF AllRan, Pending

\* The last thread comes to a barrier, and the pool enters its next stage.
LEMMA BarrierOpens ==
  ASSUME ~Spurious, BarrierInv, StageInv, NEW t \in Threads, Cross(t), AllHere
  PROVE  StageInv' /\ ForkStep
<1>1. t \notin waiting
  BY LabelsApart DEF Cross, BarrierInv, Level, InBarrier
<1>2. waiting = Threads \ {t}
  BY <1>1, AllWait
<1>3. /\ pc[t] \in Crossings /\ pc' = [pc EXCEPT ![t] = After(t, pc[t])] /\ waiting' = {}
      /\ UNCHANGED <<pool, funcPtr, doShutdown, ran>> /\ pc \in [Threads -> Labels]
  BY DEF Cross, BarrierInv, TypeOK, Types
<1>4. 0 \in Threads /\ AllRan' = AllRan /\ Pending' = Pending
  BY <1>3, ThreadCount DEF AllRan, Pending
<1>5. CASE Gathering /\ pc[0] \in {"start", "start_wait"}
  <2>1. pc[t] = "start"
    BY <1>2, <1>3, <1>5 DEF Gathering, Crossings, Secondary
  <2>2. pc'[t] = "check" /\ \A u \in Threads \ {t} : pc'[u] = "start_wait"
    BY <1>2, <1>3, <1>4, <1>5, <2>1 DEF Gathering, Secondary, After
  <2>3. Running'
    BY <1>3, <1>5, <2>2 DEF Gathering, Running
  <2>4. Opened /\ Opened'
    BY <1>4, <1>5, <2>2 DEF Opened
  <2>. QED
    BY <1>4, <2>3, <2>4 DEF StageInv, ForkStep
<1>6. CASE Gathering /\ pc[0] \notin {"start", "start_wait"}
  <2>1. doShutdown /\ pc[0] \in {"shutdown", "shutdown_wait"} /\ AllRan
    <3>1. t = 0 \/ 0 \in waiting
      BY <1>2, <1>4
    <3>. QED
      BY <1>2, <1>3, <1>6, <3>1 DEF Gathering, Crossings
  <2>2. pc[t] = IF t = 0 THEN "shutdown" ELSE "start"
    BY <1>1, <1>2, <1>3, <1>6, <2>1 DEF Gathering, Crossings, Secondary
  <2>3. pc'[0] \in {"shutdown_wait", "join"}
        /\ \A u \in Secondary : pc'[u] \in {"start_wait", "check"}
    BY <1>2, <1>3, <1>4, <1>6, <2>1, <2>2 DEF Gathering, Secondary, After
  <2>4. Stopping'
    BY <1>3, <1>4, <1>6, <2>1, <2>3 DEF Gathering, Stopping
  <2>5. Opened' = Opened
    BY <2>1, <2>3 DEF Opened
  <2>. QED
    BY <1>4, <2>4, <2>5 DEF StageInv, ForkStep
<1>7. CASE Running
  <2>1. pc[t] = "end" /\ \A u \in Threads \ {t} : pc[u] = "end_wait"
    BY <1>2, <1>3, <1>7 DEF Running, Crossings
  <2>2. AllRan
    BY <1>7, <2>1 DEF Running, AllRan
  <2>3. /\ pc'[0] \in {"main", "end_wait"} /\ pc'[t] = IF t = 0 THEN "main" ELSE "start"
        /\ \A u \in Threads \ {t} : pc'[u] = "end_wait"
    BY <1>3, <1>4, <2>1 DEF After
  <2>4. Gathering'
    BY <1>3, <1>4, <1>7, <2>2, <2>3 DEF Running, Gathering, Secondary
  <2>5. Opened /\ (Opened' <=> pc'[0] = "end_wait")
    BY <1>4, <2>1, <2>3 DEF Opened
  <2>. QED
    BY <1>4, <2>2, <2>4, <2>5, PendingEmpty DEF StageInv, ForkStep
<1>8. CASE NoPool \/ Stopping
  BY <1>3, <1>8 DEF NoPool, Stopping, Secondary, Crossings, Threads
<1>. QED
  BY <1>5, <1>6, <1>7, <1>8 DEF StageInv

\* Every step keeps the pool in a stage, and is a step of a fork and join.
LEMMA StageStep ==
  ASSUME ~Spurious, BarrierInv, StageInv, Next
  PROVE  StageInv' /\ ForkStep
<1>0. pc \in [Threads -> Labels] /\ ran \in [Threads -> 0..MaxStarts] /\ 0 \in Threads
      /\ funcPtr \in Nat /\ \A t \in waiting : InBarrier(t)
  BY ThreadCount, ConstantsAssumption
     DEF BarrierInv, TypeOK, Types, Level, ConstantsAssumption
<1>1. ASSUME NEW t \in Threads, Cross(t), ~AllHere
      PROVE  StageInv' /\ ForkStep
  <2>1. /\ pc[t] \in Crossings /\ pc' = [pc EXCEPT ![t] = Waiting(pc[t])]
        /\ waiting' = waiting \union {t} /\ t \notin waiting
        /\ UNCHANGED <<pool, funcPtr, doShutdown, ran>>
    BY <1>0, <1>1, LabelsApart DEF Cross, InBarrier
  <2>2. AllRan' = AllRan /\ Pending' = Pending
    BY <2>1 DEF AllRan, Pending
  <2>3. Opened' = Opened
    BY <1>0, <2>1 DEF Opened, Crossings, Waiting
  <2>4. CASE Gathering
    BY <1>0, <2>1, <2>2, <2>3, <2>4
       DEF Gathering, Secondary, Crossings, Waiting, StageInv, ForkStep
  <2>5. CASE Running
    BY <1>0, <2>1, <2>2, <2>3, <2>5 DEF Running, Crossings, Waiting, StageInv, ForkStep
  <2>6. CASE NoPool \/ Stopping
    BY <2>1, <2>6 DEF NoPool, Stopping, Secondary, Crossings, Threads
  <2>. QED
    BY <2>4, <2>5, <2>6 DEF StageInv
<1>2. ASSUME NEW t \in Threads, Awake(t)
      PROVE  StageInv' /\ ForkStep
  <2>1. PICK l \in Crossings : pc[t] = Waiting(l) /\ pc' = [pc EXCEPT ![t] = After(t, l)]
    BY <1>2 DEF Awake
  <2>2. /\ t \notin waiting /\ waiting' = waiting
        /\ UNCHANGED <<pool, funcPtr, doShutdown, ran>>
    BY <1>2 DEF Awake, MayReturn
  <2>3. AllRan' = AllRan /\ Pending' = Pending
    BY <2>2 DEF AllRan, Pending
  <2>4. CASE Gathering
    <3>1. l = "end"
      <4>1. pc[t] \in {"end_wait"} \union ({"main", "start", "shutdown"})
        BY <2>2, <2>4 DEF Gathering, Secondary
      <4>. QED
        BY <2>1, <4>1 DEF Crossings, Waiting
    <3>2. Gathering'
      BY <1>0, <2>1, <2>2, <2>3, <2>4, <3>1 DEF Gathering, Secondary, After, Waiting
    <3>3. Opened' = Opened \/ (Opened /\ ~Opened' /\ Pending = {})
      <4>1. CASE t = 0
        BY <1>0, <2>1, <2>4, <3>1, <4>1, PendingEmpty DEF Gathering, Opened, After, Waiting
      <4>2. CASE t # 0
        BY <1>0, <2>1, <4>2 DEF Opened
      <4>. QED
        BY <4>1, <4>2
    <3>. QED
      BY <2>3, <3>2, <3>3 DEF StageInv, ForkStep
  <2>5. CASE Running
    <3>1. l = "start"
      BY <1>0, <2>1, <2>2, <2>5 DEF Running, Crossings, Waiting
    <3>2. Running'
      BY <1>0, <2>1, <2>2, <2>5, <3>1 DEF Running, After, Waiting
    <3>3. Opened' = Opened
      BY <1>0, <2>1, <3>1 DEF Opened, After, Waiting
    <3>. QED
      BY <2>3, <3>2, <3>3 DEF StageInv, ForkStep
  <2>6. CASE Stopping
    <3>1. Stopping'
      BY <1>0, <2>1, <2>2, <2>3, <2>6 DEF Stopping, Secondary, Crossings, Waiting, After
    <3>2. Opened' = Opened
      BY <1>0, <2>6, <3>1 DEF Opened, Stopping
    <3>. QED
      BY <2>3, <3>1, <3>2 DEF StageInv, ForkStep
  <2>7. CASE NoPool
    BY <2>1, <2>7 DEF NoPool, Secondary, Crossings, Waiting, Threads
  <2>. QED
    BY <2>4, <2>5, <2>6, <2>7 DEF StageInv
<1>3. ASSUME NEW t \in Threads, Check(t)
      PROVE  StageInv' /\ ForkStep
  <2>1. /\ pc[t] = "check" /\ UNCHANGED <<pool, funcPtr, doShutdown, ran, waiting>>
        /\ pc' = [pc EXCEPT ![t] = IF ~doShutdown THEN "call"
                                   ELSE IF t = 0 THEN "main" ELSE "exited"]
    BY <1>3 DEF Check
  <2>2. AllRan' = AllRan /\ Pending' = Pending
    BY <2>1 DEF AllRan, Pending
  <2>3. CASE Running
    <3>1. Running'
      BY <1>0, <2>1, <2>3 DEF Running
    <3>2. Opened' = Opened
      BY <1>0, <2>1, <2>3 DEF Opened, Running
    <3>. QED
      BY <2>2, <3>1, <3>2 DEF StageInv, ForkStep
  <2>4. CASE Stopping
    BY <1>0, <2>1, <2>2, <2>4 DEF Stopping, Secondary, Opened, StageInv, ForkStep
  <2>5. CASE NoPool \/ Gathering
    BY <2>1, <2>5 DEF NoPool, Gathering, Secondary, Threads
  <2>. QED
    BY <2>3, <2>4, <2>5 DEF StageInv
<1>4. ASSUME NEW t \in Threads, CallFunction(t)
      PROVE  StageInv' /\ ForkStep
  <2>1. /\ pc[t] = "call" /\ UNCHANGED <<pool, funcPtr, doShutdown, waiting>>
        /\ pc' = [pc EXCEPT ![t] = "end"] /\ ran' = [ran EXCEPT ![t] = funcPtr]
    BY <1>4 DEF CallFunction
  <2>2. Running
    BY <2>1 DEF StageInv, NoPool, Gathering, Stopping, Secondary, Threads
  <2>3. Running'
    BY <1>0, <2>1, <2>2 DEF Running
  <2>4. Opened /\ Opened'
    BY <1>0, <2>1, <2>2 DEF Opened, Running
  <2>5. t \in Pending /\ Pending' = Pending \ {t}
    BY <1>0, <2>1, <2>2 DEF Pending, Running
  <2>. QED
    BY <2>3, <2>4, <2>5 DEF StageInv, ForkStep
<1>5. ASSUME thread_startup
      PROVE  StageInv' /\ ForkStep
  <2>1. NoPool
    BY <1>5 DEF thread_startup, StageInv, Gathering, Running, Stopping
  <2>2. /\ pool' /\ ~doShutdown' /\ waiting' = {} /\ UNCHANGED <<funcPtr, ran>>
        /\ pc'[0] = "main" /\ pc[0] = "main" /\ \A t \in Secondary : pc'[t] = "start"
    BY <1>0, <1>5 DEF thread_startup, Secondary
  <2>3. Gathering'
    BY <2>1, <2>2 DEF NoPool, Gathering, AllRan
  <2>4. Opened' = Opened /\ Pending' = Pending
    BY <2>2 DEF Opened, Pending
  <2>. QED
    BY <2>3, <2>4 DEF StageInv, ForkStep
<1>6. ASSUME thread_start
      PROVE  StageInv' /\ ForkStep
  <2>1. Gathering
    BY <1>0, <1>6 DEF thread_start, StageInv, NoPool, Running, Stopping
  <2>2. /\ pc' = [pc EXCEPT ![0] = "start"] /\ funcPtr' = funcPtr + 1 /\ pc[0] = "main"
        /\ UNCHANGED <<pool, doShutdown, ran, waiting>>
    BY <1>6 DEF thread_start
  <2>3. \A t \in Threads : ran'[t] # funcPtr'
    BY <1>0, <2>1, <2>2 DEF Gathering, AllRan
  <2>4. Gathering'
    BY <1>0, <2>1, <2>2, <2>3 DEF Gathering, Secondary
  <2>5. ~Opened /\ Opened' /\ Pending' = Threads
    BY <1>0, <2>2, <2>3 DEF Opened, Pending
  <2>. QED
    BY <2>4, <2>5 DEF StageInv, ForkStep
<1>7. ASSUME thread_shutdown
      PROVE  StageInv' /\ ForkStep
  <2>1. Gathering
    BY <1>0, <1>7 DEF thread_shutdown, StageInv, NoPool, Running, Stopping
  <2>2. /\ pc' = [pc EXCEPT ![0] = "shutdown"] /\ doShutdown' /\ pc[0] = "main"
        /\ UNCHANGED <<pool, funcPtr, ran, waiting>>
    BY <1>7 DEF thread_shutdown
  <2>3. Gathering'
    BY <1>0, <2>1, <2>2 DEF Gathering, Secondary, AllRan
  <2>4. Opened' = Opened /\ Pending' = Pending
    BY <1>0, <2>2 DEF Opened, Pending
  <2>. QED
    BY <2>3, <2>4 DEF StageInv, ForkStep
<1>8. ASSUME Join
      PROVE  StageInv' /\ ForkStep
  <2>1. Stopping
    BY <1>0, <1>8 DEF Join, StageInv, NoPool, Gathering, Running
  <2>2. /\ pc'[0] = "main" /\ ~pool' /\ pc[0] = "join" /\ UNCHANGED <<funcPtr, ran, waiting>>
        /\ \A t \in Secondary : pc'[t] = "none"
    BY <1>0, <1>8 DEF Join, Secondary
  <2>3. NoPool'
    BY <2>1, <2>2 DEF Stopping, NoPool, AllRan
  <2>4. Opened' = Opened /\ Pending' = Pending
    BY <2>2 DEF Opened, Pending
  <2>. QED
    BY <2>3, <2>4 DEF StageInv, ForkStep
<1>9. ASSUME Finished
      PROVE  StageInv' /\ ForkStep
  <2>1. UNCHANGED <<pc, pool, waiting, funcPtr, doShutdown, ran>>
    BY <1>9 DEF Finished, vars
  <2>. QED
    BY <2>1 DEF StageInv, NoPool, Gathering, Running, Stopping, AllRan, ForkStep, Opened, Pending
<1>. QED
  BY <1>1, <1>2, <1>3, <1>4, <1>5, <1>6, <1>7, <1>8, <1>9, BarrierOpens DEF Next, Run

\* ImplementsForkJoin: every thread of the pool runs each function once, between
\* the thread_start that set it and its return, across any number of functions,
\* shutdowns and new pools.
THEOREM PoolForksAndJoins ==
  ASSUME ~Spurious
  PROVE  Spec => ImplementsForkJoin
<1>1. Init => Fork!Init
  BY ThreadCount DEF Init, Fork!Init
<1>2. ForkStep => [Fork!Next]_Fork!vars
  BY DEF ForkStep, Opened, Pending, Fork!Next, Fork!vars, Fork!Start, Fork!Return,
         Fork!RunFunction
<1>3. BarrierInv /\ StageInv /\ [Next]_vars => StageInv' /\ [Fork!Next]_Fork!vars
  <2>1. ASSUME UNCHANGED vars
        PROVE  UNCHANGED <<pc, pool, waiting, funcPtr, doShutdown, ran>>
    BY <2>1 DEF vars
  <2>2. ASSUME StageInv, UNCHANGED vars
        PROVE  StageInv' /\ UNCHANGED Fork!vars
    BY <2>1, <2>2 DEF StageInv, NoPool, Gathering, Running, Stopping, AllRan, Fork!vars
  <2>. QED
    BY <1>2, <2>2, StageStep
<1>. QED
  BY <1>1, <1>3, StageInit, BarrierHolds, PTL DEF Spec, ImplementsForkJoin, Fork!Spec
=============================================================================
