----------------------------- MODULE ThreadPool -----------------------------
(***************************************************************************)
(* The pool of threads of backends/common/thread.c that both benchmarks    *)
(* run in: thread_startup, thread_start, thread_shutdown, the threadWait   *)
(* loop they share, and the barrier the loop meets at.  Thread 0 is the    *)
(* program's own; it may start and shut down a pool more than once, as     *)
(* tpcc.cc does, and start functions in it.                                *)
(*                                                                         *)
(* A critical section of the barrier's mutex is one action; waiting is the *)
(* set of threads inside pthread_cond_wait, which may return although      *)
(* nobody has signalled (external: POSIX).                                 *)
(*                                                                         *)
(* An operator named Bug... is a broken form of the one below it; nothing  *)
(* uses it.                                                                *)
(***************************************************************************)
EXTENDS Integers, FiniteSets

CONSTANTS
  N,          \* numThread
  Spurious,   \* pthread_cond_wait may return unsignalled
  MaxPools,   \* bound: pools the program starts
  MaxStarts   \* bound: functions it runs

ASSUME ConstantsAssumption ==
  N \in Nat /\ N >= 1 /\ Spurious \in BOOLEAN /\ MaxPools \in Nat /\ MaxStarts \in Nat

Threads == 0..N-1
Secondary == Threads \ {0}

VARIABLES
  pc,          \* where each thread is
  pool,        \* there is a pool: global_barrierPtr, global_threads
  pools,       \* pools started so far
  crossing,    \* the barrier's count of those who have come
  waiting,     \* the threads waiting on its condition
  funcPtr,     \* global_funcPtr: the number of the function
  doShutdown,  \* global_doShutdown
  ran,         \* history: the last function each thread has run
  came, went   \* history: barriers each thread has come to, and gone past

barrier == <<crossing, waiting, came, went>>
vars == <<pc, pool, pools, barrier, funcPtr, doShutdown, ran>>

Init ==
  /\ pc = [t \in Threads |-> IF t = 0 THEN "main" ELSE "none"]
  /\ pool = FALSE /\ pools = 0
  /\ crossing = 0 /\ waiting = {}
  /\ funcPtr = 0 /\ doShutdown = FALSE
  /\ ran = [t \in Threads |-> 0]
  /\ came = [t \in Threads |-> 0] /\ went = [t \in Threads |-> 0]

Goto(t, l) == pc' = [pc EXCEPT ![t] = l]

----------------------------------------------------------------------------
(* barrier_cross, called at one of three places. *)

Crossings == {"start", "end", "shutdown"}
\* Where its caller goes on
After(t, l) == CASE l = "start" -> "check"
                 [] l = "end" -> IF t = 0 THEN "main" ELSE "start"
                 [] l = "shutdown" -> "join"
Waiting(l) == CASE l = "start" -> "start_wait"
                [] l = "end" -> "end_wait"
                [] l = "shutdown" -> "shutdown_wait"

BugAllHereEarly == crossing + 1 >= N - 1
BugAllHereLate == crossing >= N
AllHere == crossing + 1 >= N

Cross(t) ==
  /\ pc[t] \in Crossings
  /\ came' = [came EXCEPT ![t] = @ + 1]
  /\ IF AllHere
     THEN /\ crossing' = 0 /\ waiting' = {}
          /\ went' = [went EXCEPT ![t] = @ + 1]
          /\ Goto(t, After(t, pc[t]))
     ELSE /\ crossing' = crossing + 1 /\ waiting' = waiting \union {t}
          /\ Goto(t, Waiting(pc[t]))
          /\ UNCHANGED went
  /\ UNCHANGED <<pool, pools, funcPtr, doShutdown, ran>>

\* pthread_cond_wait returns, and the thread leaves the barrier.
MayReturn(t) == t \notin waiting \/ Spurious
Awake(t) ==
  /\ \E l \in Crossings : pc[t] = Waiting(l) /\ Goto(t, After(t, l))
  /\ MayReturn(t)
  /\ waiting' = waiting \ {t}
  /\ went' = [went EXCEPT ![t] = @ + 1]
  /\ UNCHANGED <<pool, pools, crossing, came, funcPtr, doShutdown, ran>>

----------------------------------------------------------------------------
(* threadWait, between its barriers. *)

Check(t) ==
  /\ pc[t] = "check"
  /\ Goto(t, IF ~doShutdown THEN "call" ELSE IF t = 0 THEN "main" ELSE "exited")
  /\ UNCHANGED <<pool, pools, barrier, funcPtr, doShutdown, ran>>

CallFunction(t) ==
  /\ pc[t] = "call"
  /\ ran' = [ran EXCEPT ![t] = funcPtr]
  /\ Goto(t, "end")
  /\ UNCHANGED <<pool, pools, barrier, funcPtr, doShutdown>>

----------------------------------------------------------------------------
(* The program. *)

thread_startup ==
  /\ pc[0] = "main" /\ ~pool /\ pools < MaxPools
  /\ pool' = TRUE /\ pools' = pools + 1
  /\ doShutdown' = FALSE
  /\ crossing' = 0 /\ waiting' = {}
  /\ pc' = [t \in Threads |-> IF t = 0 THEN "main" ELSE "start"]
  /\ came' = [t \in Threads |-> 0] /\ went' = [t \in Threads |-> 0]
  /\ UNCHANGED <<funcPtr, ran>>

thread_start ==
  /\ pc[0] = "main" /\ pool /\ funcPtr < MaxStarts
  /\ funcPtr' = funcPtr + 1
  /\ Goto(0, "start")
  /\ UNCHANGED <<pool, pools, barrier, doShutdown, ran>>

BugShutdown ==          \* the flag is not set
  /\ pc[0] = "main" /\ pool
  /\ Goto(0, "shutdown")
  /\ UNCHANGED <<pool, pools, barrier, funcPtr, doShutdown, ran>>
thread_shutdown ==
  /\ pc[0] = "main" /\ pool
  /\ doShutdown' = TRUE
  /\ Goto(0, "shutdown")
  /\ UNCHANGED <<pool, pools, barrier, funcPtr, ran>>

\* Every thread is joined, and the pool's memory is freed.
Join ==
  /\ pc[0] = "join" /\ \A t \in Secondary : pc[t] = "exited"
  /\ pool' = FALSE
  /\ pc' = [t \in Threads |-> IF t = 0 THEN "main" ELSE "none"]
  /\ UNCHANGED <<pools, barrier, funcPtr, doShutdown, ran>>

----------------------------------------------------------------------------
Run(t) == Cross(t) \/ Awake(t) \/ Check(t) \/ CallFunction(t)

Finished ==
  /\ pc[0] = "main" /\ ~pool /\ pools = MaxPools
  /\ UNCHANGED vars

Next == \/ \E t \in Threads : Run(t)
        \/ thread_startup \/ thread_start \/ thread_shutdown \/ Join
        \/ Finished

Spec == Init /\ [][Next]_vars

\* The operating system runs every thread, and the functions return.
FairSpec == Spec /\ (\A t \in Threads : WF_vars(Run(t))) /\ WF_vars(Join)

----------------------------------------------------------------------------
(* Properties. *)

Labels == Crossings \union {Waiting(l) : l \in Crossings}
            \union {"main", "none", "check", "call", "join", "exited"}

Types ==
  /\ pc \in [Threads -> Labels]
  /\ pool \in BOOLEAN /\ doShutdown \in BOOLEAN
  /\ pools \in 0..MaxPools /\ funcPtr \in 0..MaxStarts
  /\ crossing \in 0..N-1 /\ waiting \subseteq Threads
  /\ ran \in [Threads -> 0..MaxStarts]
  /\ came \in [Threads -> Nat] /\ went \in [Threads -> Nat]

\* Every variable keeps its type, and the barrier's count is the number of the
\* threads waiting at it (of all of them, if a wait may return unsignalled).
TypeOK ==
  /\ Types
  /\ ~Spurious => crossing = Cardinality(waiting)

\* "If not all here, wait": no thread has gone past a barrier that another one
\* has not come to.
GoTogether == \A t, u \in Threads : went[t] <= came[u]

\* The program goes on from a shutdown: each thread sees global_doShutdown at
\* the barrier it is at, and exits.
ShutdownEnds == pc[0] = "shutdown" ~> ~pool
\* The program goes on from thread_start.
StartReturns == pc[0] = "start" ~> pc[0] = "main"

Fork == INSTANCE ForkJoin
          WITH open <- pc[0] \notin {"main", "shutdown", "shutdown_wait", "join"},
               pending <- {t \in Threads : ran[t] # funcPtr}
\* Every thread runs each function exactly once, inside the thread_start that
\* set it: none misses one, and none is still running one when it returns.
ImplementsForkJoin == Fork!Spec
=============================================================================
