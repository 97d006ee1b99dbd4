---------------------------- MODULE Transactions ----------------------------
(***************************************************************************)
(* The transactional memory of the processor (external), as the locks use  *)
(* it.  A transaction watches the lock words it has looked at, tracks the  *)
(* data it has read, buffers the data it has written, and is doomed by     *)
(* another thread's access that conflicts with them, transactional or not. *)
(* A doomed transaction executes nothing more; it is rolled back.  What    *)
(* tm.h takes from a section's tries for one that overflowed the processor *)
(* is SpendBudget.                                                         *)
(***************************************************************************)
EXTENDS Integers

CONSTANTS
  N,            \* local_num_threads
  NData,        \* shared words the sections access
  RetryPolicy   \* RETRY_POLICY

Threads == 1..N
Data == 1..NData
Lock == 0       \* the watched lock words: writer_lock, and a flag per thread

VARIABLES
  htm,                \* the thread's transaction: "off", "on" or "doomed"
  watch, rset, wset   \* lock words it watches, data it read, data it wrote

txvars == <<htm, watch, rset, wset>>

\* htm once thread t has written the data D, or only read them
DoomByWrite(t, D) ==
  [u \in Threads |-> IF /\ u # t /\ htm[u] = "on"
                        /\ (rset[u] \union wset[u]) \intersect D # {}
                     THEN "doomed" ELSE htm[u]]
DoomByRead(t, D) ==
  [u \in Threads |-> IF u # t /\ htm[u] = "on" /\ wset[u] \intersect D # {}
                     THEN "doomed" ELSE htm[u]]
\* htm once thread t has written the lock word w
DoomByLockWord(t, w) ==
  [u \in Threads |-> IF u # t /\ htm[u] = "on" /\ w \in watch[u]
                     THEN "doomed" ELSE htm[u]]

Live(t) == htm[t] # "doomed"

\* A transaction that ends forgets what it watched and tracked.
TxEnd(t) ==
  /\ watch' = [watch EXCEPT ![t] = {}]
  /\ rset' = [rset EXCEPT ![t] = {}]
  /\ wset' = [wset EXCEPT ![t] = {}]

SpendBudget(b) ==
  IF RetryPolicy = 0 THEN 0 ELSE IF RetryPolicy = 2 THEN b \div 2 ELSE b - 1

NoTransactions ==
  /\ htm = [t \in Threads |-> "off"]
  /\ watch = [t \in Threads |-> {}]
  /\ rset = [t \in Threads |-> {}]
  /\ wset = [t \in Threads |-> {}]
=============================================================================
