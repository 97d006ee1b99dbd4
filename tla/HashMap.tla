------------------------------- MODULE HashMap -------------------------------
(***************************************************************************)
(* The hash map of benchmarks/datastructures/hashmap: sorted lists of      *)
(* nodes in shared memory, a sentinel each, that sections of the lock walk *)
(* and change with plain accesses; an unlinked node is freed at once.      *)
(*                                                                         *)
(* The lock is taken as SpRWL's modules find it: an update runs in a       *)
(* transaction that commits when nobody holds writer_lock and no flagged   *)
(* reader is in its section, or alone under writer_lock; a lookup runs in  *)
(* a transaction or flagged, without one.  Data are the addresses of the   *)
(* nodes.                                                                  *)
(***************************************************************************)
EXTENDS Transactions, Sequences

CONSTANTS
  NBuckets,     \* N_BUCKETS
  Range,        \* range: values are 1..Range
  Multiplier,   \* lookup_multiplier
  Initials,     \* what main may put into the set before the threads start
  MaxCalls      \* bound: operations

\* Every list has its sentinel, every value its first node, and an update
\* that adds finds memory.
ASSUME MemoryAssumption ==
  /\ N \in Nat \ {0} /\ MaxCalls \in Nat
  /\ NBuckets \in Nat \ {0} /\ Range \in Nat \ {0} /\ Multiplier \in Nat \ {0}
  /\ Initials \subseteq SUBSET (1..Range)
  /\ NData \in Nat /\ NData >= NBuckets + Range + N - 1

Values == 1..Range
Null == 0
Sentinel(v) == (v % NBuckets) + 1
Sentinels == 1..NBuckets
None == -1      \* val of test() when the thread has nothing to remove

VARIABLES
  pc, call,     \* where each thread is; the operation and its arguments
  mode,         \* how its section runs: "tx", "lock" or "flag"
  k,            \* lookup_m, from one
  prev, curr,   \* the nodes the walk stands on
  res,          \* res of set_add, set_remove, set_contains
  val,          \* test()'s value to remove next
  mem, buf,     \* the nodes, and each transaction's own writes
  calls

vars == <<pc, call, mode, k, prev, curr, res, val, mem, buf, txvars, calls>>

Free == [val |-> 0, next |-> Null, used |-> FALSE]
NoCall == [op |-> "contains", args |-> [i \in 1..Multiplier |-> 1]]

\* The lists after main's hm_insert_seq of the values S
Node(v) == NBuckets + v
Follow(S, v, b) ==
  LET later == {w \in S : w > v /\ Sentinel(w) = b}
  IN  IF later = {} THEN Null ELSE Node(CHOOSE w \in later : \A x \in later : w <= x)
Populated(S) == [d \in Data |->
  IF d \in Sentinels THEN [val |-> 0, next |-> Follow(S, 0, d), used |-> TRUE]
  ELSE IF d - NBuckets \in S
       THEN [val |-> d - NBuckets, next |-> Follow(S, d - NBuckets, Sentinel(d - NBuckets)),
             used |-> TRUE]
       ELSE Free]

Init ==
  /\ pc = [t \in Threads |-> "idle"]
  /\ call = [t \in Threads |-> NoCall]
  /\ mode = [t \in Threads |-> "tx"]
  /\ k = [t \in Threads |-> 1]
  /\ prev = [t \in Threads |-> Null] /\ curr = [t \in Threads |-> Null]
  /\ res = [t \in Threads |-> FALSE]
  /\ val = [t \in Threads |-> None]
  /\ \E S \in Initials : mem = Populated(S)
  /\ buf = [t \in Threads |-> [d \in Data |-> Free]]
  /\ NoTransactions
  /\ calls = 0

Goto(t, l) == pc' = [pc EXCEPT ![t] = l]
walk == <<k, prev, curr, res>>
InSection(t) == pc[t] \in {"first", "next", "val", "insert", "unlink", "release"}
Flagged(t) == mode[t] = "flag" /\ InSection(t)
Holding(t) == mode[t] = "lock" /\ InSection(t)

----------------------------------------------------------------------------
(* test(): what the thread does next. *)

Call(t, c) ==
  /\ pc[t] = "idle" /\ calls < MaxCalls
  /\ c.op = "add" => val[t] = None
  /\ c.op = "remove" => c.args[1] = val[t]
  /\ calls' = calls + 1
  /\ call' = [call EXCEPT ![t] = c]
  /\ Goto(t, "acquire")
  /\ UNCHANGED <<mode, walk, val, mem, buf, txvars>>

BugIgnoreRes(t) == IF call[t].op = "add" THEN call[t].args[1] ELSE None
NextVal(t) == IF call[t].op = "add" /\ res[t] THEN call[t].args[1] ELSE None
Return(t) ==
  /\ pc[t] = "done" /\ Goto(t, "idle")
  /\ val' = IF call[t].op = "contains" THEN val ELSE [val EXCEPT ![t] = NextVal(t)]
  /\ res' = [res EXCEPT ![t] = FALSE]
  /\ UNCHANGED <<call, mode, k, prev, curr, mem, buf, txvars, calls>>

----------------------------------------------------------------------------
(* The lock. *)

Acquire(t) ==
  /\ pc[t] = "acquire" /\ Goto(t, "first")
  /\ \A u \in Threads : ~Holding(u)
  /\ \/ mode' = [mode EXCEPT ![t] = "tx"]
        /\ htm' = [htm EXCEPT ![t] = "on"] /\ watch' = [watch EXCEPT ![t] = {Lock}]
     \/ call[t].op = "contains" /\ mode' = [mode EXCEPT ![t] = "flag"] /\ UNCHANGED <<htm, watch>>
     \/ call[t].op # "contains" /\ (\A u \in Threads : ~Flagged(u))
        /\ mode' = [mode EXCEPT ![t] = "lock"]
        /\ htm' = DoomByLockWord(t, Lock) /\ UNCHANGED watch
  /\ UNCHANGED <<call, walk, val, mem, buf, rset, wset, calls>>

\* A transaction that ends leaves no writes behind.
Drop(t) ==
  /\ htm' = [htm EXCEPT ![t] = "off"] /\ TxEnd(t)
  /\ buf' = [buf EXCEPT ![t] = [d \in Data |-> Free]]

TxAbort(t) ==
  /\ htm[t] # "off" /\ Goto(t, "acquire") /\ Drop(t)
  /\ k' = [k EXCEPT ![t] = 1] /\ res' = [res EXCEPT ![t] = FALSE]
  /\ prev' = [prev EXCEPT ![t] = Null] /\ curr' = [curr EXCEPT ![t] = Null]
  /\ UNCHANGED <<call, mode, val, mem, calls>>

\* RELEASE_WRITE_LOCK commits only past every flag; a lookup's END_HTM does not look.
BugIgnoreFlags(t) == TRUE
NoReader(t) == \A u \in Threads : ~Flagged(u)
Release(t) ==
  /\ pc[t] = "release" /\ Live(t) /\ Goto(t, "done")
  /\ mode[t] = "tx" /\ call[t].op # "contains" => NoReader(t)
  /\ mem' = [d \in Data |-> IF d \in wset[t] THEN buf[t][d] ELSE mem[d]]
  /\ Drop(t)
  /\ k' = [k EXCEPT ![t] = 1]
  /\ prev' = [prev EXCEPT ![t] = Null] /\ curr' = [curr EXCEPT ![t] = Null]
  /\ UNCHANGED <<call, mode, res, val, calls>>

----------------------------------------------------------------------------
(* The accesses of a section. *)

View(t, d) == IF d \in wset[t] THEN buf[t][d] ELSE mem[d]
Read(t, d) ==
  /\ Live(t)
  /\ rset' = IF htm[t] = "on" THEN [rset EXCEPT ![t] = @ \union {d}] ELSE rset
  /\ htm' = DoomByRead(t, {d})
  /\ UNCHANGED <<call, mode, val, mem, buf, watch, wset, calls>>
\* new is a function on the addresses written
Write(t, new) ==
  /\ Live(t)
  /\ LET D == DOMAIN new
         Put(m) == [d \in Data |-> IF d \in D THEN new[d] ELSE m[d]]
     IN  /\ htm' = DoomByWrite(t, D)
         /\ IF htm[t] = "on"
            THEN /\ buf' = [buf EXCEPT ![t] = Put(@)]
                 /\ wset' = [wset EXCEPT ![t] = @ \union D] /\ UNCHANGED mem
            ELSE mem' = Put(mem) /\ UNCHANGED <<buf, wset>>
  /\ UNCHANGED <<call, mode, k, prev, curr, val, watch, rset, calls>>

Arg(t) == call[t].args[k[t]]
First(t) ==
  /\ pc[t] = "first" /\ Live(t) /\ Goto(t, "next")
  /\ prev' = [prev EXCEPT ![t] = Sentinel(Arg(t))]
  /\ UNCHANGED <<call, mode, k, curr, res, val, mem, buf, txvars, calls>>

LastLookup(t) == k[t] = Multiplier
\* The walk is over: the value is there or not.
Answer(t, found) ==
  IF call[t].op # "contains" \/ LastLookup(t)
  THEN Goto(t, "release") /\ res' = [res EXCEPT ![t] = found] /\ UNCHANGED k
  ELSE Goto(t, "first") /\ k' = [k EXCEPT ![t] = @ + 1] /\ UNCHANGED res
Stop(t, v) ==   \* v: the value the walk stopped at, or Null at the end
  IF call[t].op = "add"
  THEN Goto(t, IF v = Arg(t) THEN "release" ELSE "insert") /\ UNCHANGED <<k, res>>
  ELSE IF call[t].op = "remove" /\ v = Arg(t)
       THEN Goto(t, "unlink") /\ UNCHANGED <<k, res>>
       ELSE Answer(t, v = Arg(t))

\* curr = prev->m_next
ReadNext(t) ==
  /\ pc[t] = "next" /\ Read(t, prev[t])
  /\ LET n == View(t, prev[t]).next
     IN  /\ curr' = [curr EXCEPT ![t] = n]
         /\ IF n = Null THEN Stop(t, Null) ELSE Goto(t, "val") /\ UNCHANGED <<k, res>>
  /\ UNCHANGED prev

\* curr->m_val, read twice by the code with nothing in between
BugPast(v, arg) == v > arg
Past(v, arg) == v >= arg
ReadVal(t) ==
  /\ pc[t] = "val" /\ Read(t, curr[t])
  /\ LET v == View(t, curr[t]).val
     IN  IF Past(v, Arg(t)) THEN Stop(t, v) /\ UNCHANGED prev
         ELSE Goto(t, "next") /\ prev' = [prev EXCEPT ![t] = curr[t]] /\ UNCHANGED <<k, res>>
  /\ UNCHANGED curr

\* malloc: an address nobody uses, in memory or in a transaction
Malloc(n) == ~mem[n].used /\ \A u \in Threads : n \notin wset[u]
Insert(t) ==
  /\ pc[t] = "insert" /\ Goto(t, "release")
  /\ \E n \in Data :
       /\ Malloc(n)
       /\ Write(t, [d \in {n, prev[t]} |->
            IF d = n THEN [val |-> Arg(t), next |-> curr[t], used |-> TRUE]
            ELSE [View(t, d) EXCEPT !.next = n]])
  /\ res' = [res EXCEPT ![t] = TRUE]

\* The unlinked node is freed, and may be anything from then on.
BugLeak(t) == View(t, curr[t])
Freed(t) == Free
Unlink(t) ==
  /\ pc[t] = "unlink" /\ Goto(t, "release")
  /\ Write(t, [d \in {prev[t], curr[t]} |->
       IF d = prev[t] THEN [View(t, d) EXCEPT !.next = View(t, curr[t]).next] ELSE Freed(t)])
  /\ res' = [res EXCEPT ![t] = TRUE]

----------------------------------------------------------------------------
Set == INSTANCE AtomicSet
         WITH phase <- [t \in Threads |->
                          IF pc[t] = "idle" THEN "idle"
                          ELSE IF pc[t] = "done" \/ (mode[t] = "lock" /\ pc[t] = "release")
                               THEN "done" ELSE "called"],
              result <- [t \in Threads |->
                           (pc[t] = "done" \/ (mode[t] = "lock" /\ pc[t] = "release")) /\ res[t]],
              set <- {mem[d].val : d \in {e \in Data \ Sentinels : mem[e].used}}

Finished ==
  /\ calls = MaxCalls /\ \A t \in Threads : pc[t] = "idle"
  /\ UNCHANGED vars

Next ==
  \/ \E t \in Threads :
       \/ \E c \in Set!Calls : Call(t, c)
       \/ Return(t) \/ Acquire(t) \/ TxAbort(t) \/ Release(t)
       \/ First(t) \/ ReadNext(t) \/ ReadVal(t) \/ Insert(t) \/ Unlink(t)
  \/ Finished

Spec == Init /\ [][Next]_vars

----------------------------------------------------------------------------
(* Properties. *)

Nodes == [val : 0..Range, next : Data \union {Null}, used : BOOLEAN]

\* Every variable keeps its type, and a walk that may still read stands on nodes.
TypeOK ==
  /\ pc \in [Threads -> {"idle", "acquire", "first", "next", "val", "insert", "unlink",
                         "release", "done"}]
  /\ mode \in [Threads -> {"tx", "lock", "flag"}] /\ k \in [Threads -> 1..Multiplier]
  /\ call \in [Threads -> Set!Calls]
  /\ prev \in [Threads -> Data \union {Null}] /\ curr \in [Threads -> Data \union {Null}]
  /\ res \in [Threads -> BOOLEAN] /\ val \in [Threads -> Values \union {None}]
  /\ mem \in [Data -> Nodes] /\ buf \in [Threads -> [Data -> Nodes]]
  /\ htm \in [Threads -> {"off", "on", "doomed"}] /\ watch \in [Threads -> SUBSET {Lock}]
  /\ rset \in [Threads -> SUBSET Data] /\ wset \in [Threads -> SUBSET Data]
  /\ calls \in 0..MaxCalls

\* The lists hold together in memory: every node in use but a sentinel follows
\* exactly one other, of the same bucket and a smaller value; nothing leads to
\* a freed node, and nothing in use is lost.
ListsSound ==
  LET Used == {d \in Data : mem[d].used}
      Bucket(d) == IF d \in Sentinels THEN d ELSE Sentinel(mem[d].val)
  IN  /\ Sentinels \subseteq Used
      /\ \A d \in Used : mem[d].next # Null =>
           /\ mem[d].next \in Used \ Sentinels
           /\ Bucket(mem[d].next) = Bucket(d) /\ mem[d].val < mem[mem[d].next].val
      /\ \A d \in Used \ Sentinels : \E e \in Used : {f \in Used : mem[f].next = d} = {e}

\* Every variable keeps its type and the lists their shape.
WellFormed == TypeOK /\ ListsSound

\* No section that goes on stands on a node that has been freed: not a reader
\* without a transaction while writers unlink nodes and reuse their memory.
NoFreedVisited ==
  \A t \in Threads : Live(t) =>
    /\ pc[t] = "next" => View(t, prev[t]).used
    /\ pc[t] = "val" => View(t, curr[t]).used
    /\ pc[t] \in {"insert", "unlink"} => View(t, prev[t]).used
    /\ pc[t] = "unlink" => View(t, curr[t]).used

\* What a thread removes is there: it added it itself, and only the thread
\* whose add returned one removes a value.
RemoveFinds ==
  \A t \in Threads : pc[t] = "done" /\ call[t].op = "remove" => res[t]

\* Every call takes effect at one moment on one set of values; set_contains
\* answers for the last of its lookups, whose walk is the one that counts.
ImplementsSet == Set!Spec
=============================================================================
