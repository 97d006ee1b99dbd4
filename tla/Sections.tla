------------------------------ MODULE Sections ------------------------------
(***************************************************************************)
(* The critical sections of the simpler locks, which hold a lock or a      *)
(* transaction all through: between an acquire and a release macro a write *)
(* section reads and increments each of the words Data, in order, and a    *)
(* read section reads them.  A lock module supplies the acquire and the    *)
(* release.                                                                *)
(***************************************************************************)
EXTENDS Transactions

CONSTANT MaxOps   \* bound: sections per thread

VARIABLES
  pc,             \* where each thread is
  op,             \* "read" or "write": ro of TM_BEGIN_EXT
  done,           \* sections each thread has completed
  idx,            \* index of the loop the thread is in
  seen,           \* the values the thread's section read
  mem,            \* the protected data
  commits         \* history: write sections completed

progress == <<op, done>>
data == <<seen, mem, commits>>

Sections ==
  /\ pc = [t \in Threads |-> "idle"]
  /\ op = [t \in Threads |-> "read"]
  /\ done = [t \in Threads |-> 0]
  /\ idx = [t \in Threads |-> 1]
  /\ seen = [t \in Threads |-> [d \in Data |-> 0]]
  /\ mem = [d \in Data |-> 0]
  /\ commits = 0

Goto(t, l) == pc' = [pc EXCEPT ![t] = l]
Jump(t, from, to) == pc[t] = from /\ Goto(t, to)

\* A round of a for loop is over: on to the next at again, or out of the loop
EndRound(t, last, again, out) ==
  /\ idx' = [idx EXCEPT ![t] = IF last THEN 1 ELSE @ + 1]
  /\ Goto(t, IF last THEN out ELSE again)

\* TM_BEGIN_MUT
Begin(t, o, l) ==
  /\ done[t] < MaxOps /\ Jump(t, "idle", l)
  /\ op' = [op EXCEPT ![t] = o]
  /\ UNCHANGED <<done, idx, data>>

\* TM_END_MUT
End(t, from) ==
  /\ Jump(t, from, "idle")
  /\ done' = [done EXCEPT ![t] = @ + 1]
  /\ UNCHANGED <<op, idx, data>>

Load(t) ==
  /\ Live(t)
  /\ seen' = [seen EXCEPT ![t][idx[t]] = mem[idx[t]]]
  /\ rset' = IF htm[t] = "on" THEN [rset EXCEPT ![t] = @ \union {idx[t]}] ELSE rset
  /\ htm' = DoomByRead(t, {idx[t]})
  /\ UNCHANGED <<progress, mem, commits, watch, wset>>

Store(t) ==
  /\ Live(t)
  /\ wset' = IF htm[t] = "on" THEN [wset EXCEPT ![t] = @ \union {idx[t]}] ELSE wset
  /\ mem' = IF htm[t] = "on" THEN mem ELSE [mem EXCEPT ![idx[t]] = seen[t][idx[t]] + 1]
  /\ htm' = DoomByWrite(t, {idx[t]})
  /\ UNCHANGED <<progress, seen, commits, watch, rset>>

ReadSection(t, l) == pc[t] = "r_read" /\ Load(t) /\ EndRound(t, idx[t] = NData, "r_read", l)
WriteSection(t, l) ==
  \/ Jump(t, "w_read", "w_write") /\ Load(t) /\ UNCHANGED idx
  \/ pc[t] = "w_write" /\ Store(t) /\ EndRound(t, idx[t] = NData, "w_read", l)
=============================================================================
