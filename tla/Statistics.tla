----------------------------- MODULE Statistics -----------------------------
(***************************************************************************)
(* The book the backends keep around a section: counters per thread        *)
(* (padded_statistics), the time stamps, the average length of a section   *)
(* type (avg_cycles), the announced ends (clocks_w, clocks_r) that the     *)
(* waiting functions of 10.04, 10.05, 10.1 and 10.2 look at, and the       *)
(* totals TM_SHUTDOWN prints.  now is the time stamp counter.  The lock's  *)
(* own words are SpRWL's: here sections overlap as they like, and a        *)
(* writer's transaction can be aborted for a reader only while one is in   *)
(* its section.  A step is one access to a shared word together with the   *)
(* thread's own bookkeeping before or after it; what a thread will not     *)
(* look at again is reset.                                                 *)
(***************************************************************************)
EXTENDS Integers, FiniteSetsExt

CONSTANTS
  N,          \* local_num_threads; thread 1 is local_thread_id 0
  Types,      \* t_type
  MaxTries,   \* HTM_RETRIES
  Boot,       \* the counter when the program starts
  WordMod,    \* 2^64, what an unsigned long long wraps at
  Horizon,    \* bound: ticks before the threads must be left to end
  MaxCalls,   \* bound: sections started
  Variants    \* the backends checked

ASSUME ConstantsAssumption == N \in Nat \ {0} /\ MaxTries \in Nat /\ MaxCalls \in Nat
\* The counter runs from power-on: longer than the program does.
ASSUME BootAssumption ==
  /\ Boot \in Nat /\ Horizon \in Nat /\ Boot > 2 * Horizon /\ WordMod > Boot + 2 * Horizon

Threads == 1..N

VARIABLES
  variant,            \* the backend
  now, pc, type, tries, calls,
  idx, best, waited,  \* index, writer_start or wait, waited_thread (plus one)
  start, latency,     \* time stamps of statistics_array
  clocks_w, clocks_r, is_waiting, avg,    \* struct spec_rwlock
  stats,              \* counters of statistics_array
  longest,            \* history: the longest section ended
  printed             \* what TM_SHUTDOWN printed, or NotYet

clocks == <<clocks_w, clocks_r, is_waiting, avg>>
book == <<stats, longest, printed>>
vars == <<variant, now, pc, type, tries, calls, idx, best, waited, start, latency,
          clocks, book>>

NonVariant == variant \in {"10.05", "10.1"}     \* NON_VARIANT is defined
Counters == {"htm", "lock", "uro", "reads", "writes", "readers", "other", "rest",
             "rtime", "wtime", "rlat", "wlat"}
NotYet == [reads |-> -1]     \* no program prints that

Init ==
  /\ variant \in Variants
  /\ now = Boot
  /\ pc = [t \in Threads |-> "idle"]
  /\ type \in [Threads -> Types]
  /\ tries = [t \in Threads |-> MaxTries]
  /\ calls = 0
  /\ idx = [t \in Threads |-> 1]
  /\ best = [t \in Threads |-> 0] /\ waited = [t \in Threads |-> 0]
  /\ start = [t \in Threads |-> 0] /\ latency = [t \in Threads |-> 0]
  /\ clocks_w = [t \in Threads |-> 0] /\ clocks_r = [t \in Threads |-> 0]
  /\ is_waiting = [t \in Threads |-> 0]
  /\ avg = [y \in Types |-> 0]
  /\ stats = [t \in Threads |-> [c \in Counters |-> 0]]
  /\ longest = 0 /\ printed = NotYet

Goto(t, from, to) == pc[t] = from /\ pc' = [pc EXCEPT ![t] = to]
Add(t, c, n) == stats' = [stats EXCEPT ![t][c] = @ + n]
Count(t, c) == Add(t, c, 1) /\ UNCHANGED <<longest, printed>>
loop == <<idx, best, waited>>
stamps == <<start, latency>>
Fixed == UNCHANGED <<variant, now>>

----------------------------------------------------------------------------
(* Time stamps and announced ends. *)

MayCall == calls < MaxCalls /\ now < Boot + Horizon
\* START_LATENCY, in both acquire macros
Call(t, o, y) ==
  /\ MayCall /\ Goto(t, "idle", o)
  /\ calls' = calls + 1
  /\ type' = [type EXCEPT ![t] = y]
  /\ latency' = [latency EXCEPT ![t] = now]
  /\ Fixed /\ UNCHANGED <<tries, loop, start, clocks, book>>

\* START_RDTSC_W2, before an attempt and again under the lock
WStart(t) ==
  /\ Goto(t, "w_start", "w_try") \/ Goto(t, "w_start2", "w_lock")
  /\ start' = [start EXCEPT ![t] = now]
  /\ clocks_w' = [clocks_w EXCEPT ![t] = now + avg[type[t]]]
  /\ Fixed
  /\ UNCHANGED <<type, tries, calls, loop, latency, clocks_r, is_waiting, avg, book>>

\* START_RDTSC_R2 of a reader that runs without a transaction
RStart(t) ==
  /\ Goto(t, "r_start", "r_section")
  /\ start' = [start EXCEPT ![t] = now]
  /\ clocks_r' = [clocks_r EXCEPT ![t] = now + avg[type[t]]]
  /\ best' = [best EXCEPT ![t] = 0] /\ waited' = [waited EXCEPT ![t] = 0]
  /\ Fixed
  /\ UNCHANGED <<type, tries, calls, idx, latency, clocks_w, is_waiting, avg, book>>

\* A speculating reader takes its stamp inside the transaction: its announced
\* end shows when it commits.
RBegin(t) ==
  /\ Goto(t, "r_try", "r_tx")
  /\ start' = [start EXCEPT ![t] = now]
  /\ Fixed /\ UNCHANGED <<type, tries, calls, loop, latency, clocks, book>>
RCommit(t) ==
  /\ ~NonVariant /\ Goto(t, "r_tx", "r_clear")
  /\ clocks_r' = [clocks_r EXCEPT ![t] = start[t] + avg[type[t]]]
  /\ Count(t, "htm")
  /\ Fixed /\ UNCHANGED <<type, tries, calls, loop, stamps, clocks_w, is_waiting, avg>>

\* avg_cycles once thread t has measured time: only local_thread_id 0 writes it
BugWeight(old, n, time) == (old * (n + 1) + time) \div (n + 1)
Weighted(old, n, time) == (old * n + time) \div (n + 1)
Smoothed(old, time) == (old * 19 + time) \div 20
Average(t, n, time) ==
  IF t # 1 THEN avg
  ELSE [avg EXCEPT ![type[t]] = IF variant \in {"10.1", "10.2"} THEN Weighted(@, n, time)
                                ELSE Smoothed(@, time)]
\* A reader's transaction has read the average it announced its end by.
Doomed(t, u) == pc[u] = "r_tx" /\ t = 1 /\ type[u] = type[t]

\* What END_RDTSC_R and _W and TM_END_MUT add for a section that took time
Section(t, n, sum, lat) ==
  /\ stats' = [stats EXCEPT ![t][n] = @ + 1, ![t][sum] = @ + (now - start[t]),
                            ![t][lat] = @ + (now - latency[t])]
  /\ longest' = IF now - start[t] > longest THEN now - start[t] ELSE longest
  /\ UNCHANGED printed
Rest(t) ==
  /\ start' = [start EXCEPT ![t] = 0] /\ latency' = [latency EXCEPT ![t] = 0]
  /\ tries' = [tries EXCEPT ![t] = MaxTries]
  /\ Fixed /\ UNCHANGED <<type, calls, loop, clocks_w, clocks_r, is_waiting>>
Ended(t) ==
  pc' = [u \in Threads |-> IF u = t THEN "idle" ELSE IF Doomed(t, u) THEN "r_doomed" ELSE pc[u]]

\* RELEASE_WRITE_LOCK: the commit is counted and the announcement withdrawn;
\* END_RDTSC_W2 then measures the section.
WCommit(t) ==
  /\ \/ Goto(t, "w_try", "w_end") /\ Count(t, "htm")
     \/ Goto(t, "w_lock", "w_end") /\ Count(t, "lock")
  /\ clocks_w' = [clocks_w EXCEPT ![t] = 0]
  /\ Fixed /\ UNCHANGED <<type, tries, calls, loop, stamps, clocks_r, is_waiting, avg>>
WEnd(t) ==
  /\ pc[t] = "w_end" /\ Ended(t)
  /\ avg' = Average(t, stats[t]["writes"], now - start[t])
  /\ Section(t, "writes", "wtime", "wlat") /\ Rest(t)

\* RELEASE_READ_LOCK of a reader without a transaction
BugBoth(t) == stats' = [stats EXCEPT ![t]["uro"] = @ + 1, ![t]["htm"] = @ + 1]
              /\ UNCHANGED <<longest, printed>>
CountRead(t) == Count(t, "uro")
RRelease(t) ==
  /\ ~NonVariant /\ Goto(t, "r_section", "r_end") /\ CountRead(t)
  /\ clocks_r' = [clocks_r EXCEPT ![t] = 0]
  /\ Fixed /\ UNCHANGED <<type, tries, calls, loop, stamps, clocks_w, is_waiting, avg>>
RClear(t) ==      \* of one that committed a transaction
  /\ Goto(t, "r_clear", "r_end")
  /\ clocks_r' = [clocks_r EXCEPT ![t] = 0]
  /\ Fixed /\ UNCHANGED <<type, tries, calls, loop, stamps, clocks_w, is_waiting, avg, book>>
REnd(t) ==
  /\ pc[t] = "r_end" /\ Ended(t)
  /\ avg' = Average(t, stats[t]["reads"], now - start[t])
  /\ Section(t, "reads", "rtime", "rlat") /\ Rest(t)

\* NON_VARIANT's release of a reader calls END_RDTSC_R: no average, and the
\* announced end stays.
RReleasePlain(t) ==
  /\ NonVariant /\ Goto(t, "r_section", "r_plain") /\ CountRead(t)
  /\ Fixed /\ UNCHANGED <<type, tries, calls, loop, stamps, clocks>>
REndPlain(t) ==
  /\ Goto(t, "r_plain", "idle")
  /\ Section(t, "reads", "rtime", "rlat") /\ Rest(t) /\ UNCHANGED avg

----------------------------------------------------------------------------
(* Aborts. *)

\* A round of READER_WAIT_FUNCTION starts at is_waiting, which 10.04 does not use.
ReaderRound == IF variant = "10.04" THEN "r_look" ELSE "r_scan"

\* USE_HTM: the rest of the round after an abort leaves b tries
Retry(t, b) ==
  /\ tries' = [tries EXCEPT ![t] = b]
  /\ pc' = [pc EXCEPT ![t] =
       IF pc[t] \in {"w_try", "w_delay"} THEN IF b > 0 THEN "w_start" ELSE "w_start2"
       ELSE IF b > 0 THEN "r_try" ELSE ReaderRound]
  /\ idx' = [idx EXCEPT ![t] = 1] /\ best' = [best EXCEPT ![t] = 0]
  /\ waited' = [waited EXCEPT ![t] = 0]

\* The counters of capacity, conflict, explicit, retry and nesting aborts are
\* one here, "rest"; a capacity abort may spend every try.
TxAbort(t) ==
  /\ pc[t] \in {"w_try", "r_tx", "r_doomed"}
  /\ \E c \in {"other", "rest"} : Count(t, c)
  /\ \E b \in {tries[t] - 1, 0} : Retry(t, b)
  /\ Fixed /\ UNCHANGED <<type, calls, stamps, clocks>>

\* ABORT_HTM(90): a reader is in its section; WRITER_WAIT_FUNCTION follows
ReaderAbort(t) ==
  /\ pc[t] = "w_try" /\ (\E u \in Threads : pc[u] \in {"r_start", "r_section"})
  /\ Count(t, "readers")
  /\ IF variant \in {"10.1", "10.2"}
     THEN pc' = [pc EXCEPT ![t] = "w_look"] /\ UNCHANGED <<tries, loop>>
     ELSE Retry(t, tries[t] - 1)
  /\ Fixed /\ UNCHANGED <<type, calls, stamps, clocks>>

----------------------------------------------------------------------------
(* WRITER_WAIT_FUNCTION: until about the last reader's announced end. *)

\* The next round of a loop over the threads; "then" follows the last one.
Round(t) == idx' = [idx EXCEPT ![t] = IF @ = N THEN 1 ELSE @ + 1]
AfterRound(t, again, then) == IF idx[t] < N THEN again ELSE then

\* A look at clocks_r aborts the transaction of the reader that is writing it.
Aborting(t, to) ==
  pc' = [pc EXCEPT ![t] = to, ![idx[t]] = IF pc[idx[t]] = "r_tx" THEN "r_doomed" ELSE @]

\* The clock is tested, then loaded again: what is taken may be earlier, or none.
WLook(t) ==
  /\ pc[t] = "w_look"
  /\ IF clocks_r[idx[t]] > best[t] THEN Aborting(t, "w_take") /\ UNCHANGED idx
     ELSE Aborting(t, AfterRound(t, "w_look", "w_adjust")) /\ Round(t)
  /\ Fixed /\ UNCHANGED <<type, tries, calls, best, waited, stamps, clocks, book>>
WTake(t) ==
  /\ pc[t] = "w_take" /\ Aborting(t, AfterRound(t, "w_look", "w_adjust")) /\ Round(t)
  /\ best' = [best EXCEPT ![t] = clocks_r[idx[t]]]
  /\ Fixed /\ UNCHANGED <<type, tries, calls, waited, stamps, clocks, book>>

BugAdd(b, a) == b + a
Early(b, a) == b - (IF variant = "10.1" THEN a \div 2 ELSE a)
WAdjust(t) ==
  /\ Goto(t, "w_adjust", "w_delay")
  /\ best' = [best EXCEPT ![t] = IF @ = 0 THEN 0 ELSE Early(@, avg[type[t]])]
  /\ Fixed /\ UNCHANGED <<type, tries, calls, idx, waited, stamps, clocks, book>>

\* rdtsc() < wait compares unsigned: a negative wait is a huge one.
Unsigned(x) == IF x < 0 THEN x + WordMod ELSE x
Due(t) == now >= Unsigned(best[t])
WDelay(t) ==
  /\ pc[t] = "w_delay" /\ Due(t) /\ Retry(t, tries[t] - 1)
  /\ Fixed /\ UNCHANGED <<type, calls, stamps, clocks, book>>

----------------------------------------------------------------------------
(* READER_WAIT_FUNCTION. *)

\* What follows a round that leaves the writer's end b
AfterLook(t, b) ==
  AfterRound(t, ReaderRound,
             IF b = 0 THEN "r_start" ELSE IF variant = "10.04" THEN "r_wait" ELSE "r_mark")

\* all but 10.04: a reader that waits already decides for the rest
RScan(t) ==
  /\ pc[t] = "r_scan"
  /\ LET w == is_waiting[idx[t]]
     IN  \/ w = 0 /\ pc' = [pc EXCEPT ![t] = "r_look"] /\ UNCHANGED loop
         \/ /\ w # 0 /\ pc' = [pc EXCEPT ![t] = "r_mark"]
            /\ best' = [best EXCEPT ![t] = 1] /\ waited' = [waited EXCEPT ![t] = w]
            /\ idx' = [idx EXCEPT ![t] = 1]
  /\ Fixed /\ UNCHANGED <<type, tries, calls, stamps, clocks, book>>

\* The writer that announced the latest end: its clock, too, is loaded twice.
RLook(t) ==
  /\ pc[t] = "r_look"
  /\ \/ clocks_w[idx[t]] > best[t] /\ pc' = [pc EXCEPT ![t] = "r_take"] /\ UNCHANGED idx
     \/ /\ clocks_w[idx[t]] <= best[t] /\ Round(t)
        /\ pc' = [pc EXCEPT ![t] = AfterLook(t, best[t])]
  /\ Fixed /\ UNCHANGED <<type, tries, calls, best, waited, stamps, clocks, book>>
RTake(t) ==
  /\ pc[t] = "r_take" /\ pc' = [pc EXCEPT ![t] = AfterLook(t, clocks_w[idx[t]])]
  /\ best' = [best EXCEPT ![t] = clocks_w[idx[t]]]
  /\ waited' = [waited EXCEPT ![t] = idx[t]] /\ Round(t)
  /\ Fixed /\ UNCHANGED <<type, tries, calls, stamps, clocks, book>>

SetWaiting(t, w) ==
  /\ is_waiting' = [is_waiting EXCEPT ![t] = w]
  /\ Fixed
  /\ UNCHANGED <<type, tries, calls, loop, stamps, clocks_w, clocks_r, avg, book>>
RMark(t) == Goto(t, "r_mark", "r_wait") /\ SetWaiting(t, waited[t])
BugStayMarked(t) == Goto(t, "r_unmark", "r_start") /\ SetWaiting(t, waited[t])
RUnmark(t) == Goto(t, "r_unmark", "r_start") /\ SetWaiting(t, 0)
RWait(t) ==
  /\ Goto(t, "r_wait", IF variant = "10.04" THEN "r_start" ELSE "r_unmark")
  /\ clocks_w[waited[t]] = 0
  /\ Fixed /\ UNCHANGED <<type, tries, calls, loop, stamps, clocks, book>>

----------------------------------------------------------------------------
(* TM_SHUTDOWN, when every thread has returned from its operations. *)

Sum(c) == MapThenSumSet(LAMBDA t : stats[t][c], Threads)
HtmAborts == Sum("rest") + Sum("other") + Sum("other") + Sum("readers")
Mean(sum, n) == IF n = 0 THEN sum ELSE sum \div n
BugTotals == [reads |-> Sum("reads"), writes |-> Sum("writes"), htm |-> Sum("htm"),
              lock |-> Sum("lock"), uro |-> Sum("uro"), aborts |-> HtmAborts,
              rtime |-> Mean(Sum("rtime"), Sum("reads")), rlat |-> Mean(Sum("rlat"), Sum("writes")),
              wtime |-> Mean(Sum("wtime"), Sum("writes")), wlat |-> Mean(Sum("wlat"), Sum("reads"))]
Totals == [reads |-> Sum("reads"), writes |-> Sum("writes"), htm |-> Sum("htm"),
           lock |-> Sum("lock"), uro |-> Sum("uro"), aborts |-> HtmAborts,
           rtime |-> Mean(Sum("rtime"), Sum("reads")), rlat |-> Mean(Sum("rlat"), Sum("reads")),
           wtime |-> Mean(Sum("wtime"), Sum("writes")), wlat |-> Mean(Sum("wlat"), Sum("writes"))]
Returned == ~MayCall /\ \A t \in Threads : pc[t] = "idle"
Shutdown ==
  /\ Returned /\ printed = NotYet /\ printed' = Totals
  /\ Fixed /\ UNCHANGED <<pc, type, tries, calls, loop, stamps, clocks, stats, longest>>

----------------------------------------------------------------------------
\* Time passes; past the horizon only while a delay is not over.
Tick ==
  /\ now < Boot + Horizon \/ (\E t \in Threads : pc[t] = "w_delay" /\ ~Due(t))
  /\ now' = now + 1
  /\ UNCHANGED <<variant, pc, type, tries, calls, loop, stamps, clocks, book>>

Run(t) ==
  \/ WStart(t) \/ RStart(t) \/ RBegin(t) \/ RCommit(t) \/ WCommit(t) \/ WEnd(t)
  \/ RRelease(t) \/ RClear(t) \/ REnd(t) \/ RReleasePlain(t) \/ REndPlain(t)
  \/ WLook(t) \/ WTake(t) \/ WAdjust(t) \/ WDelay(t)
  \/ RScan(t) \/ RLook(t) \/ RTake(t) \/ RMark(t) \/ RUnmark(t) \/ RWait(t)

Done == printed # NotYet /\ UNCHANGED vars
Next ==
  \/ \E t \in Threads :
       \/ \E o \in {"w_start", "r_try"}, y \in Types : Call(t, o, y)
       \/ TxAbort(t) \/ ReaderAbort(t) \/ Run(t)
  \/ Tick \/ Shutdown \/ Done

Spec == Init /\ [][Next]_vars

----------------------------------------------------------------------------
(* Properties. *)

Labels == {"idle", "w_start", "w_try", "w_start2", "w_lock", "w_end",
           "w_look", "w_take", "w_adjust", "w_delay", "r_try", "r_tx", "r_doomed",
           "r_scan", "r_look", "r_take", "r_mark", "r_wait", "r_unmark", "r_start",
           "r_section", "r_clear", "r_end", "r_plain"}

\* Every variable keeps its type, loop indices their arrays; a thread's mark is
\* up exactly while it waits; only NON_VARIANT's readers leave a clock behind.
TypeOK ==
  /\ variant \in Variants /\ now \in Nat /\ pc \in [Threads -> Labels]
  /\ type \in [Threads -> Types] /\ tries \in [Threads -> -1..MaxTries] /\ calls \in 0..MaxCalls
  /\ idx \in [Threads -> Threads] /\ best \in [Threads -> Int] /\ waited \in [Threads -> 0..N]
  /\ start \in [Threads -> 0..now] /\ latency \in [Threads -> 0..now]
  /\ clocks_w \in [Threads -> Nat] /\ clocks_r \in [Threads -> Nat]
  /\ is_waiting \in [Threads -> 0..N] /\ avg \in [Types -> Nat]
  /\ stats \in [Threads -> [Counters -> Nat]] /\ longest \in Nat
  /\ \A t \in Threads :
       /\ pc[t] \in {"r_mark", "r_wait"} => waited[t] # 0
       /\ is_waiting[t] # 0 <=> (pc[t] \in {"r_wait", "r_unmark"} /\ variant # "10.04")
       /\ clocks_r[t] # 0 => NonVariant \/ pc[t] \in {"r_section", "r_clear"}

\* A section that has run is counted once by the way it ran and once as a read or
\* a write: between the two counters of TM_END's macros it is the only one owed.
EveryCommitCounted ==
  \A t \in Threads :
    stats[t]["htm"] + stats[t]["lock"] + stats[t]["uro"]
      = stats[t]["reads"] + stats[t]["writes"]
        + (IF pc[t] \in {"w_end", "r_clear", "r_end", "r_plain"}
           THEN 1 ELSE 0)

\* The totals printed agree: the sections of each kind are the commits of each
\* way, and no section took longer, on the average, than from its first call.
PrintedAgrees ==
  printed # NotYet =>
    /\ printed.htm + printed.lock + printed.uro = printed.reads + printed.writes
    /\ printed.rtime <= printed.rlat /\ printed.wtime <= printed.wlat

\* An average of lengths stays within the longest one, whatever weights the
\* sections of other types contribute through the thread's commit counters.
AvgBounded == \A y \in Types : avg[y] <= longest

\* A writer that waits for readers waits until a time that is not before zero,
\* where the unsigned comparison would make it wait for ever, and not further
\* ahead than a longest section: also by a clock that a reader left behind.
DelayBounded ==
  \A t \in Threads : pc[t] = "w_delay" => best[t] >= 0 /\ best[t] <= now + longest
=============================================================================
