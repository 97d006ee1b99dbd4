--------------------------- MODULE StatisticsProof ---------------------------
(***************************************************************************)
(* Theorems about Statistics, for any number of threads, section types,    *)
(* retries and calls, and every variant.                                   *)
(***************************************************************************)
EXTENDS Statistics, FiniteSetTheorems, WellFoundedInduction, TLAPS

\* Abbreviations of the steps are read as they stand.
USE DEF Goto, Add, Count, Fixed, loop, stamps, clocks, book, Rest, Ended, Section, CountRead,
        SetWaiting, Round, AfterRound, Aborting, ReaderRound, AfterLook

----------------------------------------------------------------------------
(* Averages. *)

\* An average of numbers up to m is at most m.
LEMMA Quotient ==
  ASSUME NEW a \in Nat, NEW b \in Nat, b > 0, NEW m \in Nat, a <= m * b
  PROVE  a \div b \in Nat /\ a \div b <= m
<1>1. a \div b \in Int /\ b * (a \div b) <= a /\ a < b * (a \div b) + b
  OBVIOUS
<1>. QED
  BY <1>1

\* Either average of an average and a length is between the two.
LEMMA AverageBound ==
  ASSUME NEW old \in Nat, NEW n \in Nat, NEW time \in Nat, NEW m \in Nat, old <= m, time <= m
  PROVE  /\ Weighted(old, n, time) \in Nat /\ Weighted(old, n, time) <= m
         /\ Smoothed(old, time) \in Nat /\ Smoothed(old, time) <= m
<1>1. old * n \in Nat /\ m * (n + 1) \in Nat
  OBVIOUS
<1>2. old * n <= m * n /\ m * (n + 1) = m * n + m
  OBVIOUS
<1>3. old * n + time <= m * (n + 1)
  BY <1>1, <1>2
<1>4. Weighted(old, n, time) \in Nat /\ Weighted(old, n, time) <= m
  BY <1>1, <1>3, Quotient DEF Weighted
<1>. QED
  BY <1>4 DEF Smoothed

\* A writer's delay ends early by no more than the average it is shortened by.
LEMMA EarlyType ==
  ASSUME NEW b \in Int, NEW a \in Nat
  PROVE  Early(b, a) \in Int /\ Early(b, a) <= b /\ Early(b, a) >= b - a
BY DEF Early

----------------------------------------------------------------------------
(* Types. *)

\* The conjuncts of TypeOK that say what the words hold, and those that say
\* when.
WordTypes ==
  /\ variant \in Variants /\ now \in Nat /\ pc \in [Threads -> Labels]
  /\ type \in [Threads -> Types] /\ tries \in [Threads -> -1..MaxTries] /\ calls \in 0..MaxCalls
  /\ idx \in [Threads -> Threads] /\ best \in [Threads -> Int] /\ waited \in [Threads -> 0..N]
  /\ start \in [Threads -> 0..now] /\ latency \in [Threads -> 0..now]
  /\ clocks_w \in [Threads -> Nat] /\ clocks_r \in [Threads -> Nat]
  /\ is_waiting \in [Threads -> 0..N] /\ avg \in [Types -> Nat]
  /\ stats \in [Threads -> [Counters -> Nat]] /\ longest \in Nat
MarksOf(t) ==
  /\ pc[t] \in {"r_mark", "r_wait"} => waited[t] # 0
  /\ is_waiting[t] # 0 <=> (pc[t] \in {"r_wait", "r_unmark"} /\ variant # "10.04")
  /\ clocks_r[t] # 0 => NonVariant \/ pc[t] \in {"r_section", "r_clear"}
Marks == \A t \in Threads : MarksOf(t)

\* A thread that attempts a transaction has tries, or had none to start with;
\* a reader of 10.04 marks nothing, and one that has found an end knows whose.
AttemptsOf(t) ==
  /\ pc[t] \in {"idle", "w_start", "w_try", "w_look", "w_take", "w_adjust", "w_delay",
                "r_try", "r_tx", "r_doomed"} => tries[t] >= 0
  /\ pc[t] \in {"r_scan", "r_mark", "r_unmark"} => variant # "10.04"
  /\ pc[t] \in {"r_scan", "r_look"} /\ best[t] # 0 => waited[t] # 0
Attempts == \A t \in Threads : AttemptsOf(t)

Typed == WordTypes /\ Marks /\ Attempts

\* One thread's step
Step(t) ==
  \/ \E o \in {"w_start", "r_try"}, y \in Types : Call(t, o, y)
  \/ TxAbort(t) \/ ReaderAbort(t) \/ Run(t)

\* Counting a section keeps the types.
LEMMA SectionTypes ==
  ASSUME stats \in [Threads -> [Counters -> Nat]], NEW t \in Threads,
         start[t] \in 0..now, latency[t] \in 0..now, now \in Nat, longest \in Nat,
         NEW n \in Counters, NEW sum \in Counters, NEW lat \in Counters, Section(t, n, sum, lat)
  PROVE  stats' \in [Threads -> [Counters -> Nat]] /\ longest' \in Nat
<1>1. now - start[t] \in Nat /\ now - latency[t] \in Nat
  OBVIOUS
<1>2. longest' \in Nat
  BY <1>1
<1>3. stats' \in [Threads -> [Counters -> Nat]]
  <2>. DEFINE new == [stats[t] EXCEPT ![n] = @ + 1, ![sum] = @ + (now - start[t]),
                                      ![lat] = @ + (now - latency[t])]
  <2>1. new \in [Counters -> Nat]
    BY <1>1
  <2>2. stats' = [stats EXCEPT ![t] = new]
    OBVIOUS
  <2>. QED
    BY <2>1, <2>2
<1>. QED
  BY <1>2, <1>3

\* Counting an event keeps the types.
LEMMA CountTypes ==
  ASSUME stats \in [Threads -> [Counters -> Nat]], NEW t \in Threads, NEW c \in Counters, Count(t, c)
  PROVE  stats' \in [Threads -> [Counters -> Nat]]
OBVIOUS

\* The running average stays a natural number.
LEMMA AverageTypes ==
  ASSUME WordTypes, NEW t \in Threads, NEW c \in Counters,
         avg' = Average(t, stats[t][c], now - start[t])
  PROVE  avg' \in [Types -> Nat]
<1>1. now - start[t] \in Nat /\ stats[t][c] \in Nat /\ type[t] \in Types /\ avg[type[t]] \in Nat
  BY DEF WordTypes
<1>2. \E m \in Nat : avg[type[t]] <= m /\ now - start[t] <= m
  BY <1>1
<1>3. /\ Weighted(avg[type[t]], stats[t][c], now - start[t]) \in Nat
      /\ Smoothed(avg[type[t]], now - start[t]) \in Nat
  BY <1>1, <1>2, AverageBound
<1>. QED
  BY <1>3 DEF Average, WordTypes

\* The types hold at the start.
LEMMA TypedInit == Init => Typed
<1>. SUFFICES ASSUME Init PROVE Typed
  OBVIOUS
<1>1. WordTypes
  BY ConstantsAssumption, BootAssumption DEF Init, WordTypes, Threads, Labels
<1>2. Marks /\ Attempts
  BY ConstantsAssumption DEF Init, Marks, MarksOf, Attempts, AttemptsOf
<1>. QED
  BY <1>1, <1>2 DEF Typed

\* An attempt that failed keeps the types.
LEMMA RetryTypes ==
  ASSUME WordTypes, Attempts, NEW t \in Threads,
         pc[t] \in {"w_try", "w_delay", "r_tx", "r_doomed"},
         NEW b \in {tries[t] - 1, 0}, Retry(t, b)
  PROVE  /\ pc' \in [Threads -> Labels] /\ tries' \in [Threads -> -1..MaxTries]
         /\ idx' \in [Threads -> Threads] /\ best' \in [Threads -> Int]
         /\ waited' \in [Threads -> 0..N]
<1>1. tries[t] \in -1..MaxTries /\ tries[t] >= 0
  BY DEF WordTypes, Attempts, AttemptsOf
<1>2. b \in -1..MaxTries /\ 1 \in Threads /\ 0 \in 0..N
  BY <1>1, ConstantsAssumption DEF Threads
<1>. QED
  BY <1>2 DEF Retry, WordTypes, Labels

\* A step keeps what the words hold.
LEMMA WordTypesStep ==
  ASSUME Typed, NEW t \in Threads, Step(t)
  PROVE  WordTypes'
<1>. USE DEF Typed, WordTypes
<1>0. /\ now \in Nat /\ now \in 0..now /\ 0 \in 0..now /\ 1 \in Threads /\ 0 \in 0..N
      /\ MaxTries \in -1..MaxTries /\ N \in Nat /\ N >= 1
      /\ \A u \in Threads : u \in 0..N /\ (u # N => u + 1 \in Threads)
  BY ConstantsAssumption DEF Threads
<1>00. /\ now + avg[type[t]] \in Nat /\ start[t] + avg[type[t]] \in Nat
       /\ now - start[t] \in Nat
  BY <1>0
<1>1. ASSUME NEW o \in {"w_start", "r_try"}, NEW y \in Types, Call(t, o, y)
      PROVE  WordTypes'
  <2>1. calls + 1 \in 0..MaxCalls
    BY <1>1, ConstantsAssumption DEF Call, MayCall
  <2>. QED
    BY <1>0, <1>1, <2>1 DEF Call, Labels
<1>2. CASE WStart(t)
  BY <1>0, <1>00, <1>2 DEF WStart, Labels
<1>3. CASE RStart(t)
  BY <1>0, <1>00, <1>3 DEF RStart, Labels
<1>4. CASE RBegin(t)
  BY <1>0, <1>4 DEF RBegin, Labels
<1>5. CASE RCommit(t)
  <2>1. stats' \in [Threads -> [Counters -> Nat]]
    BY <1>5, CountTypes DEF RCommit, Counters
  <2>. QED
    BY <1>0, <1>00, <1>5, <2>1 DEF RCommit, Labels
<1>6. CASE WCommit(t)
  <2>1. stats' \in [Threads -> [Counters -> Nat]]
    BY <1>6, CountTypes DEF WCommit, Counters
  <2>2. pc' \in [Threads -> Labels] /\ clocks_w' \in [Threads -> Nat]
    BY <1>6 DEF WCommit, Labels
  <2>3. UNCHANGED <<variant, now, type, tries, calls, idx, best, waited, start, latency, clocks_r,
                    is_waiting, avg, longest>>
    BY <1>6 DEF WCommit
  <2>. QED
    BY <2>1, <2>2, <2>3
<1>7. CASE WEnd(t) \/ REnd(t)
  <2>1. avg' \in [Types -> Nat]
    BY <1>7, AverageTypes DEF WEnd, REnd, Counters
  <2>2. stats' \in [Threads -> [Counters -> Nat]] /\ longest' \in Nat
    BY <1>7, SectionTypes DEF WEnd, REnd, Counters
  <2>3. pc' \in [Threads -> Labels]
    BY <1>7 DEF WEnd, REnd, Labels
  <2>4. /\ start' \in [Threads -> 0..now] /\ latency' \in [Threads -> 0..now]
        /\ tries' \in [Threads -> -1..MaxTries]
    <3>1. /\ start' = [start EXCEPT ![t] = 0] /\ latency' = [latency EXCEPT ![t] = 0]
          /\ tries' = [tries EXCEPT ![t] = MaxTries]
      BY <1>7 DEF WEnd, REnd
    <3>. QED
      BY <1>0, <3>1
  <2>5. UNCHANGED <<variant, now, type, calls, idx, best, waited, clocks_w, clocks_r, is_waiting>>
    BY <1>7 DEF WEnd, REnd
  <2>. QED
    BY <2>1, <2>2, <2>3, <2>4, <2>5
<1>8. CASE RRelease(t) \/ RReleasePlain(t)
  <2>1. stats' \in [Threads -> [Counters -> Nat]]
    BY <1>8, CountTypes DEF RRelease, RReleasePlain, Counters
  <2>2. pc' \in [Threads -> Labels] /\ clocks_r' \in [Threads -> Nat]
    <3>1. CASE RRelease(t)
      BY <3>1 DEF RRelease, Labels
    <3>2. CASE RReleasePlain(t)
      BY <3>2 DEF RReleasePlain, Labels
    <3>. QED
      BY <1>8, <3>1, <3>2
  <2>3. UNCHANGED <<variant, now, type, tries, calls, idx, best, waited, start, latency, clocks_w,
                    is_waiting, avg, longest>>
    BY <1>8 DEF RRelease, RReleasePlain
  <2>. QED
    BY <2>1, <2>2, <2>3
<1>9. CASE RClear(t)
  BY <1>0, <1>9 DEF RClear, Labels
<1>10. CASE REndPlain(t)
  <2>1. stats' \in [Threads -> [Counters -> Nat]] /\ longest' \in Nat
    BY <1>10, SectionTypes DEF REndPlain, Counters
  <2>. QED
    BY <1>0, <1>10, <2>1 DEF REndPlain, Labels
<1>11. CASE TxAbort(t)
  <2>1. stats' \in [Threads -> [Counters -> Nat]]
    BY <1>11, CountTypes DEF TxAbort, Counters
  <2>2. PICK b \in {tries[t] - 1, 0} : Retry(t, b)
    BY <1>11 DEF TxAbort
  <2>3. pc[t] \in {"w_try", "w_delay", "r_tx", "r_doomed"}
    BY <1>11 DEF TxAbort
  <2>. QED
    BY <1>11, <2>1, <2>2, <2>3, RetryTypes DEF TxAbort
<1>12. CASE ReaderAbort(t)
  <2>1. stats' \in [Threads -> [Counters -> Nat]]
    BY <1>12, CountTypes DEF ReaderAbort, Counters
  <2>2. CASE variant \in {"10.1", "10.2"}
    BY <1>12, <2>1, <2>2 DEF ReaderAbort, Labels
  <2>3. CASE variant \notin {"10.1", "10.2"}
    BY <1>12, <2>1, <2>3, RetryTypes DEF ReaderAbort
  <2>. QED
    BY <2>2, <2>3
<1>13. CASE WLook(t) \/ WTake(t)
  <2>1. clocks_r[idx[t]] \in Int /\ idx[t] \in Threads
    OBVIOUS
  <2>2. pc' \in [Threads -> Labels]
    <3>1. \E a \in {"w_look", "w_take", "w_adjust"} : Aborting(t, a)
      BY <1>13 DEF WLook, WTake
    <3>. QED
      BY <2>1, <3>1 DEF Labels
  <2>3. idx' \in [Threads -> Threads]
    <3>1. idx' = idx \/ Round(t)
      BY <1>13 DEF WLook, WTake
    <3>2. idx[t] \in Threads /\ (IF idx[t] = N THEN 1 ELSE idx[t] + 1) \in Threads
      BY <1>0
    <3>. QED
      BY <3>1, <3>2
  <2>4. best' \in [Threads -> Int]
    BY <1>13, <2>1 DEF WLook, WTake
  <2>. QED
    BY <1>13, <2>2, <2>3, <2>4 DEF WLook, WTake
<1>14. CASE WAdjust(t)
  <2>1. Early(best[t], avg[type[t]]) \in Int
    BY EarlyType
  <2>. QED
    BY <1>14, <2>1 DEF WAdjust, Labels
<1>15. CASE WDelay(t)
  BY <1>15, RetryTypes DEF WDelay
<1>16. CASE RScan(t)
  <2>. DEFINE w == is_waiting[idx[t]]
  <2>1. w \in 0..N
    OBVIOUS
  <2>2. CASE w = 0
    BY <1>16, <2>2 DEF RScan, Labels
  <2>3. CASE w # 0
    <3>1. /\ pc' = [pc EXCEPT ![t] = "r_mark"] /\ best' = [best EXCEPT ![t] = 1]
          /\ waited' = [waited EXCEPT ![t] = w] /\ idx' = [idx EXCEPT ![t] = 1]
      BY <1>16, <2>3 DEF RScan
    <3>2. UNCHANGED <<variant, now, type, tries, calls, start, latency, clocks_w, clocks_r,
                      is_waiting, avg, stats, longest>>
      BY <1>16 DEF RScan
    <3>. QED
      BY <1>0, <2>1, <3>1, <3>2 DEF Labels
  <2>. QED
    BY <2>2, <2>3
<1>17. CASE RLook(t) \/ RTake(t)
  <2>1. idx[t] \in Threads /\ idx[t] \in 0..N /\ clocks_w[idx[t]] \in Int
    BY <1>0
  <2>2. pc' \in [Threads -> Labels]
    <3>1. \E a \in {"r_take", "r_look", "r_scan", "r_start", "r_wait", "r_mark"} :
            pc' = [pc EXCEPT ![t] = a]
      BY <1>17 DEF RLook, RTake
    <3>. QED
      BY <3>1 DEF Labels
  <2>3. waited' \in [Threads -> 0..N]
    BY <1>17, <2>1 DEF RLook, RTake
  <2>4. best' \in [Threads -> Int]
    BY <1>17, <2>1 DEF RLook, RTake
  <2>5. idx' \in [Threads -> Threads]
    <3>1. idx' = idx \/ Round(t)
      BY <1>17 DEF RLook, RTake
    <3>2. idx[t] \in Threads /\ (IF idx[t] = N THEN 1 ELSE idx[t] + 1) \in Threads
      BY <1>0
    <3>. QED
      BY <3>1, <3>2
  <2>. QED
    BY <1>17, <2>2, <2>3, <2>4, <2>5 DEF RLook, RTake
<1>18. CASE RMark(t)
  BY <1>18 DEF RMark, Labels
<1>19. CASE RUnmark(t)
  BY <1>0, <1>19 DEF RUnmark, Labels
<1>20. CASE RWait(t)
  BY <1>20 DEF RWait, Labels
<1>. QED
  BY <1>1, <1>2, <1>3, <1>4, <1>5, <1>6, <1>7, <1>8, <1>9, <1>10, <1>11, <1>12, <1>13, <1>14, <1>15,
     <1>16, <1>17, <1>18, <1>19, <1>20 DEF Step, Run

\* What a step of thread t does to another thread: at most abort its
\* transaction.
LEMMA Others ==
  ASSUME WordTypes, NEW t \in Threads, Step(t), NEW u \in Threads, u # t
  PROVE  /\ pc'[u] = pc[u] \/ (pc[u] = "r_tx" /\ pc'[u] = "r_doomed")
         /\ tries'[u] = tries[u] /\ best'[u] = best[u] /\ waited'[u] = waited[u]
         /\ start'[u] = start[u] /\ latency'[u] = latency[u]
         /\ clocks_r'[u] = clocks_r[u] /\ is_waiting'[u] = is_waiting[u]
         /\ stats'[u] = stats[u]
<1>. USE DEF WordTypes
<1>1. ASSUME NEW o \in {"w_start", "r_try"}, NEW y \in Types, Call(t, o, y)
      PROVE  pc'[u] = pc[u] /\ latency'[u] = latency[u]
             /\ UNCHANGED <<tries, best, waited, start, clocks_r, is_waiting, stats>>
  BY <1>1 DEF Call
<1>2. CASE WStart(t) \/ RStart(t) \/ RBegin(t) \/ RClear(t)
  BY <1>2 DEF WStart, RStart, RBegin, RClear
<1>3. CASE RCommit(t)
  BY <1>3 DEF RCommit
<1>4. CASE WCommit(t)
  BY <1>4 DEF WCommit
<1>5. CASE WEnd(t)
  <2>1. pc'[u] = pc[u] \/ (pc[u] = "r_tx" /\ pc'[u] = "r_doomed")
    BY <1>5 DEF WEnd, Doomed
  <2>2. stats'[u] = stats[u]
    BY <1>5 DEF WEnd
  <2>. QED
    BY <1>5, <2>1, <2>2 DEF WEnd
<1>6. CASE REnd(t)
  <2>1. pc'[u] = pc[u] \/ (pc[u] = "r_tx" /\ pc'[u] = "r_doomed")
    BY <1>6 DEF REnd, Doomed
  <2>2. stats'[u] = stats[u]
    BY <1>6 DEF REnd
  <2>. QED
    BY <1>6, <2>1, <2>2 DEF REnd
<1>7. CASE RRelease(t)
  BY <1>7 DEF RRelease
<1>8. CASE RReleasePlain(t)
  BY <1>8 DEF RReleasePlain
<1>9. CASE REndPlain(t)
  BY <1>9 DEF REndPlain
<1>10. CASE TxAbort(t)
  BY <1>10 DEF TxAbort, Retry
<1>11. CASE ReaderAbort(t)
  BY <1>11 DEF ReaderAbort, Retry
<1>12. CASE WLook(t) \/ WTake(t)
  <2>1. pc'[u] = pc[u] \/ (pc[u] = "r_tx" /\ pc'[u] = "r_doomed")
    BY <1>12 DEF WLook, WTake
  <2>. QED
    BY <1>12, <2>1 DEF WLook, WTake
<1>13. CASE WAdjust(t)
  BY <1>13 DEF WAdjust
<1>14. CASE WDelay(t)
  BY <1>14 DEF WDelay, Retry
<1>15. CASE RScan(t)
  BY <1>15 DEF RScan
<1>16. CASE RLook(t) \/ RTake(t)
  BY <1>16 DEF RLook, RTake
<1>17. CASE RMark(t) \/ RUnmark(t) \/ RWait(t)
  BY <1>17 DEF RMark, RUnmark, RWait
<1>. QED
  BY <1>1, <1>2, <1>3, <1>4, <1>5, <1>6, <1>7, <1>8, <1>9, <1>10, <1>11, <1>12, <1>13, <1>14, <1>15,
     <1>16, <1>17 DEF Step, Run

\* A step keeps what its own thread's label knows of the tries.
LEMMA OwnAttempts ==
  ASSUME Typed, NEW t \in Threads, Step(t)
  PROVE  AttemptsOf(t)'
<1>. USE DEF WordTypes, AttemptsOf
<1>0. /\ WordTypes /\ tries[t] \in Int /\ MaxTries >= 0 /\ pc[t] \in Labels
      /\ pc[t] \in {"idle", "w_start", "w_try", "w_look", "w_take", "w_adjust", "w_delay",
                    "r_try", "r_tx", "r_doomed"} => tries[t] >= 0
      /\ pc[t] \in {"r_scan", "r_mark", "r_unmark"} => variant # "10.04"
      /\ pc[t] \in {"r_scan", "r_look"} /\ best[t] # 0 => waited[t] # 0
  BY ConstantsAssumption DEF Typed, Attempts
<1>1. ASSUME NEW o \in {"w_start", "r_try"}, NEW y \in Types, Call(t, o, y)
      PROVE  AttemptsOf(t)'
  BY <1>0, <1>1 DEF Call
<1>2. CASE WStart(t) \/ RStart(t) \/ RBegin(t) \/ RClear(t) \/ RMark(t) \/ RUnmark(t) \/ RWait(t)
  BY <1>0, <1>2 DEF WStart, RStart, RBegin, RClear, RMark, RUnmark, RWait
<1>3. CASE RCommit(t)
  BY <1>0, <1>3 DEF RCommit
<1>4. CASE WCommit(t)
  BY <1>0, <1>4 DEF WCommit
<1>5. CASE WEnd(t)
  BY <1>0, <1>5 DEF WEnd
<1>6. CASE REnd(t)
  BY <1>0, <1>6 DEF REnd
<1>7. CASE RRelease(t)
  BY <1>0, <1>7 DEF RRelease
<1>8. CASE RReleasePlain(t)
  BY <1>0, <1>8 DEF RReleasePlain
<1>9. CASE REndPlain(t)
  BY <1>0, <1>9 DEF REndPlain
<1>10. ASSUME NEW b \in {tries[t] - 1, 0}, Retry(t, b), UNCHANGED variant
       PROVE  AttemptsOf(t)'
  BY <1>0, <1>10 DEF Retry
<1>11. CASE TxAbort(t)
  BY <1>10, <1>11 DEF TxAbort
<1>12. CASE ReaderAbort(t)
  <2>1. CASE variant \in {"10.1", "10.2"}
    BY <1>0, <1>12, <2>1 DEF ReaderAbort
  <2>2. CASE variant \notin {"10.1", "10.2"}
    BY <1>10, <1>12, <2>2 DEF ReaderAbort
  <2>. QED
    BY <2>1, <2>2
<1>13. CASE WLook(t) \/ WTake(t)
  <2>1. /\ pc[t] \in {"w_look", "w_take"} /\ tries' = tries
        /\ pc'[t] \in {"w_look", "w_take", "w_adjust"}
    BY <1>0, <1>13 DEF WLook, WTake
  <2>. QED
    BY <1>0, <2>1
<1>14. CASE WAdjust(t)
  BY <1>0, <1>14 DEF WAdjust
<1>15. CASE WDelay(t)
  BY <1>10, <1>15 DEF WDelay
<1>16. CASE RScan(t)
  <2>1. pc'[t] \in {"r_look", "r_mark"} /\ variant' # "10.04"
        /\ (pc'[t] = "r_look" => UNCHANGED <<best, waited>> /\ pc[t] = "r_scan")
    BY <1>0, <1>16 DEF RScan
  <2>. QED
    BY <1>0, <2>1
<1>17. CASE RLook(t) \/ RTake(t)
  <2>1. /\ pc'[t] \in {"r_take", "r_scan", "r_look", "r_mark", "r_wait", "r_start"}
        /\ pc'[t] \in {"r_scan", "r_mark"} => variant' # "10.04"
    BY <1>0, <1>17 DEF RLook, RTake
  <2>2. best'[t] # 0 => waited'[t] # 0
    <3>1. CASE RLook(t)
      BY <1>0, <3>1 DEF RLook
    <3>2. CASE RTake(t)
      <4>1. waited'[t] = idx[t] /\ idx[t] \in Threads
        BY <1>0, <3>2 DEF RTake
      <4>. QED
        BY <4>1 DEF Threads
    <3>. QED
      BY <1>17, <3>1, <3>2
  <2>. QED
    BY <2>1, <2>2
<1>. QED
  BY <1>1, <1>2, <1>3, <1>4, <1>5, <1>6, <1>7, <1>8, <1>9, <1>11, <1>12, <1>13, <1>14, <1>15,
     <1>16, <1>17 DEF Step, Run

\* A step keeps what its own thread has announced.
LEMMA OwnMarks ==
  ASSUME Typed, NEW t \in Threads, Step(t)
  PROVE  MarksOf(t)'
<1>. USE DEF WordTypes, MarksOf, NonVariant
<1>0. /\ WordTypes /\ pc[t] \in Labels
      /\ pc[t] \in {"r_mark", "r_wait"} => waited[t] # 0
      /\ is_waiting[t] # 0 <=> (pc[t] \in {"r_wait", "r_unmark"} /\ variant # "10.04")
      /\ clocks_r[t] # 0 => NonVariant \/ pc[t] \in {"r_section", "r_clear"}
      /\ pc[t] \in {"r_scan", "r_mark", "r_unmark"} => variant # "10.04"
      /\ pc[t] \in {"r_scan", "r_look"} /\ best[t] # 0 => waited[t] # 0
  BY DEF Typed, Attempts, AttemptsOf, Marks
<1>1. ASSUME NEW o \in {"w_start", "r_try"}, NEW y \in Types, Call(t, o, y)
      PROVE  MarksOf(t)'
  BY <1>0, <1>1 DEF Call
<1>2. CASE WStart(t) \/ RBegin(t) \/ RMark(t) \/ RUnmark(t) \/ RWait(t)
  BY <1>0, <1>2 DEF WStart, RBegin, RMark, RUnmark, RWait
<1>3. CASE RStart(t)
  BY <1>0, <1>3 DEF RStart
<1>4. CASE RClear(t)
  BY <1>0, <1>4 DEF RClear
<1>5. CASE RCommit(t)
  BY <1>0, <1>5 DEF RCommit
<1>6. CASE WCommit(t)
  BY <1>0, <1>6 DEF WCommit
<1>7. CASE WEnd(t)
  BY <1>0, <1>7 DEF WEnd
<1>8. CASE REnd(t)
  BY <1>0, <1>8 DEF REnd
<1>9. CASE RRelease(t)
  BY <1>0, <1>9 DEF RRelease
<1>10. CASE RReleasePlain(t)
  BY <1>0, <1>10 DEF RReleasePlain
<1>11. CASE REndPlain(t)
  BY <1>0, <1>11 DEF REndPlain
<1>12. ASSUME NEW b, Retry(t, b), pc[t] \in {"w_try", "w_delay", "r_tx", "r_doomed"},
              UNCHANGED <<variant, clocks_r, is_waiting>>
       PROVE  MarksOf(t)'
  BY <1>0, <1>12 DEF Retry
<1>13. CASE TxAbort(t)
  BY <1>12, <1>13 DEF TxAbort
<1>14. CASE ReaderAbort(t)
  <2>1. CASE variant \in {"10.1", "10.2"}
    BY <1>0, <1>14, <2>1 DEF ReaderAbort
  <2>2. CASE variant \notin {"10.1", "10.2"}
    BY <1>12, <1>14, <2>2 DEF ReaderAbort
  <2>. QED
    BY <2>1, <2>2
<1>15. CASE WLook(t) \/ WTake(t)
  <2>1. pc[t] \in {"w_look", "w_take"} /\ pc'[t] \in {"w_look", "w_take", "w_adjust"}
    BY <1>0, <1>15 DEF WLook, WTake
  <2>2. UNCHANGED <<waited, is_waiting, clocks_r, variant>>
    BY <1>15 DEF WLook, WTake
  <2>. QED
    BY <1>0, <2>1, <2>2
<1>16. CASE WAdjust(t)
  BY <1>0, <1>16 DEF WAdjust
<1>17. CASE WDelay(t)
  BY <1>12, <1>17 DEF WDelay
<1>18. CASE RScan(t)
  <2>1. pc'[t] \in {"r_look", "r_mark"} /\ (pc'[t] = "r_mark" => waited'[t] # 0)
    BY <1>0, <1>18 DEF RScan
  <2>. QED
    BY <1>0, <1>18, <2>1 DEF RScan
<1>19. CASE RLook(t) \/ RTake(t)
  <2>1. /\ pc[t] \in {"r_look", "r_take"}
        /\ pc'[t] \in {"r_take", "r_scan", "r_look", "r_mark", "r_wait", "r_start"}
        /\ pc'[t] = "r_wait" => variant = "10.04"
    BY <1>0, <1>19 DEF RLook, RTake
  <2>2. pc'[t] \in {"r_mark", "r_wait"} => waited'[t] # 0
    <3>1. CASE RLook(t)
      BY <1>0, <3>1 DEF RLook
    <3>2. CASE RTake(t)
      <4>1. waited'[t] = idx[t] /\ idx[t] \in Threads
        BY <1>0, <3>2 DEF RTake
      <4>. QED
        BY <4>1 DEF Threads
    <3>. QED
      BY <1>19, <3>1, <3>2
  <2>3. UNCHANGED <<is_waiting, clocks_r, variant>>
    BY <1>19 DEF RLook, RTake
  <2>. QED
    BY <1>0, <2>1, <2>2, <2>3
<1>. QED
  BY <1>1, <1>2, <1>3, <1>4, <1>5, <1>6, <1>7, <1>8, <1>9, <1>10, <1>11, <1>13, <1>14, <1>15,
     <1>16, <1>17, <1>18, <1>19 DEF Step, Run

\* Only the clock's tick changes now; nothing changes the variant.
LEMMA VariantFixed ==
  ASSUME NEW t \in Threads, Step(t)
  PROVE  variant' = variant /\ now' = now
BY DEF Step, Run, Call, WStart, RStart, RBegin, RCommit, WCommit, WEnd, RRelease, RClear, REnd,
       RReleasePlain, REndPlain, TxAbort, ReaderAbort, WLook, WTake, WAdjust, WDelay, RScan, RLook, RTake,
       RMark, RUnmark, RWait

\* Every step keeps the types.
LEMMA TypedStep ==
  ASSUME Typed, [Next]_vars
  PROVE  Typed'
<1>1. ASSUME NEW t \in Threads, Step(t)
      PROVE  Typed'
  <2>1. MarksOf(t)' /\ AttemptsOf(t)'
    BY <1>1, OwnMarks, OwnAttempts
  <2>2. ASSUME NEW u \in Threads, u # t
        PROVE  MarksOf(u)' /\ AttemptsOf(u)'
    <3>1. MarksOf(u) /\ AttemptsOf(u)
      BY DEF Typed, Marks, Attempts
    <3>2. /\ pc'[u] = pc[u] \/ (pc[u] = "r_tx" /\ pc'[u] = "r_doomed")
          /\ tries'[u] = tries[u] /\ best'[u] = best[u] /\ waited'[u] = waited[u]
          /\ clocks_r'[u] = clocks_r[u] /\ is_waiting'[u] = is_waiting[u]
      BY <1>1, <2>2, Others DEF Typed
    <3>3. variant' = variant
      BY <1>1, VariantFixed
    <3>. QED
      BY <3>1, <3>2, <3>3 DEF MarksOf, AttemptsOf, NonVariant
  <2>3. WordTypes'
    BY <1>1, WordTypesStep
  <2>. QED
    BY <2>1, <2>2, <2>3 DEF Typed, Marks, Attempts
<1>2. CASE Tick
  <2>1. \A u \in Threads : start[u] \in 0..now + 1 /\ latency[u] \in 0..now + 1
    BY DEF Typed, WordTypes
  <2>. QED
    BY <1>2, <2>1 DEF Tick, Typed, WordTypes, Marks, Attempts, MarksOf, AttemptsOf, NonVariant
<1>3. CASE Shutdown \/ UNCHANGED vars
  BY <1>3 DEF Shutdown, vars, Typed, WordTypes, Marks, Attempts, MarksOf, AttemptsOf, NonVariant
<1>. QED
  BY <1>1, <1>2, <1>3 DEF Next, Done, Step

\* Every variable keeps its type, loop indices their arrays; a thread's mark is
\* up exactly while it waits; only NON_VARIANT's readers leave a clock behind.
THEOREM TypeCorrect == Spec => []TypeOK
<1>1. Spec => []Typed
  BY TypedInit, TypedStep, PTL DEF Spec
<1>2. Typed => TypeOK
  BY DEF Typed, WordTypes, Marks, MarksOf, TypeOK
<1>. QED
  BY <1>1, <1>2, PTL

----------------------------------------------------------------------------
(* The counters.                                                            *)

\* What counting an event adds.
LEMMA CountAdds ==
  ASSUME stats \in [Threads -> [Counters -> Nat]], NEW t \in Threads, NEW c, Count(t, c)
  PROVE  \A d \in Counters : stats'[t][d] = IF d = c THEN stats[t][d] + 1 ELSE stats[t][d]
OBVIOUS

\* What counting a section adds.
LEMMA SectionAdds ==
  ASSUME stats \in [Threads -> [Counters -> Nat]], NEW t \in Threads,
         NEW n \in Counters, NEW sum \in Counters, NEW lat \in Counters,
         n # sum, n # lat, sum # lat, Section(t, n, sum, lat)
  PROVE  /\ stats'[t][n] = stats[t][n] + 1
         /\ stats'[t][sum] = stats[t][sum] + (now - start[t])
         /\ stats'[t][lat] = stats[t][lat] + (now - latency[t])
         /\ \A d \in Counters \ {n, sum, lat} : stats'[t][d] = stats[t][d]
<1>. DEFINE new == [stats[t] EXCEPT ![n] = @ + 1, ![sum] = @ + (now - start[t]),
                                    ![lat] = @ + (now - latency[t])]
<1>1. stats' = [stats EXCEPT ![t] = new]
  OBVIOUS
<1>2. stats'[t] = new
  BY <1>1
<1>. QED
  BY <1>2

\* A thread has stamped the section it is in; the call came before.
Stamped == {"w_try", "w_lock", "w_end", "w_look", "w_take", "w_adjust", "w_delay", "r_tx", "r_doomed",
            "r_section", "r_clear", "r_end", "r_plain"}
\* A section that has run and is not yet a read or a write
Owed == {"w_end", "r_clear", "r_end", "r_plain"}

BookOf(t) ==
  /\ stats[t]["htm"] + stats[t]["lock"] + stats[t]["uro"]
       = stats[t]["reads"] + stats[t]["writes"] + (IF pc[t] \in Owed THEN 1 ELSE 0)
  /\ stats[t]["rtime"] <= stats[t]["rlat"] /\ stats[t]["wtime"] <= stats[t]["wlat"]
  /\ pc[t] \in Stamped => start[t] >= Boot /\ latency[t] <= start[t]
Book == Boot <= now /\ \A t \in Threads : BookOf(t)

\* A step keeps the books of its own thread.
LEMMA OwnBook ==
  ASSUME Typed, Book, NEW t \in Threads, Step(t)
  PROVE  BookOf(t)'
<1>0. /\ pc \in [Threads -> Labels] /\ stats \in [Threads -> [Counters -> Nat]]
      /\ start \in [Threads -> 0..now] /\ latency \in [Threads -> 0..now]
      /\ tries \in [Threads -> -1..MaxTries]
      /\ now \in Nat /\ Boot \in Nat /\ Boot <= now /\ BookOf(t)
  BY BootAssumption DEF Typed, WordTypes, Book
<1>00. \A c \in Counters : stats[t][c] \in Nat
  BY <1>0
<1>. USE DEF Stamped, Owed
<1>1. ASSUME NEW o \in {"w_start", "r_try"}, NEW y \in Types, Call(t, o, y)
      PROVE  BookOf(t)'
  BY <1>0, <1>1 DEF Call, BookOf
<1>2. CASE WStart(t) \/ RStart(t) \/ RBegin(t)
  <2>1. stats' = stats /\ start'[t] = now /\ latency' = latency /\ pc'[t] \notin Owed
        /\ pc[t] \notin Owed
    BY <1>0, <1>2 DEF WStart, RStart, RBegin
  <2>. QED
    BY <1>0, <2>1 DEF BookOf
<1>3. CASE RMark(t) \/ RUnmark(t) \/ RWait(t) \/ WAdjust(t) \/ RClear(t)
  <2>1. stats' = stats /\ start' = start /\ latency' = latency
        /\ (pc'[t] \in Owed <=> pc[t] \in Owed) /\ (pc'[t] \in Stamped => pc[t] \in Stamped)
    BY <1>0, <1>3 DEF RMark, RUnmark, RWait, WAdjust, RClear
  <2>. QED
    BY <1>0, <2>1 DEF BookOf
\* A step that counts one commit
<1>4. ASSUME NEW c \in {"htm", "lock", "uro"}, Count(t, c), pc[t] \in Stamped \ Owed,
             pc'[t] \in Owed, UNCHANGED <<start, latency>>
      PROVE  BookOf(t)'
  <2>1. \A d \in Counters : stats'[t][d] = IF d = c THEN stats[t][d] + 1 ELSE stats[t][d]
    BY <1>0, <1>4, CountAdds
  <2>. HIDE <1>4
  <2>2. stats'[t]["htm"] + stats'[t]["lock"] + stats'[t]["uro"]
          = stats[t]["htm"] + stats[t]["lock"] + stats[t]["uro"] + 1
    BY <1>00, <1>4, <2>1 DEF Counters
  <2>3. \A d \in {"reads", "writes", "rtime", "rlat", "wtime", "wlat"} : stats'[t][d] = stats[t][d]
    BY <1>4, <2>1 DEF Counters
  <2>. QED
    BY <1>0, <1>00, <1>4, <2>2, <2>3 DEF BookOf, Counters
<1>5. CASE RCommit(t)
  BY <1>0, <1>4, <1>5 DEF RCommit
<1>6. CASE WCommit(t)
  BY <1>0, <1>4, <1>6 DEF WCommit
<1>7. CASE RRelease(t)
  BY <1>0, <1>4, <1>7 DEF RRelease
<1>8. CASE RReleasePlain(t)
  BY <1>0, <1>4, <1>8 DEF RReleasePlain
\* A step that ends the section
<1>9. ASSUME Section(t, "reads", "rtime", "rlat") \/ Section(t, "writes", "wtime", "wlat"),
             pc[t] \in Owed, pc'[t] = "idle"
      PROVE  BookOf(t)'
  <2>1. start[t] \in Nat /\ latency[t] \in Nat /\ latency[t] <= start[t] /\ start[t] <= now
    BY <1>0, <1>9 DEF BookOf
  <2>2. now - start[t] <= now - latency[t] /\ now - start[t] \in Nat /\ now - latency[t] \in Nat
    BY <1>0, <2>1
  <2>3. pc[t] \in Owed /\ pc'[t] \notin Owed /\ pc'[t] \notin Stamped
    BY <1>9
  <2>4. CASE Section(t, "reads", "rtime", "rlat")
    <3>1. /\ stats'[t]["reads"] = stats[t]["reads"] + 1
          /\ stats'[t]["rtime"] = stats[t]["rtime"] + (now - start[t])
          /\ stats'[t]["rlat"] = stats[t]["rlat"] + (now - latency[t])
          /\ \A d \in Counters \ {"reads", "rtime", "rlat"} : stats'[t][d] = stats[t][d]
      <4>1. "reads" \in Counters /\ "rtime" \in Counters /\ "rlat" \in Counters
        BY DEF Counters
      <4>. QED
        BY <1>0, <2>4, <4>1, SectionAdds
    <3>2. /\ stats'[t]["htm"] = stats[t]["htm"] /\ stats'[t]["lock"] = stats[t]["lock"]
          /\ stats'[t]["uro"] = stats[t]["uro"] /\ stats'[t]["writes"] = stats[t]["writes"]
          /\ stats'[t]["wtime"] = stats[t]["wtime"] /\ stats'[t]["wlat"] = stats[t]["wlat"]
      BY <3>1 DEF Counters
    <3>3. stats'[t]["rtime"] <= stats'[t]["rlat"]
      <4>1. stats[t]["rtime"] <= stats[t]["rlat"] /\ stats[t]["rtime"] \in Nat /\ stats[t]["rlat"] \in Nat
        BY <1>0, <1>00 DEF BookOf, Counters
      <4>. QED
        BY <2>2, <3>1, <4>1
    <3>4. stats'[t]["htm"] + stats'[t]["lock"] + stats'[t]["uro"]
            = stats'[t]["reads"] + stats'[t]["writes"]
      <4>1. stats[t]["htm"] + stats[t]["lock"] + stats[t]["uro"]
              = stats[t]["reads"] + stats[t]["writes"] + 1
        BY <1>0, <2>3 DEF BookOf
      <4>2. stats[t]["reads"] \in Nat /\ stats[t]["writes"] \in Nat
        BY <1>00 DEF Counters
      <4>. QED
        BY <3>1, <3>2, <4>1, <4>2
    <3>5. stats'[t]["wtime"] <= stats'[t]["wlat"]
      BY <1>0, <3>2 DEF BookOf
    <3>6. stats'[t]["reads"] + stats'[t]["writes"] + 0 = stats'[t]["reads"] + stats'[t]["writes"]
      BY <1>00, <3>1, <3>2 DEF Counters
    <3>. QED
      BY <2>3, <3>3, <3>4, <3>5, <3>6 DEF BookOf
  <2>5. CASE Section(t, "writes", "wtime", "wlat")
    <3>1. /\ stats'[t]["writes"] = stats[t]["writes"] + 1
          /\ stats'[t]["wtime"] = stats[t]["wtime"] + (now - start[t])
          /\ stats'[t]["wlat"] = stats[t]["wlat"] + (now - latency[t])
          /\ \A d \in Counters \ {"writes", "wtime", "wlat"} : stats'[t][d] = stats[t][d]
      <4>1. "writes" \in Counters /\ "wtime" \in Counters /\ "wlat" \in Counters
        BY DEF Counters
      <4>. QED
        BY <1>0, <2>5, <4>1, SectionAdds
    <3>2. /\ stats'[t]["htm"] = stats[t]["htm"] /\ stats'[t]["lock"] = stats[t]["lock"]
          /\ stats'[t]["uro"] = stats[t]["uro"] /\ stats'[t]["reads"] = stats[t]["reads"]
          /\ stats'[t]["rtime"] = stats[t]["rtime"] /\ stats'[t]["rlat"] = stats[t]["rlat"]
      BY <3>1 DEF Counters
    <3>3. stats'[t]["wtime"] <= stats'[t]["wlat"]
      <4>1. stats[t]["wtime"] <= stats[t]["wlat"] /\ stats[t]["wtime"] \in Nat /\ stats[t]["wlat"] \in Nat
        BY <1>0, <1>00 DEF BookOf, Counters
      <4>. QED
        BY <2>2, <3>1, <4>1
    <3>4. stats'[t]["htm"] + stats'[t]["lock"] + stats'[t]["uro"]
            = stats'[t]["reads"] + stats'[t]["writes"]
      <4>1. stats[t]["htm"] + stats[t]["lock"] + stats[t]["uro"]
              = stats[t]["reads"] + stats[t]["writes"] + 1
        BY <1>0, <2>3 DEF BookOf
      <4>2. stats[t]["reads"] \in Nat /\ stats[t]["writes"] \in Nat
        BY <1>00 DEF Counters
      <4>. QED
        BY <3>1, <3>2, <4>1, <4>2
    <3>5. stats'[t]["rtime"] <= stats'[t]["rlat"]
      BY <1>0, <3>2 DEF BookOf
    <3>6. stats'[t]["reads"] + stats'[t]["writes"] + 0 = stats'[t]["reads"] + stats'[t]["writes"]
      BY <1>00, <3>1, <3>2 DEF Counters
    <3>. QED
      BY <2>3, <3>3, <3>4, <3>5, <3>6 DEF BookOf
  <2>. QED
    BY <1>9, <2>4, <2>5
<1>10. CASE WEnd(t)
  BY <1>0, <1>9, <1>10 DEF WEnd
<1>11. CASE REnd(t)
  BY <1>0, <1>9, <1>11 DEF REnd
<1>12. CASE REndPlain(t)
  BY <1>0, <1>9, <1>12 DEF REndPlain
\* A step that counts an abort
<1>13. ASSUME NEW c \in {"other", "rest", "readers"}, Count(t, c), pc[t] \notin Owed,
              pc'[t] \notin Owed, pc'[t] \in Stamped => pc[t] \in Stamped,
              UNCHANGED <<start, latency>>
       PROVE  BookOf(t)'
  <2>1. \A d \in Counters : stats'[t][d] = IF d = c THEN stats[t][d] + 1 ELSE stats[t][d]
    BY <1>0, <1>13, CountAdds
  <2>2. \A d \in {"htm", "lock", "uro", "reads", "writes", "rtime", "rlat", "wtime", "wlat"} :
          stats'[t][d] = stats[t][d]
    BY <2>1 DEF Counters
  <2>. QED
    BY <1>0, <1>13, <2>2 DEF BookOf
<1>14. CASE TxAbort(t)
  <2>1. pc[t] \notin Owed /\ pc'[t] \notin Owed /\ pc'[t] \notin Stamped
    BY <1>0, <1>14 DEF TxAbort, Retry
  <2>. QED
    BY <1>13, <1>14, <2>1 DEF TxAbort
<1>15. CASE ReaderAbort(t)
  <2>1. pc[t] = "w_try" /\ pc'[t] \notin Owed
    BY <1>0, <1>15 DEF ReaderAbort, Retry
  <2>. QED
    BY <1>13, <1>15, <2>1 DEF ReaderAbort
<1>16. CASE WDelay(t)
  <2>1. pc[t] = "w_delay" /\ pc'[t] \in {"w_start", "w_start2"}
    BY <1>0, <1>16 DEF WDelay, Retry
  <2>. QED
    BY <1>0, <1>16, <2>1 DEF WDelay, BookOf
<1>17. CASE WLook(t) \/ WTake(t)
  <2>1. pc[t] \in {"w_look", "w_take"} /\ pc'[t] \in {"w_look", "w_take", "w_adjust"}
    BY <1>0, <1>17 DEF WLook, WTake
  <2>2. stats' = stats /\ start' = start /\ latency' = latency
    BY <1>17 DEF WLook, WTake
  <2>. QED
    BY <1>0, <2>1, <2>2 DEF BookOf
<1>18. CASE RScan(t) \/ RLook(t) \/ RTake(t)
  <2>1. /\ pc[t] \in {"r_scan", "r_look", "r_take"}
        /\ pc'[t] \in {"r_scan", "r_look", "r_take", "r_mark", "r_wait", "r_start"}
    BY <1>0, <1>18 DEF RScan, RLook, RTake
  <2>2. stats' = stats /\ start' = start /\ latency' = latency
    BY <1>18 DEF RScan, RLook, RTake
  <2>. QED
    BY <1>0, <2>1, <2>2 DEF BookOf
<1>. QED
  BY <1>1, <1>2, <1>3, <1>5, <1>6, <1>7, <1>8, <1>10, <1>11, <1>12, <1>14, <1>15, <1>16, <1>17,
     <1>18 DEF Step, Run

\* The books agree at the start.
LEMMA BookInit == Init => Book
<1>. SUFFICES ASSUME Init PROVE Book
  OBVIOUS
<1>1. \A t \in Threads, c \in Counters : stats[t][c] = 0
  BY DEF Init
<1>. QED
  BY <1>1, BootAssumption DEF Init, Book, BookOf, Stamped, Owed, Counters

\* Every step keeps the books.
LEMMA BookStep ==
  ASSUME Typed, Book, [Next]_vars
  PROVE  Book'
<1>1. ASSUME NEW t \in Threads, Step(t)
      PROVE  Book'
  <2>1. BookOf(t)'
    BY <1>1, OwnBook
  <2>2. ASSUME NEW u \in Threads, u # t
        PROVE  BookOf(u)'
    <3>1. BookOf(u)
      BY DEF Book
    <3>2. /\ pc'[u] = pc[u] \/ (pc[u] = "r_tx" /\ pc'[u] = "r_doomed")
          /\ start'[u] = start[u] /\ latency'[u] = latency[u] /\ stats'[u] = stats[u]
      BY <1>1, <2>2, Others DEF Typed
    <3>. QED
      BY <3>1, <3>2 DEF BookOf, Stamped, Owed
  <2>3. now' = now
    BY <1>1, VariantFixed
  <2>. QED
    BY <2>1, <2>2, <2>3 DEF Book
<1>2. CASE Tick
  BY <1>2, BootAssumption DEF Tick, Typed, WordTypes, Book, BookOf
<1>3. CASE Shutdown \/ UNCHANGED vars
  BY <1>3 DEF Shutdown, vars, Book, BookOf
<1>. QED
  BY <1>1, <1>2, <1>3 DEF Next, Done, Step

\* A section that has run is counted once by the way it ran and once as a read
\* or a write.
THEOREM CommitsCounted == Spec => []EveryCommitCounted
<1>1. Init => Typed /\ Book
  BY TypedInit, BookInit
<1>2. Typed /\ Book /\ [Next]_vars => (Typed /\ Book)'
  BY TypedStep, BookStep
<1>3. Book => EveryCommitCounted
  BY DEF Book, BookOf, EveryCommitCounted, Owed
<1>. QED
  BY <1>1, <1>2, <1>3, PTL DEF Spec

LatencyCoversTime ==
  \A t \in Threads :
    stats[t]["rtime"] <= stats[t]["rlat"] /\ stats[t]["wtime"] <= stats[t]["wlat"]
\* What the sums of PrintedAgrees add up, thread by thread: the time of its
\* sections is within the time since their calls.
THEOREM TimesAgree == Spec => []LatencyCoversTime
<1>1. Init => Typed /\ Book
  BY TypedInit, BookInit
<1>2. Typed /\ Book /\ [Next]_vars => (Typed /\ Book)'
  BY TypedStep, BookStep
<1>3. Book => LatencyCoversTime
  BY DEF Book, BookOf, LatencyCoversTime
<1>. QED
  BY <1>1, <1>2, <1>3, PTL DEF Spec

----------------------------------------------------------------------------
(* Lengths and delays.                                                      *)

\* No section is longer than the program has run, and no average is longer
\* than the longest section.
Lengths == longest <= now - Boot /\ AvgBounded

\* An announced end is none, or at most a longest section ahead; a writer that
\* looks for the last one has found none, or such a one.
AheadOf(c, end) == c = 0 \/ (Boot <= c /\ c <= end)
Ahead(c) == AheadOf(c, now + longest)
Looking == {"w_look", "w_take", "w_adjust"}
Scanning == {"r_scan", "r_look", "r_take", "r_mark", "r_wait", "r_unmark", "r_start"}
DelayOf(t) ==
  /\ Ahead(clocks_r[t])
  /\ pc[t] \in Looking => Ahead(best[t])
  /\ pc[t] = "w_delay" => best[t] <= now + longest /\ (best[t] >= 0 \/ now > 2 * Boot)
  /\ pc[t] \notin Looking \union Scanning \union {"w_delay"} => best[t] = 0
Delays == \A t \in Threads : DelayOf(t)

\* A step keeps every average within the longest section.
LEMMA LengthsStep ==
  ASSUME Typed, Book, Lengths, NEW t \in Threads, Step(t)
  PROVE  Lengths' /\ longest <= longest'
<1>0. /\ WordTypes /\ WordTypes' /\ now' = now /\ now \in Nat /\ Boot \in Nat
      /\ longest \in Nat /\ longest' \in Nat /\ longest <= now - Boot
  BY WordTypesStep, VariantFixed, BootAssumption DEF Typed, WordTypes, Lengths
<1>1. CASE WEnd(t) \/ REnd(t) \/ REndPlain(t)
  <2>1. pc[t] \in Stamped
    BY <1>1 DEF WEnd, REnd, REndPlain, Stamped
  <2>2. start[t] \in Nat /\ start[t] >= Boot /\ start[t] <= now
    BY <1>0, <2>1 DEF Book, BookOf, WordTypes
  <2>3. now - start[t] \in Nat /\ now - start[t] <= now - Boot
    BY <1>0, <2>2
  <2>4. longest' = IF now - start[t] > longest THEN now - start[t] ELSE longest
    BY <1>1 DEF WEnd, REnd, REndPlain
  <2>5. longest <= longest' /\ now - start[t] <= longest' /\ longest' <= now - Boot
    BY <1>0, <2>3, <2>4
  <2>6. \E c \in Counters : avg' \in {avg, Average(t, stats[t][c], now - start[t])}
    BY <1>1 DEF WEnd, REnd, REndPlain, Counters
  <2>7. ASSUME NEW y \in Types
        PROVE  avg'[y] <= longest'
    <3>1. avg[y] \in Nat /\ avg[y] <= longest /\ avg[y] <= longest'
      BY <1>0, <2>5 DEF WordTypes, Lengths, AvgBounded
    <3>2. PICK c \in Counters : avg' \in {avg, Average(t, stats[t][c], now - start[t])}
      BY <2>6
    <3>3. stats[t][c] \in Nat
      BY <1>0 DEF WordTypes
    <3>4. /\ Weighted(avg[y], stats[t][c], now - start[t]) <= longest'
          /\ Smoothed(avg[y], now - start[t]) <= longest'
      BY <1>0, <2>3, <2>5, <3>1, <3>3, AverageBound
    <3>5. avg'[y] \in {avg[y], Weighted(avg[y], stats[t][c], now - start[t]),
                       Smoothed(avg[y], now - start[t])}
      BY <1>0, <3>2 DEF Average, WordTypes
    <3>. QED
      BY <3>1, <3>4, <3>5
  <2>. QED
    BY <1>0, <2>5, <2>7 DEF Lengths, AvgBounded
<1>2. CASE ~(WEnd(t) \/ REnd(t) \/ REndPlain(t))
  <2>1. longest' = longest /\ avg' = avg
    BY <1>2 DEF Step, Run, Call, WStart, RStart, RBegin, RCommit, WCommit, RRelease, RClear,
                RReleasePlain, TxAbort, ReaderAbort, WLook, WTake, WAdjust, WDelay, RScan, RLook, RTake,
                RMark, RUnmark, RWait
  <2>. QED
    BY <1>0, <2>1 DEF Lengths, AvgBounded
<1>. QED
  BY <1>1, <1>2

\* A step keeps its own thread's delay within bounds.
LEMMA OwnDelay ==
  ASSUME Typed, Book, Lengths, Delays, NEW t \in Threads, Step(t)
  PROVE  DelayOf(t)'
<1>0. /\ WordTypes /\ pc[t] \in Labels /\ now \in Nat /\ longest \in Nat /\ longest' \in Nat
      /\ longest <= longest' /\ now' = now /\ Boot \in Nat /\ Boot <= now
      /\ longest <= now - Boot /\ best[t] \in Int /\ best'[t] \in Int
      /\ \A u \in Threads : clocks_r[u] \in Nat
      /\ avg[type[t]] \in Nat /\ avg[type[t]] <= longest
  BY WordTypesStep, LengthsStep, VariantFixed, BootAssumption
     DEF Typed, WordTypes, Book, Lengths, AvgBounded
<1>00. DelayOf(t) /\ \A u \in Threads : Ahead(clocks_r[u])
  BY DEF Delays, DelayOf
<1>. USE DEF Looking, Scanning
\* What was ahead stays so.
<1>1. ASSUME NEW c \in Int, Ahead(c)
      PROVE  AheadOf(c, now' + longest')
  <2>1. c = 0 \/ (Boot <= c /\ c <= now + longest)
    BY <1>1 DEF Ahead, AheadOf
  <2>2. ASSUME NEW n \in Nat, NEW m \in Nat, NEW l \in Nat, l <= m
        PROVE  n + l <= n + m
    BY <2>2
  <2>3. now + longest <= now' + longest'
    BY <1>0, <2>2
  <2>4. now + longest \in Int /\ now' + longest' \in Int /\ Boot \in Int
    BY <1>0
  <2>. QED
    BY <2>1, <2>3, <2>4 DEF AheadOf
\* The thread's announced end
<1>2. AheadOf(clocks_r'[t], now' + longest')
  <2>1. CASE RStart(t)
    <3>1. clocks_r'[t] = now + avg[type[t]]
      BY <1>0, <2>1 DEF RStart, WordTypes
    <3>. QED
      BY <1>0, <3>1 DEF Ahead, AheadOf
  <2>2. CASE RCommit(t)
    <3>1. clocks_r'[t] = start[t] + avg[type[t]]
      BY <1>0, <2>2 DEF RCommit, WordTypes
    <3>2. start[t] \in Nat /\ start[t] <= now /\ Boot <= start[t]
      BY <1>0, <2>2 DEF RCommit, WordTypes, Book, BookOf, Stamped
    <3>. QED
      BY <1>0, <3>1, <3>2 DEF Ahead, AheadOf
  <2>3. CASE RRelease(t) \/ RClear(t)
    <3>1. clocks_r'[t] = 0
      BY <1>0, <2>3 DEF RRelease, RClear, WordTypes
    <3>. QED
      BY <3>1 DEF Ahead, AheadOf
  <2>4. CASE ~RStart(t) /\ ~RCommit(t) /\ ~RRelease(t) /\ ~RClear(t)
    <3>1. clocks_r' = clocks_r
      BY <2>4 DEF Step, Run, Call, WStart, RBegin, WCommit, WEnd, REnd, RReleasePlain, REndPlain,
                  TxAbort, ReaderAbort, WLook, WTake, WAdjust, WDelay, RScan, RLook, RTake, RMark, RUnmark,
                  RWait
    <3>. QED
      BY <1>0, <1>00, <1>1, <3>1
  <2>. QED
    BY <2>1, <2>2, <2>3, <2>4
\* The end the thread has found, if it looks for one
<1>. DEFINE Best ==
       /\ pc'[t] \in Looking => AheadOf(best'[t], now' + longest')
       /\ pc'[t] = "w_delay" => best'[t] <= now' + longest' /\ (best'[t] >= 0 \/ now' > 2 * Boot)
       /\ pc'[t] \notin Looking \union Scanning \union {"w_delay"} => best'[t] = 0
<1>3. ASSUME pc'[t] \notin Looking \union Scanning \union {"w_delay"}, best'[t] = 0
      PROVE  Best
  BY <1>3
<1>4. ASSUME pc'[t] \in Scanning
      PROVE  Best
  BY <1>4
<1>5. ASSUME pc[t] \notin Looking \union Scanning \union {"w_delay"}, UNCHANGED best,
             pc'[t] \notin Looking \union Scanning \union {"w_delay"}
      PROVE  Best
  BY <1>00, <1>3, <1>5 DEF DelayOf
<1>6. ASSUME NEW o \in {"w_start", "r_try"}, NEW y \in Types, Call(t, o, y)
      PROVE  Best
  BY <1>0, <1>5, <1>6 DEF Call, WordTypes
<1>7. WStart(t) => Best
  BY <1>0, <1>5 DEF WStart, WordTypes
<1>8. RStart(t) => Best
  BY <1>0, <1>3 DEF RStart, WordTypes
<1>9. RBegin(t) => Best
  BY <1>0, <1>5 DEF RBegin, WordTypes
<1>10. RCommit(t) => Best
  BY <1>0, <1>5 DEF RCommit, WordTypes
<1>11. WCommit(t) => Best
  BY <1>0, <1>5 DEF WCommit, WordTypes
<1>12. WEnd(t) \/ REnd(t) => Best
  BY <1>0, <1>5 DEF WEnd, REnd, WordTypes
<1>13. RRelease(t) \/ RClear(t) => Best
  BY <1>0, <1>5 DEF RRelease, RClear, WordTypes
<1>14. RReleasePlain(t) \/ REndPlain(t) => Best
  BY <1>0, <1>5 DEF RReleasePlain, REndPlain, WordTypes
<1>15. ASSUME NEW b, Retry(t, b), pc[t] \in {"w_try", "w_delay", "r_tx", "r_doomed"}
       PROVE  Best
  <2>1. best'[t] = 0 /\ pc'[t] \in {"w_start", "w_start2", "r_try", "r_scan", "r_look"}
    BY <1>0, <1>15 DEF Retry, WordTypes
  <2>. QED
    BY <1>3, <1>4, <2>1
<1>16. TxAbort(t) => Best
  BY <1>15 DEF TxAbort
<1>17. ReaderAbort(t) => Best
  <2>1. ASSUME ReaderAbort(t), variant \in {"10.1", "10.2"}
        PROVE  Best
    <3>1. best'[t] = 0 /\ pc'[t] = "w_look"
      BY <1>0, <1>00, <2>1 DEF ReaderAbort, DelayOf, WordTypes
    <3>. QED
      BY <3>1 DEF Ahead, AheadOf
  <2>. QED
    BY <1>15, <2>1 DEF ReaderAbort
<1>18. WDelay(t) => Best
  BY <1>15 DEF WDelay
<1>19. WLook(t) \/ WTake(t) => Best
  <2>1. ASSUME WLook(t) \/ WTake(t)
        PROVE  /\ pc[t] \in Looking /\ pc'[t] \in Looking
               /\ best'[t] \in {clocks_r[idx[t]], best[t]} /\ idx[t] \in Threads
    BY <1>0, <2>1 DEF WLook, WTake, WordTypes
  <2>2. ASSUME WLook(t) \/ WTake(t)
        PROVE  AheadOf(best'[t], now' + longest')
    BY <1>0, <1>00, <1>1, <2>1, <2>2 DEF DelayOf
  <2>. QED
    BY <2>1, <2>2
<1>20. WAdjust(t) => Best
  <2>1. ASSUME WAdjust(t)
        PROVE  /\ pc[t] = "w_adjust" /\ pc'[t] = "w_delay" /\ longest' = longest
               /\ best'[t] = IF best[t] = 0 THEN 0 ELSE Early(best[t], avg[type[t]])
    BY <1>0, <2>1 DEF WAdjust, WordTypes
  <2>2. ASSUME WAdjust(t)
        PROVE  best'[t] <= now' + longest' /\ (best'[t] >= 0 \/ now' > 2 * Boot)
    <3>1. Ahead(best[t])
      BY <1>00, <2>1, <2>2 DEF DelayOf
    <3>2. Early(best[t], avg[type[t]]) <= best[t]
          /\ Early(best[t], avg[type[t]]) >= best[t] - avg[type[t]]
          /\ Early(best[t], avg[type[t]]) \in Int
      BY <1>0, EarlyType
    <3>. QED
      BY <1>0, <2>1, <2>2, <3>1, <3>2 DEF Ahead, AheadOf
  <2>. QED
    BY <2>1, <2>2
<1>21. RScan(t) \/ RLook(t) \/ RTake(t) => Best
  <2>1. RScan(t) \/ RLook(t) \/ RTake(t) => pc'[t] \in Scanning
    BY <1>0 DEF RScan, RLook, RTake, WordTypes
  <2>. QED
    BY <1>4, <2>1
<1>22. RMark(t) \/ RUnmark(t) \/ RWait(t) => Best
  BY <1>0, <1>4 DEF RMark, RUnmark, RWait, WordTypes
<1>23. Best
  BY <1>6, <1>7, <1>8, <1>9, <1>10, <1>11, <1>12, <1>13, <1>14, <1>16, <1>17, <1>18, <1>19, <1>20,
     <1>21, <1>22 DEF Step, Run
<1>. QED
  BY <1>2, <1>23 DEF DelayOf, Ahead, AheadOf

\* No delay is pending at the start.
LEMMA DelaysInit == Init => Lengths /\ Delays
BY BootAssumption DEF Init, Lengths, AvgBounded, Delays, DelayOf, Ahead, AheadOf, Looking, Scanning

\* Every step keeps the lengths and the delays.
LEMMA DelaysStep ==
  ASSUME Typed, Book, Lengths, Delays, [Next]_vars
  PROVE  Lengths' /\ Delays'
<1>1. now \in Nat /\ longest \in Nat /\ Boot \in Nat /\ longest <= now - Boot
      /\ \A u \in Threads : clocks_r[u] \in Nat /\ best[u] \in Int
  BY BootAssumption DEF Typed, WordTypes, Lengths
<1>2. ASSUME NEW t \in Threads, Step(t)
      PROVE  Lengths' /\ Delays'
  <2>1. DelayOf(t)' /\ Lengths' /\ longest <= longest' /\ now' = now
    BY <1>2, OwnDelay, LengthsStep, VariantFixed
  <2>2. longest' \in Nat
    BY <1>2, WordTypesStep DEF WordTypes
  <2>3. ASSUME NEW u \in Threads, u # t
        PROVE  DelayOf(u)'
    <3>1. DelayOf(u)
      BY DEF Delays
    <3>2. /\ pc'[u] = pc[u] \/ (pc[u] = "r_tx" /\ pc'[u] = "r_doomed")
          /\ best'[u] = best[u] /\ clocks_r'[u] = clocks_r[u]
      BY <1>2, <2>3, Others DEF Typed
    <3>. QED
      BY <1>1, <2>1, <2>2, <3>1, <3>2 DEF DelayOf, Ahead, AheadOf, Looking, Scanning
  <2>. QED
    BY <2>1, <2>3 DEF Delays
<1>3. CASE Tick
  <2>1. now' = now + 1 /\ UNCHANGED <<pc, best, clocks_r, longest, avg>>
    BY <1>3 DEF Tick
  <2>2. Lengths'
    BY <1>1, <2>1 DEF Lengths, AvgBounded
  <2>3. ASSUME NEW u \in Threads
        PROVE  DelayOf(u)'
    BY <1>1, <2>1 DEF Delays, DelayOf, Ahead, AheadOf, Looking, Scanning
  <2>. QED
    BY <2>2, <2>3 DEF Delays
<1>4. CASE Shutdown \/ UNCHANGED vars
  BY <1>4 DEF Shutdown, vars, Lengths, AvgBounded, Delays, DelayOf, Ahead, AheadOf
<1>. QED
  BY <1>2, <1>3, <1>4 DEF Next, Done, Step

\* The invariants hold together.
LEMMA AllHold == Spec => [](Typed /\ Book /\ Lengths /\ Delays)
<1>1. Init => Typed /\ Book /\ Lengths /\ Delays
  BY TypedInit, BookInit, DelaysInit
<1>2. Typed /\ Book /\ Lengths /\ Delays /\ [Next]_vars => (Typed /\ Book /\ Lengths /\ Delays)'
  BY TypedStep, BookStep, DelaysStep
<1>. QED
  BY <1>1, <1>2, PTL DEF Spec

\* avg_cycles never exceeds the longest section, in either way of averaging.
THEOREM AveragesBounded == Spec => []AvgBounded
<1>1. Lengths => AvgBounded
  BY DEF Lengths
<1>. QED
  BY <1>1, AllHold, PTL

\* A writer that waits for readers waits until a time that is not before zero
\* and not further ahead than a longest section, so long as the program has
\* run for less time than the machine had when it started.
THEOREM DelaysBounded == Spec => [](now <= 2 * Boot => DelayBounded)
<1>1. ASSUME Typed, Delays, now <= 2 * Boot
      PROVE  DelayBounded
  <2>1. ASSUME NEW t \in Threads, pc[t] = "w_delay"
        PROVE  best[t] >= 0 /\ best[t] <= now + longest
    BY <1>1, <2>1, BootAssumption DEF Typed, WordTypes, Delays, DelayOf
  <2>. QED
    BY <2>1 DEF DelayBounded
<1>2. Typed /\ Delays => (now <= 2 * Boot => DelayBounded)
  BY <1>1
<1>. QED
  BY <1>2, AllHold, PTL
----------------------------------------------------------------------------
(* Totals.  Sum folds over the set of threads, so what it adds up to is     *)
(* proved by induction over the number of threads, which a least            *)
(* counterexample stands for.                                               *)

\* A set of naturals that is not empty has a least element: a smallest of the
\* intervals that end in it, which are finite.
LEMMA LeastNatural ==
  ASSUME NEW T, T \subseteq Nat, T # {}
  PROVE  \E n \in T : \A m \in T : n <= m
<1>. DEFINE Up == {0..n : n \in T}
<1>1. Up \subseteq FiniteSubsetsOf(Nat) /\ Up # {}
  <2>1. ASSUME NEW n \in T
        PROVE  0..n \in FiniteSubsetsOf(Nat)
    <3>1. n \in Nat /\ 0..n \subseteq Nat
      OBVIOUS
    <3>2. IsFiniteSet(0..n)
      BY <3>1, FS_Interval
    <3>. QED
      BY <3>1, <3>2 DEF FiniteSubsetsOf
  <2>. QED
    BY <2>1
<1>2. PICK X \in Up : \A Y \in Up : <<Y, X>> \notin StrictSubsetOrdering(Nat)
  <2>. HIDE DEF Up
  <2>. QED
    BY <1>1, FS_StrictSubsetOrderingWellFounded, WFMin
<1>3. PICK n \in T : X = 0..n
  OBVIOUS
<1>4. ASSUME NEW m \in T, m < n
      PROVE  FALSE
  <2>1. m \in Nat /\ n \in Nat /\ 0..m \in Up
    OBVIOUS
  <2>2. 0..m \subseteq 0..n /\ n \in 0..n /\ n \notin 0..m /\ 0..n \subseteq Nat
    BY <2>1, <1>4
  <2>. QED
    BY <1>2, <1>3, <2>1, <2>2 DEF StrictSubsetOrdering
<1>. QED
  BY <1>3, <1>4

\* Induction: a set with zero and the successors of its elements has every
\* natural number.
LEMMA Successors ==
  ASSUME NEW I, 0 \in I, \A n \in I \cap Nat : n + 1 \in I
  PROVE  Nat \subseteq I
<1>1. SUFFICES ASSUME Nat \ I # {}
               PROVE  FALSE
  OBVIOUS
<1>2. PICK n \in Nat \ I : \A m \in Nat \ I : n <= m
  BY <1>1, LeastNatural
<1>3. n - 1 \in Nat /\ n - 1 \in I
  BY <1>2
<1>. QED
  BY <1>2, <1>3

\* What a fold over a set of threads is: a thread of the set is chosen and its
\* counter added to the sum of the others.
Picked(s) == CHOOSE t \in s : TRUE
Adds(f, s, c) == IF s = {} THEN 0 ELSE stats[Picked(s)][c] + f[s \ {Picked(s)}]
Partial(c) == CHOOSE f : f = [s \in SUBSET Threads |-> Adds(f, s, c)]

\* Sum adds up with Partial.
LEMMA SumIsPartial ==
  ASSUME NEW c
  PROVE  Sum(c) = Partial(c)[Threads]
BY Zenon DEF Sum, MapThenSumSet, MapThenFoldSet, Partial, Adds, Picked

\* The threads are finitely many, and one picked from them leaves one less.
LEMMA Fewer ==
  /\ \A s \in SUBSET Threads : IsFiniteSet(s) /\ Cardinality(s) \in Nat
  /\ \A s \in SUBSET Threads : s # {} =>
       /\ Picked(s) \in Threads /\ s \ {Picked(s)} \in SUBSET Threads
       /\ Cardinality(s \ {Picked(s)}) = Cardinality(s) - 1
<1>1. IsFiniteSet(Threads)
  BY ConstantsAssumption, FS_Interval DEF Threads
<1>2. \A s \in SUBSET Threads : IsFiniteSet(s) /\ Cardinality(s) \in Nat
  BY <1>1, FS_Subset, FS_CardinalityType
<1>3. ASSUME NEW s \in SUBSET Threads, s # {}
      PROVE  Picked(s) \in s
  BY <1>3 DEF Picked
<1>. QED
  BY <1>2, <1>3, FS_RemoveElement

\* The recursion has a solution: one for the sets up to any size.
LEMMA PartialExists ==
  ASSUME stats \in [Threads -> [Counters -> Nat]], NEW c \in Counters
  PROVE  \E f \in [SUBSET Threads -> Nat] : f = [s \in SUBSET Threads |-> Adds(f, s, c)]
<1>. DEFINE Small(n) == {s \in SUBSET Threads : Cardinality(s) <= n}
            Solves(f, n) == f = [s \in Small(n) |-> Adds(f, s, c)]
            Solved == {n \in Nat : \E f \in [Small(n) -> Nat] : Solves(f, n)}
<1>1. 0 \in Solved
  <2>1. \A s \in Small(0) : s = {}
    BY Fewer, FS_EmptySet
  <2>2. Solves([s \in Small(0) |-> 0], 0)
    BY <2>1 DEF Adds
  <2>3. [s \in Small(0) |-> 0] \in [Small(0) -> Nat]
    OBVIOUS
  <2>. HIDE DEF Solves, Small
  <2>. QED
    BY <2>2, <2>3
<1>2. ASSUME NEW n \in Solved
      PROVE  n + 1 \in Solved
  <2>1. n \in Nat
    OBVIOUS
  <2>2. PICK f \in [Small(n) -> Nat] : Solves(f, n)
    OBVIOUS
  <2>. DEFINE g == [s \in Small(n + 1) |-> Adds(f, s, c)]
  <2>3. ASSUME NEW s \in Small(n + 1), s # {}
        PROVE  s \ {Picked(s)} \in Small(n)
    <3>1. /\ s \in SUBSET Threads /\ s \ {Picked(s)} \in SUBSET Threads
          /\ Cardinality(s) \in Nat /\ Cardinality(s \ {Picked(s)}) = Cardinality(s) - 1
      BY <2>3, Fewer
    <3>. QED
      BY <2>1, <3>1
  <2>4. g \in [Small(n + 1) -> Nat]
    <3>1. ASSUME NEW s \in Small(n + 1)
          PROVE  Adds(f, s, c) \in Nat
      <4>1. CASE s = {}
        BY <4>1 DEF Adds
      <4>2. CASE s # {}
        <5>1. f[s \ {Picked(s)}] \in Nat /\ stats[Picked(s)][c] \in Nat
          BY <2>2, <2>3, <4>2, Fewer
        <5>. QED
          BY <4>2, <5>1 DEF Adds
      <4>. QED
        BY <4>1, <4>2
    <3>. QED
      BY <3>1
  <2>5. \A s \in Small(n) : s \in Small(n + 1) /\ g[s] = f[s]
    BY <2>1, <2>2, Fewer
  <2>6. \A s \in Small(n + 1) : Adds(f, s, c) = Adds(g, s, c)
    BY <2>3, <2>5 DEF Adds
  <2>7. Solves(g, n + 1)
    BY <2>6
  <2>. HIDE DEF g, Solves, Small
  <2>. QED
    BY <2>1, <2>4, <2>7
<1>3. Cardinality(Threads) \in Nat /\ Cardinality(Threads) \in Solved
  <2>1. Cardinality(Threads) \in Nat
    BY Fewer
  <2>. HIDE DEF Solved
  <2>2. Nat \subseteq Solved
    BY <1>1, <1>2, Successors
  <2>. QED
    BY <2>1, <2>2
<1>4. Small(Cardinality(Threads)) = SUBSET Threads
  <2>1. \A s \in SUBSET Threads : Cardinality(s) <= Cardinality(Threads)
    BY Fewer, FS_Subset
  <2>. QED
    BY <2>1
<1>. HIDE DEF Small
<1>. QED
  BY <1>3, <1>4

\* Induction over the sets of threads, by what is left when one is picked.
LEMMA SetsOfThreads ==
  ASSUME NEW J, {} \in J,
         \A s \in SUBSET Threads : s # {} /\ s \ {Picked(s)} \in J => s \in J
  PROVE  SUBSET Threads \subseteq J
<1>. DEFINE Good == {n \in Nat : \A s \in SUBSET Threads : Cardinality(s) <= n => s \in J}
<1>1. 0 \in Good
  <2>1. ASSUME NEW s \in SUBSET Threads, Cardinality(s) <= 0
        PROVE  s = {}
    <3>1. IsFiniteSet(s) /\ Cardinality(s) = 0
      BY <2>1, Fewer
    <3>. QED
      BY <3>1, FS_EmptySet
  <2>. QED
    BY <2>1
<1>2. ASSUME NEW n \in Good
      PROVE  n + 1 \in Good
  <2>1. ASSUME NEW s \in SUBSET Threads, Cardinality(s) <= n + 1, s # {}
        PROVE  s \in J
    <3>1. /\ s \ {Picked(s)} \in SUBSET Threads /\ Cardinality(s) \in Nat
          /\ Cardinality(s \ {Picked(s)}) = Cardinality(s) - 1
      BY <2>1, Fewer
    <3>2. s \ {Picked(s)} \in J
      BY <2>1, <3>1
    <3>. QED
      BY <2>1, <3>2
  <2>. QED
    BY <2>1
<1>3. \A n \in Nat : n \in Good
  <2>. HIDE DEF Good
  <2>. QED
    BY <1>1, <1>2, Successors
<1>. QED
  BY <1>3, Fewer

\* So Partial is a solution, and its values are natural numbers.
LEMMA PartialDef ==
  ASSUME stats \in [Threads -> [Counters -> Nat]], NEW c \in Counters
  PROVE  /\ \A s \in SUBSET Threads : Partial(c)[s] = Adds(Partial(c), s, c)
         /\ \A s \in SUBSET Threads : Partial(c)[s] \in Nat
<1>1. PICK f \in [SUBSET Threads -> Nat] : f = [s \in SUBSET Threads |-> Adds(f, s, c)]
  BY PartialExists
<1>2. Partial(c) = [s \in SUBSET Threads |-> Adds(Partial(c), s, c)]
  BY <1>1, Zenon DEF Partial
<1>3. \A s \in SUBSET Threads : Partial(c)[s] = Adds(Partial(c), s, c)
  BY <1>2, Zenon
<1>. DEFINE J == {s \in SUBSET Threads : Partial(c)[s] \in Nat}
<1>4. {} \in J
  <2>1. {} \in SUBSET Threads /\ Partial(c)[{}] = 0
    BY <1>3, Zenon DEF Adds
  <2>. QED
    BY <2>1
<1>5. ASSUME NEW s \in SUBSET Threads, s # {}, s \ {Picked(s)} \in J
      PROVE  s \in J
  <2>1. Partial(c)[s] = stats[Picked(s)][c] + Partial(c)[s \ {Picked(s)}]
    BY <1>3, <1>5 DEF Adds
  <2>2. Picked(s) \in Threads
    BY <1>5, Fewer
  <2>3. stats[Picked(s)][c] \in Nat
    BY <2>2
  <2>. QED
    BY <1>5, <2>1, <2>3
<1>6. SUBSET Threads \subseteq J
  <2>. HIDE DEF J
  <2>. QED
    BY <1>4, <1>5, SetsOfThreads
<1>. QED
  BY <1>3, <1>6

\* Each way of running a section is counted on one side and each kind of section
\* on the other: threads for which the two agree have sums that agree.
LEMMA SumsAgree ==
  ASSUME stats \in [Threads -> [Counters -> Nat]],
         \A t \in Threads : stats[t]["htm"] + stats[t]["lock"] + stats[t]["uro"]
                              = stats[t]["reads"] + stats[t]["writes"]
  PROVE  Sum("htm") + Sum("lock") + Sum("uro") = Sum("reads") + Sum("writes")
<1>. DEFINE Ways(s) == Partial("htm")[s] + Partial("lock")[s] + Partial("uro")[s]
            Kinds(s) == Partial("reads")[s] + Partial("writes")[s]
            J == {s \in SUBSET Threads : Ways(s) = Kinds(s)}
<1>1. {"htm", "lock", "uro", "reads", "writes"} \subseteq Counters
  BY DEF Counters
<1>2. {} \in J
  <2>1. {} \in SUBSET Threads /\ \A x \in Counters : Partial(x)[{}] = 0
    BY PartialDef, Zenon DEF Adds
  <2>. QED
    BY <1>1, <2>1
<1>3. ASSUME NEW s \in SUBSET Threads, s # {}, s \ {Picked(s)} \in J
      PROVE  s \in J
  <2>1. PICK t \in Threads, u \in SUBSET Threads : t = Picked(s) /\ u = s \ {Picked(s)}
    BY <1>3, Fewer
  <2>2. \A x \in Counters : Partial(x)[s] = stats[t][x] + Partial(x)[u]
    BY <1>3, <2>1, PartialDef DEF Adds
  <2>3. \A x \in Counters : stats[t][x] \in Nat /\ Partial(x)[u] \in Nat
    BY <2>1, PartialDef
  <2>4. Ways(u) = Kinds(u)
    BY <1>3, <2>1
  <2>5. Ways(s) = (stats[t]["htm"] + stats[t]["lock"] + stats[t]["uro"]) + Ways(u)
    BY <1>1, <2>2, <2>3
  <2>6. Kinds(s) = (stats[t]["reads"] + stats[t]["writes"]) + Kinds(u)
    BY <1>1, <2>2, <2>3
  <2>. QED
    BY <2>4, <2>5, <2>6
<1>4. SUBSET Threads \subseteq J
  <2>. HIDE DEF J
  <2>. QED
    BY <1>2, <1>3, SetsOfThreads
<1>. QED
  BY <1>4, SumIsPartial

\* A counter that is nowhere above another has no larger sum.
LEMMA SumsOrdered ==
  ASSUME stats \in [Threads -> [Counters -> Nat]], NEW a \in Counters, NEW b \in Counters,
         \A t \in Threads : stats[t][a] <= stats[t][b]
  PROVE  Sum(a) <= Sum(b)
<1>. DEFINE J == {s \in SUBSET Threads : Partial(a)[s] <= Partial(b)[s]}
<1>1. {} \in J
  <2>1. {} \in SUBSET Threads /\ \A x \in Counters : Partial(x)[{}] = 0
    BY PartialDef, Zenon DEF Adds
  <2>. QED
    BY <2>1
<1>2. ASSUME NEW s \in SUBSET Threads, s # {}, s \ {Picked(s)} \in J
      PROVE  s \in J
  <2>. DEFINE u == s \ {Picked(s)}
              t == Picked(s)
  <2>1. t \in Threads /\ u \in SUBSET Threads
    BY <1>2, Fewer
  <2>2. \A x \in Counters : Partial(x)[s] = stats[t][x] + Partial(x)[u]
    BY <1>2, PartialDef DEF Adds
  <2>3. \A x \in Counters : stats[t][x] \in Nat /\ Partial(x)[u] \in Nat
    BY <2>1, PartialDef
  <2>4. Partial(a)[u] <= Partial(b)[u] /\ stats[t][a] <= stats[t][b]
    BY <1>2, <2>1
  <2>. HIDE DEF u, t
  <2>. QED
    BY <2>2, <2>3, <2>4
<1>3. SUBSET Threads \subseteq J
  <2>. HIDE DEF J
  <2>. QED
    BY <1>1, <1>2, SetsOfThreads
<1>. QED
  BY <1>3, SumIsPartial

\* A mean grows with what it is the mean of.
LEMMA MeansOrdered ==
  ASSUME NEW a \in Nat, NEW b \in Nat, a <= b, NEW n \in Nat
  PROVE  Mean(a, n) <= Mean(b, n)
<1>1. ASSUME n > 0
      PROVE  a \div n <= b \div n
  <2>1. b \div n \in Nat /\ b < n * (b \div n) + n
    BY <1>1
  <2>. DEFINE q == b \div n
  <2>2. a \div n \in Int /\ n * (a \div n) <= a
    BY <1>1
  <2>. DEFINE p == a \div n
  <2>3. n * p < n * (q + 1)
    BY <2>1, <2>2
  <2>. HIDE DEF p, q
  <2>4. p \in Int /\ q \in Int
    BY <2>1, <2>2 DEF p, q
  <2>5. p < q + 1
    BY <1>1, <2>3, <2>4
  <2>. QED
    BY <2>4, <2>5 DEF p, q
<1>. QED
  BY <1>1 DEF Mean

\* What TM_SHUTDOWN prints adds up: the commits of each way are the sections of
\* each kind, and the mean time of a section is within the mean time since its
\* call.  No thread is between its two counters when the program shuts down.
THEOREM TotalsAgree == Spec => []PrintedAgrees
<1>1. Init => PrintedAgrees
  BY DEF Init, PrintedAgrees
<1>2. ASSUME Typed, Book, PrintedAgrees, [Next]_vars
      PROVE  PrintedAgrees'
  <2>1. CASE Shutdown
    <3>1. stats \in [Threads -> [Counters -> Nat]]
      BY <1>2 DEF Typed, WordTypes
    <3>2. /\ \A t \in Threads : stats[t]["htm"] + stats[t]["lock"] + stats[t]["uro"]
                                  = stats[t]["reads"] + stats[t]["writes"]
          /\ \A t \in Threads : /\ stats[t]["rtime"] <= stats[t]["rlat"]
                                /\ stats[t]["wtime"] <= stats[t]["wlat"]
      BY <1>2, <2>1, <3>1 DEF Shutdown, Returned, Book, BookOf, Owed, Counters
    <3>3. /\ Sum("htm") + Sum("lock") + Sum("uro") = Sum("reads") + Sum("writes")
          /\ Sum("rtime") <= Sum("rlat") /\ Sum("wtime") <= Sum("wlat")
      <4>1. /\ {"htm", "lock", "uro", "reads", "writes"} \subseteq Counters
            /\ {"rtime", "rlat", "wtime", "wlat"} \subseteq Counters
        BY DEF Counters
      <4>2. Sum("htm") + Sum("lock") + Sum("uro") = Sum("reads") + Sum("writes")
        BY <3>1, <3>2, <4>1, SumsAgree
      <4>3. Sum("rtime") <= Sum("rlat")
        BY <3>1, <3>2, <4>1, SumsOrdered
      <4>4. Sum("wtime") <= Sum("wlat")
        BY <3>1, <3>2, <4>1, SumsOrdered
      <4>. QED
        BY <4>2, <4>3, <4>4
    <3>4. \A c \in Counters : Sum(c) \in Nat
      BY <3>1, SumIsPartial, PartialDef
    <3>5. /\ Mean(Sum("rtime"), Sum("reads")) <= Mean(Sum("rlat"), Sum("reads"))
          /\ Mean(Sum("wtime"), Sum("writes")) <= Mean(Sum("wlat"), Sum("writes"))
      BY <3>3, <3>4, MeansOrdered DEF Counters
    <3>6. printed' = Totals
      BY <2>1 DEF Shutdown
    <3>. QED
      BY <3>3, <3>5, <3>6 DEF PrintedAgrees, Totals
  <2>2. UNCHANGED printed => PrintedAgrees'
    BY <1>2 DEF PrintedAgrees
  <2>3. ASSUME NEW t \in Threads, Step(t)
        PROVE  UNCHANGED printed
    <3>2. CASE TxAbort(t) \/ ReaderAbort(t) \/ (\E o \in {"w_start", "r_try"}, y \in Types : Call(t, o, y))
      BY <3>2 DEF TxAbort, ReaderAbort, Call
    <3>3. CASE WStart(t) \/ RStart(t) \/ RBegin(t) \/ RCommit(t) \/ WCommit(t) \/ WEnd(t)
      BY <3>3 DEF WStart, RStart, RBegin, RCommit, WCommit, WEnd
    <3>4. CASE RRelease(t) \/ RClear(t) \/ REnd(t) \/ RReleasePlain(t) \/ REndPlain(t)
      BY <3>4 DEF RRelease, RClear, REnd, RReleasePlain, REndPlain
    <3>5. CASE \/ WLook(t) \/ WTake(t) \/ WAdjust(t) \/ WDelay(t)
               \/ RScan(t) \/ RLook(t) \/ RTake(t)
      BY <3>5 DEF WLook, WTake, WAdjust, WDelay, RScan, RLook, RTake
    <3>6. CASE RMark(t) \/ RUnmark(t) \/ RWait(t)
      BY <3>6 DEF RMark, RUnmark, RWait
    <3>. QED
      BY <2>3, <3>2, <3>3, <3>4, <3>5, <3>6 DEF Step, Run
  <2>4. CASE Tick \/ Done \/ UNCHANGED vars
    BY <1>2, <2>4 DEF Tick, Done, vars, PrintedAgrees
  <2>. QED
    BY <1>2, <2>1, <2>2, <2>3, <2>4 DEF Next, Step
<1>3. Typed /\ Book /\ PrintedAgrees /\ [Next]_vars => PrintedAgrees'
  BY <1>2
<1>. QED
  BY <1>1, <1>3, AllHold, PTL DEF Spec
=============================================================================
