--------------------------- MODULE BackendsProof ---------------------------
(***************************************************************************)
(* Theorems about Backends, for any number of threads, words, retries and  *)
(* sections, and for every build: what a program relies on.  The builds    *)
(* with the speculative lock have it from the theorems of SpRWLProof; for  *)
(* the simpler locks it is proved here, from one invariant of the sections *)
(* and one of each lock.                                                   *)
(***************************************************************************)
EXTENDS Backends, TLAPS

\* Sections, whose operators each of the simpler locks takes as its own
Sec == INSTANCE Sections WITH RetryPolicy <- 1

Simple == backend \in {"1.0-htm-sgl", "brlock", "rwl"}

----------------------------------------------------------------------------
(* The sections, whichever of the simpler locks guards them. *)

\* Before a section, at its end, and after it has taken effect
Before == {"idle", "w_spin", "w_begin", "w_cas", "r_lock", "w_lock", "w_flags"}
Full == {"w_full", "w_end_htm", "w_unlock"}
After == {"w_unflag", "w_open", "w_done"}
SimpleLabels == Before \union {"r_read", "w_read", "w_write"} \union Full
                  \union {"r_clear"} \union After

SectionTypes ==
  /\ pc \in [Threads -> SimpleLabels]
  /\ op \in [Threads -> {"read", "write"}]
  /\ idx \in [Threads -> Nat]
  /\ seen \in [Threads -> [Data -> Nat]]
  /\ mem \in [Data -> Nat] /\ commits \in Nat
  /\ htm \in [Threads -> {"off", "on", "doomed"}]
  /\ rset \in [Threads -> SUBSET Data] /\ wset \in [Threads -> SUBSET Data]

\* A loop over the words or the threads stays inside its array.
SimpleIndex(t) ==
  idx[t] \in IF pc[t] \in {"r_read", "w_read", "w_write"} THEN Data
            ELSE IF pc[t] \in {"w_flags", "w_unflag"} THEN Threads ELSE {1}

\* A section stays the kind it was called as.
Kind(t) ==
  /\ pc[t] \in {"r_lock", "r_read", "r_clear"} => op[t] = "read"
  /\ pc[t] \in {"w_lock", "w_flags", "w_read", "w_write", "w_full", "w_unflag", "w_open"}
       => op[t] = "write"

\* What the section has read, and written
HasRead(t, d) ==
  \/ pc[t] \in {"r_read", "w_read"} /\ d < idx[t]
  \/ pc[t] = "w_write" /\ d <= idx[t]
  \/ pc[t] \in Full \union {"r_clear"}
HasWritten(t, d) ==
  /\ op[t] = "write"
  /\ pc[t] \in Full \/ (pc[t] \in {"w_read", "w_write"} /\ d < idx[t])

\* A section without a transaction that writes, or that reads
WritesInPlace(t) ==
  \/ pc[t] \in {"w_read", "w_write"} /\ htm[t] = "off"
  \/ pc[t] = "w_full"
  \/ pc[t] = "w_unlock" /\ op[t] = "write"
ReadsInPlace(t) ==
  \/ ReadsBare(t)
  \/ pc[t] = "w_unlock" /\ op[t] = "read"

\* One that writes in place runs alone; one that reads in place runs beside no
\* transaction.
Apart ==
  \A t, u \in Threads :
    /\ t # u /\ WritesInPlace(t)
         => ~WritesInPlace(u) /\ ~ReadsInPlace(u) /\ htm[u] # "on"
    /\ ReadsInPlace(t) => htm[u] # "on"

\* A transaction tracks exactly what its section has touched.
TracksOf(t) ==
  /\ htm[t] # "off" => pc[t] \in {"r_read", "w_read", "w_write", "w_end_htm"}
  /\ htm[t] = "off" => rset[t] = {} /\ wset[t] = {} /\ pc[t] # "w_end_htm"
  /\ htm[t] = "on" =>
       \A d \in Data : /\ HasRead(t, d) => d \in rset[t]
                       /\ d \in wset[t] <=> HasWritten(t, d)
Tracks == \A t \in Threads : TracksOf(t)

NoConflict ==
  \A t, u \in Threads, d \in Data :
    t # u /\ htm[t] = "on" /\ htm[u] = "on" /\ d \in wset[t]
      => d \notin rset[u] /\ d \notin wset[u]

\* What an open transaction or a reader in place has read is still there.
Current ==
  \A t \in Threads, d \in Data :
    (htm[t] = "on" \/ ReadsInPlace(t)) /\ HasRead(t, d) => seen[t][d] = mem[d]

\* A section that writes in place has its words one ahead of the others.
HalfDone ==
  \A t \in Threads, d \in Data : WritesInPlace(t) =>
    /\ HasRead(t, d) => seen[t][d] = commits
    /\ mem[d] = IF HasWritten(t, d) THEN commits + 1 ELSE commits
NoneLost == (\A t \in Threads : ~WritesInPlace(t)) => \A d \in Data : mem[d] = commits

Images == Tracks /\ NoConflict /\ Current /\ HalfDone /\ NoneLost

SectionInv ==
  /\ SectionTypes
  /\ \A t \in Threads : SimpleIndex(t) /\ Kind(t)
  /\ Images

----------------------------------------------------------------------------
(* The locks. *)

\* backends/1.0-htm-sgl: a section holds writer_lock, or is a transaction that
\* watches it and finds it free.
SglHolds(t) == \/ pc[t] \in {"r_read", "w_read", "w_write"} /\ htm[t] = "off"
               \/ pc[t] = "w_unlock"
SglInv ==
  \A t \in Threads :
    /\ pc[t] \in {"idle", "w_spin", "w_begin", "w_cas", "r_read", "w_read", "w_write",
                  "w_end_htm", "w_unlock", "w_done"}
    /\ SglHolds(t) => writer_lock = 1 /\ \A u \in Threads : SglHolds(u) => u = t
    /\ htm[t] = "on" => Sgl!Lock \in watch[t] /\ writer_lock = 0
    /\ pc[t] \in {"w_spin", "w_begin"} => mode[t] = 0
    /\ pc[t] = "w_cas" => mode[t] = 2
    /\ pc[t] \in {"r_read", "w_read", "w_write"} => (mode[t] = 0 <=> htm[t] # "off")

\* backends/brlock: the mutexes that a reader, or the writer, has taken and not
\* opened again
BrReads(t) == pc[t] \in {"r_read", "r_clear"}
BrWrites(t) == pc[t] \in {"w_flags", "w_read", "w_write", "w_full", "w_unflag", "w_open"}
BrTook(t, u) == \/ pc[t] = "w_flags" /\ u < idx[t]
                \/ pc[t] \in {"w_read", "w_write", "w_full"}
                \/ pc[t] = "w_unflag" /\ u >= idx[t]
BrInv ==
  \A t \in Threads :
    /\ pc[t] \in {"idle", "r_lock", "w_cas"} \/ BrReads(t) \/ BrWrites(t)
    /\ htm[t] = "off" /\ (pc[t] = "w_cas" => op[t] = "write")
    /\ BrWrites(t) => writer_lock = 1 /\ \A u \in Threads : BrWrites(u) => u = t
    /\ BrReads(t) => reader_locks[t] = 1
    /\ \A u \in Threads : BrTook(t, u) => reader_locks[u] = 1 /\ ~BrReads(u)

\* backends/rwl: pthread_rwlock_t is held by readers or by one writer.
RwReads(t) == pc[t] \in {"r_read", "r_clear"}
RwWrites(t) == pc[t] \in {"w_read", "w_write", "w_full"}
RwInv ==
  \A t \in Threads :
    /\ pc[t] \in {"idle", "r_lock", "w_lock", "w_done"} \/ RwReads(t) \/ RwWrites(t)
    /\ htm[t] = "off"
    /\ reader_locks[t] = 1 <=> RwReads(t)
    /\ RwWrites(t) => /\ writer_lock = 1
                      /\ \A u \in Threads : ~RwReads(u) /\ (RwWrites(u) => u = t)

Locks ==
  /\ writer_lock \in {0, 1} /\ reader_locks \in [Threads -> {0, 1}]
  /\ tries \in [Threads -> Int] /\ mode \in [Threads -> {0, 2}]
  /\ watch \in [Threads -> SUBSET (0..N)]
  /\ backend = "1.0-htm-sgl" => SglInv
  /\ backend = "brlock" => BrInv
  /\ backend = "rwl" => RwInv

SimpleInv == SectionInv /\ Locks

----------------------------------------------------------------------------
(* Every step of a simpler lock is one of seven steps of the sections. *)

\* Another thread's transaction may be doomed; nothing else of it changes.
Dooms(t) ==
  /\ htm' \in [Threads -> {"off", "on", "doomed"}]
  /\ \A u \in Threads \ {t} : htm'[u] = htm[u] \/ (htm[u] = "on" /\ htm'[u] = "doomed")
Moves(t, l, i) == pc' = [pc EXCEPT ![t] = l] /\ idx' = [idx EXCEPT ![t] = i]
Forgets(t) ==
  /\ htm'[t] = "off"
  /\ rset' = rset \/ rset' = [rset EXCEPT ![t] = {}]
  /\ wset' = wset \/ wset' = [wset EXCEPT ![t] = {}]
  /\ rset'[t] = {} /\ wset'[t] = {}

\* The caller asks for a section; the acquire macro goes on, or an attempt
\* fails; a section that has taken effect goes on to its return.
Begins(t) ==
  /\ pc[t] = "idle" /\ htm' = htm /\ UNCHANGED <<rset, wset>>
  /\ \E l \in Before \ {"idle"} : Moves(t, l, idx[t])
  /\ \E o \in {"read", "write"} : op' = [op EXCEPT ![t] = o]
  /\ UNCHANGED <<seen, mem, commits>>
Tries(t) ==
  /\ pc[t] \in Before \ {"idle"} \/ htm[t] # "off"
  /\ idx'[t] \in Nat /\ \E l \in Before \ {"idle"} : Moves(t, l, idx'[t])
  /\ Dooms(t) /\ Forgets(t)
  /\ UNCHANGED <<op, seen, mem, commits>>
Ends(t) ==
  /\ pc[t] \in After \union {"r_clear"}
  /\ idx'[t] \in Nat /\ \E l \in After \union {"idle"} : Moves(t, l, idx'[t])
  /\ UNCHANGED <<op, seen, mem, commits, htm, rset, wset>>

\* The section is entered, in a transaction or not.
Enters(t) ==
  /\ pc[t] \in Before \ {"idle"}
  /\ Moves(t, IF op[t] = "read" THEN "r_read" ELSE "w_read", 1)
  /\ Dooms(t) /\ htm'[t] \in {"off", "on"}
  /\ UNCHANGED <<op, seen, mem, commits, rset, wset>>

\* It reads a word, or writes one, and is full after the last.
Loads(t) ==
  /\ Sec!Load(t)
  /\ \/ pc[t] = "w_read" /\ Moves(t, "w_write", idx[t])
     \/ pc[t] = "r_read" /\ idx[t] # NData /\ Moves(t, "r_read", idx[t] + 1)
     \/ /\ pc[t] = "r_read" /\ idx[t] = NData
        /\ \E l \in IF htm[t] = "on" THEN {"w_end_htm"} ELSE {"r_clear", "w_unlock"} :
             Moves(t, l, 1)
Stores(t) ==
  /\ Sec!Store(t)
  /\ pc[t] = "w_write"
  /\ \/ idx[t] # NData /\ Moves(t, "w_read", idx[t] + 1)
     \/ /\ idx[t] = NData
        /\ \E l \in IF htm[t] = "on" THEN {"w_end_htm"} ELSE {"w_full", "w_unlock"} :
             Moves(t, l, 1)

\* It takes effect: the transaction commits, or the lock is given back.
Counts(t) == commits' = IF op[t] = "write" THEN commits + 1 ELSE commits
Commits(t) ==
  /\ pc[t] = "w_end_htm" /\ htm[t] = "on"
  /\ Moves(t, "w_done", idx[t])
  /\ mem' = [d \in Data |-> IF d \in wset[t] THEN seen[t][d] + 1 ELSE mem[d]]
  /\ Dooms(t) /\ Forgets(t) /\ Counts(t)
  /\ UNCHANGED <<op, seen>>
GivesBack(t) ==
  /\ pc[t] \in {"w_full", "w_unlock"}
  /\ idx'[t] \in Nat /\ \E l \in After : Moves(t, l, idx'[t])
  /\ Counts(t) /\ Dooms(t) /\ htm'[t] = "off"
  /\ UNCHANGED <<op, seen, mem, rset, wset>>

SectionStep(t) ==
  /\ SimpleIndex(t)' /\ Kind(t)'
  /\ \/ Begins(t) \/ Tries(t) \/ Ends(t) \/ Enters(t) \/ Loads(t) \/ Stores(t)
     \/ Commits(t) \/ GivesBack(t)

----------------------------------------------------------------------------
\* The threads and the words are the same sets for every lock.
LEMMA SameSets ==
  /\ Sec!Threads = Threads /\ Sgl!Threads = Threads /\ Br!Threads = Threads
  /\ Rw!Threads = Threads
  /\ Sec!Data = Data /\ Sgl!Data = Data /\ Br!Data = Data /\ Rw!Data = Data
  BY DEF Threads, Plain!Threads, Sec!Threads, Sgl!Threads, Br!Threads, Rw!Threads,
         Data, Plain!Data, Sec!Data, Sgl!Data, Br!Data, Rw!Data

\* The sets of threads and of words are intervals from 1.
LEMMA Ranges ==
  /\ \A i : i \in Threads <=> i \in Nat /\ 1 <= i /\ i <= N
  /\ \A i : i \in Data <=> i \in Nat /\ 1 <= i /\ i <= NData
  /\ N \in Nat /\ NData \in Nat /\ 1 \in Data /\ 1 \in Threads
  BY ConstantsAssumption DEF Threads, Plain!Threads, Data, Plain!Data

\* What a load does.
LEMMA LoadEffect ==
  ASSUME SectionTypes, NEW t \in Threads, idx[t] \in Data, Sec!Load(t)
  PROVE  /\ htm[t] # "doomed" /\ UNCHANGED <<op, mem, commits, wset>>
         /\ seen' = [seen EXCEPT ![t] = [seen[t] EXCEPT ![idx[t]] = mem[idx[t]]]]
         /\ rset' = IF htm[t] = "on" THEN [rset EXCEPT ![t] = rset[t] \union {idx[t]}] ELSE rset
         /\ Dooms(t) /\ htm'[t] = htm[t]
         /\ \A u \in Threads \ {t} : htm'[u] = "on" => idx[t] \notin wset[u]
<1>1. htm' = [u \in Threads |-> IF u # t /\ htm[u] = "on" /\ wset[u] \intersect {idx[t]} # {}
                                THEN "doomed" ELSE htm[u]]
  BY SameSets DEF Sec!Load, Sec!DoomByRead
<1>2. Dooms(t) /\ htm'[t] = htm[t]
  BY <1>1 DEF Dooms, SectionTypes
<1>3. \A u \in Threads \ {t} : htm'[u] = "on" => idx[t] \notin wset[u]
  BY <1>1 DEF SectionTypes
<1>. QED
  BY <1>2, <1>3 DEF Sec!Load, Sec!Live, Sec!progress

\* What a store does.
LEMMA StoreEffect ==
  ASSUME SectionTypes, NEW t \in Threads, idx[t] \in Data, Sec!Store(t)
  PROVE  /\ htm[t] # "doomed" /\ UNCHANGED <<op, seen, commits, rset>>
         /\ wset' = IF htm[t] = "on" THEN [wset EXCEPT ![t] = wset[t] \union {idx[t]}] ELSE wset
         /\ mem' = IF htm[t] = "on" THEN mem ELSE [mem EXCEPT ![idx[t]] = seen[t][idx[t]] + 1]
         /\ Dooms(t) /\ htm'[t] = htm[t]
         /\ \A u \in Threads \ {t} : htm'[u] = "on" => idx[t] \notin rset[u] /\ idx[t] \notin wset[u]
<1>1. htm' = [u \in Threads |->
                IF /\ u # t /\ htm[u] = "on"
                   /\ (rset[u] \union wset[u]) \intersect {idx[t]} # {}
                THEN "doomed" ELSE htm[u]]
  BY SameSets DEF Sec!Store, Sec!DoomByWrite
<1>2. Dooms(t) /\ htm'[t] = htm[t]
  BY <1>1 DEF Dooms, SectionTypes
<1>3. \A u \in Threads \ {t} : htm'[u] = "on" => idx[t] \notin rset[u] /\ idx[t] \notin wset[u]
  BY <1>1 DEF SectionTypes
<1>. QED
  BY <1>2, <1>3 DEF Sec!Store, Sec!Live, Sec!progress

\* A step of one thread leaves what the others have read and written, and where
\* they are, as it was.
LEMMA OthersSame ==
  ASSUME SectionTypes, NEW t \in Threads, SectionStep(t), idx[t] \in Nat,
         Loads(t) \/ Stores(t) => idx[t] \in Data,
         NEW u \in Threads \ {t}
  PROVE  /\ pc'[u] = pc[u] /\ idx'[u] = idx[u] /\ op'[u] = op[u] /\ seen'[u] = seen[u]
         /\ rset'[u] = rset[u] /\ wset'[u] = wset[u]
         /\ htm'[u] = htm[u] \/ (htm[u] = "on" /\ htm'[u] = "doomed")
         /\ \A d \in Data : /\ HasRead(u, d)' <=> HasRead(u, d)
                            /\ HasWritten(u, d)' <=> HasWritten(u, d)
         /\ WritesInPlace(u)' <=> WritesInPlace(u)
         /\ ReadsInPlace(u)' <=> ReadsInPlace(u)
<1>1. pc'[u] = pc[u] /\ idx'[u] = idx[u]
  BY DEF SectionStep, Begins, Tries, Ends, Enters, Loads, Stores, Commits, GivesBack, Moves,
         SectionTypes
<1>2. op'[u] = op[u] /\ seen'[u] = seen[u] /\ rset'[u] = rset[u] /\ wset'[u] = wset[u]
  <2>1. CASE Loads(t)
    BY <2>1, LoadEffect DEF Loads, SectionTypes
  <2>2. CASE Stores(t)
    BY <2>2, StoreEffect DEF Stores, SectionTypes
  <2>. QED
    BY <2>1, <2>2
       DEF SectionStep, Begins, Tries, Ends, Enters, Commits, GivesBack, Forgets, SectionTypes
<1>3. htm'[u] = htm[u] \/ (htm[u] = "on" /\ htm'[u] = "doomed")
  <2>1. CASE Loads(t)
    BY <2>1, LoadEffect DEF Loads, Dooms
  <2>2. CASE Stores(t)
    BY <2>2, StoreEffect DEF Stores, Dooms
  <2>. QED
    BY <2>1, <2>2 DEF SectionStep, Begins, Tries, Ends, Enters, Commits, GivesBack, Dooms
<1>. QED
  BY <1>1, <1>2, <1>3 DEF HasRead, HasWritten, WritesInPlace, ReadsInPlace, ReadsBare

----------------------------------------------------------------------------
(* Every step of the sections keeps their invariant. *)

\* Where a load happens, and what it changes of HasRead and HasWritten.
LEMMA LoadMoves ==
  ASSUME SectionInv, NEW t \in Threads, Loads(t)
  PROVE  /\ idx[t] \in Data /\ pc[t] \in {"w_read", "r_read"} /\ pc'[t] # "w_done"
         /\ \A d \in Data : /\ HasRead(t, d)' <=> HasRead(t, d) \/ d = idx[t]
                            /\ HasWritten(t, d)' <=> HasWritten(t, d)
         /\ ~HasWritten(t, idx[t]) /\ op' = op
         /\ WritesInPlace(t)' <=> WritesInPlace(t)
         /\ ReadsInPlace(t)' <=> ReadsInPlace(t)
         /\ pc'[t] \in {"r_read", "w_write", "w_end_htm", "r_clear", "w_unlock"}
         /\ htm[t] = "off" => pc'[t] # "w_end_htm"
         /\ htm[t] # "off" => pc'[t] \in {"r_read", "w_write", "w_end_htm"}
<1>1. idx[t] \in Data /\ pc[t] \in {"w_read", "r_read"}
  BY DEF Loads, SectionInv, SimpleIndex
<1>2. op' = op /\ htm'[t] = htm[t] /\ htm[t] \in {"off", "on"}
  <2>1. Sec!Load(t) /\ SectionTypes
    BY DEF Loads, SectionInv
  <2>2. op' = op /\ htm'[t] = htm[t] /\ htm[t] # "doomed"
    BY <1>1, <2>1, LoadEffect
  <2>. QED
    BY <2>1, <2>2 DEF SectionTypes
<1>3. op[t] = IF pc[t] = "w_read" THEN "write" ELSE "read"
  BY <1>1 DEF SectionInv, Kind
<1>4. \A d \in Data : d \in Nat /\ d >= 1 /\ d <= NData
  BY Ranges
<1>5. CASE pc[t] = "w_read" /\ Moves(t, "w_write", idx[t])
  <2>1. pc'[t] = "w_write" /\ idx'[t] = idx[t]
    BY <1>5 DEF Moves, SectionInv, SectionTypes
  <2>. QED
    BY <1>1, <1>2, <1>3, <1>4, <1>5, <2>1
       DEF HasRead, HasWritten, Full, WritesInPlace, ReadsInPlace, ReadsBare
<1>6. CASE pc[t] = "r_read" /\ idx[t] # NData /\ Moves(t, "r_read", idx[t] + 1)
  <2>1. pc'[t] = "r_read" /\ idx'[t] = idx[t] + 1
    BY <1>6 DEF Moves, SectionInv, SectionTypes
  <2>. QED
    BY <1>1, <1>2, <1>3, <1>4, <1>6, <2>1
       DEF HasRead, HasWritten, Full, WritesInPlace, ReadsInPlace, ReadsBare
<1>7. CASE /\ pc[t] = "r_read" /\ idx[t] = NData
           /\ \E l \in IF htm[t] = "on" THEN {"w_end_htm"} ELSE {"r_clear", "w_unlock"} :
                Moves(t, l, 1)
  <2>1. pc'[t] \in IF htm[t] = "on" THEN {"w_end_htm"} ELSE {"r_clear", "w_unlock"}
    BY <1>7 DEF Moves, SectionInv, SectionTypes
  <2>. QED
    BY <1>1, <1>2, <1>3, <1>4, <1>7, <2>1
       DEF HasRead, HasWritten, Full, WritesInPlace, ReadsInPlace, ReadsBare
<1>. QED
  BY <1>5, <1>6, <1>7 DEF Loads

\* Where a store happens, and what it changes of them.
LEMMA StoreMoves ==
  ASSUME SectionInv, NEW t \in Threads, Stores(t)
  PROVE  /\ idx[t] \in Data /\ pc[t] = "w_write" /\ op[t] = "write"
         /\ \A d \in Data : /\ HasRead(t, d)' <=> HasRead(t, d)
                            /\ HasWritten(t, d)' <=> HasWritten(t, d) \/ d = idx[t]
         /\ HasRead(t, idx[t]) /\ ~HasWritten(t, idx[t]) /\ op' = op
         /\ WritesInPlace(t)' <=> WritesInPlace(t)
         /\ WritesInPlace(t) <=> htm[t] = "off"
         /\ ~ReadsInPlace(t) /\ ~ReadsInPlace(t)'
         /\ pc'[t] \in {"w_read", "w_end_htm", "w_full", "w_unlock"}
         /\ htm[t] = "off" => pc'[t] # "w_end_htm"
         /\ htm[t] # "off" => pc'[t] \in {"w_read", "w_end_htm"}
<1>1. idx[t] \in Data /\ pc[t] = "w_write" /\ op[t] = "write"
  BY DEF Stores, SectionInv, SimpleIndex, Kind
<1>2. op' = op /\ htm'[t] = htm[t] /\ htm[t] \in {"off", "on"}
  <2>1. Sec!Store(t) /\ SectionTypes
    BY DEF Stores, SectionInv
  <2>2. op' = op /\ htm'[t] = htm[t] /\ htm[t] # "doomed"
    BY <1>1, <2>1, StoreEffect
  <2>. QED
    BY <2>1, <2>2 DEF SectionTypes
<1>4. \A d \in Data : d \in Nat /\ d >= 1 /\ d <= NData
  BY Ranges
<1>5. CASE idx[t] # NData /\ Moves(t, "w_read", idx[t] + 1)
  <2>1. pc'[t] = "w_read" /\ idx'[t] = idx[t] + 1
    BY <1>5 DEF Moves, SectionInv, SectionTypes
  <2>. QED
    BY <1>1, <1>2, <1>4, <1>5, <2>1
       DEF HasRead, HasWritten, Full, WritesInPlace, ReadsInPlace, ReadsBare
<1>6. CASE /\ idx[t] = NData
           /\ \E l \in IF htm[t] = "on" THEN {"w_end_htm"} ELSE {"w_full", "w_unlock"} :
                Moves(t, l, 1)
  <2>1. pc'[t] \in IF htm[t] = "on" THEN {"w_end_htm"} ELSE {"w_full", "w_unlock"}
    BY <1>6 DEF Moves, SectionInv, SectionTypes
  <2>. QED
    BY <1>1, <1>2, <1>4, <1>6, <2>1
       DEF HasRead, HasWritten, Full, WritesInPlace, ReadsInPlace, ReadsBare
<1>. QED
  BY <1>5, <1>6 DEF Stores

\* A step keeps the types, the loops inside their arrays, and the kind.
LEMMA TypesStep ==
  ASSUME SectionInv, NEW t \in Threads, SectionStep(t)
  PROVE  SectionTypes' /\ \A u \in Threads : SimpleIndex(u)' /\ Kind(u)'
<1>1. SectionTypes /\ idx[t] \in Nat
  BY DEF SectionInv, SectionTypes
<1>2. ASSUME NEW l \in SimpleLabels, NEW i \in Nat, Moves(t, l, i)
      PROVE  pc' \in [Threads -> SimpleLabels] /\ idx' \in [Threads -> Nat]
  BY <1>1, <1>2 DEF Moves, SectionTypes
<1>3. /\ \A l \in Before \union After : l \in SimpleLabels
      /\ \A l \in {"r_read", "w_read", "w_write", "r_clear", "w_full", "w_end_htm", "w_unlock"} :
           l \in SimpleLabels
      /\ "idle" \in Before /\ "w_done" \in After
  BY DEF SimpleLabels, Before, After, Full
<1>4. SectionTypes'
  <2>1. CASE Begins(t)
    BY <1>1, <1>2, <1>3, <2>1 DEF Begins, SectionTypes
  <2>2. CASE Tries(t)
    <3>1. pc' \in [Threads -> SimpleLabels] /\ idx' \in [Threads -> Nat]
      BY <1>2, <1>3, <2>2 DEF Tries
    <3>. QED
      BY <1>1, <2>2, <3>1 DEF Tries, Dooms, Forgets, SectionTypes
  <2>3. CASE Ends(t)
    <3>1. pc' \in [Threads -> SimpleLabels] /\ idx' \in [Threads -> Nat]
      BY <1>2, <1>3, <2>3 DEF Ends
    <3>. QED
      BY <1>1, <2>3, <3>1 DEF Ends, SectionTypes
  <2>4. CASE Enters(t)
    <3>1. pc' \in [Threads -> SimpleLabels] /\ idx' \in [Threads -> Nat]
      BY <1>2, <1>3, <2>4 DEF Enters
    <3>. QED
      BY <1>1, <2>4, <3>1 DEF Enters, Dooms, SectionTypes
  <2>5. CASE Loads(t)
    <3>1. idx[t] \in Data /\ Sec!Load(t) /\ mem[idx[t]] \in Nat
      BY <1>1, <2>5, LoadMoves DEF Loads, SectionTypes
    <3>2. pc' \in [Threads -> SimpleLabels] /\ idx' \in [Threads -> Nat]
      BY <1>1, <1>2, <1>3, <2>5 DEF Loads
    <3>3. seen' \in [Threads -> [Data -> Nat]] /\ rset' \in [Threads -> SUBSET Data]
      <4>1. /\ seen' = [seen EXCEPT ![t] = [seen[t] EXCEPT ![idx[t]] = mem[idx[t]]]]
            /\ rset' = rset \/ rset' = [rset EXCEPT ![t] = rset[t] \union {idx[t]}]
        BY <1>1, <3>1, LoadEffect
      <4>2. [seen[t] EXCEPT ![idx[t]] = mem[idx[t]]] \in [Data -> Nat]
            /\ rset[t] \union {idx[t]} \in SUBSET Data
        BY <1>1, <3>1 DEF SectionTypes
      <4>3. seen \in [Threads -> [Data -> Nat]] /\ rset \in [Threads -> SUBSET Data]
        BY <1>1 DEF SectionTypes
      <4>4. seen' \in [Threads -> [Data -> Nat]]
        BY <4>1, <4>2, <4>3
      <4>5. rset' \in [Threads -> SUBSET Data]
        BY <4>1, <4>2, <4>3
      <4>. QED
        BY <4>4, <4>5
    <3>4. Dooms(t) /\ UNCHANGED <<op, mem, commits, wset>>
      BY <1>1, <3>1, LoadEffect
    <3>. QED
      BY <1>1, <3>2, <3>3, <3>4 DEF Dooms, SectionTypes
  <2>6. CASE Stores(t)
    <3>1. idx[t] \in Data /\ Sec!Store(t) /\ seen[t][idx[t]] \in Nat
      BY <1>1, <2>6, StoreMoves DEF Stores, SectionTypes
    <3>2. pc' \in [Threads -> SimpleLabels] /\ idx' \in [Threads -> Nat]
      BY <1>1, <1>2, <1>3, <2>6 DEF Stores
    <3>3. mem' \in [Data -> Nat] /\ wset' \in [Threads -> SUBSET Data]
      <4>1. /\ mem' = mem \/ mem' = [mem EXCEPT ![idx[t]] = seen[t][idx[t]] + 1]
            /\ wset' = wset \/ wset' = [wset EXCEPT ![t] = wset[t] \union {idx[t]}]
        BY <1>1, <3>1, StoreEffect
      <4>2. mem' \in [Data -> Nat]
        <5>1. seen[t][idx[t]] + 1 \in Nat
          BY <3>1
        <5>. QED
          BY <1>1, <4>1, <5>1 DEF SectionTypes
      <4>3. wset' \in [Threads -> SUBSET Data]
        <5>1. wset[t] \union {idx[t]} \in SUBSET Data
          BY <1>1, <3>1 DEF SectionTypes
        <5>. QED
          BY <1>1, <4>1, <5>1 DEF SectionTypes
      <4>. QED
        BY <4>2, <4>3
    <3>4. Dooms(t) /\ UNCHANGED <<op, seen, commits, rset>>
      BY <1>1, <3>1, StoreEffect
    <3>. QED
      BY <1>1, <3>2, <3>3, <3>4 DEF Dooms, SectionTypes
  <2>7. CASE Commits(t)
    <3>1. pc' \in [Threads -> SimpleLabels] /\ idx' \in [Threads -> Nat]
      BY <1>1, <1>2, <1>3, <2>7 DEF Commits
    <3>2. mem' \in [Data -> Nat] /\ commits' \in Nat
      BY <1>1, <2>7 DEF Commits, Counts, SectionTypes
    <3>. QED
      BY <1>1, <2>7, <3>1, <3>2 DEF Commits, Dooms, Forgets, SectionTypes
  <2>8. CASE GivesBack(t)
    <3>1. pc' \in [Threads -> SimpleLabels] /\ idx' \in [Threads -> Nat]
      BY <1>2, <1>3, <2>8 DEF GivesBack
    <3>. QED
      BY <1>1, <2>8, <3>1 DEF GivesBack, Counts, Dooms, SectionTypes
  <2>. QED
    BY <2>1, <2>2, <2>3, <2>4, <2>5, <2>6, <2>7, <2>8 DEF SectionStep
<1>5. ASSUME NEW u \in Threads \ {t}
      PROVE  SimpleIndex(u)' /\ Kind(u)'
  <2>1. pc'[u] = pc[u] /\ idx'[u] = idx[u] /\ op'[u] = op[u]
    BY <1>1, LoadMoves, StoreMoves, OthersSame
  <2>2. SimpleIndex(u) /\ Kind(u)
    BY DEF SectionInv
  <2>. QED
    BY <2>1, <2>2 DEF SimpleIndex, Kind
<1>. QED
  BY <1>4, <1>5 DEF SectionStep

\* The steps that touch no data: the section has none to protect before or
\* after, or is entered where no other one writes in place.
LEMMA QuietStep ==
  ASSUME SectionInv, SectionTypes', Apart', NEW t \in Threads, SectionStep(t),
         Begins(t) \/ Tries(t) \/ Ends(t) \/ Enters(t)
  PROVE  Images'
<1>1. /\ UNCHANGED <<mem, commits, seen>> /\ ~WritesInPlace(t)
      /\ htm'[t] # "on" => pc[t] # "w_end_htm" \/ htm[t] # "off"
  BY DEF Begins, Tries, Ends, Enters, Before, After, WritesInPlace, SectionInv, Images, Tracks,
         TracksOf
<1>2. /\ pc'[t] \in Before \union After \union {"r_read", "w_read"}
      /\ pc'[t] \in {"r_read", "w_read"} => idx'[t] = 1
      /\ htm'[t] # "off" => pc'[t] \in {"r_read", "w_read"} /\ htm'[t] = "on"
      /\ rset'[t] = {} /\ wset'[t] = {}
  BY DEF Begins, Tries, Ends, Enters, Before, After, Moves, Forgets, SectionInv, SectionTypes,
         Images, Tracks, TracksOf
<1>3. \A d \in Data : ~HasRead(t, d)' /\ ~HasWritten(t, d)'
  BY <1>2, Ranges DEF HasRead, HasWritten, Before, After, Full
<1>4. ~ReadsBare(t)' \/ pc'[t] = "r_read"
  BY <1>2 DEF ReadsBare, Before, After
<1>5. \A u \in Threads \ {t} :
        /\ pc'[u] = pc[u] /\ rset'[u] = rset[u] /\ wset'[u] = wset[u]
        /\ htm'[u] = htm[u] \/ (htm[u] = "on" /\ htm'[u] = "doomed")
        /\ \A d \in Data : /\ HasRead(u, d)' <=> HasRead(u, d)
                           /\ HasWritten(u, d)' <=> HasWritten(u, d)
        /\ WritesInPlace(u)' <=> WritesInPlace(u)
        /\ ReadsInPlace(u)' <=> ReadsInPlace(u)
  BY LoadMoves, StoreMoves, OthersSame DEF SectionInv, SectionTypes
<1>6. Tracks'
  <2>1. TracksOf(t)'
    BY <1>2, <1>3 DEF TracksOf, Before, After
  <2>2. ASSUME NEW u \in Threads \ {t}
        PROVE  TracksOf(u)'
    <3>1. TracksOf(u)
      BY DEF SectionInv, Images, Tracks
    <3>. QED
      BY <1>5, <3>1 DEF TracksOf
  <2>. QED
    BY <2>1, <2>2 DEF Tracks
<1>7. NoConflict'
  BY <1>2, <1>5 DEF NoConflict, SectionInv, Images
<1>8. Current'
  BY <1>1, <1>3, <1>5 DEF Current, SectionInv, Images
<1>9. HalfDone' /\ NoneLost'
  <2>1. CASE WritesInPlace(t)'
    <3>1. \A u \in Threads : ~WritesInPlace(u)
      BY <1>1, <1>5, <2>1 DEF Apart
    <3>2. \A d \in Data : mem[d] = commits
      BY <3>1 DEF NoneLost, SectionInv, Images
    <3>3. \A u \in Threads \ {t} : ~WritesInPlace(u)'
      BY <1>5, <3>1
    <3>. QED
      BY <1>1, <1>3, <2>1, <3>2, <3>3 DEF HalfDone, NoneLost
  <2>2. CASE ~WritesInPlace(t)'
    BY <1>1, <1>5, <2>2 DEF HalfDone, NoneLost, SectionInv, Images
  <2>. QED
    BY <2>1, <2>2
<1>. QED
  BY <1>6, <1>7, <1>8, <1>9 DEF Images

\* A load.
LEMMA LoadStep ==
  ASSUME SectionInv, Apart, SectionTypes', NEW t \in Threads, SectionStep(t), Loads(t)
  PROVE  Images'
<1>0. SectionTypes /\ Images /\ Sec!Load(t)
  BY DEF SectionInv, Loads
<1>1. /\ idx[t] \in Data
      /\ \A d \in Data : /\ HasRead(t, d)' <=> HasRead(t, d) \/ d = idx[t]
                         /\ HasWritten(t, d)' <=> HasWritten(t, d)
      /\ ~HasWritten(t, idx[t])
      /\ WritesInPlace(t)' <=> WritesInPlace(t)
      /\ ReadsInPlace(t)' <=> ReadsInPlace(t)
  BY LoadMoves
<1>2. /\ UNCHANGED <<mem, commits, wset>> /\ htm'[t] = htm[t] /\ htm[t] # "doomed"
      /\ seen' = [seen EXCEPT ![t] = [seen[t] EXCEPT ![idx[t]] = mem[idx[t]]]]
      /\ rset' = IF htm[t] = "on" THEN [rset EXCEPT ![t] = rset[t] \union {idx[t]}] ELSE rset
      /\ \A u \in Threads \ {t} : htm'[u] = "on" => idx[t] \notin wset[u]
  BY <1>0, <1>1, LoadEffect
<1>3. /\ \A d \in Data : seen'[t][d] = IF d = idx[t] THEN mem[d] ELSE seen[t][d]
      /\ rset'[t] = IF htm[t] = "on" THEN rset[t] \union {idx[t]} ELSE rset[t]
  BY <1>0, <1>1, <1>2 DEF SectionTypes
<1>4. ASSUME NEW u \in Threads \ {t}
      PROVE  /\ pc'[u] = pc[u] /\ seen'[u] = seen[u] /\ rset'[u] = rset[u] /\ wset'[u] = wset[u]
             /\ htm'[u] = htm[u] \/ (htm[u] = "on" /\ htm'[u] = "doomed")
             /\ \A d \in Data : /\ HasRead(u, d)' <=> HasRead(u, d)
                                /\ HasWritten(u, d)' <=> HasWritten(u, d)
             /\ WritesInPlace(u)' <=> WritesInPlace(u)
             /\ ReadsInPlace(u)' <=> ReadsInPlace(u)
  BY <1>0, <1>1, OthersSame DEF SectionTypes
<1>5. Tracks'
  <2>1. TracksOf(t)'
    <3>1. pc'[t] \in {"r_read", "w_write", "w_end_htm"} \/ htm[t] = "off"
      BY LoadMoves
    <3>2. htm[t] = "off" => pc'[t] # "w_end_htm"
      BY LoadMoves
    <3>3. TracksOf(t)
      BY <1>0 DEF Images, Tracks
    <3>4. ASSUME htm[t] = "on", NEW d \in Data
          PROVE  (HasRead(t, d)' => d \in rset'[t]) /\ (d \in wset'[t] <=> HasWritten(t, d)')
      <4>1. (HasRead(t, d) => d \in rset[t]) /\ (d \in wset[t] <=> HasWritten(t, d))
        BY <3>3, <3>4 DEF TracksOf
      <4>. QED
        BY <1>1, <1>2, <1>3, <3>4, <4>1
    <3>5. htm[t] = "off" => rset'[t] = {} /\ wset'[t] = {} /\ pc'[t] # "w_end_htm"
      BY <1>2, <1>3, <3>2, <3>3 DEF TracksOf
    <3>. QED
      BY <1>2, <3>1, <3>4, <3>5 DEF TracksOf
  <2>2. ASSUME NEW u \in Threads \ {t}
        PROVE  TracksOf(u)'
    <3>1. TracksOf(u)
      BY <1>0 DEF Images, Tracks
    <3>. QED
      BY <1>4, <3>1 DEF TracksOf
  <2>. QED
    BY <2>1, <2>2 DEF Tracks
<1>6. NoConflict'
  BY <1>0, <1>2, <1>3, <1>4 DEF NoConflict, Images
<1>7. Current'
  <2>1. ASSUME NEW d \in Data, (htm[t] = "on" \/ ReadsInPlace(t)), HasRead(t, d)'
        PROVE  seen'[t][d] = mem'[d]
    BY <1>0, <1>1, <1>2, <1>3, <2>1 DEF Current, Images
  <2>. QED
    BY <1>0, <1>1, <1>2, <1>4, <2>1 DEF Current, Images
<1>8. HalfDone'
  <2>1. ASSUME NEW d \in Data, WritesInPlace(t), HasRead(t, d)'
        PROVE  seen'[t][d] = commits
    BY <1>0, <1>1, <1>2, <1>3, <2>1 DEF HalfDone, Images
  <2>. QED
    BY <1>0, <1>1, <1>2, <1>4, <2>1 DEF HalfDone, Images
<1>9. NoneLost'
  BY <1>0, <1>1, <1>2, <1>4 DEF NoneLost, Images
<1>. QED
  BY <1>5, <1>6, <1>7, <1>8, <1>9 DEF Images

\* A store: in a transaction it dooms whoever tracks the word; in place nobody
\* else reads or writes.
LEMMA StoreStep ==
  ASSUME SectionInv, Apart, SectionTypes', NEW t \in Threads, SectionStep(t), Stores(t)
  PROVE  Images'
<1>0. SectionTypes /\ Images /\ Sec!Store(t)
  BY DEF SectionInv, Stores
<1>1. /\ idx[t] \in Data /\ HasRead(t, idx[t]) /\ ~HasWritten(t, idx[t])
      /\ \A d \in Data : /\ HasRead(t, d)' <=> HasRead(t, d)
                         /\ HasWritten(t, d)' <=> HasWritten(t, d) \/ d = idx[t]
      /\ WritesInPlace(t)' <=> WritesInPlace(t)
      /\ WritesInPlace(t) <=> htm[t] = "off"
      /\ ~ReadsInPlace(t)'
  BY StoreMoves
<1>2. /\ UNCHANGED <<seen, commits, rset>> /\ htm'[t] = htm[t] /\ htm[t] # "doomed"
      /\ wset' = IF htm[t] = "on" THEN [wset EXCEPT ![t] = wset[t] \union {idx[t]}] ELSE wset
      /\ mem' = IF htm[t] = "on" THEN mem ELSE [mem EXCEPT ![idx[t]] = seen[t][idx[t]] + 1]
      /\ \A u \in Threads \ {t} : htm'[u] = "on" => idx[t] \notin rset[u] /\ idx[t] \notin wset[u]
  BY <1>0, <1>1, StoreEffect
<1>3. /\ wset'[t] = IF htm[t] = "on" THEN wset[t] \union {idx[t]} ELSE wset[t]
      /\ htm[t] = "on" \/ htm[t] = "off"
      /\ \A d \in Data : mem'[d] = IF htm[t] = "off" /\ d = idx[t] THEN seen[t][d] + 1 ELSE mem[d]
  BY <1>0, <1>1, <1>2 DEF SectionTypes
<1>4. ASSUME NEW u \in Threads \ {t}
      PROVE  /\ pc'[u] = pc[u] /\ seen'[u] = seen[u] /\ rset'[u] = rset[u] /\ wset'[u] = wset[u]
             /\ htm'[u] = htm[u] \/ (htm[u] = "on" /\ htm'[u] = "doomed")
             /\ \A d \in Data : /\ HasRead(u, d)' <=> HasRead(u, d)
                                /\ HasWritten(u, d)' <=> HasWritten(u, d)
             /\ WritesInPlace(u)' <=> WritesInPlace(u)
             /\ ReadsInPlace(u)' <=> ReadsInPlace(u)
  BY <1>0, <1>1, OthersSame DEF SectionTypes
<1>5. Tracks'
  <2>1. TracksOf(t)'
    <3>1. pc'[t] \in {"w_read", "w_end_htm"} \/ htm[t] = "off"
      BY <1>3, StoreMoves
    <3>2. htm[t] = "off" => pc'[t] # "w_end_htm"
      BY StoreMoves
    <3>3. TracksOf(t)
      BY <1>0 DEF Images, Tracks
    <3>4. ASSUME htm[t] = "on", NEW d \in Data
          PROVE  (HasRead(t, d)' => d \in rset'[t]) /\ (d \in wset'[t] <=> HasWritten(t, d)')
      <4>1. (HasRead(t, d) => d \in rset[t]) /\ (d \in wset[t] <=> HasWritten(t, d))
        BY <3>3, <3>4 DEF TracksOf
      <4>. QED
        BY <1>1, <1>2, <1>3, <3>4, <4>1
    <3>5. htm[t] = "off" => rset'[t] = {} /\ wset'[t] = {} /\ pc'[t] # "w_end_htm"
      BY <1>2, <1>3, <3>2, <3>3 DEF TracksOf
    <3>. QED
      BY <1>2, <3>1, <3>4, <3>5 DEF TracksOf
  <2>2. ASSUME NEW u \in Threads \ {t}
        PROVE  TracksOf(u)'
    <3>1. TracksOf(u)
      BY <1>0 DEF Images, Tracks
    <3>. QED
      BY <1>4, <3>1 DEF TracksOf
  <2>. QED
    BY <2>1, <2>2 DEF Tracks
<1>6. NoConflict'
  BY <1>0, <1>2, <1>3, <1>4 DEF NoConflict, Images
<1>7. CASE htm[t] = "on"
  <2>1. mem' = mem
    BY <1>2, <1>7
  <2>2. Current'
    BY <1>0, <1>1, <1>2, <1>4, <1>7, <2>1 DEF Current, Images
  <2>3. HalfDone' /\ NoneLost'
    BY <1>0, <1>1, <1>2, <1>4, <1>7, <2>1 DEF HalfDone, NoneLost, Images
  <2>. QED
    BY <1>5, <1>6, <2>2, <2>3 DEF Images
<1>8. CASE htm[t] = "off"
  <2>1. ASSUME NEW u \in Threads \ {t}
        PROVE  ~WritesInPlace(u)' /\ ~ReadsInPlace(u)' /\ htm'[u] # "on"
    BY <1>1, <1>4, <1>8 DEF Apart
  <2>2. Current'
    BY <1>1, <1>2, <1>8, <2>1 DEF Current
  <2>3. \A d \in Data : /\ HasRead(t, d) => seen[t][d] = commits
                        /\ mem[d] = IF HasWritten(t, d) THEN commits + 1 ELSE commits
    BY <1>0, <1>1, <1>8 DEF HalfDone, Images
  <2>4. HalfDone'
    BY <1>1, <1>2, <1>3, <1>8, <2>1, <2>3 DEF HalfDone
  <2>5. NoneLost'
    BY <1>1, <1>8 DEF NoneLost
  <2>. QED
    BY <1>5, <1>6, <2>2, <2>4, <2>5 DEF Images
<1>. QED
  BY <1>3, <1>7, <1>8

\* A transaction commits: it conflicts with none that is still open, and nobody
\* is in place.
LEMMA CommitStep ==
  ASSUME SectionInv, Apart, SectionTypes', NEW t \in Threads, SectionStep(t), Commits(t)
  PROVE  Images'
<1>0. SectionTypes /\ Images /\ Kind(t)
  BY DEF SectionInv
<1>1. /\ pc[t] = "w_end_htm" /\ htm[t] = "on" /\ pc'[t] = "w_done" /\ seen' = seen
      /\ mem' = [d \in Data |-> IF d \in wset[t] THEN seen[t][d] + 1 ELSE mem[d]]
      /\ commits' = IF op[t] = "write" THEN commits + 1 ELSE commits
      /\ htm'[t] = "off" /\ rset'[t] = {} /\ wset'[t] = {}
  BY <1>0 DEF Commits, Moves, Forgets, Counts, SectionTypes
<1>2. ASSUME NEW u \in Threads \ {t}
      PROVE  /\ pc'[u] = pc[u] /\ seen'[u] = seen[u] /\ rset'[u] = rset[u] /\ wset'[u] = wset[u]
             /\ htm'[u] = htm[u] \/ (htm[u] = "on" /\ htm'[u] = "doomed")
             /\ \A d \in Data : /\ HasRead(u, d)' <=> HasRead(u, d)
                                /\ HasWritten(u, d)' <=> HasWritten(u, d)
             /\ WritesInPlace(u)' <=> WritesInPlace(u)
             /\ ReadsInPlace(u)' <=> ReadsInPlace(u)
  BY <1>0, LoadMoves, StoreMoves, OthersSame DEF SectionTypes
<1>3. ~WritesInPlace(t) /\ ~WritesInPlace(t)' /\ ~ReadsInPlace(t)' /\ ~ReadsInPlace(t)
  BY <1>1 DEF WritesInPlace, ReadsInPlace, ReadsBare
<1>4. \A u \in Threads : ~WritesInPlace(u) /\ ~ReadsInPlace(u)
  BY <1>1, <1>3 DEF Apart
<1>5. \A u \in Threads : ~WritesInPlace(u)' /\ ~ReadsInPlace(u)'
  BY <1>2, <1>3, <1>4
<1>6. ASSUME NEW d \in Data
      PROVE  /\ d \in wset[t] <=> op[t] = "write"
             /\ seen[t][d] = mem[d] /\ mem[d] = commits
  <2>1. HasRead(t, d) /\ (HasWritten(t, d) <=> op[t] = "write")
    BY <1>0, <1>1 DEF HasRead, HasWritten, Full
  <2>2. TracksOf(t)
    BY <1>0 DEF Images, Tracks
  <2>3. seen[t][d] = mem[d]
    BY <1>0, <1>1, <2>1 DEF Images, Current
  <2>4. mem[d] = commits
    BY <1>0, <1>4 DEF Images, NoneLost
  <2>. QED
    BY <1>1, <2>1, <2>2, <2>3, <2>4 DEF TracksOf
<1>7. Tracks'
  <2>1. TracksOf(t)'
    BY <1>1 DEF TracksOf
  <2>2. ASSUME NEW u \in Threads \ {t}
        PROVE  TracksOf(u)'
    <3>1. TracksOf(u)
      BY <1>0 DEF Images, Tracks
    <3>. QED
      BY <1>2, <3>1 DEF TracksOf
  <2>. QED
    BY <2>1, <2>2 DEF Tracks
<1>8. NoConflict'
  BY <1>0, <1>1, <1>2 DEF Images, NoConflict
<1>9. Current'
  <2>1. ASSUME NEW u \in Threads, NEW d \in Data, htm'[u] = "on", HasRead(u, d)'
        PROVE  seen'[u][d] = mem'[d]
    <3>1. u # t /\ htm[u] = "on" /\ HasRead(u, d)
      BY <1>1, <1>2, <2>1
    <3>2. TracksOf(u)
      BY <1>0 DEF Images, Tracks
    <3>3. d \in rset[u]
      BY <3>1, <3>2 DEF TracksOf
    <3>4. d \notin wset[t]
      BY <1>0, <1>1, <3>1, <3>3 DEF Images, NoConflict
    <3>5. seen[u][d] = mem[d]
      BY <1>0, <3>1 DEF Images, Current
    <3>. QED
      BY <1>1, <3>4, <3>5
  <2>. QED
    BY <1>5, <2>1 DEF Current
<1>10. HalfDone' /\ NoneLost'
  BY <1>1, <1>5, <1>6 DEF HalfDone, NoneLost
<1>. QED
  BY <1>7, <1>8, <1>9, <1>10 DEF Images

\* A section gives the lock back: it was alone, and its words are all written.
LEMMA GiveBackStep ==
  ASSUME SectionInv, Apart, SectionTypes', NEW t \in Threads, SectionStep(t), GivesBack(t)
  PROVE  Images'
<1>0. SectionTypes /\ Images /\ Kind(t)
  BY DEF SectionInv
<1>1. /\ pc[t] \in {"w_full", "w_unlock"} /\ pc'[t] \in After /\ seen' = seen /\ mem' = mem
      /\ commits' = IF op[t] = "write" THEN commits + 1 ELSE commits
      /\ htm'[t] = "off" /\ htm[t] = "off" /\ rset'[t] = {} /\ wset'[t] = {}
  <2>1. TracksOf(t)
    BY <1>0 DEF Images, Tracks
  <2>2. pc[t] \in {"w_full", "w_unlock"}
    BY DEF GivesBack
  <2>3. htm[t] = "off" /\ rset[t] = {} /\ wset[t] = {}
    BY <2>1, <2>2 DEF TracksOf
  <2>. QED
    BY <1>0, <2>2, <2>3 DEF GivesBack, Moves, Counts, SectionTypes
<1>2. ASSUME NEW u \in Threads \ {t}
      PROVE  /\ pc'[u] = pc[u] /\ seen'[u] = seen[u] /\ rset'[u] = rset[u] /\ wset'[u] = wset[u]
             /\ htm'[u] = htm[u] \/ (htm[u] = "on" /\ htm'[u] = "doomed")
             /\ \A d \in Data : /\ HasRead(u, d)' <=> HasRead(u, d)
                                /\ HasWritten(u, d)' <=> HasWritten(u, d)
             /\ WritesInPlace(u)' <=> WritesInPlace(u)
             /\ ReadsInPlace(u)' <=> ReadsInPlace(u)
  BY <1>0, LoadMoves, StoreMoves, OthersSame DEF SectionTypes
<1>3. /\ ~WritesInPlace(t)' /\ ~ReadsInPlace(t)'
      /\ op[t] = "write" => WritesInPlace(t)
      /\ op[t] # "write" => ~WritesInPlace(t)
  BY <1>0, <1>1 DEF WritesInPlace, ReadsInPlace, ReadsBare, After, Kind
<1>4. Tracks'
  <2>1. TracksOf(t)'
    BY <1>1 DEF TracksOf, After
  <2>2. ASSUME NEW u \in Threads \ {t}
        PROVE  TracksOf(u)'
    <3>1. TracksOf(u)
      BY <1>0 DEF Images, Tracks
    <3>. QED
      BY <1>2, <3>1 DEF TracksOf
  <2>. QED
    BY <2>1, <2>2 DEF Tracks
<1>5. NoConflict'
  BY <1>0, <1>1, <1>2 DEF Images, NoConflict
<1>6. Current'
  BY <1>0, <1>1, <1>2, <1>3 DEF Images, Current
<1>7. CASE op[t] = "write"
  <2>1. \A u \in Threads : ~WritesInPlace(u)'
    BY <1>2, <1>3, <1>7 DEF Apart
  <2>2. ASSUME NEW d \in Data
        PROVE  mem[d] = commits + 1
    <3>1. HasWritten(t, d)
      BY <1>1, <1>7 DEF HasWritten, Full
    <3>. QED
      BY <1>0, <1>3, <1>7, <3>1 DEF Images, HalfDone
  <2>3. HalfDone' /\ NoneLost'
    BY <1>1, <1>7, <2>1, <2>2 DEF HalfDone, NoneLost
  <2>. QED
    BY <1>4, <1>5, <1>6, <2>3 DEF Images
<1>8. CASE op[t] # "write"
  <2>1. HalfDone' /\ NoneLost'
    BY <1>0, <1>1, <1>2, <1>3, <1>8 DEF Images, HalfDone, NoneLost
  <2>. QED
    BY <1>4, <1>5, <1>6, <2>1 DEF Images
<1>. QED
  BY <1>7, <1>8

\* A step between states in which the lock keeps sections apart keeps the invariant.
LEMMA SectionKept ==
  ASSUME SectionInv, Apart, Apart', NEW t \in Threads, SectionStep(t)
  PROVE  SectionInv'
<1>1. SectionTypes' /\ \A u \in Threads : SimpleIndex(u)' /\ Kind(u)'
  BY TypesStep
<1>2. Images'
  BY <1>1, QuietStep, LoadStep, StoreStep, CommitStep, GiveBackStep DEF SectionStep
<1>. QED
  BY <1>1, <1>2 DEF SectionInv

\* Nobody changes the data while a section reads them in place.
LEMMA BareStep ==
  ASSUME SectionInv, Apart, NEW t \in Threads, SectionStep(t),
         NEW r \in Threads, ReadsBare(r)
  PROVE  mem' = mem
<1>0. SectionTypes /\ Images /\ ReadsInPlace(r)
  BY DEF SectionInv, ReadsInPlace
<1>1. CASE Loads(t)
  <2>1. idx[t] \in Data /\ Sec!Load(t)
    BY <1>1, LoadMoves DEF Loads
  <2>. QED
    BY <1>0, <2>1, LoadEffect
<1>2. CASE Stores(t)
  <2>1. /\ idx[t] \in Data /\ Sec!Store(t) /\ pc[t] = "w_write"
        /\ WritesInPlace(t) <=> htm[t] = "off"
    BY <1>2, StoreMoves DEF Stores
  <2>2. t # r
    BY <2>1 DEF ReadsBare
  <2>3. ~WritesInPlace(t)
    BY <1>0, <2>2 DEF Apart
  <2>4. htm[t] # "on"
    BY <1>0 DEF Apart
  <2>5. htm[t] # "doomed"
    BY <1>0, <2>1, StoreEffect
  <2>. QED
    BY <1>0, <2>1, <2>3, <2>4, <2>5 DEF SectionTypes
<1>3. CASE Commits(t)
  BY <1>0, <1>3 DEF Commits, Apart
<1>4. CASE Begins(t) \/ Tries(t) \/ Ends(t) \/ Enters(t) \/ GivesBack(t)
  BY <1>4 DEF Begins, Tries, Ends, Enters, GivesBack
<1>. QED
  BY <1>1, <1>2, <1>3, <1>4 DEF SectionStep

----------------------------------------------------------------------------
(* Every step of the sections is a step of atomic ones. *)

\* How far the section of a thread is, and what it has got
Stage(t) == IF pc[t] = "idle" THEN "idle" ELSE IF Over(t) THEN "done" ELSE "called"
Got(t) == IF Over(t) THEN seen[t] ELSE [d \in Data |-> 0]

\* Stage and Got by the label.
LEMMA StageIs ==
  ASSUME NEW t \in Threads
  PROVE  /\ pc[t] \in SimpleLabels =>
              Stage(t) = IF pc[t] = "idle" THEN "idle"
                         ELSE IF pc[t] \in After \union {"r_clear"} THEN "done" ELSE "called"
         /\ Got(t) = IF Stage(t) = "done" THEN seen[t] ELSE Atomic!Nothing
  BY DEF Stage, Got, Over, SimpleLabels, Before, Full, After, Atomic!Nothing

\* And after a step.
LEMMA StageThen ==
  ASSUME NEW t \in Threads
  PROVE  /\ pc'[t] \in SimpleLabels =>
              Stage(t)' = IF pc'[t] = "idle" THEN "idle"
                          ELSE IF pc'[t] \in After \union {"r_clear"} THEN "done" ELSE "called"
         /\ Got(t)' = IF Stage(t)' = "done" THEN seen'[t] ELSE Atomic!Nothing
  BY DEF Stage, Got, Over, SimpleLabels, Before, Full, After, Atomic!Nothing

\* A step of one thread changes its own entry of phaseBar and gotBar only.
LEMMA OneThread ==
  ASSUME SectionInv, NEW t \in Threads, SectionStep(t)
  PROVE  /\ phaseBar' = [phaseBar EXCEPT ![t] = Stage(t)'] /\ phaseBar[t] = Stage(t)
         /\ gotBar' = [gotBar EXCEPT ![t] = Got(t)'] /\ gotBar[t] = Got(t)
         /\ Stage(t)' = Stage(t) => phaseBar' = phaseBar
         /\ Got(t)' = Got(t) => gotBar' = gotBar
<1>1. ASSUME NEW u \in Threads \ {t}
      PROVE  Stage(u)' = Stage(u) /\ Got(u)' = Got(u)
  <2>1. pc'[u] = pc[u] /\ seen'[u] = seen[u]
    BY LoadMoves, StoreMoves, OthersSame DEF SectionInv, SectionTypes
  <2>. QED
    BY <2>1 DEF Stage, Got, Over
<1>2. phaseBar = [u \in Threads |-> Stage(u)] /\ gotBar = [u \in Threads |-> Got(u)]
  BY DEF phaseBar, gotBar, Stage, Got
<1>3. phaseBar' = [u \in Threads |-> Stage(u)'] /\ gotBar' = [u \in Threads |-> Got(u)']
  BY DEF phaseBar, gotBar, Stage, Got
<1>. HIDE DEF Stage, Got
<1>4. phaseBar' = [phaseBar EXCEPT ![t] = Stage(t)'] /\ phaseBar[t] = Stage(t)
  BY <1>1, <1>2, <1>3
<1>5. gotBar' = [gotBar EXCEPT ![t] = Got(t)'] /\ gotBar[t] = Got(t)
  BY <1>1, <1>2, <1>3
<1>6. (Stage(t)' = Stage(t) => phaseBar' = phaseBar) /\ (Got(t)' = Got(t) => gotBar' = gotBar)
  BY <1>1, <1>2, <1>3
<1>. QED
  BY <1>4, <1>5, <1>6

\* A section takes effect with the words it has read all at the value of the
\* moment.
LEMMA EffectStep ==
  ASSUME SectionInv, SectionInv', Apart, Apart', NEW t \in Threads, SectionStep(t),
         Stage(t) = "called", Stage(t)' = "done"
  PROVE  /\ op' = op
         /\ \A d \in Data : seen'[t][d] = commits
         /\ commits' = IF op[t] = "write" THEN commits + 1 ELSE commits
<1>0. /\ SectionTypes /\ Images /\ Kind(t) /\ SectionTypes' /\ Images'
      /\ pc[t] \in SimpleLabels /\ pc'[t] \in SimpleLabels
      /\ pc[t] \notin After \union {"r_clear", "idle"} /\ pc'[t] \in After \union {"r_clear"}
  <2>1. SectionTypes /\ Images /\ Kind(t) /\ SectionTypes' /\ Images'
    BY DEF SectionInv
  <2>2. pc[t] \in SimpleLabels /\ pc'[t] \in SimpleLabels
    BY <2>1 DEF SectionTypes
  <2>. QED
    BY <2>1, <2>2, StageIs, StageThen
<1>1. CASE Loads(t)
  <2>1. /\ pc[t] \in {"w_read", "r_read"} /\ op' = op /\ pc'[t] = "r_clear"
        /\ ReadsInPlace(t)' <=> ReadsInPlace(t)
    BY <1>0, <1>1, LoadMoves DEF After
  <2>2. idx[t] \in Data /\ Sec!Load(t)
    BY <1>1, LoadMoves DEF Loads
  <2>3. commits' = commits /\ htm'[t] = htm[t] /\ htm[t] # "doomed"
    BY <1>0, <2>2, LoadEffect
  <2>4. op[t] = "read"
    BY <1>0, <1>1, <2>1 DEF SectionInv, Kind
  <2>5. htm'[t] = "off"
    <3>1. TracksOf(t)'
      BY <1>0 DEF Images, Tracks
    <3>. QED
      BY <2>1, <3>1 DEF TracksOf
  <2>6. ReadsInPlace(t)' /\ \A d \in Data : HasRead(t, d)'
    BY <2>1, <2>5 DEF ReadsInPlace, ReadsBare, HasRead
  <2>7. \A u \in Threads : ~WritesInPlace(u)'
    <3>1. ~WritesInPlace(t)'
      BY <2>1 DEF WritesInPlace
    <3>. QED
      BY <2>6, <3>1 DEF Apart
  <2>8. \A d \in Data : seen'[t][d] = mem'[d] /\ mem'[d] = commits'
    BY <1>0, <2>6, <2>7 DEF Images, Current, NoneLost
  <2>. QED
    BY <2>1, <2>3, <2>4, <2>8
<1>2. CASE Commits(t)
  <2>1. pc[t] = "w_end_htm" /\ htm[t] = "on" /\ UNCHANGED <<op, seen>> /\ Counts(t)
    BY <1>2 DEF Commits
  <2>2. \A u \in Threads : ~WritesInPlace(u)
    <3>1. ~WritesInPlace(t)
      BY <2>1 DEF WritesInPlace
    <3>. QED
      BY <2>1, <3>1 DEF Apart
  <2>3. \A d \in Data : HasRead(t, d)
    BY <2>1 DEF HasRead, Full
  <2>4. \A d \in Data : seen[t][d] = mem[d] /\ mem[d] = commits
    BY <1>0, <2>1, <2>2, <2>3 DEF Images, Current, NoneLost
  <2>. QED
    BY <2>1, <2>4 DEF Counts
<1>3. CASE GivesBack(t)
  <2>1. pc[t] \in {"w_full", "w_unlock"} /\ UNCHANGED <<op, seen>> /\ Counts(t)
    BY <1>3 DEF GivesBack
  <2>2. \A d \in Data : HasRead(t, d)
    BY <2>1 DEF HasRead, Full
  <2>3. CASE op[t] = "write"
    <3>1. WritesInPlace(t)
      BY <2>1, <2>3 DEF WritesInPlace
    <3>2. \A d \in Data : seen[t][d] = commits
      BY <1>0, <2>2, <3>1 DEF Images, HalfDone
    <3>. QED
      BY <2>1, <3>2 DEF Counts
  <2>4. CASE op[t] = "read"
    <3>1. ReadsInPlace(t) /\ ~WritesInPlace(t)
      <4>1. pc[t] = "w_unlock"
        BY <1>0, <2>1, <2>4 DEF Kind
      <4>. QED
        BY <2>4, <4>1 DEF ReadsInPlace, WritesInPlace
    <3>2. \A u \in Threads : ~WritesInPlace(u)
      BY <3>1 DEF Apart
    <3>3. \A d \in Data : seen[t][d] = mem[d] /\ mem[d] = commits
      BY <1>0, <2>2, <3>1, <3>2 DEF Images, Current, NoneLost
    <3>. QED
      BY <2>1, <2>4, <3>3 DEF Counts
  <2>. QED
    BY <1>0, <2>3, <2>4 DEF SectionTypes
<1>4. CASE Begins(t) \/ Tries(t) \/ Ends(t) \/ Enters(t) \/ Stores(t)
  <2>1. CASE Stores(t)
    BY <1>0, <2>1, StoreMoves DEF After
  <2>2. CASE Begins(t) \/ Tries(t) \/ Ends(t) \/ Enters(t)
    BY <1>0, <2>2 DEF Begins, Tries, Ends, Enters, Moves, Before, After, SectionTypes
  <2>. QED
    BY <1>4, <2>1, <2>2
<1>. QED
  BY <1>1, <1>2, <1>3, <1>4 DEF SectionStep

\* Every step of the sections is a call, an effect, a return, or a stutter.
LEMMA AtomicStep ==
  ASSUME SectionInv, SectionInv', Apart, Apart', NEW t \in Threads, SectionStep(t)
  PROVE  [Atomic!Next]_(Atomic!vars)
<1>0. /\ SectionTypes /\ SectionTypes' /\ pc[t] \in SimpleLabels /\ pc'[t] \in SimpleLabels
  BY DEF SectionInv, SectionTypes
<1>1. CASE Stage(t) = "called" /\ Stage(t)' = "done"
  <2>1. /\ op' = op /\ \A d \in Data : seen'[t][d] = commits
        /\ commits' = IF op[t] = "write" THEN commits + 1 ELSE commits
    BY <1>1, EffectStep
  <2>2. Got(t)' = [d \in Data |-> commits]
    <3>1. Got(t)' = seen'[t] /\ seen'[t] \in [Data -> Nat]
      BY <1>0, <1>1, StageThen DEF SectionTypes
    <3>. QED
      BY <2>1, <3>1
  <2>3. phaseBar[t] = "called" /\ phaseBar' = [phaseBar EXCEPT ![t] = "done"]
        /\ gotBar' = [gotBar EXCEPT ![t] = [d \in Data |-> commits]]
    BY <1>1, <2>2, OneThread
  <2>4. Atomic!TakeEffect(t)
    BY <2>1, <2>3 DEF Atomic!TakeEffect
  <2>. QED
    BY <2>4 DEF Atomic!Next
<1>2. CASE Begins(t)
  <2>1. /\ pc[t] = "idle" /\ pc'[t] \in Before \ {"idle"} /\ UNCHANGED <<seen, commits>>
        /\ \E o \in {"read", "write"} : op' = [op EXCEPT ![t] = o]
    BY <1>0, <1>2 DEF Begins, Moves, SectionTypes
  <2>2. Stage(t) = "idle" /\ Stage(t)' = "called"
    BY <1>0, <2>1, StageIs, StageThen DEF Before, After
  <2>3. Got(t)' = Got(t)
    BY <2>2, StageIs, StageThen
  <2>4. Atomic!Call(t)
    BY <2>1, <2>2, <2>3, OneThread DEF Atomic!Call
  <2>. QED
    BY <2>4 DEF Atomic!Next
<1>3. CASE Ends(t) /\ pc'[t] = "idle"
  <2>1. pc[t] \in After \union {"r_clear"} /\ UNCHANGED <<op, seen, commits>>
    BY <1>3 DEF Ends
  <2>2. Stage(t) = "done" /\ Stage(t)' = "idle"
    BY <1>0, <1>3, <2>1, StageIs, StageThen DEF After
  <2>3. Got(t)' = Atomic!Nothing
    BY <2>2, StageThen
  <2>4. Atomic!Return(t)
    BY <2>1, <2>2, <2>3, OneThread DEF Atomic!Return
  <2>. QED
    BY <2>4 DEF Atomic!Next
<1>4. CASE Ends(t) /\ pc'[t] # "idle"
  <2>1. pc[t] \in After \union {"r_clear"} /\ UNCHANGED <<op, seen, commits>> /\ pc'[t] \in After
    BY <1>0, <1>4 DEF Ends, Moves, SectionTypes
  <2>2. Stage(t) = "done" /\ Stage(t)' = "done"
    BY <1>0, <2>1, StageIs, StageThen DEF After
  <2>3. Got(t)' = Got(t)
    BY <2>1, <2>2, StageIs, StageThen
  <2>. QED
    BY <2>1, <2>2, <2>3, OneThread DEF Atomic!vars
<1>5. CASE /\ Tries(t) \/ Enters(t) \/ Loads(t) \/ Stores(t) \/ Commits(t) \/ GivesBack(t)
           /\ ~(Stage(t) = "called" /\ Stage(t)' = "done")
  <2>1. Stage(t) = "called"
    <3>1. TracksOf(t)
      BY DEF SectionInv, Images, Tracks
    <3>2. pc[t] \notin After \union {"r_clear", "idle"}
      BY <1>5, <3>1 DEF Tries, Enters, Loads, Stores, Commits, GivesBack, Before, After, TracksOf
    <3>. QED
      BY <1>0, <3>2, StageIs
  <2>2. Stage(t)' = "called" /\ ~Commits(t) /\ ~GivesBack(t)
    <3>1. pc'[t] # "idle"
      <4>1. CASE Loads(t)
        BY <4>1, LoadMoves
      <4>2. CASE Stores(t)
        BY <4>2, StoreMoves
      <4>3. CASE Tries(t) \/ Enters(t) \/ Commits(t) \/ GivesBack(t)
        BY <1>0, <4>3 DEF Tries, Enters, Commits, GivesBack, Moves, After, SectionTypes
      <4>. QED
        BY <1>5, <4>1, <4>2, <4>3
    <3>2. Stage(t)' = "called"
      BY <1>0, <1>5, <2>1, <3>1, StageThen
    <3>3. pc'[t] \notin After
      BY <1>0, <3>2, StageThen DEF After
    <3>. QED
      BY <1>0, <3>2, <3>3 DEF Commits, GivesBack, Moves, After, SectionTypes
  <2>3. op' = op /\ commits' = commits
    <3>1. CASE Loads(t)
      <4>1. idx[t] \in Data /\ Sec!Load(t)
        BY <3>1, LoadMoves DEF Loads
      <4>. QED
        BY <1>0, <4>1, LoadEffect
    <3>2. CASE Stores(t)
      <4>1. idx[t] \in Data /\ Sec!Store(t)
        BY <3>2, StoreMoves DEF Stores
      <4>. QED
        BY <1>0, <4>1, StoreEffect
    <3>3. CASE Tries(t) \/ Enters(t)
      BY <3>3 DEF Tries, Enters
    <3>. QED
      BY <1>5, <2>2, <3>1, <3>2, <3>3
  <2>4. Got(t)' = Got(t)
    BY <2>1, <2>2, StageIs, StageThen
  <2>. QED
    BY <2>1, <2>2, <2>3, <2>4, OneThread DEF Atomic!vars
<1>. QED
  BY <1>1, <1>2, <1>3, <1>4, <1>5 DEF SectionStep

----------------------------------------------------------------------------
(* The locks keep sections apart, and every step of a lock is a step of the  *)
(* sections.                                                                 *)

\* Whichever of the simpler locks it is, it keeps sections apart.
LEMMA LockApart == Simple /\ Locks => Apart
<1> SUFFICES ASSUME Simple, Locks PROVE Apart
  OBVIOUS
<1>1. CASE backend = "1.0-htm-sgl"
  <2>1. SglInv
    BY <1>1 DEF Locks
  <2>2. \A t \in Threads : WritesInPlace(t) \/ ReadsInPlace(t) => SglHolds(t)
    BY <2>1 DEF SglInv, SglHolds, WritesInPlace, ReadsInPlace, ReadsBare
  <2>3. \A t, u \in Threads : SglHolds(t) => htm[u] # "on" /\ (SglHolds(u) => u = t)
    BY <2>1 DEF SglInv
  <2>. QED
    BY <2>2, <2>3 DEF Apart
<1>2. CASE backend = "brlock"
  <2>1. BrInv
    BY <1>2 DEF Locks
  <2>2. \A t \in Threads : /\ WritesInPlace(t) => pc[t] \in {"w_read", "w_write", "w_full"}
                           /\ ReadsInPlace(t) => BrReads(t)
                           /\ htm[t] = "off"
    BY <2>1 DEF BrInv, BrReads, BrWrites, WritesInPlace, ReadsInPlace, ReadsBare
  <2>3. \A t, u \in Threads : pc[t] \in {"w_read", "w_write", "w_full"} =>
          ~BrReads(u) /\ (pc[u] \in {"w_read", "w_write", "w_full"} => u = t)
    BY <2>1 DEF BrInv, BrTook, BrWrites
  <2>. QED
    BY <2>2, <2>3 DEF Apart
<1>3. CASE backend = "rwl"
  <2>1. RwInv
    BY <1>3 DEF Locks
  <2>2. \A t \in Threads : /\ WritesInPlace(t) => RwWrites(t)
                           /\ ReadsInPlace(t) => RwReads(t)
                           /\ htm[t] = "off"
    BY <2>1 DEF RwInv, RwReads, RwWrites, WritesInPlace, ReadsInPlace, ReadsBare
  <2>3. \A t, u \in Threads : RwWrites(t) => ~RwReads(u) /\ (RwWrites(u) => u = t)
    BY <2>1 DEF RwInv
  <2>. QED
    BY <2>2, <2>3 DEF Apart
<1>. QED
  BY <1>1, <1>2, <1>3 DEF Simple

\* The invariants hold at the start.
LEMMA InitSimple == Init => SimpleInv
<1> SUFFICES ASSUME Init PROVE SimpleInv
  OBVIOUS
<1> USE DEF Init, Plain!Init, Plain!NoTransactions, Threads, Data
<1>1. SectionTypes
  BY DEF SectionTypes, SimpleLabels, Before
<1>2. ASSUME NEW t \in Threads PROVE SimpleIndex(t) /\ Kind(t)
  BY DEF SimpleIndex, Kind
<1>3. ASSUME NEW t \in Threads, NEW d \in Data
      PROVE  ~HasRead(t, d) /\ ~HasWritten(t, d) /\ ~WritesInPlace(t) /\ ~ReadsInPlace(t)
  BY DEF HasRead, HasWritten, WritesInPlace, ReadsInPlace, ReadsBare, Full
<1>4. Images
  BY <1>3 DEF Images, Tracks, TracksOf, NoConflict, Current, HalfDone, NoneLost
<1>5. SglInv /\ BrInv
  BY DEF SglInv, SglHolds, BrInv, BrReads, BrWrites, BrTook
<1>6. RwInv
  BY DEF RwInv, RwReads, RwWrites
<1>7. Locks
  BY ConstantsAssumption, <1>5, <1>6 DEF Locks
<1>. QED
  BY <1>1, <1>2, <1>4, <1>7 DEF SimpleInv, SectionInv

\* The section of each lock is the section of Sections.
LEMMA SameSections ==
  ASSUME NEW t \in Threads, NEW l
  PROVE  /\ Sgl!ReadSection(t, l) <=> Sec!ReadSection(t, l)
         /\ Sgl!WriteSection(t, l) <=> Sec!WriteSection(t, l)
         /\ Br!ReadSection(t, l) <=> Sec!ReadSection(t, l)
         /\ Br!WriteSection(t, l) <=> Sec!WriteSection(t, l)
         /\ Rw!ReadSection(t, l) <=> Sec!ReadSection(t, l)
         /\ Rw!WriteSection(t, l) <=> Sec!WriteSection(t, l)
<1>1. /\ Sgl!Load(t) <=> Sec!Load(t)
      /\ Br!Load(t) <=> Sec!Load(t)
      /\ Rw!Load(t) <=> Sec!Load(t)
  BY SameSets
     DEF Sec!Load, Sec!Live, Sec!DoomByRead, Sec!progress,
         Sgl!Load, Sgl!Live, Sgl!DoomByRead, Sgl!progress,
         Br!Load, Br!Live, Br!DoomByRead, Br!progress,
         Rw!Load, Rw!Live, Rw!DoomByRead, Rw!progress
<1>2. /\ Sgl!Store(t) <=> Sec!Store(t)
      /\ Br!Store(t) <=> Sec!Store(t)
      /\ Rw!Store(t) <=> Sec!Store(t)
  BY SameSets
     DEF Sec!Store, Sec!Live, Sec!DoomByWrite, Sec!progress,
         Sgl!Store, Sgl!Live, Sgl!DoomByWrite, Sgl!progress,
         Br!Store, Br!Live, Br!DoomByWrite, Br!progress,
         Rw!Store, Rw!Live, Rw!DoomByWrite, Rw!progress
<1>3. ASSUME NEW last \in BOOLEAN, NEW again, NEW out
      PROVE  /\ Sgl!EndRound(t, last, again, out) <=> Sec!EndRound(t, last, again, out)
             /\ Br!EndRound(t, last, again, out) <=> Sec!EndRound(t, last, again, out)
             /\ Rw!EndRound(t, last, again, out) <=> Sec!EndRound(t, last, again, out)
  BY DEF Sec!EndRound, Sec!Goto, Sgl!EndRound, Sgl!Goto, Br!EndRound, Br!Goto, Rw!EndRound,
         Rw!Goto
<1>4. /\ Sgl!ReadSection(t, l) <=> Sec!ReadSection(t, l)
      /\ Br!ReadSection(t, l) <=> Sec!ReadSection(t, l)
      /\ Rw!ReadSection(t, l) <=> Sec!ReadSection(t, l)
  BY <1>1, <1>3
     DEF Sec!ReadSection, Sgl!ReadSection, Br!ReadSection, Rw!ReadSection
<1>5. /\ Sgl!WriteSection(t, l) <=> Sec!WriteSection(t, l)
      /\ Br!WriteSection(t, l) <=> Sec!WriteSection(t, l)
      /\ Rw!WriteSection(t, l) <=> Sec!WriteSection(t, l)
  BY <1>1, <1>2, <1>3
     DEF Sec!WriteSection, Sgl!WriteSection, Br!WriteSection, Rw!WriteSection,
         Sec!Jump, Sgl!Jump, Br!Jump, Rw!Jump, Sec!Goto, Sgl!Goto, Br!Goto, Rw!Goto
<1>. QED
  BY <1>4, <1>5

\* A round of a section's loop is a load or a store; last is where the section
\* goes when it is full.
LEMMA SectionRound ==
  ASSUME SectionInv, NEW t \in Threads, NEW r, NEW w,
         Sec!ReadSection(t, r) \/ Sec!WriteSection(t, w),
         r \in IF htm[t] = "on" THEN {"w_end_htm"} ELSE {"r_clear", "w_unlock"},
         w \in IF htm[t] = "on" THEN {"w_end_htm"} ELSE {"w_full", "w_unlock"}
  PROVE  /\ SectionStep(t)
         /\ pc' = [pc EXCEPT ![t] = pc'[t]]
         /\ pc[t] = "r_read" => pc'[t] \in {"r_read", r}
         /\ pc[t] = "w_read" => pc'[t] = "w_write"
         /\ pc[t] = "w_write" => pc'[t] \in {"w_read", w}
         /\ pc[t] \in {"r_read", "w_read", "w_write"}
         /\ Dooms(t) /\ htm[t] # "doomed" /\ htm'[t] = htm[t] /\ watch' = watch /\ op' = op
<1>1. /\ pc \in [Threads -> SimpleLabels] /\ idx \in [Threads -> Nat] /\ SectionTypes
      /\ SimpleIndex(t) /\ Kind(t) /\ pc[t] \in {"r_read", "w_read", "w_write"}
  BY DEF SectionInv, SectionTypes, Sec!ReadSection, Sec!WriteSection, Sec!Jump
<1>2. idx[t] \in Data /\ idx[t] \in 1..NData
  BY <1>1, Ranges DEF SimpleIndex
<1>3. CASE Sec!ReadSection(t, r)
  <2>1. pc[t] = "r_read" /\ Sec!Load(t)
    BY <1>3 DEF Sec!ReadSection
  <2>2. \/ idx[t] # NData /\ Moves(t, "r_read", idx[t] + 1)
        \/ idx[t] = NData /\ Moves(t, r, 1)
    BY <1>3 DEF Sec!ReadSection, Sec!EndRound, Sec!Goto, Moves
  <2>3. Loads(t)
    BY <2>1, <2>2 DEF Loads
  <2>4. /\ Dooms(t) /\ htm[t] # "doomed" /\ htm'[t] = htm[t] /\ op' = op /\ watch' = watch
    BY <1>1, <1>2, <2>1, LoadEffect DEF Sec!Load
  <2>5. pc' = [pc EXCEPT ![t] = pc'[t]] /\ pc'[t] \in {"r_read", r}
    BY <1>1, <2>2 DEF Moves
  <2>6. SimpleIndex(t)' /\ Kind(t)'
    BY <1>1, <1>2, <2>1, <2>2, <2>4, Ranges DEF SimpleIndex, Kind, Moves
  <2>. QED
    BY <1>1, <2>1, <2>3, <2>4, <2>5, <2>6 DEF SectionStep
<1>4. CASE Sec!WriteSection(t, w) /\ pc[t] = "w_read"
  <2>1. Sec!Load(t) /\ Moves(t, "w_write", idx[t])
    BY <1>1, <1>4 DEF Sec!WriteSection, Sec!Jump, Sec!Goto, Moves
  <2>2. Loads(t)
    BY <1>4, <2>1 DEF Loads
  <2>3. /\ Dooms(t) /\ htm[t] # "doomed" /\ htm'[t] = htm[t] /\ op' = op /\ watch' = watch
    BY <1>1, <1>2, <2>1, LoadEffect DEF Sec!Load
  <2>4. pc' = [pc EXCEPT ![t] = pc'[t]] /\ pc'[t] = "w_write"
    BY <1>1, <2>1 DEF Moves
  <2>5. SimpleIndex(t)' /\ Kind(t)'
    BY <1>1, <1>2, <1>4, <2>1, <2>3 DEF SimpleIndex, Kind, Moves
  <2>. QED
    BY <1>4, <2>2, <2>3, <2>4, <2>5 DEF SectionStep
<1>5. CASE Sec!WriteSection(t, w) /\ pc[t] = "w_write"
  <2>1. Sec!Store(t)
    BY <1>5 DEF Sec!WriteSection, Sec!Jump
  <2>2. \/ idx[t] # NData /\ Moves(t, "w_read", idx[t] + 1)
        \/ idx[t] = NData /\ Moves(t, w, 1)
    BY <1>5 DEF Sec!WriteSection, Sec!Jump, Sec!EndRound, Sec!Goto, Moves
  <2>3. Stores(t)
    BY <1>5, <2>1, <2>2 DEF Stores
  <2>4. /\ Dooms(t) /\ htm[t] # "doomed" /\ htm'[t] = htm[t] /\ op' = op /\ watch' = watch
    BY <1>1, <1>2, <2>1, StoreEffect DEF Sec!Store
  <2>5. pc' = [pc EXCEPT ![t] = pc'[t]] /\ pc'[t] \in {"w_read", w}
    BY <1>1, <2>2 DEF Moves
  <2>6. SimpleIndex(t)' /\ Kind(t)'
    BY <1>1, <1>2, <1>5, <2>2, <2>4, Ranges DEF SimpleIndex, Kind, Moves
  <2>. QED
    BY <1>5, <2>3, <2>4, <2>5, <2>6 DEF SectionStep
<1>. QED
  BY <1>3, <1>4, <1>5 DEF Sec!WriteSection, Sec!Jump

----------------------------------------------------------------------------
(* backends/1.0-htm-sgl. *)

\* A section fails, out of a transaction or before it: it keeps writer_lock to
\* those that hold it.
LEMMA SglFails ==
  ASSUME SectionInv, Locks, backend = "1.0-htm-sgl", backend' = backend, NEW t \in Threads,
         NEW b \in Int, Sgl!Fail(t, b), UNCHANGED SglIdle,
         htm[t] # "off" \/ pc[t] = "w_begin"
  PROVE  SectionStep(t) /\ Locks'
<1>1. SglInv /\ SectionTypes /\ SimpleIndex(t) /\ Kind(t)
  BY DEF Locks, SectionInv
<1>2. /\ pc' = [pc EXCEPT ![t] = IF b > 0 THEN "w_spin" ELSE "w_cas"]
      /\ idx' = [idx EXCEPT ![t] = 1] /\ htm' = [htm EXCEPT ![t] = "off"]
      /\ mode' = [mode EXCEPT ![t] = IF b > 0 THEN 0 ELSE 2]
      /\ tries' = [tries EXCEPT ![t] = b]
      /\ watch' = [watch EXCEPT ![t] = {}] /\ rset' = [rset EXCEPT ![t] = {}]
      /\ wset' = [wset EXCEPT ![t] = {}]
      /\ UNCHANGED <<op, seen, mem, commits, writer_lock, reader_locks>>
  BY DEF Sgl!Fail, Sgl!Goto, Sgl!TxEnd, Sgl!progress, Sgl!data, SglIdle
<1>3. Tries(t)
  <2>1. pc[t] \in Before \ {"idle"} \/ htm[t] # "off"
    BY DEF Before
  <2>2. idx'[t] = 1 /\ \E l \in Before \ {"idle"} : Moves(t, l, idx'[t])
    BY <1>1, <1>2 DEF Moves, Before, SectionTypes
  <2>3. Dooms(t)
    BY <1>1, <1>2 DEF Dooms, SectionTypes
  <2>4. Forgets(t)
    BY <1>1, <1>2 DEF Forgets, SectionTypes
  <2>. QED
    BY <1>2, <2>1, <2>2, <2>3, <2>4 DEF Tries
<1>4. SimpleIndex(t)' /\ Kind(t)'
  BY <1>1, <1>2 DEF SimpleIndex, Kind, SectionTypes
<1>5. \A u \in Threads : SglHolds(u)' <=> SglHolds(u) /\ u # t
  BY <1>1, <1>2 DEF SglHolds, SectionTypes
<1>6. SglInv'
  BY <1>1, <1>2, <1>5 DEF SglInv, SectionTypes, Locks
<1>7. Locks'
  BY <1>2, <1>6 DEF Locks
<1>. QED
  BY <1>3, <1>4, <1>7 DEF SectionStep

\* A step of any thread is a step of its section, and keeps the invariant of the lock.
LEMMA SglStep ==
  ASSUME SectionInv, Locks, backend = "1.0-htm-sgl", backend' = backend, NEW t \in Threads,
         \/ \E o \in {"read", "write"} : Sgl!Start(t, o)
         \/ Sgl!TxAbort(t) \/ Sgl!Run(t),
         UNCHANGED SglIdle
  PROVE  SectionStep(t) /\ Locks'
<1>1. SglInv /\ SectionTypes /\ SimpleIndex(t) /\ Kind(t) /\ tries[t] \in Int
  BY DEF Locks, SectionInv
<1>2. writer_lock \in {0, 1} /\ reader_locks' = reader_locks
  BY DEF Locks, SglIdle
<1>3. /\ SimpleIndex(t) <=> idx[t] \in IF pc[t] \in {"r_read", "w_read", "w_write"} THEN Data
                                      ELSE {1}
      /\ TracksOf(t) /\ 1 \in Data
  BY <1>1, Ranges DEF SimpleIndex, SectionInv, SglInv, Images, Tracks
<1>4. CASE \E o \in {"read", "write"} : Sgl!Start(t, o)
  <2>1. PICK o \in {"read", "write"} : Sgl!Start(t, o)
    BY <1>4
  <2>2. /\ pc[t] = "idle" /\ pc' = [pc EXCEPT ![t] = "w_spin"] /\ op' = [op EXCEPT ![t] = o]
        /\ tries' = [tries EXCEPT ![t] = MaxTries] /\ mode' = [mode EXCEPT ![t] = 0]
        /\ UNCHANGED <<idx, seen, mem, commits, writer_lock, htm, watch, rset, wset>>
    BY <2>1 DEF Sgl!Start, Sgl!Begin, Sgl!Jump, Sgl!Goto, Sgl!data, Sgl!txvars
  <2>3. Begins(t)
    BY <1>1, <2>2 DEF Begins, Moves, Before, SectionTypes
  <2>4. SimpleIndex(t)' /\ Kind(t)'
    BY <1>1, <1>3, <2>2 DEF SimpleIndex, Kind, SectionTypes
  <2>5. SglInv'
    BY <1>1, <1>3, <2>2 DEF SglInv, SglHolds, SectionTypes, Locks, TracksOf
  <2>6. Locks'
    BY <1>2, <2>2, <2>5, ConstantsAssumption DEF Locks
  <2>. QED
    BY <2>3, <2>4, <2>6 DEF SectionStep
<1>5. ASSUME Sgl!TxAbort(t) PROVE SectionStep(t) /\ Locks'
  <2>1. htm[t] # "off" /\ \E b \in {tries[t] - 1, Sgl!SpendBudget(tries[t])} : Sgl!Fail(t, b)
    BY <1>5 DEF Sgl!TxAbort
  <2>2. PICK b \in {tries[t] - 1, Sgl!SpendBudget(tries[t])} : Sgl!Fail(t, b)
    BY <2>1
  <2>3. b \in Int
    BY <1>1, <2>2 DEF Sgl!SpendBudget
  <2>. QED
    BY <2>1, <2>2, <2>3, SglFails
<1>6. CASE Sgl!TxBeginLocked(t)
  <2>1. tries[t] - 1 \in Int /\ pc[t] = "w_begin" /\ Sgl!Fail(t, tries[t] - 1)
    BY <1>1, <1>6 DEF Sgl!TxBeginLocked
  <2>. QED
    BY <2>1, SglFails
<1>7. CASE Sgl!Spin(t)
  <2>1. /\ pc[t] = "w_spin" /\ pc' = [pc EXCEPT ![t] = "w_begin"]
        /\ UNCHANGED <<op, idx, seen, mem, commits, tries, mode, writer_lock, htm, watch, rset,
                       wset>>
    BY <1>7 DEF Sgl!Spin, Sgl!Jump, Sgl!Goto, Sgl!progress, Sgl!data, Sgl!txvars
  <2>2. htm[t] = "off" /\ rset[t] = {} /\ wset[t] = {}
    BY <1>3, <2>1 DEF TracksOf
  <2>3. Tries(t)
    BY <1>1, <2>1, <2>2 DEF Tries, Moves, Dooms, Forgets, Before, SectionTypes
  <2>4. SimpleIndex(t)' /\ Kind(t)'
    BY <1>1, <1>3, <2>1 DEF SimpleIndex, Kind, SectionTypes
  <2>5. SglInv'
    BY <1>1, <2>1 DEF SglInv, SglHolds, SectionTypes
  <2>6. Locks'
    BY <1>2, <2>1, <2>5 DEF Locks
  <2>. QED
    BY <2>3, <2>4, <2>6 DEF SectionStep
<1>8. CASE Sgl!TxBegin(t)
  <2>1. /\ pc[t] = "w_begin" /\ writer_lock = 0
        /\ pc' = [pc EXCEPT ![t] = IF op[t] = "read" THEN "r_read" ELSE "w_read"]
        /\ htm' = [htm EXCEPT ![t] = "on"] /\ watch' = [watch EXCEPT ![t] = {Sgl!Lock}]
        /\ UNCHANGED <<op, idx, seen, mem, commits, tries, mode, writer_lock, rset, wset>>
    BY <1>8 DEF Sgl!TxBegin, Sgl!Subscribed, Sgl!Entry, Sgl!Jump, Sgl!Goto, Sgl!progress,
         Sgl!data
  <2>2. Enters(t)
    BY <1>1, <1>3, <2>1 DEF Enters, Moves, Dooms, Before, SectionTypes
  <2>3. SimpleIndex(t)' /\ Kind(t)'
    BY <1>1, <1>3, <2>1 DEF SimpleIndex, Kind, SectionTypes
  <2>4. \A u \in Threads : SglHolds(u)' => SglHolds(u)
    BY <1>1, <2>1 DEF SglHolds, SectionTypes
  <2>5. SglInv'
    BY <1>1, <2>1, <2>4 DEF SglInv, SectionTypes, Locks
  <2>6. watch' \in [Threads -> SUBSET (0..N)]
    BY <2>1, Ranges DEF Locks, Sgl!Lock
  <2>7. Locks'
    BY <1>2, <2>1, <2>5, <2>6 DEF Locks
  <2>. QED
    BY <2>2, <2>3, <2>7 DEF SectionStep
<1>9. CASE Sgl!Cas(t)
  <2>1. /\ pc[t] = "w_cas" /\ writer_lock = 0 /\ writer_lock' = 1
        /\ pc' = [pc EXCEPT ![t] = IF op[t] = "read" THEN "r_read" ELSE "w_read"]
        /\ htm' = Sgl!DoomByLockWord(t, Sgl!Lock)
        /\ UNCHANGED <<op, idx, seen, mem, commits, tries, mode, watch, rset, wset>>
    BY <1>9 DEF Sgl!Cas, Sgl!SetLock, Sgl!Entry, Sgl!Jump, Sgl!Goto, Sgl!progress
  <2>2. htm' = [u \in Threads |-> IF u # t /\ htm[u] = "on" /\ Sgl!Lock \in watch[u]
                                  THEN "doomed" ELSE htm[u]]
    BY <2>1, SameSets DEF Sgl!DoomByLockWord
  <2>3. htm[t] = "off" /\ htm'[t] = "off" /\ \A u \in Threads : htm'[u] # "on"
    BY <1>1, <1>3, <2>1, <2>2 DEF TracksOf, SglInv
  <2>4. Dooms(t) /\ \A u \in Threads : (htm'[u] = "off") <=> (htm[u] = "off")
    BY <1>1, <2>2 DEF Dooms, SectionTypes
  <2>5. Enters(t)
    BY <1>1, <1>3, <2>1, <2>3, <2>4 DEF Enters, Moves, Before, SectionTypes
  <2>6. SimpleIndex(t)' /\ Kind(t)'
    BY <1>1, <1>3, <2>1 DEF SimpleIndex, Kind, SectionTypes
  <2>7. \A u \in Threads : ~SglHolds(u) /\ (SglHolds(u)' => u = t)
    BY <1>1, <2>1, <2>4 DEF SglInv, SglHolds, SectionTypes
  <2>8. SglInv'
    BY <1>1, <2>1, <2>3, <2>4, <2>7 DEF SglInv, SectionTypes
  <2>9. Locks'
    BY <1>2, <2>1, <2>8 DEF Locks
  <2>. QED
    BY <2>5, <2>6, <2>9 DEF SectionStep
<1>10. CASE Sgl!EndHtm(t)
  <2>1. /\ htm[t] = "on" /\ pc[t] = "w_end_htm" /\ pc' = [pc EXCEPT ![t] = "w_done"]
        /\ mem' = [d \in Data |-> IF d \in wset[t] THEN seen[t][d] + 1 ELSE mem[d]]
        /\ htm' = [htm EXCEPT ![t] = "off"] /\ watch' = [watch EXCEPT ![t] = {}]
        /\ rset' = [rset EXCEPT ![t] = {}] /\ wset' = [wset EXCEPT ![t] = {}]
        /\ Counts(t)
        /\ UNCHANGED <<op, idx, seen, tries, mode, writer_lock>>
    BY <1>10, SameSets DEF Sgl!EndHtm, Sgl!Committed, Counts, Sgl!TxEnd, Sgl!Jump, Sgl!Goto,
         Sgl!progress
  <2>2. Commits(t)
    BY <1>1, <2>1 DEF Commits, Moves, Dooms, Forgets, SectionTypes
  <2>3. SimpleIndex(t)' /\ Kind(t)'
    BY <1>1, <1>3, <2>1 DEF SimpleIndex, Kind, SectionTypes
  <2>4. \A u \in Threads : SglHolds(u)' => SglHolds(u)
    BY <1>1, <2>1 DEF SglHolds, SectionTypes
  <2>5. SglInv'
    BY <1>1, <2>1, <2>4 DEF SglInv, SectionTypes, Locks
  <2>6. Locks'
    BY <1>2, <2>1, <2>5 DEF Locks
  <2>. QED
    BY <2>2, <2>3, <2>6 DEF SectionStep
<1>11. CASE Sgl!Unlock(t)
  <2>1. /\ pc[t] = "w_unlock" /\ writer_lock' = 0 /\ Counts(t)
        /\ pc' = [pc EXCEPT ![t] = "w_done"] /\ htm' = Sgl!DoomByLockWord(t, Sgl!Lock)
        /\ UNCHANGED <<op, idx, seen, mem, tries, mode, watch, rset, wset>>
    BY <1>11 DEF Sgl!Unlock, Sgl!SetLock, Sgl!Committed, Counts, Sgl!Jump, Sgl!Goto,
         Sgl!progress
  <2>2. htm' = [u \in Threads |-> IF u # t /\ htm[u] = "on" /\ Sgl!Lock \in watch[u]
                                  THEN "doomed" ELSE htm[u]]
    BY <2>1, SameSets DEF Sgl!DoomByLockWord
  <2>3. SglHolds(t) /\ htm[t] = "off" /\ \A u \in Threads : htm[u] # "on"
    BY <1>1, <1>3, <2>1 DEF TracksOf, SglHolds, SglInv
  <2>4. htm' = htm
    BY <1>1, <2>2, <2>3 DEF SectionTypes
  <2>5. GivesBack(t)
    BY <1>1, <2>1, <2>3, <2>4 DEF GivesBack, Moves, Dooms, After, SectionTypes
  <2>6. SimpleIndex(t)' /\ Kind(t)'
    BY <1>1, <1>3, <2>1 DEF SimpleIndex, Kind, SectionTypes
  <2>7. \A u \in Threads : ~SglHolds(u)'
    BY <1>1, <2>1, <2>3, <2>4 DEF SglInv, SglHolds, SectionTypes
  <2>8. SglInv'
    BY <1>1, <2>1, <2>3, <2>4, <2>7 DEF SglInv, SectionTypes
  <2>9. Locks'
    BY <1>2, <2>1, <2>8 DEF Locks
  <2>. QED
    BY <2>5, <2>6, <2>9 DEF SectionStep
<1>12. CASE /\ Sgl!WriteSection(t, Sgl!Release(t)) \/ Sgl!ReadSection(t, Sgl!Release(t))
            /\ UNCHANGED <<tries, mode, writer_lock>>
  <2>1. PICK l : l = Sgl!Release(t)
    OBVIOUS
  <2>2. Sec!ReadSection(t, l) \/ Sec!WriteSection(t, l)
    BY <1>12, <2>1, SameSections
  <2>3. pc[t] \in {"r_read", "w_read", "w_write"} /\ htm[t] # "doomed"
    BY <2>2 DEF Sec!ReadSection, Sec!WriteSection, Sec!Jump, Sec!Load, Sec!Store, Sec!Live
  <2>4. l = IF htm[t] = "on" THEN "w_end_htm" ELSE "w_unlock"
    BY <1>1, <2>1, <2>3 DEF Sgl!Release, SglInv, SectionTypes
  <2>5. /\ SectionStep(t) /\ pc' = [pc EXCEPT ![t] = pc'[t]]
        /\ pc'[t] \in {"r_read", "w_read", "w_write", l}
        /\ Dooms(t) /\ htm'[t] = htm[t] /\ watch' = watch
    BY <2>2, <2>4, SectionRound
  <2>6. \A u \in Threads : SglHolds(u)' <=> SglHolds(u)
    BY <1>1, <2>3, <2>4, <2>5 DEF SglHolds, Dooms, SectionTypes
  <2>7. SglInv'
    BY <1>1, <1>12, <2>3, <2>4, <2>5, <2>6 DEF SglInv, Dooms, SectionTypes
  <2>8. Locks'
    BY <1>2, <1>12, <2>5, <2>7 DEF Locks
  <2>. QED
    BY <2>5, <2>8
<1>13. CASE Sgl!End(t, "w_done") /\ UNCHANGED <<tries, mode, writer_lock, Sgl!txvars>>
  <2>1. /\ pc[t] = "w_done" /\ pc' = [pc EXCEPT ![t] = "idle"]
        /\ UNCHANGED <<op, idx, seen, mem, commits, tries, mode, writer_lock, htm, watch, rset,
                       wset>>
    BY <1>13 DEF Sgl!End, Sgl!Jump, Sgl!Goto, Sgl!data, Sgl!txvars
  <2>2. Ends(t)
    BY <1>1, <2>1 DEF Ends, Moves, After, SectionTypes
  <2>3. SimpleIndex(t)' /\ Kind(t)'
    BY <1>1, <1>3, <2>1 DEF SimpleIndex, Kind, SectionTypes
  <2>4. SglInv'
    BY <1>1, <1>3, <2>1 DEF SglInv, SglHolds, SectionTypes, TracksOf
  <2>5. Locks'
    BY <1>2, <2>1, <2>4 DEF Locks
  <2>. QED
    BY <2>2, <2>3, <2>5 DEF SectionStep
<1>. QED
  BY <1>4, <1>5, <1>6, <1>7, <1>8, <1>9, <1>10, <1>11, <1>12, <1>13 DEF Sgl!Run

----------------------------------------------------------------------------
(* backends/brlock.  The sections run without transactions. *)

\* A step of any thread is a step of its section, and keeps the invariant of the lock.
LEMMA BrStep ==
  ASSUME SectionInv, Locks, backend = "brlock", backend' = backend, NEW t \in Threads,
         (\E o \in {"read", "write"} : Br!Start(t, o)) \/ Br!Run(t),
         UNCHANGED BrIdle
  PROVE  SectionStep(t) /\ Locks'
<1>1. BrInv /\ SectionTypes /\ SimpleIndex(t) /\ Kind(t)
  BY DEF Locks, SectionInv
<1>2. /\ writer_lock \in {0, 1} /\ reader_locks \in [Threads -> {0, 1}]
      /\ tries' = tries /\ mode' = mode
  BY DEF Locks, BrIdle
<1>3. /\ htm[t] = "off" /\ rset[t] = {} /\ wset[t] = {} /\ 1 \in Data /\ 1 \in Threads
      /\ N \in Threads /\ \A u \in Threads : u \in Nat /\ 1 <= u /\ u <= N
  BY <1>1, Ranges, ConstantsAssumption DEF SectionInv, BrInv, Images, Tracks, TracksOf
<1>4. ASSUME BrInv', writer_lock' \in {0, 1}, reader_locks' \in [Threads -> {0, 1}],
             watch' = watch
      PROVE  Locks'
  BY <1>2, <1>4 DEF Locks
<1>5. CASE \E o \in {"read", "write"} : Br!Start(t, o)
  <2>1. PICK o \in {"read", "write"} : Br!Start(t, o)
    BY <1>5
  <2>2. /\ pc[t] = "idle" /\ op' = [op EXCEPT ![t] = o]
        /\ \E l \in {"r_lock", "w_cas"} : /\ l = (IF o = "read" THEN "r_lock" ELSE "w_cas")
                                       /\ pc' = [pc EXCEPT ![t] = l]
        /\ UNCHANGED <<idx, seen, mem, commits, writer_lock, reader_locks, htm, watch, rset,
                       wset>>
    BY <2>1 DEF Br!Start, Br!Begin, Br!Jump, Br!Goto, Br!data, Br!txvars
  <2>3. Begins(t)
    <3>1. idx' = [idx EXCEPT ![t] = idx[t]]
      BY <1>1, <2>2 DEF SectionTypes
    <3>2. \E l \in Before \ {"idle"} : Moves(t, l, idx[t])
      BY <2>2, <3>1 DEF Moves, Before
    <3>. QED
      BY <2>2, <3>2 DEF Begins
  <2>4. SimpleIndex(t)' /\ Kind(t)'
    BY <1>1, <2>2 DEF SimpleIndex, Kind, SectionTypes
  <2>5. BrInv'
    BY <1>1, <2>2 DEF BrInv, BrReads, BrWrites, BrTook, SectionTypes
  <2>. QED
    BY <1>2, <1>4, <2>2, <2>3, <2>4, <2>5 DEF SectionStep
<1>6. CASE Br!RLock(t)
  <2>1. /\ pc[t] = "r_lock" /\ pc' = [pc EXCEPT ![t] = "r_read"] /\ reader_locks[t] = 0
        /\ reader_locks' = [reader_locks EXCEPT ![t] = 1]
        /\ UNCHANGED <<op, idx, seen, mem, commits, writer_lock, htm, watch, rset, wset>>
    BY <1>6 DEF Br!RLock, Br!SetMutex, Br!Jump, Br!Goto, Br!progress, Br!txvars
  <2>2. Enters(t)
    BY <1>1, <1>3, <2>1 DEF Enters, Moves, Dooms, Before, Kind, SimpleIndex, SectionTypes
  <2>3. SimpleIndex(t)' /\ Kind(t)'
    BY <1>1, <1>3, <2>1 DEF SimpleIndex, Kind, SectionTypes
  <2>4. \A u \in Threads : ~BrTook(u, t)
    BY <1>1, <2>1 DEF BrInv
  <2>5. \A u, v \in Threads : /\ BrReads(u)' <=> BrReads(u) \/ u = t
                              /\ BrWrites(u)' <=> BrWrites(u)
                              /\ BrTook(u, v)' <=> BrTook(u, v)
    BY <1>1, <2>1 DEF BrReads, BrWrites, BrTook, SectionTypes
  <2>6. BrInv'
    BY <1>1, <1>2, <2>1, <2>4, <2>5 DEF BrInv, SectionTypes
  <2>. QED
    BY <1>2, <1>4, <2>1, <2>2, <2>3, <2>6 DEF SectionStep
<1>7. CASE Br!RClear(t)
  <2>1. /\ pc[t] = "r_clear" /\ pc' = [pc EXCEPT ![t] = "idle"]
        /\ reader_locks' = [reader_locks EXCEPT ![t] = 0]
        /\ UNCHANGED <<op, idx, seen, mem, commits, writer_lock, htm, watch, rset, wset>>
    BY <1>7 DEF Br!RClear, Br!End, Br!Jump, Br!Goto, Br!data, Br!txvars
  <2>2. Ends(t)
    BY <1>1, <2>1 DEF Ends, Moves, After, SectionTypes
  <2>3. SimpleIndex(t)' /\ Kind(t)'
    BY <1>1, <2>1 DEF SimpleIndex, Kind, SectionTypes
  <2>4. BrReads(t) /\ \A u \in Threads : ~BrTook(u, t)
    BY <1>1, <2>1 DEF BrInv, BrReads
  <2>5. \A u, v \in Threads : /\ BrReads(u)' <=> BrReads(u) /\ u # t
                              /\ BrWrites(u)' <=> BrWrites(u)
                              /\ BrTook(u, v)' <=> BrTook(u, v)
    BY <1>1, <2>1 DEF BrReads, BrWrites, BrTook, SectionTypes
  <2>6. BrInv'
    BY <1>1, <1>2, <2>1, <2>4, <2>5 DEF BrInv, SectionTypes
  <2>. QED
    BY <1>2, <1>4, <2>1, <2>2, <2>3, <2>6 DEF SectionStep
<1>8. CASE Br!WLock(t)
  <2>1. /\ pc[t] = "w_cas" /\ pc' = [pc EXCEPT ![t] = "w_flags"] /\ writer_lock = 0
        /\ writer_lock' = 1
        /\ UNCHANGED <<op, idx, seen, mem, commits, reader_locks, htm, watch, rset, wset>>
    BY <1>8 DEF Br!WLock, Br!SetLock, Br!Jump, Br!Goto, Br!progress, Br!txvars
  <2>2. op[t] = "write"
    BY <1>1, <2>1 DEF BrInv
  <2>3. Tries(t)
    BY <1>1, <1>3, <2>1 DEF Tries, Moves, Dooms, Forgets, Before, SectionTypes
  <2>4. SimpleIndex(t)' /\ Kind(t)'
    BY <1>1, <1>3, <2>1, <2>2 DEF SimpleIndex, Kind, SectionTypes
  <2>5. idx[t] = 1
    BY <1>1, <2>1 DEF SimpleIndex
  <2>6. \A u \in Threads : ~BrWrites(u)
    BY <1>1, <2>1 DEF BrInv
  <2>7. \A u, v \in Threads : /\ BrReads(u)' <=> BrReads(u)
                              /\ BrWrites(u)' => u = t
                              /\ ~BrTook(u, v)'
    BY <1>1, <1>3, <2>1, <2>5, <2>6 DEF BrReads, BrWrites, BrTook, SectionTypes
  <2>8. BrInv'
    BY <1>1, <2>1, <2>7 DEF BrInv, BrWrites, SectionTypes
  <2>. QED
    BY <1>2, <1>4, <2>1, <2>3, <2>4, <2>8 DEF SectionStep
<1>9. CASE Br!WFlags(t)
  <2>1. /\ pc[t] = "w_flags" /\ reader_locks[idx[t]] = 0
        /\ reader_locks' = [reader_locks EXCEPT ![idx[t]] = 1]
        /\ idx' = [idx EXCEPT ![t] = IF idx[t] = N THEN 1 ELSE idx[t] + 1]
        /\ pc' = [pc EXCEPT ![t] = IF idx[t] = N THEN "w_read" ELSE "w_flags"]
        /\ UNCHANGED <<op, seen, mem, commits, writer_lock, htm, watch, rset, wset>>
    BY <1>9 DEF Br!WFlags, Br!SetMutex, Br!LastMutex, Br!EndRound, Br!Goto, Br!progress,
         Br!txvars
  <2>2. idx[t] \in Threads /\ op[t] = "write"
    BY <1>1, <2>1 DEF SimpleIndex, Kind
  <2>3. ASSUME idx[t] = N PROVE SectionStep(t)
    <3>1. Moves(t, "w_read", 1)
      BY <2>1, <2>3 DEF Moves
    <3>2. Enters(t)
      BY <1>1, <1>3, <2>1, <2>2, <3>1 DEF Enters, Dooms, Before, SectionTypes
    <3>3. SimpleIndex(t)' /\ Kind(t)'
      BY <1>1, <1>3, <2>1, <2>2, <3>1 DEF Moves, SimpleIndex, Kind, SectionTypes
    <3>. QED
      BY <3>2, <3>3 DEF SectionStep
  <2>4. ASSUME idx[t] # N PROVE SectionStep(t)
    <3>1. Moves(t, "w_flags", idx[t] + 1) /\ idx[t] + 1 \in Threads
      BY <1>3, <2>1, <2>2, <2>4, Ranges DEF Moves
    <3>2. idx'[t] = idx[t] + 1 /\ pc'[t] = "w_flags" /\ idx[t] + 1 \in Nat
      BY <1>1, <1>3, <3>1 DEF Moves, SectionTypes
    <3>3. Tries(t)
      BY <1>1, <1>3, <2>1, <3>1, <3>2 DEF Tries, Dooms, Forgets, Before, SectionTypes
    <3>4. SimpleIndex(t)' /\ Kind(t)'
      BY <2>1, <2>2, <3>1, <3>2 DEF SimpleIndex, Kind
    <3>. QED
      BY <3>3, <3>4 DEF SectionStep
  <2>5. ~BrReads(idx[t]) /\ BrWrites(t) /\ \A u \in Threads : BrWrites(u) => u = t
    BY <1>1, <2>1, <2>2 DEF BrInv, BrWrites
  <2>6. \A u, v \in Threads : /\ BrReads(u)' <=> BrReads(u)
                              /\ BrWrites(u)' <=> BrWrites(u)
                              /\ BrTook(u, v)' => BrTook(u, v) \/ v = idx[t]
    BY <1>1, <1>3, <2>1, <2>2 DEF BrReads, BrWrites, BrTook, SectionTypes
  <2>7. BrInv'
    BY <1>1, <1>2, <2>1, <2>2, <2>5, <2>6 DEF BrInv, SectionTypes, BrWrites
  <2>. QED
    BY <1>2, <1>4, <2>1, <2>2, <2>3, <2>4, <2>7
<1>10. CASE Br!WUnflag(t)
  <2>1. /\ pc[t] \in {"w_full", "w_unflag"}
        /\ reader_locks' = [reader_locks EXCEPT ![idx[t]] = 0]
        /\ idx' = [idx EXCEPT ![t] = IF idx[t] = N THEN 1 ELSE idx[t] + 1]
        /\ pc' = [pc EXCEPT ![t] = IF idx[t] = N THEN "w_open" ELSE "w_unflag"]
        /\ commits' = IF pc[t] = "w_full" THEN commits + 1 ELSE commits
        /\ UNCHANGED <<op, seen, mem, writer_lock, htm, watch, rset, wset>>
    BY <1>10 DEF Br!WUnflag, Br!OpenMutex, Br!EndRound, Br!Goto, Br!progress, Br!txvars
  <2>2. /\ idx[t] \in Threads /\ op[t] = "write"
        /\ pc[t] = "w_full" => idx[t] = 1
    BY <1>1, <1>3, <2>1 DEF SimpleIndex, Kind
  <2>3. /\ idx[t] = N => pc'[t] = "w_open" /\ idx'[t] = 1
        /\ idx[t] # N => pc'[t] = "w_unflag" /\ idx'[t] = idx[t] + 1 /\ idx[t] + 1 \in Threads
        /\ idx'[t] \in Nat /\ \E l \in After : Moves(t, l, idx'[t])
    <3>1. CASE idx[t] = N
      <4>1. Moves(t, "w_open", 1)
        BY <2>1, <3>1 DEF Moves
      <4>. QED
        BY <1>1, <3>1, <4>1 DEF Moves, After, SectionTypes
    <3>2. CASE idx[t] # N
      <4>1. Moves(t, "w_unflag", idx[t] + 1) /\ idx[t] + 1 \in Threads
        BY <1>3, <2>1, <2>2, <3>2, Ranges DEF Moves
      <4>. QED
        BY <1>1, <1>3, <3>2, <4>1 DEF Moves, After, SectionTypes
    <3>. QED
      BY <3>1, <3>2
  <2>4. GivesBack(t) \/ Ends(t)
    BY <1>1, <1>3, <2>1, <2>2, <2>3 DEF GivesBack, Ends, Counts, Dooms, After, SectionTypes
  <2>5. SimpleIndex(t)' /\ Kind(t)'
    BY <1>3, <2>1, <2>2, <2>3 DEF SimpleIndex, Kind
  <2>6. /\ BrWrites(t) /\ BrTook(t, idx[t])
        /\ \A u \in Threads : BrWrites(u) => u = t
    BY <1>1, <1>3, <2>1, <2>2 DEF BrInv, BrWrites, BrTook
  <2>7. ~BrReads(idx[t])
    BY <1>1, <2>2, <2>6 DEF BrInv
  <2>8. \A u, v \in Threads : /\ BrReads(u)' <=> BrReads(u)
                              /\ BrWrites(u)' <=> BrWrites(u)
                              /\ BrTook(u, v)' => BrTook(u, v)
    BY <1>1, <1>3, <2>1, <2>2 DEF BrReads, BrWrites, BrTook, SectionTypes
  <2>9. \A u, v \in Threads : BrTook(u, v)' => v # idx[t] /\ u = t
    <3>1. \A u, v \in Threads : BrTook(u, v)' => u = t
      BY <2>6, <2>8 DEF BrTook, BrWrites
    <3>2. \A v \in Threads : BrTook(t, v)' => v # idx[t]
      BY <1>1, <1>3, <2>1, <2>2 DEF BrTook, SectionTypes
    <3>. QED
      BY <3>1, <3>2
  <2>10. BrInv'
    BY <1>1, <1>2, <2>1, <2>2, <2>7, <2>8, <2>9 DEF BrInv, SectionTypes, BrWrites
  <2>. QED
    BY <1>2, <1>4, <2>1, <2>2, <2>4, <2>5, <2>10 DEF SectionStep
<1>11. CASE Br!WUnlock(t)
  <2>1. /\ pc[t] = "w_open" /\ pc' = [pc EXCEPT ![t] = "idle"] /\ writer_lock' = 0
        /\ UNCHANGED <<op, idx, seen, mem, commits, reader_locks, htm, watch, rset, wset>>
    BY <1>11 DEF Br!WUnlock, Br!End, Br!Jump, Br!Goto, Br!data, Br!txvars
  <2>2. Ends(t)
    BY <1>1, <2>1 DEF Ends, Moves, After, SectionTypes
  <2>3. SimpleIndex(t)' /\ Kind(t)'
    BY <1>1, <2>1 DEF SimpleIndex, Kind, SectionTypes
  <2>4. BrWrites(t) /\ \A u \in Threads : BrWrites(u) => u = t
    BY <1>1, <2>1 DEF BrInv, BrWrites
  <2>5. \A u, v \in Threads : /\ BrReads(u)' <=> BrReads(u)
                              /\ ~BrWrites(u)'
                              /\ ~BrTook(u, v)'
    BY <1>1, <2>1, <2>4 DEF BrReads, BrWrites, BrTook, SectionTypes
  <2>6. BrInv'
    BY <1>1, <2>1, <2>5 DEF BrInv, SectionTypes, BrWrites
  <2>. QED
    BY <1>2, <1>4, <2>1, <2>2, <2>3, <2>6 DEF SectionStep
<1>12. CASE /\ Br!WriteSection(t, "w_full") \/ Br!ReadSection(t, "r_clear")
            /\ UNCHANGED <<writer_lock, reader_locks>>
  <2>1. Sec!ReadSection(t, "r_clear") \/ Sec!WriteSection(t, "w_full")
    BY <1>12, SameSections
  <2>2. /\ SectionStep(t) /\ pc' = [pc EXCEPT ![t] = pc'[t]]
        /\ pc[t] = "r_read" => pc'[t] \in {"r_read", "r_clear"}
        /\ pc[t] = "w_read" => pc'[t] = "w_write"
        /\ pc[t] = "w_write" => pc'[t] \in {"w_read", "w_full"}
        /\ pc[t] \in {"r_read", "w_read", "w_write"}
        /\ Dooms(t) /\ htm'[t] = htm[t] /\ watch' = watch /\ op' = op
    BY <1>3, <2>1, SectionRound
  <2>3. \A u \in Threads : htm'[u] = "off" /\ (u # t => idx'[u] = idx[u])
    BY <1>1, <1>3, <2>1, <2>2
       DEF BrInv, Dooms, Sec!ReadSection, Sec!WriteSection, Sec!EndRound, SectionTypes
  <2>4. \A u, v \in Threads : /\ BrReads(u)' <=> BrReads(u)
                              /\ BrWrites(u)' <=> BrWrites(u)
                              /\ BrTook(u, v)' <=> BrTook(u, v)
    BY <1>1, <2>2, <2>3 DEF BrReads, BrWrites, BrTook, SectionTypes
  <2>5. BrInv'
    BY <1>1, <1>12, <2>2, <2>3, <2>4 DEF BrInv, BrReads, BrWrites, SectionTypes
  <2>. QED
    BY <1>2, <1>4, <1>12, <2>2, <2>5
<1>. QED
  BY <1>5, <1>6, <1>7, <1>8, <1>9, <1>10, <1>11, <1>12 DEF Br!Run

----------------------------------------------------------------------------
(* backends/rwl. *)

\* A step of any thread is a step of its section, and keeps the invariant of the lock.
LEMMA RwStep ==
  ASSUME SectionInv, Locks, backend = "rwl", backend' = backend, NEW t \in Threads,
         (\E o \in {"read", "write"} : Rw!Start(t, o)) \/ Rw!Run(t),
         UNCHANGED BrIdle
  PROVE  SectionStep(t) /\ Locks'
<1>1. RwInv /\ SectionTypes /\ SimpleIndex(t) /\ Kind(t)
  BY DEF Locks, SectionInv
<1>2. /\ writer_lock \in {0, 1} /\ reader_locks \in [Threads -> {0, 1}]
      /\ tries' = tries /\ mode' = mode
  BY DEF Locks, BrIdle
<1>3. htm[t] = "off" /\ rset[t] = {} /\ wset[t] = {} /\ 1 \in Data
  BY <1>1, Ranges DEF SectionInv, RwInv, Images, Tracks, TracksOf
<1>4. ASSUME RwInv', writer_lock' \in {0, 1}, reader_locks' \in [Threads -> {0, 1}],
             watch' = watch
      PROVE  Locks'
  BY <1>2, <1>4 DEF Locks
<1>5. CASE \E o \in {"read", "write"} : Rw!Start(t, o)
  <2>1. PICK o \in {"read", "write"} : Rw!Start(t, o)
    BY <1>5
  <2>2. /\ pc[t] = "idle" /\ op' = [op EXCEPT ![t] = o]
        /\ \E l \in {"r_lock", "w_lock"} : /\ l = (IF o = "read" THEN "r_lock" ELSE "w_lock")
                                       /\ pc' = [pc EXCEPT ![t] = l]
        /\ UNCHANGED <<idx, seen, mem, commits, writer_lock, reader_locks, htm, watch, rset,
                       wset>>
    BY <2>1 DEF Rw!Start, Rw!Begin, Rw!Jump, Rw!Goto, Rw!data, Rw!txvars
  <2>3. Begins(t)
    <3>1. idx' = [idx EXCEPT ![t] = idx[t]]
      BY <1>1, <2>2 DEF SectionTypes
    <3>2. \E l \in Before \ {"idle"} : Moves(t, l, idx[t])
      BY <2>2, <3>1 DEF Moves, Before
    <3>. QED
      BY <2>2, <3>2 DEF Begins
  <2>4. SimpleIndex(t)' /\ Kind(t)'
    BY <1>1, <2>2 DEF SimpleIndex, Kind, SectionTypes
  <2>5. RwInv'
    BY <1>1, <2>2 DEF RwInv, RwReads, RwWrites, SectionTypes
  <2>. QED
    BY <1>2, <1>4, <2>2, <2>3, <2>4, <2>5 DEF SectionStep
<1>6. CASE Rw!RdLock(t)
  <2>1. /\ pc[t] = "r_lock" /\ pc' = [pc EXCEPT ![t] = "r_read"] /\ writer_lock = 0
        /\ reader_locks' = [reader_locks EXCEPT ![t] = 1]
        /\ UNCHANGED <<op, idx, seen, mem, commits, writer_lock, htm, watch, rset, wset>>
    BY <1>6 DEF Rw!RdLock, Rw!Jump, Rw!Goto, Rw!progress, Rw!data, Rw!txvars
  <2>2. Enters(t)
    BY <1>1, <1>3, <2>1 DEF Enters, Moves, Dooms, Before, Kind, SimpleIndex, SectionTypes
  <2>3. SimpleIndex(t)' /\ Kind(t)'
    BY <1>1, <1>3, <2>1 DEF SimpleIndex, Kind, SectionTypes
  <2>4. \A u \in Threads : ~RwWrites(u)
    BY <1>1, <2>1 DEF RwInv
  <2>5. \A u \in Threads : (RwReads(u)' <=> RwReads(u) \/ u = t) /\ ~RwWrites(u)'
    BY <1>1, <2>1, <2>4 DEF RwReads, RwWrites, SectionTypes
  <2>6. RwInv'
    BY <1>1, <1>2, <2>1, <2>5 DEF RwInv, SectionTypes
  <2>. QED
    BY <1>2, <1>4, <2>1, <2>2, <2>3, <2>6 DEF SectionStep
<1>7. CASE Rw!WrLock(t)
  <2>1. /\ pc[t] = "w_lock" /\ pc' = [pc EXCEPT ![t] = "w_read"] /\ writer_lock = 0
        /\ Rw!NoReaders /\ writer_lock' = 1
        /\ UNCHANGED <<op, idx, seen, mem, commits, reader_locks, htm, watch, rset, wset>>
    BY <1>7 DEF Rw!WrLock, Rw!Jump, Rw!Goto, Rw!progress, Rw!data, Rw!txvars
  <2>2. op[t] = "write"
    BY <1>1, <2>1 DEF Kind
  <2>3. Enters(t)
    BY <1>1, <1>3, <2>1, <2>2 DEF Enters, Moves, Dooms, Before, SimpleIndex, SectionTypes
  <2>4. SimpleIndex(t)' /\ Kind(t)'
    BY <1>1, <1>3, <2>1, <2>2 DEF SimpleIndex, Kind, SectionTypes
  <2>5. \A u \in Threads : ~RwWrites(u) /\ ~RwReads(u)
    BY <1>1, <1>2, <2>1, SameSets DEF RwInv, Rw!NoReaders
  <2>6. \A u \in Threads : ~RwReads(u)' /\ (RwWrites(u)' => u = t)
    BY <1>1, <2>1, <2>5 DEF RwReads, RwWrites, SectionTypes
  <2>7. RwInv'
    BY <1>1, <1>2, <2>1, <2>5, <2>6 DEF RwInv, RwWrites, SectionTypes
  <2>. QED
    BY <1>2, <1>4, <2>1, <2>3, <2>4, <2>7 DEF SectionStep
<1>8. CASE Rw!RdUnlock(t)
  <2>1. /\ pc[t] = "r_clear" /\ pc' = [pc EXCEPT ![t] = "idle"]
        /\ reader_locks' = [reader_locks EXCEPT ![t] = 0]
        /\ UNCHANGED <<op, idx, seen, mem, commits, writer_lock, htm, watch, rset, wset>>
    BY <1>8 DEF Rw!RdUnlock, Rw!End, Rw!Jump, Rw!Goto, Rw!data, Rw!txvars
  <2>2. Ends(t)
    BY <1>1, <2>1 DEF Ends, Moves, After, SectionTypes
  <2>3. SimpleIndex(t)' /\ Kind(t)'
    BY <1>1, <2>1 DEF SimpleIndex, Kind, SectionTypes
  <2>4. \A u \in Threads : ~RwWrites(u)
    BY <1>1, <2>1 DEF RwInv, RwReads
  <2>5. \A u \in Threads : (RwReads(u)' <=> RwReads(u) /\ u # t) /\ ~RwWrites(u)'
    BY <1>1, <2>1, <2>4 DEF RwReads, RwWrites, SectionTypes
  <2>6. RwInv'
    BY <1>1, <1>2, <2>1, <2>5 DEF RwInv, SectionTypes
  <2>. QED
    BY <1>2, <1>4, <2>1, <2>2, <2>3, <2>6 DEF SectionStep
<1>9. CASE Rw!WrUnlock(t)
  <2>1. /\ pc[t] = "w_full" /\ pc' = [pc EXCEPT ![t] = "w_done"] /\ writer_lock' = 0
        /\ commits' = commits + 1
        /\ UNCHANGED <<op, idx, seen, mem, reader_locks, htm, watch, rset, wset>>
    BY <1>9 DEF Rw!WrUnlock, Rw!Jump, Rw!Goto, Rw!progress, Rw!txvars
  <2>2. op[t] = "write"
    BY <1>1, <2>1 DEF Kind
  <2>3. GivesBack(t)
    BY <1>1, <1>3, <2>1, <2>2 DEF GivesBack, Moves, Counts, Dooms, After, SectionTypes
  <2>4. SimpleIndex(t)' /\ Kind(t)'
    BY <1>1, <1>3, <2>1, <2>2 DEF SimpleIndex, Kind, SectionTypes
  <2>5. \A u \in Threads : ~RwReads(u) /\ (RwWrites(u) => u = t)
    BY <1>1, <2>1 DEF RwInv, RwWrites
  <2>6. \A u \in Threads : ~RwReads(u)' /\ ~RwWrites(u)'
    BY <1>1, <2>1, <2>5 DEF RwReads, RwWrites, SectionTypes
  <2>7. RwInv'
    BY <1>1, <1>2, <2>1, <2>5, <2>6 DEF RwInv, SectionTypes
  <2>. QED
    BY <1>2, <1>4, <2>1, <2>3, <2>4, <2>7 DEF SectionStep
<1>10. CASE /\ Rw!WriteSection(t, "w_full") \/ Rw!ReadSection(t, "r_clear")
            /\ UNCHANGED <<writer_lock, reader_locks>>
  <2>1. Sec!ReadSection(t, "r_clear") \/ Sec!WriteSection(t, "w_full")
    BY <1>10, SameSections
  <2>2. /\ SectionStep(t) /\ pc' = [pc EXCEPT ![t] = pc'[t]]
        /\ pc[t] = "r_read" => pc'[t] \in {"r_read", "r_clear"}
        /\ pc[t] = "w_read" => pc'[t] = "w_write"
        /\ pc[t] = "w_write" => pc'[t] \in {"w_read", "w_full"}
        /\ pc[t] \in {"r_read", "w_read", "w_write"}
        /\ Dooms(t) /\ htm'[t] = htm[t] /\ watch' = watch /\ op' = op
    BY <1>3, <2>1, SectionRound
  <2>3. \A u \in Threads : htm'[u] = "off"
    BY <1>1, <1>3, <2>2 DEF RwInv, Dooms
  <2>4. \A u \in Threads : (RwReads(u)' <=> RwReads(u)) /\ (RwWrites(u)' <=> RwWrites(u))
    BY <1>1, <2>2 DEF RwReads, RwWrites, SectionTypes
  <2>5. RwInv'
    BY <1>1, <1>10, <2>2, <2>3, <2>4 DEF RwInv, RwReads, RwWrites, SectionTypes
  <2>. QED
    BY <1>2, <1>4, <1>10, <2>2, <2>5
<1>11. CASE Rw!End(t, "w_done") /\ UNCHANGED <<writer_lock, reader_locks, Rw!txvars>>
  <2>1. /\ pc[t] = "w_done" /\ pc' = [pc EXCEPT ![t] = "idle"]
        /\ UNCHANGED <<op, idx, seen, mem, commits, writer_lock, reader_locks, htm, watch, rset,
                       wset>>
    BY <1>11 DEF Rw!End, Rw!Jump, Rw!Goto, Rw!data, Rw!txvars
  <2>2. Ends(t)
    BY <1>1, <2>1 DEF Ends, Moves, After, SectionTypes
  <2>3. SimpleIndex(t)' /\ Kind(t)'
    BY <1>1, <2>1 DEF SimpleIndex, Kind, SectionTypes
  <2>4. RwInv'
    BY <1>1, <2>1 DEF RwInv, RwReads, RwWrites, SectionTypes
  <2>. QED
    BY <1>2, <1>4, <2>1, <2>2, <2>3, <2>4 DEF SectionStep
<1>. QED
  BY <1>5, <1>6, <1>7, <1>8, <1>9, <1>10, <1>11 DEF Rw!Run

----------------------------------------------------------------------------
(* The simpler builds: every step keeps SimpleInv. *)

\* A step of such a build is a step of its sections, or changes nothing.
LEMMA SimpleMoves ==
  ASSUME SectionInv, Locks, Simple, [Next]_vars
  PROVE  /\ Locks' /\ backend' = backend
         /\ UNCHANGED vars \/ \E t \in Threads : SectionStep(t)
<1>1. CASE UNCHANGED vars
  <2>1. /\ backend' = backend
        /\ UNCHANGED <<pc, op, tries, mode, idx, writer_lock, reader_locks, htm, watch>>
    BY <1>1 DEF vars, Plain!vars, Plain!locals, Plain!lockvars, Plain!txvars
  <2>2. (SglInv => SglInv') /\ (BrInv => BrInv') /\ (RwInv => RwInv')
    BY <2>1 DEF SglInv, SglHolds, BrInv, BrReads, BrWrites, BrTook, RwInv, RwReads, RwWrites
  <2>. QED
    BY <1>1, <2>1, <2>2 DEF Locks
<1>2. ASSUME NEW t \in Threads, SimpleNext(t), backend' = backend
      PROVE  SectionStep(t) /\ Locks'
  <2>1. CASE backend = "1.0-htm-sgl"
    BY <1>2, <2>1, SglStep DEF SimpleNext
  <2>2. CASE backend = "brlock"
    BY <1>2, <2>2, BrStep DEF SimpleNext
  <2>3. CASE backend = "rwl"
    BY <1>2, <2>3, RwStep DEF SimpleNext
  <2>. QED
    BY <2>1, <2>2, <2>3 DEF Simple
<1>3. ASSUME NEW t \in Threads, SpRWLNext(t) PROVE FALSE
  BY <1>3 DEF SpRWLNext, Simple
<1>4. CASE Plain!Finished /\ UNCHANGED backend
  BY <1>1, <1>4 DEF Plain!Finished, vars
<1>. QED
  BY <1>1, <1>2, <1>3, <1>4 DEF Next

\* A step that changes nothing keeps the sections' invariant.
LEMMA SectionStutter == SectionInv /\ UNCHANGED vars => SectionInv'
<1>. SUFFICES ASSUME SectionInv, UNCHANGED vars PROVE SectionInv'
  OBVIOUS
<1>1. UNCHANGED <<pc, op, idx, seen, mem, commits, htm, rset, wset>>
  BY DEF vars, Plain!vars, Plain!locals, Plain!txvars
<1>2. ASSUME NEW t \in Threads
      PROVE  /\ SimpleIndex(t)' /\ Kind(t)'
             /\ TracksOf(t)'
             /\ WritesInPlace(t)' <=> WritesInPlace(t)
             /\ ReadsInPlace(t)' <=> ReadsInPlace(t)
             /\ \A d \in Data : /\ HasRead(t, d)' <=> HasRead(t, d)
                                /\ HasWritten(t, d)' <=> HasWritten(t, d)
  BY <1>1 DEF SectionInv, SimpleIndex, Kind, Images, Tracks, TracksOf, WritesInPlace, ReadsInPlace,
              ReadsBare, HasRead, HasWritten
<1>3. NoConflict' /\ Current' /\ HalfDone' /\ NoneLost'
  BY <1>1, <1>2 DEF SectionInv, Images, NoConflict, Current, HalfDone, NoneLost
<1>. QED
  BY <1>1, <1>2, <1>3 DEF SectionInv, SectionTypes, Images, Tracks

\* A step of a simpler build keeps the invariants.
LEMMA SimpleKept ==
  SimpleInv /\ Simple /\ [Next]_vars => SimpleInv' /\ Simple'
<1>1. Simple /\ Locks => Apart
  BY LockApart
<1>2. (Simple /\ Locks)' => Apart'
  BY <1>1, PTL
<1>. SUFFICES ASSUME SimpleInv, Simple, [Next]_vars PROVE SimpleInv' /\ Simple'
  OBVIOUS
<1>3. SectionInv /\ Locks
  BY DEF SimpleInv
<1>4. Locks' /\ Simple'
  BY <1>3, SimpleMoves DEF Simple
<1>5. SectionInv'
  BY <1>1, <1>2, <1>3, <1>4, SimpleMoves, SectionStutter, SectionKept
<1>. QED
  BY <1>4, <1>5 DEF SimpleInv

\* Nor does it change the words under a section that reads them in place.
LEMMA SimpleUndisturbed ==
  ASSUME SimpleInv, Simple, [Next]_vars
  PROVE  [(\E t \in Threads : ReadsBare(t)) => mem' = mem]_vars
<1>1. SectionInv /\ Locks /\ Apart
  BY LockApart DEF SimpleInv
<1>. QED
  BY <1>1, SimpleMoves, BareStep

\* It is a step of atomic sections.
LEMMA SimpleAtomic ==
  SimpleInv /\ Simple /\ [Next]_vars => [Atomic!Next]_(Atomic!vars)
<1>1. SimpleInv /\ Simple /\ [Next]_vars => (SimpleInv /\ Simple)'
  BY SimpleKept
<1>2. SimpleInv /\ Simple => SectionInv /\ Apart
  BY LockApart DEF SimpleInv
<1>3. (SimpleInv /\ Simple)' => SectionInv' /\ Apart'
  BY <1>2, PTL
<1>. SUFFICES ASSUME SimpleInv, Simple, [Next]_vars PROVE [Atomic!Next]_(Atomic!vars)
  OBVIOUS
<1>4. SectionInv /\ Apart /\ SectionInv' /\ Apart' /\ Locks
  BY <1>1, <1>2, <1>3 DEF SimpleInv
<1>5. UNCHANGED vars => UNCHANGED Atomic!vars
  BY DEF vars, Plain!vars, Plain!locals, Atomic!vars, phaseBar, gotBar, Over
<1>. QED
  BY <1>4, <1>5, SimpleMoves, AtomicStep

\* The builds start with no section called.
LEMMA AtomicInit == Init => Atomic!Init
  BY DEF Init, Plain!Init, Plain!NoTransactions, Atomic!Init, Atomic!Nothing, phaseBar, gotBar, Over,
         Threads, Data

\* What a program built with a simpler lock relies on.
LEMMA SimpleBuilds ==
  /\ Spec /\ Simple => ReadersUndisturbed
  /\ Spec /\ Simple => ImplementsAtomic
<1>1. Spec /\ Simple => [](SimpleInv /\ Simple)
  <2>1. Init => SimpleInv
    BY InitSimple
  <2>2. SimpleInv /\ Simple /\ [Next]_vars => (SimpleInv /\ Simple)'
    BY SimpleKept
  <2>. QED
    BY <2>1, <2>2, PTL DEF Spec
<1>2. SimpleInv /\ Simple /\ [Next]_vars
        => [(\E t \in Threads : ReadsBare(t)) => mem' = mem]_vars
  BY SimpleUndisturbed
<1>3. SimpleInv /\ Simple /\ [Next]_vars => [Atomic!Next]_(Atomic!vars)
  BY SimpleAtomic
<1>4. Spec /\ Simple => ReadersUndisturbed
  BY <1>1, <1>2, PTL DEF Spec, ReadersUndisturbed
<1>5. Spec /\ Simple => ImplementsAtomic
  BY <1>1, <1>3, AtomicInit, PTL DEF Spec, ImplementsAtomic, Atomic!Spec
<1>. QED
  BY <1>4, <1>5

----------------------------------------------------------------------------
(* The builds with the speculative lock are SpRWL, and have its theorems. *)

\* Readers without transactions.
LEMMA NoWaitBuild ==
  /\ Spec /\ backend = "2.0-NoWait" => ReadersUndisturbed
  /\ Spec /\ backend = "2.0-NoWait" => ImplementsAtomic
<1>0. NoWait!Threads = Threads /\ NoWait!Data = Data
  BY DEF Threads, Data, Plain!Threads, Plain!Data, NoWait!Threads, NoWait!Data
<1>1. Spec /\ backend = "2.0-NoWait" => NoWait!Spec
  <2>1. Init => NoWait!Init
    BY <1>0 DEF Init, Plain!Init, Plain!NoTransactions, Plain!None,
         NoWait!Init, NoWait!NoTransactions, NoWait!None, Threads, Data
  <2>2. backend = "2.0-NoWait" /\ [Next]_vars
          => (backend = "2.0-NoWait")' /\ [NoWait!Next]_(NoWait!vars)
    BY <1>0 DEF Next, vars, SpRWLNext, SimpleNext, NoWait!Next,
         Plain!vars, Plain!locals, Plain!lockvars, Plain!txvars,
         NoWait!vars, NoWait!locals, NoWait!lockvars, NoWait!txvars,
         Plain!Finished, NoWait!Finished
  <2>. QED
    BY <2>1, <2>2, PTL DEF Spec, NoWait!Spec
<1>2. NoWait!Spec => []NoWait!TypeOK
  BY ConstantsAssumption, NoWait!TypeCorrect
<1>3. NoWait!Spec => NoWait!ReadersUndisturbed
  BY ConstantsAssumption, NoWait!ReadersProtected
<1>4. NoWait!Spec => NoWait!ImplementsAtomic
  BY ConstantsAssumption, NoWait!Refinement
<1>5. [(\E t \in NoWait!Threads : NoWait!ReadsBare(t)) => mem' = mem]_(NoWait!vars)
        => [(\E t \in Threads : ReadsBare(t)) => mem' = mem]_vars
  BY <1>0 DEF vars, ReadsBare, NoWait!ReadsBare,
         Plain!vars, Plain!locals, Plain!lockvars, Plain!txvars,
         NoWait!vars, NoWait!locals, NoWait!lockvars, NoWait!txvars
<1>6. NoWait!TypeOK => phaseBar = NoWait!phaseBar /\ gotBar = NoWait!gotBar
  <2>. SUFFICES ASSUME NoWait!TypeOK PROVE phaseBar = NoWait!phaseBar /\ gotBar = NoWait!gotBar
    OBVIOUS
  <2>1. ASSUME NEW t \in Threads
        PROVE  Over(t) <=> NoWait!Phase(pc[t]) = "done"
    BY <1>0 DEF Over, NoWait!Phase, NoWait!TypeOK, NoWait!Types, NoWait!Labels
  <2>. QED
    BY <1>0, <2>1 DEF phaseBar, gotBar, NoWait!phaseBar, NoWait!gotBar, NoWait!Phase
<1>7. NoWait!TypeOK /\ NoWait!Atomic!Init => Atomic!Init
  BY <1>0, <1>6 DEF Atomic!Init, NoWait!Atomic!Init, Atomic!Nothing, NoWait!Atomic!Nothing
<1>8. (NoWait!TypeOK)' => (phaseBar = NoWait!phaseBar /\ gotBar = NoWait!gotBar)'
  BY <1>6, PTL
<1>9. NoWait!TypeOK /\ NoWait!TypeOK' /\ [NoWait!Atomic!Next]_(NoWait!Atomic!vars)
        => [Atomic!Next]_(Atomic!vars)
  BY <1>0, <1>6, <1>8
     DEF Atomic!Next, Atomic!Call, Atomic!TakeEffect, Atomic!Return, Atomic!Nothing, Atomic!vars,
         NoWait!Atomic!Next, NoWait!Atomic!Call, NoWait!Atomic!TakeEffect, NoWait!Atomic!Return,
         NoWait!Atomic!Nothing, NoWait!Atomic!vars
<1>10. NoWait!Spec => ReadersUndisturbed
  BY <1>3, <1>5, PTL DEF NoWait!ReadersUndisturbed, ReadersUndisturbed
<1>11. NoWait!Spec => ImplementsAtomic
  BY <1>2, <1>4, <1>7, <1>9, PTL
     DEF NoWait!ImplementsAtomic, NoWait!Atomic!Spec, ImplementsAtomic, Atomic!Spec
<1>. QED
  BY <1>1, <1>10, <1>11

\* Readers that wait for the last writer.
LEMMA PlainBuild ==
  /\ Spec /\ backend = "10.04-RHTMRW" => ReadersUndisturbed
  /\ Spec /\ backend = "10.04-RHTMRW" => ImplementsAtomic
<1>0. Plain!Threads = Threads /\ Plain!Data = Data
  BY DEF Threads, Data
<1>1. Spec /\ backend = "10.04-RHTMRW" => Plain!Spec
  <2>1. Init => Plain!Init
    BY DEF Init
  <2>2. backend = "10.04-RHTMRW" /\ [Next]_vars
          => (backend = "10.04-RHTMRW")' /\ [Plain!Next]_(Plain!vars)
    BY <1>0 DEF Next, vars, SpRWLNext, SimpleNext, Plain!Next
  <2>. QED
    BY <2>1, <2>2, PTL DEF Spec, Plain!Spec
<1>2. Plain!Spec => []Plain!TypeOK
  BY ConstantsAssumption, Plain!TypeCorrect
<1>3. Plain!Spec => Plain!ReadersUndisturbed
  BY ConstantsAssumption, Plain!ReadersProtected
<1>4. Plain!Spec => Plain!ImplementsAtomic
  BY ConstantsAssumption, Plain!Refinement
<1>5. [(\E t \in Plain!Threads : Plain!ReadsBare(t)) => mem' = mem]_(Plain!vars)
        => [(\E t \in Threads : ReadsBare(t)) => mem' = mem]_vars
  BY <1>0 DEF vars, ReadsBare, Plain!ReadsBare, Plain!vars
<1>6. Plain!TypeOK => phaseBar = Plain!phaseBar /\ gotBar = Plain!gotBar
  <2>. SUFFICES ASSUME Plain!TypeOK PROVE phaseBar = Plain!phaseBar /\ gotBar = Plain!gotBar
    OBVIOUS
  <2>1. ASSUME NEW t \in Threads
        PROVE  Over(t) <=> Plain!Phase(pc[t]) = "done"
    BY <1>0 DEF Over, Plain!Phase, Plain!TypeOK, Plain!Types, Plain!Labels
  <2>. QED
    BY <1>0, <2>1 DEF phaseBar, gotBar, Plain!phaseBar, Plain!gotBar, Plain!Phase
<1>7. Plain!TypeOK /\ Plain!Atomic!Init => Atomic!Init
  BY <1>0, <1>6 DEF Atomic!Init, Plain!Atomic!Init, Atomic!Nothing, Plain!Atomic!Nothing
<1>8. (Plain!TypeOK)' => (phaseBar = Plain!phaseBar /\ gotBar = Plain!gotBar)'
  BY <1>6, PTL
<1>9. Plain!TypeOK /\ Plain!TypeOK' /\ [Plain!Atomic!Next]_(Plain!Atomic!vars)
        => [Atomic!Next]_(Atomic!vars)
  BY <1>0, <1>6, <1>8
     DEF Atomic!Next, Atomic!Call, Atomic!TakeEffect, Atomic!Return, Atomic!Nothing, Atomic!vars,
         Plain!Atomic!Next, Plain!Atomic!Call, Plain!Atomic!TakeEffect, Plain!Atomic!Return,
         Plain!Atomic!Nothing, Plain!Atomic!vars
<1>10. Plain!Spec => ReadersUndisturbed
  BY <1>3, <1>5, PTL DEF Plain!ReadersUndisturbed, ReadersUndisturbed
<1>11. Plain!Spec => ImplementsAtomic
  BY <1>2, <1>4, <1>7, <1>9, PTL
     DEF Plain!ImplementsAtomic, Plain!Atomic!Spec, ImplementsAtomic, Atomic!Spec
<1>. QED
  BY <1>1, <1>10, <1>11

\* Waiting readers that share a target.
LEMMA SyncBuild ==
  /\ Spec /\ backend = "10.1-RHTMO" => ReadersUndisturbed
  /\ Spec /\ backend = "10.1-RHTMO" => ImplementsAtomic
<1>0. Sync!Threads = Threads /\ Sync!Data = Data
  BY DEF Threads, Data, Plain!Threads, Plain!Data, Sync!Threads, Sync!Data
<1>1. Spec /\ backend = "10.1-RHTMO" => Sync!Spec
  <2>1. Init => Sync!Init
    BY <1>0 DEF Init, Plain!Init, Plain!NoTransactions, Plain!None,
         Sync!Init, Sync!NoTransactions, Sync!None, Threads, Data
  <2>2. backend = "10.1-RHTMO" /\ [Next]_vars
          => (backend = "10.1-RHTMO")' /\ [Sync!Next]_(Sync!vars)
    BY <1>0 DEF Next, vars, SpRWLNext, SimpleNext, Sync!Next,
         Plain!vars, Plain!locals, Plain!lockvars, Plain!txvars,
         Sync!vars, Sync!locals, Sync!lockvars, Sync!txvars,
         Plain!Finished, Sync!Finished
  <2>. QED
    BY <2>1, <2>2, PTL DEF Spec, Sync!Spec
<1>2. Sync!Spec => []Sync!TypeOK
  BY ConstantsAssumption, Sync!TypeCorrect
<1>3. Sync!Spec => Sync!ReadersUndisturbed
  BY ConstantsAssumption, Sync!ReadersProtected
<1>4. Sync!Spec => Sync!ImplementsAtomic
  BY ConstantsAssumption, Sync!Refinement
<1>5. [(\E t \in Sync!Threads : Sync!ReadsBare(t)) => mem' = mem]_(Sync!vars)
        => [(\E t \in Threads : ReadsBare(t)) => mem' = mem]_vars
  BY <1>0 DEF vars, ReadsBare, Sync!ReadsBare,
         Plain!vars, Plain!locals, Plain!lockvars, Plain!txvars,
         Sync!vars, Sync!locals, Sync!lockvars, Sync!txvars
<1>6. Sync!TypeOK => phaseBar = Sync!phaseBar /\ gotBar = Sync!gotBar
  <2>. SUFFICES ASSUME Sync!TypeOK PROVE phaseBar = Sync!phaseBar /\ gotBar = Sync!gotBar
    OBVIOUS
  <2>1. ASSUME NEW t \in Threads
        PROVE  Over(t) <=> Sync!Phase(pc[t]) = "done"
    BY <1>0 DEF Over, Sync!Phase, Sync!TypeOK, Sync!Types, Sync!Labels
  <2>. QED
    BY <1>0, <2>1 DEF phaseBar, gotBar, Sync!phaseBar, Sync!gotBar, Sync!Phase
<1>7. Sync!TypeOK /\ Sync!Atomic!Init => Atomic!Init
  BY <1>0, <1>6 DEF Atomic!Init, Sync!Atomic!Init, Atomic!Nothing, Sync!Atomic!Nothing
<1>8. (Sync!TypeOK)' => (phaseBar = Sync!phaseBar /\ gotBar = Sync!gotBar)'
  BY <1>6, PTL
<1>9. Sync!TypeOK /\ Sync!TypeOK' /\ [Sync!Atomic!Next]_(Sync!Atomic!vars)
        => [Atomic!Next]_(Atomic!vars)
  BY <1>0, <1>6, <1>8
     DEF Atomic!Next, Atomic!Call, Atomic!TakeEffect, Atomic!Return, Atomic!Nothing, Atomic!vars,
         Sync!Atomic!Next, Sync!Atomic!Call, Sync!Atomic!TakeEffect, Sync!Atomic!Return,
         Sync!Atomic!Nothing, Sync!Atomic!vars
<1>10. Sync!Spec => ReadersUndisturbed
  BY <1>3, <1>5, PTL DEF Sync!ReadersUndisturbed, ReadersUndisturbed
<1>11. Sync!Spec => ImplementsAtomic
  BY <1>2, <1>4, <1>7, <1>9, PTL
     DEF Sync!ImplementsAtomic, Sync!Atomic!Spec, ImplementsAtomic, Atomic!Spec
<1>. QED
  BY <1>1, <1>10, <1>11

----------------------------------------------------------------------------
\* backend is one of the builds that Builds may hold.
LEMMA EveryBuild ==
  Spec => \/ Simple \/ backend = "2.0-NoWait" \/ backend = "10.04-RHTMRW"
          \/ backend = "10.1-RHTMO"
  BY ConstantsAssumption DEF Spec, Init, Simple

\* ReadersUndisturbed: with whichever lock the program is built, no step of any
\* thread changes the data while a section reads them in place.
THEOREM ReadersProtected == Spec => ReadersUndisturbed
  BY EveryBuild, SimpleBuilds, NoWaitBuild, PlainBuild, SyncBuild

\* ImplementsAtomic: with whichever lock the program is built, each section takes
\* effect at one moment between its acquire and its release macro, and a read
\* section returns the data of that moment.
THEOREM Refinement == Spec => ImplementsAtomic
  BY EveryBuild, SimpleBuilds, NoWaitBuild, PlainBuild, SyncBuild
=============================================================================
