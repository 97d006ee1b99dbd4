----------------------------- MODULE SNZIProof -----------------------------
(***************************************************************************)
(* Theorems about SNZI, for any number of threads and arrivals, and any    *)
(* start of the version and of the counter.  TypeOK holds whatever the     *)
(* counter and the version do; what the indicator promises needs the       *)
(* counter not to overflow, and no departure to be overtaken by as many    *)
(* versions as there are (WithinWidths).                                   *)
(***************************************************************************)
EXTENDS SNZI, FiniteSetTheorems, TLAPS

\* Abbreviations of the steps are read as they stand.
USE DEF Goto, Forget

----------------------------------------------------------------------------
(* Types. *)

Entering == {"a_read", "a_cas", "a_state", "a_set", "a_announce", "a_leaf"}

\* A call under way is one of those allowed, and a leaf follows its thread's
\* phase: without this a departure could be taken for a nested one.
LeafShape ==
  \A t \in Threads :
    /\ leaf[t] = IF pc[t] \in Entering THEN -1 ELSE IF pc[t] = "in" THEN 1 ELSE 0
    /\ pc[t] # "idle" => done[t] < MaxOps

Typed == TypeOK /\ LeafShape

\* The next version is one of the versions.
LEMMA NextVersion ==
  ASSUME NEW v \in 0..VersionMod - 1
  PROVE  (v + 1) % VersionMod = IF v = VersionMod - 1 THEN 0 ELSE v + 1
BY ConstantsAssumption

\* The version starts within its bits.
LEMMA StartIsVersion == Past % VersionMod \in 0..VersionMod - 1
BY ConstantsAssumption

\* How many threads there are.
LEMMA ThreadsFinite == IsFiniteSet(Threads) /\ Cardinality(Threads) = N
  BY FS_Interval, ConstantsAssumption DEF Threads

\* Counting those inside: how many there are says when there is none, or one.
LEMMA InsideCounted ==
  ASSUME TypeOK
  PROVE  /\ IsFiniteSet(Inside) /\ var.c \in Nat /\ var.c <= N
         /\ var.c = 0 <=> Inside = {}
         /\ \A t \in Inside : var.c < 2 <=> Inside = {t}
<1>1. Inside \in SUBSET Threads
  BY DEF Inside
<1>2. IsFiniteSet(Inside) /\ var.c \in Nat /\ var.c <= N
  BY <1>1, ThreadsFinite, FS_Subset, FS_CardinalityType DEF TypeOK
<1>3. var.c = 0 <=> Inside = {}
  BY <1>2, FS_EmptySet DEF TypeOK
<1>4. ASSUME NEW t \in Inside
      PROVE  var.c < 2 <=> Inside = {t}
  <2>1. var.c = 1 <=> \E y : Inside = {y}
    BY <1>2, FS_Singleton DEF TypeOK
  <2>2. var.c < 2 <=> var.c = 1
    BY <1>2, <1>3
  <2>. QED
    BY <2>1, <2>2
<1>. QED
  BY <1>2, <1>3, <1>4

\* The types hold at the start.
LEMMA TypedInit == Init => Typed
<1>. SUFFICES ASSUME Init PROVE Typed
  OBVIOUS
<1>1. Inside = {}
  BY DEF Init, Inside
<1>2. var.c = Cardinality(Inside)
  BY <1>1, FS_EmptySet DEF Init
<1>3. var \in Vars
  BY StartIsVersion, ConstantsAssumption DEF Init, Vars
<1>4. state \in States /\ NoState \in States
  BY ConstantsAssumption DEF Init, States, NoState
<1>5. NoVar \in Vars
  BY ConstantsAssumption DEF Vars, NoVar
<1>6. LeafShape
  BY DEF Init, LeafShape, Entering
<1>7. pc \in [Threads -> Labels] /\ leaf \in [Threads -> -1..1] /\ done \in [Threads -> 0..MaxOps]
  BY ConstantsAssumption DEF Init, Labels
<1>. QED
  BY <1>2, <1>3, <1>4, <1>5, <1>6, <1>7 DEF Init, Typed, TypeOK

\* What each step does to the set of those inside: only the two
\* compare-and-swaps of var change it, and by the thread that makes them.
LEMMA InsideStep ==
  ASSUME Typed, NEW t \in Threads, Inc(t) \/ Run(t)
  PROVE  /\ ~CasArrive(t) /\ ~CasDepart(t) => Inside' = Inside
         /\ CasArrive(t) => t \notin Inside
                            /\ Inside' = IF var = x[t] THEN Inside \union {t} ELSE Inside
         /\ CasDepart(t) => t \in Inside
                            /\ Inside' = IF var = x[t] THEN Inside \ {t} ELSE Inside
<1>. USE DEF Typed, TypeOK, Labels, Inside
<1>1. CASE Inc(t)
  BY <1>1 DEF Inc, CasArrive, CasDepart
<1>2. CASE ReadVar(t)
  BY <1>2 DEF ReadVar, CasArrive, CasDepart
<1>3. CASE CasArrive(t)
  BY <1>3 DEF CasArrive, CasDepart
<1>4. CASE ReadState(t)
  BY <1>4 DEF ReadState, CasArrive, CasDepart
<1>5. CASE SetState(t)
  BY <1>5 DEF SetState, CasArrive, CasDepart
<1>6. CASE Announce(t)
  BY <1>6 DEF Announce, CasArrive, CasDepart
<1>7. CASE IncReturn(t)
  BY <1>7 DEF IncReturn, CasArrive, CasDepart
<1>8. CASE Dec(t)
  <2>1. leaf[t] = 1
    BY <1>8 DEF Dec, LeafShape, Entering
  <2>. QED
    BY <1>8, <2>1 DEF Dec, CasArrive, CasDepart
<1>9. CASE CasDepart(t)
  BY <1>9 DEF CasArrive, CasDepart
<1>10. CASE CheckVersion(t)
  BY <1>10 DEF CheckVersion, CasArrive, CasDepart
<1>11. CASE ClearState(t)
  BY <1>11 DEF ClearState, CasArrive, CasDepart
<1>12. CASE DecReturn(t)
  BY <1>12 DEF DecReturn, CasArrive, CasDepart
<1>. QED
  BY <1>1, <1>2, <1>3, <1>4, <1>5, <1>6, <1>7, <1>8, <1>9, <1>10, <1>11, <1>12 DEF Run

\* The values the steps write have the types of the words they write.
LEMMA ArrivedType ==
  ASSUME NEW a \in Vars, a.c < N
  PROVE  /\ Arrived(a) \in Vars /\ Arrived(a).c = a.c + 1
         /\ a.c = 0 => Arrived(a).a /\ Arrived(a).v = (a.v + 1) % VersionMod
         /\ a.c # 0 => Arrived(a).a = a.a /\ Arrived(a).v = a.v
<1>1. a.v \in 0..VersionMod - 1 /\ a.c \in 0..N /\ a.a \in BOOLEAN
  BY DEF Vars
<1>2. (a.v + 1) % VersionMod \in 0..VersionMod - 1
  <2>1. VersionMod \in Nat
    BY ConstantsAssumption
  <2>. QED
    BY <1>1, <2>1, NextVersion
<1>3. CASE a.c = 0
  BY <1>1, <1>2, <1>3, ConstantsAssumption DEF Arrived, Vars
<1>4. CASE a.c # 0
  BY <1>1, <1>4, ConstantsAssumption DEF Arrived, Vars
<1>. QED
  BY <1>3, <1>4

\* Raising or lowering a packed word gives a packed word; below CountMax the
\* counter is what it is meant to be.
LEMMA StateType ==
  ASSUME NEW s \in States
  PROVE  /\ Raised(s) \in States /\ Lowered(s) \in States
         /\ Raised(s).busy
         /\ s.count < CountMax => /\ Raised(s).count = s.count + 1
                                  /\ Lowered(s).count = s.count + 1 /\ ~Lowered(s).busy
<1>1. CASE s.count = CountMax
  BY <1>1, ConstantsAssumption DEF States, Raised, Lowered
<1>2. CASE s.count # CountMax
  BY <1>2, ConstantsAssumption DEF States, Raised, Lowered
<1>. QED
  BY <1>1, <1>2, ConstantsAssumption DEF States

\* TypeOK but for the count, and the count.
WordTypes ==
  /\ pc \in [Threads -> Labels]
  /\ x \in [Threads -> Vars] /\ i \in [Threads -> States]
  /\ leaf \in [Threads -> -1..1]
  /\ var \in Vars /\ state \in States
  /\ done \in [Threads -> 0..MaxOps]
  /\ counted \subseteq Threads /\ overtaken \in [Threads -> Nat]

\* A step keeps every word within its bits.
LEMMA WordTypesStep ==
  ASSUME Typed, NEW t \in Threads, Inc(t) \/ Run(t)
  PROVE  WordTypes'
<1>. USE DEF Typed, TypeOK, WordTypes
<1>0. NoVar \in Vars /\ NoState \in States
  BY ConstantsAssumption DEF Vars, NoVar, States, NoState
<1>00. Inside \subseteq Threads
  BY DEF Inside
<1>1. CASE Inc(t)
  BY <1>1 DEF Inc, Labels
<1>2. CASE ReadVar(t)
  BY <1>2 DEF ReadVar, Labels
<1>3. CASE CasArrive(t)
  <2>1. CASE var = x[t]
    <3>1. Inside # Threads /\ Cardinality(Inside) < N
      <4>1. t \notin Inside
        BY <1>3, InsideStep
      <4>2. IsFiniteSet(Threads) /\ Inside \in SUBSET Threads
        BY <1>00, ThreadsFinite
      <4>3. Cardinality(Inside) <= N /\ (Cardinality(Inside) = N => Inside = Threads)
        BY <4>2, ThreadsFinite, FS_Subset
      <4>4. Cardinality(Inside) \in Nat
        BY InsideCounted
      <4>. QED
        BY <4>1, <4>3, <4>4, ConstantsAssumption
    <3>2. Arrived(x[t]) \in Vars
      BY <2>1, <3>1, ArrivedType
    <3>3. overtaken' \in [Threads -> Nat]
      BY <1>3, <2>1 DEF CasArrive, Overtake
    <3>4. /\ pc' \in [Threads -> Labels] /\ x' \in [Threads -> Vars] /\ var' \in Vars
          /\ counted' \subseteq Threads /\ UNCHANGED <<i, leaf, state, done>>
      BY <1>3, <2>1, <3>2 DEF CasArrive, Labels
    <3>. QED
      BY <3>3, <3>4
  <2>2. CASE var # x[t]
    BY <1>3, <2>2 DEF CasArrive, Labels
  <2>. QED
    BY <2>1, <2>2
<1>4. CASE ReadState(t)
  BY <1>4 DEF ReadState, Labels
<1>5. CASE SetState(t)
  <2>1. Raised(i[t]) \in States
    BY StateType
  <2>2. CASE state = i[t]
    BY <1>5, <1>00, <2>1, <2>2 DEF SetState, Labels
  <2>3. CASE state # i[t]
    BY <1>5, <2>3 DEF SetState, Labels
  <2>. QED
    BY <2>2, <2>3
<1>6. CASE Announce(t)
  BY <1>6 DEF Announce, Labels
<1>7. CASE IncReturn(t)
  BY <1>0, <1>7 DEF IncReturn, Labels
<1>8. CASE Dec(t)
  <2>1. leaf[t] = 1
    BY <1>8 DEF Dec, LeafShape, Entering
  <2>. QED
    BY <1>8, <2>1 DEF Dec, Labels
<1>9. CASE CasDepart(t)
  <2>1. CASE var = x[t]
    <3>1. t \in Inside
      BY <1>9, InsideStep
    <3>2. var.c \in Nat /\ var.c # 0
      BY <3>1, InsideCounted
    <3>3. [x[t] EXCEPT !.c = @ - 1, !.a = FALSE] \in Vars
      <4>1. x[t] \in Vars /\ x[t].c \in 0..N /\ x[t].c # 0
        BY <2>1, <3>2 DEF Vars
      <4>2. x[t].c - 1 \in 0..N
        BY <4>1, ConstantsAssumption
      <4>. QED
        BY <4>1, <4>2 DEF Vars
    <3>. QED
      BY <1>9, <1>00, <2>1, <3>3 DEF CasDepart, Labels
  <2>2. CASE var # x[t]
    BY <1>9, <2>2 DEF CasDepart, Labels
  <2>. QED
    BY <2>1, <2>2
<1>10. CASE CheckVersion(t)
  BY <1>10, <1>00 DEF CheckVersion, Labels
<1>11. CASE ClearState(t)
  <2>1. Lowered(i[t]) \in States
    BY StateType
  <2>2. CASE state = i[t]
    BY <1>11, <2>1, <2>2 DEF ClearState, Labels
  <2>3. CASE state # i[t]
    BY <1>11, <2>3 DEF ClearState, Labels
  <2>. QED
    BY <2>2, <2>3
<1>12. CASE DecReturn(t)
  <2>1. done[t] \in 0..MaxOps /\ done[t] < MaxOps
    BY <1>12 DEF DecReturn, LeafShape
  <2>2. done[t] + 1 \in 0..MaxOps
    BY <2>1, ConstantsAssumption
  <2>. QED
    BY <1>0, <1>12, <2>2 DEF DecReturn, Labels
<1>. QED
  BY <1>1, <1>2, <1>3, <1>4, <1>5, <1>6, <1>7, <1>8, <1>9, <1>10, <1>11, <1>12 DEF Run

\* A step keeps what each label knows of the thread's leaf.
LEMMA LeafShapeStep ==
  ASSUME Typed, NEW t \in Threads, Inc(t) \/ Run(t)
  PROVE  LeafShape'
<1>. USE DEF Typed, TypeOK, LeafShape, Entering, Labels
<1>1. CASE Inc(t)
  BY <1>1 DEF Inc
<1>2. CASE ReadVar(t)
  BY <1>2 DEF ReadVar
<1>3. CASE CasArrive(t)
  BY <1>3 DEF CasArrive
<1>4. CASE ReadState(t)
  BY <1>4 DEF ReadState
<1>5. CASE SetState(t)
  BY <1>5 DEF SetState
<1>6. CASE Announce(t)
  BY <1>6 DEF Announce
<1>7. CASE IncReturn(t)
  BY <1>7 DEF IncReturn
<1>8. CASE Dec(t)
  BY <1>8 DEF Dec
<1>9. CASE CasDepart(t)
  BY <1>9 DEF CasDepart
<1>10. CASE CheckVersion(t)
  BY <1>10 DEF CheckVersion
<1>11. CASE ClearState(t)
  BY <1>11 DEF ClearState
<1>12. CASE DecReturn(t)
  BY <1>12 DEF DecReturn
<1>. QED
  BY <1>1, <1>2, <1>3, <1>4, <1>5, <1>6, <1>7, <1>8, <1>9, <1>10, <1>11, <1>12 DEF Run

\* var counts those inside: a compare-and-swap that succeeds replaces the very
\* word its thread read.
LEMMA CountStep ==
  ASSUME Typed, NEW t \in Threads, Inc(t) \/ Run(t)
  PROVE  var'.c = Cardinality(Inside')
<1>1. var.c = Cardinality(Inside) /\ IsFiniteSet(Inside) /\ var.c \in Nat /\ var.c <= N
  BY InsideCounted DEF Typed, TypeOK
<1>2. x[t] \in Vars
  BY DEF Typed, TypeOK
<1>3. CASE CasArrive(t) /\ var = x[t]
  <2>1. t \notin Inside /\ Inside' = Inside \union {t}
    BY <1>3, InsideStep
  <2>2. Cardinality(Inside') = var.c + 1
    BY <1>1, <2>1, FS_AddElement
  <2>3. var' = Arrived(var)
    BY <1>3 DEF CasArrive
  <2>4. Inside' \in SUBSET Threads
    BY DEF Inside
  <2>5. Cardinality(Inside') <= N
    BY <2>4, ThreadsFinite, FS_Subset
  <2>6. var \in Vars /\ var.c < N
    BY <1>1, <1>2, <1>3, <2>2, <2>5, ConstantsAssumption
  <2>7. Arrived(var).c = var.c + 1
    BY <2>6, ArrivedType
  <2>. QED
    BY <2>2, <2>3, <2>7
<1>4. CASE CasDepart(t) /\ var = x[t]
  <2>1. t \in Inside /\ Inside' = Inside \ {t}
    BY <1>4, InsideStep
  <2>2. Cardinality(Inside') = var.c - 1
    BY <1>1, <2>1, FS_RemoveElement
  <2>3. var'.c = var.c - 1
    BY <1>2, <1>4 DEF CasDepart, Vars
  <2>. QED
    BY <2>2, <2>3
<1>5. CASE (CasArrive(t) \/ CasDepart(t)) /\ var # x[t]
  <2>1. Inside' = Inside
    BY <1>5, InsideStep
  <2>2. var' = var
    BY <1>5 DEF CasArrive, CasDepart
  <2>. QED
    BY <1>1, <2>1, <2>2
<1>6. CASE ~CasArrive(t) /\ ~CasDepart(t)
  <2>1. Inside' = Inside
    BY <1>6, InsideStep
  <2>2. var'.c = var.c
    <3>1. CASE Announce(t)
      BY <1>2, <3>1 DEF Announce, Vars, Typed, TypeOK
    <3>2. CASE ~Announce(t)
      BY <1>6, <3>2 DEF Run, Inc, ReadVar, ReadState, SetState, IncReturn, Dec, CheckVersion,
                        ClearState, DecReturn
    <3>. QED
      BY <3>1, <3>2
  <2>. QED
    BY <1>1, <2>1, <2>2
<1>. QED
  BY <1>3, <1>4, <1>5, <1>6

\* A step keeps the types.
LEMMA TypedStep ==
  ASSUME Typed, [Next]_vars
  PROVE  Typed'
<1>1. ASSUME NEW t \in Threads, Inc(t) \/ Run(t)
      PROVE  Typed'
  BY <1>1, WordTypesStep, LeafShapeStep, CountStep DEF WordTypes, Typed, TypeOK
<1>2. CASE UNCHANGED vars
  <2>1. Inside' = Inside
    BY <1>2 DEF vars, Inside
  <2>. QED
    BY <1>2, <2>1 DEF vars, Typed, TypeOK, LeafShape
<1>. QED
  BY <1>1, <1>2 DEF Next, Finished

\* Every variable keeps its type, and var counts exactly those inside, however
\* the counter of state or the version wrap around: no arrival or departure is
\* counted twice or lost, whatever retries.
THEOREM TypeCorrect == Spec => []TypeOK
<1>1. Spec => []Typed
  BY TypedInit, TypedStep, PTL DEF Spec
<1>2. Typed => TypeOK
  BY DEF Typed
<1>. QED
  BY <1>1, <1>2, PTL

----------------------------------------------------------------------------
(* What the widths of the two packed words must be enough for.              *)

\* The counter of state has not reached its last value, and no departure has
\* been overtaken by as many versions as there are.
WithinWidths ==
  /\ state.count < CountMax
  /\ \A t \in Threads : overtaken[t] < VersionMod

\* What the steps do to the words while the counter has room.
LEMMA Effects ==
  ASSUME Typed, WithinWidths, NEW t \in Threads, Inc(t) \/ Run(t)
  PROVE  /\ state.count <= state'.count
         /\ ~(CasArrive(t) /\ var = x[t] /\ var.c = 0) => var'.v = var.v
         /\ SetState(t) /\ state = i[t] => state'.count = state.count + 1 /\ state'.busy
         /\ ClearState(t) /\ state = i[t] => state'.count = state.count + 1 /\ ~state'.busy
<1>1. /\ var \in Vars /\ x[t] \in Vars /\ state \in States /\ state.count \in Nat
      /\ state.count < CountMax /\ pc \in [Threads -> Labels]
  BY DEF Typed, TypeOK, States, WithinWidths
<1>2. ASSUME ~(CasArrive(t) /\ var = x[t] /\ var.c = 0)
      PROVE  var'.v = var.v
  <2>1. CASE CasArrive(t)
    <3>1. CASE var = x[t]
      <4>1. var' = Arrived(var) /\ var.c # 0
        BY <1>2, <2>1, <3>1 DEF CasArrive
      <4>. QED
        BY <1>1, <4>1 DEF Arrived, Vars
    <3>2. CASE var # x[t]
      BY <2>1, <3>2 DEF CasArrive
    <3>. QED
      BY <3>1, <3>2
  <2>2. CASE CasDepart(t)
    BY <1>1, <2>2 DEF CasDepart, Vars
  <2>3. CASE Announce(t)
    <3>1. var' = var \/ (var = [x[t] EXCEPT !.a = FALSE] /\ var' = x[t])
      BY <2>3 DEF Announce
    <3>. QED
      BY <1>1, <3>1 DEF Vars
  <2>4. CASE ~CasArrive(t) /\ ~CasDepart(t) /\ ~Announce(t)
    BY <2>4 DEF Run, Inc, ReadVar, ReadState, SetState, IncReturn, Dec, CheckVersion,
                ClearState, DecReturn
  <2>. QED
    BY <2>1, <2>2, <2>3, <2>4
<1>3. CASE SetState(t) /\ state = i[t]
  <2>1. state' = Raised(state) /\ ~ClearState(t)
    BY <1>3 DEF SetState, ClearState
  <2>2. state'.count = state.count + 1 /\ state'.busy
    BY <1>1, <2>1, StateType
  <2>. QED
    BY <1>1, <1>2, <2>1, <2>2
<1>4. CASE ClearState(t) /\ state = i[t]
  <2>1. state' = Lowered(state) /\ ~SetState(t)
    BY <1>4 DEF SetState, ClearState
  <2>2. state'.count = state.count + 1 /\ ~state'.busy
    BY <1>1, <2>1, StateType
  <2>. QED
    BY <1>1, <1>2, <2>1, <2>2
<1>5. CASE ~(SetState(t) /\ state = i[t]) /\ ~(ClearState(t) /\ state = i[t])
  <2>1. state' = state
    BY <1>5 DEF Run, Inc, ReadVar, CasArrive, ReadState, SetState, Announce, IncReturn, Dec,
                CasDepart, CheckVersion, ClearState, DecReturn
  <2>. QED
    BY <1>1, <1>2, <1>5, <2>1
<1>. QED
  BY <1>3, <1>4, <1>5

----------------------------------------------------------------------------
(* When the widths are enough: the k-th call of thread u has had its effect *)
(* when u is past the label that has it.                                    *)

\* The counter of state has room for a raise and a lowering per arrival, and
\* there are more versions than arrivals.
Room == 2 * (Past + N * MaxOps) < CountMax /\ N * MaxOps < VersionMod

AfterLower == {"d_done"}
AfterRaise == AfterLower \union {"a_announce", "a_leaf", "in", "d_read", "d_cas", "d_state",
                                 "d_version", "d_clear"}
AfterArrive == AfterRaise \union {"a_state", "a_set"}

Had(L) ==
  {p \in Threads \X (1..MaxOps) :
     p[2] <= done[p[1]] \/ (p[2] = done[p[1]] + 1 /\ pc[p[1]] \in L)}

Bounds ==
  /\ \A t \in Threads : overtaken[t] <= Cardinality(Had(AfterArrive))
  /\ state.count <= 2 * Past + Cardinality(Had(AfterRaise)) + Cardinality(Had(AfterLower))

\* No set of calls is larger than the calls all threads may make.
LEMMA CallsBound ==
  ASSUME NEW S, S \subseteq Threads \X (1..MaxOps)
  PROVE  IsFiniteSet(S) /\ Cardinality(S) \in Nat /\ Cardinality(S) <= N * MaxOps
<1>1. IsFiniteSet(1..MaxOps) /\ Cardinality(1..MaxOps) = MaxOps
  BY FS_Interval, ConstantsAssumption
<1>2. /\ IsFiniteSet(Threads \X (1..MaxOps))
      /\ Cardinality(Threads \X (1..MaxOps)) = N * MaxOps
  BY <1>1, ThreadsFinite, FS_Product
<1>3. S \in SUBSET (Threads \X (1..MaxOps))
  OBVIOUS
<1>. QED
  BY <1>2, <1>3, FS_Subset, FS_CardinalityType

\* A larger finite set has the larger count.
LEMMA Grows ==
  ASSUME NEW T, IsFiniteSet(T), NEW S, S \subseteq T
  PROVE  /\ Cardinality(S) <= Cardinality(T)
         /\ \A p : p \in T /\ p \notin S => Cardinality(S) + 1 <= Cardinality(T)
<1>1. S \in SUBSET T
  OBVIOUS
<1>2. IsFiniteSet(S) /\ Cardinality(S) <= Cardinality(T)
  BY <1>1, FS_Subset
<1>3. ASSUME NEW p, p \in T, p \notin S
      PROVE  Cardinality(S) + 1 <= Cardinality(T)
  <2>1. Cardinality(S \union {p}) = Cardinality(S) + 1
    BY <1>2, <1>3, FS_AddElement
  <2>2. S \union {p} \in SUBSET T
    BY <1>3
  <2>. QED
    BY <2>1, <2>2, FS_Subset
<1>. QED
  BY <1>2, <1>3

\* No step takes an effect back, and the three steps with an effect add one.
LEMMA HadStep ==
  ASSUME Typed, NEW t \in Threads, Inc(t) \/ Run(t),
         NEW L \in {AfterArrive, AfterRaise, AfterLower}
  PROVE  /\ Had(L) \subseteq Had(L)'
         /\ pc[t] \notin L /\ pc'[t] \in L => <<t, done[t] + 1>> \notin Had(L)
                                              /\ <<t, done[t] + 1>> \in Had(L)'
<1>. USE DEF AfterArrive, AfterRaise, AfterLower
<1>1. done \in [Threads -> 0..MaxOps] /\ pc \in [Threads -> Labels] /\ MaxOps \in Nat
  BY ConstantsAssumption DEF Typed, TypeOK
<1>2. /\ \A u \in Threads \ {t} : pc'[u] = pc[u] /\ done'[u] = done[u]
      /\ pc[t] \in L => pc'[t] \in L \/ done'[t] = done[t] + 1
      /\ done'[t] = done[t] \/ (pc[t] = "d_done" /\ pc'[t] = "idle" /\ done'[t] = done[t] + 1)
  <2>. USE <1>1 DEF Labels
  <2>1. CASE Inc(t)
    BY <2>1 DEF Inc
  <2>2. CASE ReadVar(t)
    BY <2>2 DEF ReadVar
  <2>3. CASE CasArrive(t)
    BY <2>3 DEF CasArrive
  <2>4. CASE ReadState(t)
    BY <2>4 DEF ReadState
  <2>5. CASE SetState(t)
    BY <2>5 DEF SetState
  <2>6. CASE Announce(t)
    BY <2>6 DEF Announce
  <2>7. CASE IncReturn(t)
    BY <2>7 DEF IncReturn
  <2>8. CASE Dec(t)
    BY <2>8 DEF Dec
  <2>9. CASE CasDepart(t)
    BY <2>9 DEF CasDepart
  <2>10. CASE CheckVersion(t)
    BY <2>10 DEF CheckVersion
  <2>11. CASE ClearState(t)
    BY <2>11 DEF ClearState
  <2>12. CASE DecReturn(t)
    BY <2>12 DEF DecReturn
  <2>. QED
    BY <2>1, <2>2, <2>3, <2>4, <2>5, <2>6, <2>7, <2>8, <2>9, <2>10, <2>11, <2>12 DEF Run
<1>3. ASSUME NEW u \in Threads, NEW k \in 1..MaxOps, <<u, k>> \in Had(L)
      PROVE  <<u, k>> \in Had(L)'
  <2>1. k <= done[u] \/ (k = done[u] + 1 /\ pc[u] \in L)
    BY <1>3 DEF Had
  <2>2. k <= done'[u] \/ (k = done'[u] + 1 /\ pc'[u] \in L)
    BY <1>1, <1>2, <2>1
  <2>. QED
    BY <2>2 DEF Had
<1>4. Had(L) \subseteq Had(L)'
  BY <1>3 DEF Had
<1>5. ASSUME pc[t] \notin L, pc'[t] \in L
      PROVE  <<t, done[t] + 1>> \notin Had(L) /\ <<t, done[t] + 1>> \in Had(L)'
  <2>1. done'[t] = done[t]
    BY <1>2, <1>5
  <2>2. done'[t] < MaxOps
    <3>1. pc'[t] # "idle"
      BY <1>5
    <3>. QED
      BY <3>1, LeafShapeStep DEF LeafShape
  <2>3. done[t] + 1 \in 1..MaxOps /\ ~(done[t] + 1 <= done[t])
    BY <1>1, <2>1, <2>2
  <2>4. <<t, done[t] + 1>> \notin Had(L)
    BY <1>5, <2>3 DEF Had
  <2>. QED
    BY <1>5, <2>1, <2>3, <2>4 DEF Had
<1>. QED
  BY <1>4, <1>5

\* Where there is room, the bounds are within the widths.
LEMMA BoundsSuffice ==
  ASSUME Room, Typed, Bounds
  PROVE  WithinWidths
<1>1. ASSUME NEW L
      PROVE  Cardinality(Had(L)) \in Nat /\ Cardinality(Had(L)) <= N * MaxOps
  <2>1. Had(L) \subseteq Threads \X (1..MaxOps)
    BY DEF Had
  <2>. QED
    BY <2>1, CallsBound
<1>2. /\ N * MaxOps \in Nat /\ Past \in Nat /\ VersionMod \in Nat /\ N * MaxOps < VersionMod
      /\ 2 * Past + 2 * (N * MaxOps) < CountMax
      /\ state.count \in Nat /\ overtaken \in [Threads -> Nat]
  BY ConstantsAssumption DEF Room, Typed, TypeOK, States
<1>3. state.count < CountMax
  BY <1>1, <1>2, ConstantsAssumption DEF Bounds
<1>4. ASSUME NEW t \in Threads
      PROVE  overtaken[t] < VersionMod
  BY <1>1, <1>2 DEF Bounds
<1>. QED
  BY <1>3, <1>4 DEF WithinWidths

\* Every step adds no more than its effect.
LEMMA BoundsStep ==
  ASSUME Room, Typed, Bounds, NEW t \in Threads, Inc(t) \/ Run(t)
  PROVE  Bounds'
<1>. DEFINE A == Cardinality(Had(AfterArrive))
            R == Cardinality(Had(AfterRaise))
            D == Cardinality(Had(AfterLower))
<1>1. ASSUME NEW L \in {AfterArrive, AfterRaise, AfterLower}
      PROVE  /\ Cardinality(Had(L)) \in Nat /\ Cardinality(Had(L)') \in Nat
             /\ Cardinality(Had(L)) <= Cardinality(Had(L)')
             /\ pc[t] \notin L /\ pc'[t] \in L => Cardinality(Had(L)) + 1 <= Cardinality(Had(L)')
  <2>1. Had(L) \subseteq Threads \X (1..MaxOps) /\ Had(L)' \subseteq Threads \X (1..MaxOps)
    BY DEF Had
  <2>2. IsFiniteSet(Had(L)') /\ Cardinality(Had(L)) \in Nat /\ Cardinality(Had(L)') \in Nat
    BY <2>1, CallsBound
  <2>3. Had(L) \subseteq Had(L)'
    BY HadStep
  <2>4. Cardinality(Had(L)) <= Cardinality(Had(L)')
    BY <2>2, <2>3, Grows
  <2>5. ASSUME pc[t] \notin L, pc'[t] \in L
        PROVE  Cardinality(Had(L)) + 1 <= Cardinality(Had(L)')
    BY <2>2, <2>3, <2>5, HadStep, Grows
  <2>. QED
    BY <2>2, <2>4, <2>5
<1>2. /\ A \in Nat /\ R \in Nat /\ D \in Nat /\ A' \in Nat /\ R' \in Nat /\ D' \in Nat
      /\ A <= A' /\ R <= R' /\ D <= D'
  BY <1>1
<1>3. /\ pc[t] \notin AfterArrive /\ pc'[t] \in AfterArrive => A + 1 <= A'
      /\ pc[t] \notin AfterRaise /\ pc'[t] \in AfterRaise => R + 1 <= R'
      /\ pc[t] \notin AfterLower /\ pc'[t] \in AfterLower => D + 1 <= D'
  BY <1>1
<1>4. /\ var \in Vars /\ state.count \in Nat /\ pc \in [Threads -> Labels]
      /\ overtaken \in [Threads -> Nat] /\ Past \in Nat /\ WithinWidths
  BY BoundsSuffice, ConstantsAssumption DEF Typed, TypeOK, States
<1>5. (\A u \in Threads : overtaken[u] <= A) /\ state.count <= 2 * Past + R + D
  BY DEF Bounds
<1>. HIDE DEF A, R, D
<1>6. \A u \in Threads : overtaken'[u] <= A'
  <2>1. CASE CasArrive(t) /\ var = x[t] /\ var.c = 0
    <3>1. pc[t] \notin AfterArrive /\ pc'[t] \in AfterArrive
      <4>1. var'.a
        BY <1>4, <2>1, ConstantsAssumption, ArrivedType DEF CasArrive
      <4>. QED
        BY <1>4, <2>1, <4>1 DEF CasArrive, AfterArrive, AfterRaise, AfterLower
    <3>2. \A u \in Threads : overtaken'[u] <= overtaken[u] + 1 /\ overtaken'[u] \in Nat
      BY <1>4, <2>1 DEF CasArrive, Overtake
    <3>. QED
      BY <1>2, <1>3, <1>4, <1>5, <3>1, <3>2
  <2>2. CASE ~(CasArrive(t) /\ var = x[t] /\ var.c = 0)
    <3>1. \A u \in Threads : overtaken'[u] \in {overtaken[u], 0}
      <4>1. CASE CasArrive(t)
        BY <1>4, <2>2, <4>1 DEF CasArrive, Overtake
      <4>2. CASE IncReturn(t) \/ DecReturn(t)
        BY <1>4, <4>2 DEF IncReturn, DecReturn
      <4>3. CASE ~CasArrive(t) /\ ~IncReturn(t) /\ ~DecReturn(t)
        BY <4>3 DEF Run, Inc, ReadVar, ReadState, SetState, Announce, Dec, CasDepart,
                    CheckVersion, ClearState
      <4>. QED
        BY <4>1, <4>2, <4>3
    <3>. QED
      BY <1>2, <1>4, <1>5, <3>1
  <2>. QED
    BY <2>1, <2>2
<1>7. state'.count <= 2 * Past + R' + D'
  <2>1. CASE SetState(t) /\ state = i[t]
    <3>1. pc[t] \notin AfterRaise /\ pc'[t] \in AfterRaise
      BY <1>4, <2>1 DEF SetState, AfterRaise, AfterLower
    <3>2. state'.count = state.count + 1
      BY <1>4, <2>1, Effects
    <3>. QED
      BY <1>2, <1>3, <1>4, <1>5, <3>1, <3>2
  <2>2. CASE ClearState(t) /\ state = i[t]
    <3>1. pc[t] \notin AfterLower /\ pc'[t] \in AfterLower
      BY <1>4, <2>2 DEF ClearState, AfterLower
    <3>2. state'.count = state.count + 1
      BY <1>4, <2>2, Effects
    <3>. QED
      BY <1>2, <1>3, <1>4, <1>5, <3>1, <3>2
  <2>3. CASE ~(SetState(t) /\ state = i[t]) /\ ~(ClearState(t) /\ state = i[t])
    <3>1. state' = state
      BY <2>3 DEF Run, Inc, ReadVar, CasArrive, ReadState, SetState, Announce, IncReturn, Dec,
                  CasDepart, CheckVersion, ClearState, DecReturn
    <3>. QED
      BY <1>2, <1>4, <1>5, <3>1
  <2>. QED
    BY <2>1, <2>2, <2>3
<1>. QED
  BY <1>6, <1>7 DEF Bounds, A, R, D

\* A program that makes fewer arrivals than there are versions, and half as many
\* as the counter has values left, stays within the widths.
THEOREM RoomSuffices == ASSUME Room PROVE Spec => []WithinWidths
<1>1. Init => Typed /\ Bounds
  <2>1. ASSUME Init
        PROVE  Bounds
    <3>1. ASSUME NEW L
          PROVE  Cardinality(Had(L)) \in Nat
      <4>1. Had(L) \subseteq Threads \X (1..MaxOps)
        BY DEF Had
      <4>. QED
        BY <4>1, CallsBound
    <3>. QED
      BY <2>1, <3>1, ConstantsAssumption DEF Init, Bounds
  <2>. QED
    BY <2>1, TypedInit
<1>2. ASSUME Typed, Bounds, [Next]_vars
      PROVE  (Typed /\ Bounds)'
  <2>1. ASSUME NEW t \in Threads, Inc(t) \/ Run(t)
        PROVE  Bounds'
    BY <1>2, <2>1, BoundsStep
  <2>2. ASSUME UNCHANGED vars
        PROVE  Bounds'
    <3>1. /\ Had(AfterArrive)' = Had(AfterArrive) /\ Had(AfterRaise)' = Had(AfterRaise)
          /\ Had(AfterLower)' = Had(AfterLower)
      BY <2>2 DEF vars, Had
    <3>2. overtaken' = overtaken /\ state' = state
      BY <2>2 DEF vars
    <3>. QED
      BY <1>2, <3>1, <3>2 DEF Bounds
  <2>. QED
    BY <1>2, <2>1, <2>2, TypedStep DEF Next, Finished
<1>3. Typed /\ Bounds => WithinWidths
  BY BoundsSuffice
<1>. QED
  BY <1>1, <1>2, <1>3, PTL DEF Spec

----------------------------------------------------------------------------
(* The inductive invariant.                                                 *)

\* What a thread's copies are worth: its copy of var carries the announce bit
\* it is there for, and its copy of state is no later than state.
Copies ==
  \A t \in Threads :
    /\ pc[t] \in {"a_state", "a_set", "a_announce"} => x[t].a
    /\ i[t].count <= state.count

\* The version that is k after version v, for k less than the versions there are
Later(v, k) == IF v + k < VersionMod THEN v + k ELSE v + k - VersionMod

\* What overtaken counts: how far var's version is from the one a departure
\* closes.  No two departures are as far, and one not overtaken finds no one in.
OvertakenOf(t) ==
  /\ Closing(t) =>
       /\ var.v = Later(x[t].v, overtaken[t])
       /\ overtaken[t] = 0 => var.c = 0
       /\ \A u \in Threads : Closing(u) /\ overtaken[u] = overtaken[t] => u = t
  /\ ~Closing(t) /\ pc[t] # "d_done" => overtaken[t] = 0
Overtaken == \A t \in Threads : OvertakenOf(t)

\* No version is closed twice, nor while someone is inside.
Versions ==
  \A t \in Threads : Closing(t) =>
    /\ x[t].v = var.v => var.c = 0
    /\ \A u \in Threads : Closing(u) /\ x[u].v = x[t].v => u = t

\* Someone inside has made sure of state since this version was announced.
Settled(t) == pc[t] \in {"a_announce", "a_leaf", "in", "d_read", "d_cas"}
Sure == (\E t \in Threads : Settled(t)) \/ (var.c > 0 /\ ~var.a)

\* Then state is busy, those inside count, and no departure can clear state.
Seen == Sure => state.busy /\ counted = Inside
ClearIsLate ==
  \A t \in Threads : pc[t] = "d_clear" /\ state = i[t] =>
    ~Sure /\ counted \subseteq {t}

\* Otherwise nobody counts, those inside do, or the one does that closes the
\* last version, and does while nobody has come since.
Counts ==
  /\ state.busy <=> counted # {}
  /\ counted = {} \/ counted = Inside \/ \E u \in Threads : Closing(u) /\ counted = {u}
  /\ state.busy /\ var.c = 0 =>
       \E u \in Threads : Closing(u) /\ x[u].v = var.v /\ counted = {u}

Sound == Versions /\ Seen /\ ClearIsLate /\ Counts
Inv == Typed /\ Copies /\ Overtaken /\ Sound

\* The inductive invariant holds at the start.
LEMMA InvInit == Init => Inv
<1>. SUFFICES ASSUME Init PROVE Inv
  OBVIOUS
<1>1. Typed
  BY TypedInit
<1>2. Overtaken
  BY DEF Init, Overtaken, OvertakenOf, Closing
<1>3. Copies
  BY ConstantsAssumption DEF Init, Copies, NoState
<1>4. Sound
  BY DEF Init, Sound, Versions, Seen, Sure, Settled, ClearIsLate, Counts, Closing
<1>. QED
  BY <1>1, <1>2, <1>3, <1>4 DEF Inv

\* Fewer announcements than versions have overtaken a departure: a departure
\* that finds its version in var has been overtaken by none.
LEMMA VersionsHold ==
  ASSUME Typed, Overtaken, WithinWidths
  PROVE  Versions
<1>1. /\ VersionMod \in Nat
      /\ \A t \in Threads : /\ x[t].v \in 0..VersionMod - 1 /\ overtaken[t] \in Nat
                            /\ overtaken[t] < VersionMod
  BY ConstantsAssumption DEF Typed, TypeOK, Vars, WithinWidths
<1>2. ASSUME NEW v \in 0..VersionMod - 1, NEW k \in Nat, NEW l \in Nat,
             k < VersionMod, l < VersionMod, Later(v, k) = Later(v, l)
      PROVE  k = l
  BY <1>1, <1>2 DEF Later
<1>3. ASSUME NEW v \in 0..VersionMod - 1
      PROVE  Later(v, 0) = v
  BY <1>1 DEF Later
<1>4. ASSUME NEW t \in Threads, Closing(t), x[t].v = var.v
      PROVE  var.c = 0
  <2>1. Later(x[t].v, overtaken[t]) = Later(x[t].v, 0)
    BY <1>1, <1>3, <1>4 DEF Overtaken, OvertakenOf
  <2>2. overtaken[t] = 0
    BY <1>1, <1>2, <2>1
  <2>. QED
    BY <1>4, <2>2 DEF Overtaken, OvertakenOf
<1>5. ASSUME NEW t \in Threads, Closing(t), NEW u \in Threads, Closing(u), x[u].v = x[t].v
      PROVE  u = t
  <2>1. Later(x[t].v, overtaken[t]) = Later(x[t].v, overtaken[u])
    BY <1>5 DEF Overtaken, OvertakenOf
  <2>2. overtaken[t] = overtaken[u]
    BY <1>1, <1>2, <2>1
  <2>. QED
    BY <1>5, <2>2 DEF Overtaken, OvertakenOf
<1>. QED
  BY <1>4, <1>5 DEF Versions

\* A version announced is one further from every version that is being closed.
LEMMA OneLater ==
  ASSUME NEW v \in 0..VersionMod - 1, NEW k \in Nat, k + 1 < VersionMod
  PROVE  (Later(v, k) + 1) % VersionMod = Later(v, k + 1)
<1>1. VersionMod \in Nat /\ Later(v, k) \in 0..VersionMod - 1
  BY ConstantsAssumption DEF Later
<1>2. (Later(v, k) + 1) % VersionMod = IF Later(v, k) = VersionMod - 1 THEN 0 ELSE Later(v, k) + 1
  BY <1>1, NextVersion
<1>. QED
  BY <1>1, <1>2 DEF Later

\* A step keeps what overtaken counts.
LEMMA OvertakenStep ==
  ASSUME Inv, WithinWidths, WithinWidths', NEW t \in Threads, Inc(t) \/ Run(t)
  PROVE  Overtaken'
<1>1. /\ Typed /\ pc \in [Threads -> Labels] /\ overtaken \in [Threads -> Nat]
      /\ x \in [Threads -> Vars] /\ var \in Vars /\ VersionMod \in Nat
      /\ \A u \in Threads : x[u].v \in 0..VersionMod - 1
  BY ConstantsAssumption DEF Inv, Typed, TypeOK, Vars
<1>2. ASSUME NEW u \in Threads
      PROVE  /\ Closing(u) =>
                  /\ var.v = Later(x[u].v, overtaken[u])
                  /\ overtaken[u] = 0 => var.c = 0
                  /\ \A w \in Threads : Closing(w) /\ overtaken[w] = overtaken[u] => w = u
             /\ ~Closing(u) /\ pc[u] # "d_done" => overtaken[u] = 0
  BY DEF Inv, Overtaken, OvertakenOf
\* A step that leaves var's count at zero, or no departure at its own version,
\* and closes no other
<1>3. ASSUME var'.v = var.v, var.c = 0 => var'.c = 0,
             \A u \in Threads : Closing(u)' => Closing(u) /\ x'[u] = x[u],
             \A u \in Threads : overtaken'[u] = overtaken[u] \/ (overtaken'[u] = 0 /\ ~Closing(u)'),
             \A u \in Threads : ~Closing(u)' /\ pc'[u] # "d_done" =>
               overtaken'[u] = 0 \/ (~Closing(u) /\ pc[u] # "d_done" /\ overtaken'[u] = overtaken[u])
      PROVE  Overtaken'
  <2>1. ASSUME NEW u \in Threads, Closing(u)'
        PROVE  Closing(u) /\ x'[u] = x[u] /\ overtaken'[u] = overtaken[u]
    BY <1>1, <1>3, <2>1
  <2>2. ASSUME NEW u \in Threads
        PROVE  OvertakenOf(u)'
    <3>1. ASSUME Closing(u)'
          PROVE  /\ var'.v = Later(x'[u].v, overtaken'[u])
                 /\ overtaken'[u] = 0 => var'.c = 0
                 /\ \A w \in Threads : Closing(w)' /\ overtaken'[w] = overtaken'[u] => w = u
      BY <1>2, <1>3, <2>1, <3>1
    <3>2. ASSUME ~Closing(u)', pc'[u] # "d_done"
          PROVE  overtaken'[u] = 0
      BY <1>2, <1>3, <3>2
    <3>. QED
      BY <3>1, <3>2 DEF OvertakenOf
  <2>. QED
    BY <2>2 DEF Overtaken
<1>4. CASE CasArrive(t) /\ var = x[t] /\ var.c = 0
  <2>1. /\ pc[t] = "a_cas" /\ pc' = [pc EXCEPT ![t] = "a_state"] /\ x' = [x EXCEPT ![t] = var']
        /\ var'.v = (var.v + 1) % VersionMod
    <3>1. var' = Arrived(var) /\ Arrived(var).a /\ Arrived(var).v = (var.v + 1) % VersionMod
      BY <1>1, <1>4, ConstantsAssumption, ArrivedType DEF CasArrive
    <3>. QED
      BY <1>1, <1>4, <3>1 DEF CasArrive
  <2>2. \A u \in Threads : overtaken'[u] = IF Closing(u) THEN overtaken[u] + 1 ELSE overtaken[u]
    BY <1>1, <1>4 DEF CasArrive, Overtake
  <2>3. \A u \in Threads : (Closing(u)' <=> Closing(u)) /\ (Closing(u) => x'[u] = x[u])
    BY <1>1, <2>1 DEF Closing
  <2>4. ASSUME NEW u \in Threads
        PROVE  OvertakenOf(u)'
    <3>1. CASE Closing(u)
      <4>1. overtaken'[u] = overtaken[u] + 1 /\ overtaken'[u] < VersionMod
        BY <2>2, <3>1 DEF WithinWidths
      <4>2. var'.v = Later(x'[u].v, overtaken'[u])
        <5>1. x[u].v \in 0..VersionMod - 1 /\ overtaken[u] \in Nat /\ overtaken[u] + 1 < VersionMod
          BY <1>1, <4>1
        <5>2. (Later(x[u].v, overtaken[u]) + 1) % VersionMod = Later(x[u].v, overtaken[u] + 1)
          BY <5>1, OneLater
        <5>3. var.v = Later(x[u].v, overtaken[u]) /\ x'[u] = x[u]
          BY <1>2, <2>3, <3>1
        <5>. QED
          BY <2>1, <4>1, <5>2, <5>3
      <4>3. ASSUME NEW w \in Threads, Closing(w), overtaken'[w] = overtaken'[u]
            PROVE  w = u
        <5>1. overtaken'[w] = overtaken[w] + 1
          BY <2>2, <4>3
        <5>2. overtaken[w] \in Nat /\ overtaken[u] \in Nat
          BY <1>1
        <5>3. overtaken[w] = overtaken[u]
          BY <4>1, <4>3, <5>1, <5>2
        <5>. QED
          BY <1>2, <3>1, <4>3, <5>3
      <4>. QED
        BY <1>1, <2>3, <3>1, <4>1, <4>2, <4>3 DEF OvertakenOf
    <3>2. CASE ~Closing(u)
      BY <1>1, <1>2, <2>1, <2>2, <2>3, <3>2 DEF OvertakenOf
    <3>. QED
      BY <3>1, <3>2
  <2>. QED
    BY <2>4 DEF Overtaken
<1>5. CASE CasArrive(t) /\ ~(var = x[t] /\ var.c = 0)
  <2>1. var'.v = var.v
    BY <1>1, <1>5, Effects
  <2>2. \A u \in Threads : overtaken'[u] = overtaken[u]
    BY <1>1, <1>5 DEF CasArrive, Overtake
  <2>3. var.c = 0 => var'.c = 0
    BY <1>5 DEF CasArrive
  <2>4. /\ pc[t] = "a_cas" /\ pc'[t] \in {"a_state", "a_leaf", "a_read"}
        /\ \A u \in Threads \ {t} : pc'[u] = pc[u] /\ x'[u] = x[u]
    BY <1>1, <1>5 DEF CasArrive
  <2>5. /\ \A u \in Threads : Closing(u)' => Closing(u) /\ x'[u] = x[u]
        /\ \A u \in Threads : ~Closing(u)' /\ pc'[u] # "d_done" => ~Closing(u) /\ pc[u] # "d_done"
    BY <2>4 DEF Closing
  <2>. QED
    BY <1>3, <2>1, <2>2, <2>3, <2>5
<1>6. CASE CasDepart(t) /\ var = x[t]
  <2>1. /\ t \in Inside /\ var.c \in Nat /\ var.c # 0
        /\ \A u \in Threads : Closing(u) => overtaken[u] # 0
    <3>1. t \in Inside
      BY <1>6 DEF CasDepart, Inside
    <3>2. var.c \in Nat /\ var.c # 0
      BY <1>1, <3>1, InsideCounted DEF Typed
    <3>. QED
      BY <1>2, <3>1, <3>2
  <2>2. /\ pc[t] = "d_cas" /\ pc' = [pc EXCEPT ![t] = IF Last(x[t]) THEN "d_state" ELSE "d_done"]
        /\ UNCHANGED <<x, overtaken>> /\ var'.c = var.c - 1 /\ var'.v = var.v
    BY <1>1, <1>6 DEF CasDepart, Vars
  <2>3. overtaken[t] = 0
    BY <1>2, <2>2 DEF Closing
  <2>4. \A u \in Threads : Closing(u)' <=> Closing(u) \/ (u = t /\ Last(x[t]))
    BY <1>1, <2>2 DEF Closing
  <2>5. ASSUME NEW u \in Threads
        PROVE  OvertakenOf(u)'
    <3>1. CASE u # t
      <4>1. pc'[u] = pc[u]
        BY <1>1, <2>2, <3>1
      <4>2. Closing(u)' <=> Closing(u)
        BY <2>4, <3>1
      <4>3. ASSUME NEW w \in Threads, Closing(u), Closing(w)', overtaken'[w] = overtaken'[u]
            PROVE  w = u
        BY <1>2, <2>1, <2>2, <2>3, <2>4, <4>3
      <4>. QED
        BY <1>2, <2>1, <2>2, <4>1, <4>2, <4>3 DEF OvertakenOf
    <3>2. CASE u = t /\ Last(x[t])
      <4>1. var'.c = 0
        BY <1>6, <2>1, <2>2, <3>2 DEF Last
      <4>2. Later(x[t].v, 0) = x[t].v
        BY <1>1 DEF Later
      <4>. QED
        BY <1>6, <2>1, <2>2, <2>3, <2>4, <3>2, <4>1, <4>2 DEF OvertakenOf
    <3>3. CASE u = t /\ ~Last(x[t])
      BY <1>1, <2>2, <2>3, <3>3 DEF OvertakenOf, Closing
    <3>. QED
      BY <3>1, <3>2, <3>3
  <2>. QED
    BY <2>5 DEF Overtaken
<1>7. CASE IncReturn(t) \/ DecReturn(t)
  <2>1. /\ \A u \in Threads \ {t} : pc'[u] = pc[u] /\ x'[u] = x[u] /\ overtaken'[u] = overtaken[u]
        /\ pc'[t] \in {"in", "idle"} /\ overtaken'[t] = 0 /\ var' = var
    BY <1>1, <1>7 DEF IncReturn, DecReturn
  <2>. QED
    BY <1>3, <2>1 DEF Closing
<1>8. CASE ~CasArrive(t) /\ ~(CasDepart(t) /\ var = x[t]) /\ ~IncReturn(t) /\ ~DecReturn(t)
  <2>1. var'.v = var.v
    BY <1>1, <1>8, Effects
  <2>2. UNCHANGED overtaken
    BY <1>8 DEF Run, Inc, ReadVar, ReadState, SetState, Announce, Dec, CasDepart, CheckVersion,
                ClearState
  <2>3. var'.c = var.c
    <3>1. CASE Announce(t)
      BY <1>1, <3>1 DEF Announce, Vars
    <3>2. CASE ~Announce(t)
      BY <1>8, <3>2 DEF Run, Inc, ReadVar, ReadState, SetState, Dec, CasDepart, CheckVersion,
                        ClearState
    <3>. QED
      BY <3>1, <3>2
  <2>4. /\ \A u \in Threads \ {t} : pc'[u] = pc[u] /\ x'[u] = x[u]
        /\ Closing(t)' => Closing(t) /\ x'[t] = x[t]
        /\ ~Closing(t)' /\ pc'[t] # "d_done" => ~Closing(t) /\ pc[t] # "d_done"
    <3>. USE <1>1 DEF Closing, Labels
    <3>1. CASE Inc(t)
      BY <3>1 DEF Inc
    <3>2. CASE ReadVar(t)
      BY <3>2 DEF ReadVar
    <3>3. CASE ReadState(t)
      BY <3>3 DEF ReadState
    <3>4. CASE SetState(t)
      BY <3>4 DEF SetState
    <3>5. CASE Announce(t)
      BY <3>5 DEF Announce
    <3>6. CASE Dec(t)
      BY <3>6 DEF Dec
    <3>7. CASE CasDepart(t)
      BY <1>8, <3>7 DEF CasDepart
    <3>8. CASE CheckVersion(t)
      BY <3>8 DEF CheckVersion
    <3>9. CASE ClearState(t)
      BY <3>9 DEF ClearState
    <3>. QED
      BY <1>8, <3>1, <3>2, <3>3, <3>4, <3>5, <3>6, <3>7, <3>8, <3>9 DEF Run
  <2>5. /\ \A u \in Threads : Closing(u)' => Closing(u) /\ x'[u] = x[u]
        /\ \A u \in Threads : ~Closing(u)' /\ pc'[u] # "d_done" => ~Closing(u) /\ pc[u] # "d_done"
    BY <2>4 DEF Closing
  <2>. QED
    BY <1>3, <2>1, <2>2, <2>3, <2>5
<1>. QED
  BY <1>4, <1>5, <1>6, <1>7, <1>8

\* A step leaves no version closed twice.
LEMMA VersionsStep ==
  ASSUME Inv, WithinWidths, WithinWidths', NEW t \in Threads, Inc(t) \/ Run(t)
  PROVE  Versions'
<1>1. Typed'
  BY TypedStep DEF Inv, Next
<1>2. Overtaken'
  BY OvertakenStep
<1>. QED
  BY <1>1, <1>2, VersionsHold, PTL

\* A step keeps the copies that threads hold behind the words they copy.
LEMMA CopiesStep ==
  ASSUME Inv, WithinWidths, WithinWidths', NEW t \in Threads, Inc(t) \/ Run(t)
  PROVE  Copies'
<1>1. state.count <= state'.count
  BY Effects DEF Inv
<1>2. \A u \in Threads : i[u].count \in Nat /\ state.count \in Nat
  BY DEF Inv, Typed, TypeOK, States
<1>3. state'.count \in Nat
  BY WordTypesStep DEF Inv, WordTypes, States
<1>. USE DEF Inv, Copies, Typed, TypeOK, Labels
<1>4. \A u \in Threads \ {t} : pc'[u] = pc[u] /\ x'[u] = x[u] /\ i'[u] = i[u]
  BY DEF Run, Inc, ReadVar, CasArrive, ReadState, SetState, Announce, IncReturn, Dec, CasDepart,
         CheckVersion, ClearState, DecReturn
<1>5. i'[t].count <= state'.count
  <2>1. CASE i'[t] = i[t]
    BY <1>1, <1>2, <1>3, <2>1
  <2>2. CASE i'[t] = NoState
    BY <1>3, <2>2 DEF NoState
  <2>3. CASE i'[t] = state
    BY <1>1, <2>3
  <2>4. i'[t] \in {i[t], NoState, state}
    BY DEF Run, Inc, ReadVar, CasArrive, ReadState, SetState, Announce, IncReturn, Dec, CasDepart,
           CheckVersion, ClearState, DecReturn
  <2>. QED
    BY <2>1, <2>2, <2>3, <2>4
<1>6. pc'[t] \in {"a_state", "a_set", "a_announce"} => x'[t].a
  <2>1. CASE CasArrive(t)
    BY <2>1 DEF CasArrive
  <2>2. CASE ReadState(t)
    BY <2>2 DEF ReadState
  <2>3. CASE SetState(t)
    BY <2>3 DEF SetState
  <2>4. CASE ~CasArrive(t) /\ ~ReadState(t) /\ ~SetState(t)
    BY <2>4 DEF Run, Inc, ReadVar, Announce, IncReturn, Dec, CasDepart, CheckVersion, ClearState,
                DecReturn
  <2>. QED
    BY <2>1, <2>2, <2>3, <2>4
<1>7. ASSUME NEW u \in Threads \ {t}
      PROVE  /\ pc'[u] \in {"a_state", "a_set", "a_announce"} => x'[u].a
             /\ i'[u].count <= state'.count
  BY <1>1, <1>2, <1>3, <1>4
<1>. QED
  BY <1>5, <1>6, <1>7

\* A step that leaves the words, those inside and those who count alone, and
\* takes its thread from one place to another alike.
LEMMA Aside ==
  ASSUME Sound, NEW t \in Threads,
         UNCHANGED <<var, state, counted>>, Inside' = Inside,
         \A u \in Threads \ {t} : pc'[u] = pc[u] /\ x'[u] = x[u] /\ i'[u] = i[u],
         Settled(t)' <=> Settled(t), Closing(t)' <=> Closing(t),
         Closing(t) => x'[t] = x[t], pc'[t] # "d_clear"
  PROVE  Sound'
<1>1. \A u \in Threads : (Settled(u)' <=> Settled(u)) /\ (Closing(u)' <=> Closing(u))
                         /\ (Closing(u) => x'[u] = x[u])
  BY DEF Settled, Closing
<1>2. Versions'
  BY <1>1 DEF Sound, Versions
<1>3. Sure' <=> Sure
  BY <1>1 DEF Sure
<1>4. Seen' /\ ClearIsLate'
  BY <1>3 DEF Sound, Seen, ClearIsLate
<1>5. Counts'
  BY <1>1 DEF Sound, Counts
<1>. QED
  BY <1>2, <1>4, <1>5 DEF Sound

\* What a settled thread means: it is inside, so nobody closes this version,
\* those inside count, and no clear succeeds.
LEMMA SettledFacts ==
  ASSUME Typed, Sound, NEW t \in Threads, Settled(t)
  PROVE  /\ t \in Inside /\ var.c \in Nat /\ var.c # 0
         /\ Sure /\ state.busy /\ counted = Inside
         /\ \A u \in Threads : Closing(u) => x[u].v # var.v
         /\ \A u \in Threads : pc[u] = "d_clear" => state # i[u]
<1>1. t \in Inside
  BY DEF Settled, Inside
<1>2. var.c \in Nat /\ var.c # 0
  BY <1>1, InsideCounted DEF Typed
<1>3. Sure
  BY DEF Sure
<1>. QED
  BY <1>1, <1>2, <1>3 DEF Sound, Versions, Seen, ClearIsLate

\* root_arrive's compare-and-swap of var keeps the indicator sound.
LEMMA CasArriveKeeps ==
  ASSUME Inv, WithinWidths, WithinWidths', NEW t \in Threads, CasArrive(t)
  PROVE  Sound'
<1>1. Typed /\ Sound /\ Run(t)
  BY DEF Inv, Run
<1>2. pc[t] = "a_cas" /\ pc \in [Threads -> Labels] /\ x \in [Threads -> Vars] /\ var \in Vars
  BY DEF Inv, Typed, TypeOK, CasArrive
<1>3. \A u \in Threads \ {t} : pc'[u] = pc[u] /\ x'[u] = x[u] /\ i'[u] = i[u]
  BY <1>2 DEF CasArrive
<1>4. state' = state
  BY DEF CasArrive
<1>5. CASE var # x[t]
  <2>1. Inside' = Inside
    BY <1>1, <1>5, InsideStep
  <2>2. UNCHANGED <<var, counted>> /\ pc'[t] = "a_read"
    BY <1>2, <1>5 DEF CasArrive
  <2>. QED
    BY <1>1, <1>2, <1>3, <1>4, <2>1, <2>2, Aside DEF Settled, Closing
<1>6. CASE var = x[t]
  <2>1. t \notin Inside /\ Inside' = Inside \union {t}
    BY <1>1, <1>6, InsideStep
  <2>2. var.c \in Nat /\ (var.c = 0 <=> Inside = {}) /\ var'.c \in Nat /\ var'.c # 0
    <3>1. Typed'
      BY <1>1, WordTypesStep, LeafShapeStep, CountStep DEF WordTypes, Typed, TypeOK
    <3>2. var'.c \in Nat /\ (var'.c = 0 <=> Inside' = {})
      <4>1. IsFiniteSet(Inside') /\ var'.c = Cardinality(Inside')
        <5>1. Inside' \in SUBSET Threads
          BY DEF Inside
        <5>. QED
          BY <3>1, <5>1, ThreadsFinite, FS_Subset DEF Typed, TypeOK
      <4>. QED
        BY <4>1, FS_CardinalityType, FS_EmptySet
    <3>. QED
      BY <1>1, <2>1, <3>2, InsideCounted DEF Typed
  <2>3. counted' = IF counted \intersect Inside = {} THEN counted ELSE counted \union {t}
    BY <1>6 DEF CasArrive
  <2>4. pc'[t] = (IF var'.a THEN "a_state" ELSE "a_leaf") /\ var' = Arrived(var)
    BY <1>2, <1>6 DEF CasArrive
  <2>5. \A u \in Threads : Closing(u)' <=> Closing(u)
    BY <1>2, <1>3, <2>4 DEF Closing
  <2>6. \A u \in Threads : Closing(u) => u # t /\ u \notin Inside /\ x'[u] = x[u]
    BY <1>2, <1>3 DEF Closing, Inside
  <2>7. \A u \in Threads : pc'[u] = "d_clear" => u # t /\ pc[u] = "d_clear" /\ i'[u] = i[u]
    BY <1>3, <2>4
  <2>8. \A u \in Threads : Settled(u) => u \in Inside /\ u # t
    BY <1>2 DEF Settled, Inside
  <2>9. CASE var.c = 0
    <3>1. Inside = {}
      BY <2>2, <2>9
    <3>2. var'.a
      BY <2>4, <2>9, <1>2 DEF Arrived
    <3>3. ~Sure'
      BY <1>3, <2>2, <2>4, <2>8, <3>1, <3>2 DEF Sure, Settled
    <3>4. counted' = counted
      BY <2>3, <3>1
    <3>7. Versions'
      BY <1>1, VersionsStep
    <3>8. \A u \in Threads : pc[u] = "d_clear" /\ state = i[u] => counted \subseteq {u}
      BY <1>1 DEF Sound, ClearIsLate
    <3>9. Seen' /\ ClearIsLate'
      BY <1>4, <2>7, <3>3, <3>4, <3>8 DEF Seen, ClearIsLate
    <3>10. counted = {} \/ \E u \in Threads : Closing(u) /\ counted = {u}
      BY <1>1, <3>1 DEF Sound, Counts
    <3>11. state.busy <=> counted # {}
      BY <1>1 DEF Sound, Counts
    <3>12. Counts'
      BY <1>4, <2>2, <2>5, <3>4, <3>10, <3>11 DEF Counts
    <3>. QED
      BY <3>7, <3>9, <3>12 DEF Sound
  <2>10. CASE var.c # 0
    <3>1. Inside # {}
      BY <2>2, <2>10
    <3>2. var'.a = var.a /\ var'.v = var.v
      BY <1>2, <2>4, <2>10 DEF Arrived, Vars
    <3>3. Sure' <=> Sure
      <4>1. \A u \in Threads \ {t} : Settled(u)' <=> Settled(u)
        BY <1>3 DEF Settled
      <4>2. CASE var.a
        <5>1. pc'[t] = "a_state"
          BY <2>4, <3>2, <4>2
        <5>. QED
          BY <2>8, <3>2, <4>1, <4>2, <5>1 DEF Sure, Settled
      <4>3. CASE ~var.a
        <5>1. var.c > 0 /\ var'.c > 0
          BY <2>2, <2>10
        <5>. QED
          BY <3>2, <4>3, <5>1 DEF Sure
      <4>. QED
        BY <4>2, <4>3
    <3>4. Versions'
      <4>1. \A u \in Threads : Closing(u) => x[u].v # var.v
        BY <1>1, <2>10 DEF Sound, Versions
      <4>. QED
        BY <1>1, <2>5, <2>6, <3>2, <4>1 DEF Sound, Versions
    <3>5. Seen'
      BY <1>1, <1>4, <2>1, <2>3, <3>1, <3>3 DEF Sound, Seen
    <3>6. ASSUME NEW u \in Threads, pc'[u] = "d_clear", state' = i'[u]
          PROVE  ~Sure' /\ counted' \subseteq {u}
      <4>1. ~Sure /\ counted \subseteq {u}
        BY <1>1, <1>4, <2>7, <3>6 DEF Sound, ClearIsLate
      <4>2. u \notin Inside
        BY <2>7, <3>6 DEF Inside
      <4>. QED
        BY <2>3, <3>3, <4>1, <4>2
    <3>7. Counts'
      <4>1. state.busy <=> counted # {}
        BY <1>1 DEF Sound, Counts
      <4>2. counted' # {} <=> counted # {}
        BY <2>3
      <4>3. CASE counted = {} \/ counted = Inside
        <5>1. counted' = {} \/ counted' = Inside'
          BY <2>1, <2>3, <3>1, <4>3
        <5>. QED
          BY <1>4, <2>2, <4>1, <4>2, <5>1 DEF Counts
      <4>4. CASE \E u \in Threads : Closing(u) /\ counted = {u}
        <5>1. counted' = counted
          BY <2>3, <2>6, <4>4
        <5>. QED
          BY <1>4, <2>2, <2>5, <4>1, <4>4, <5>1 DEF Counts
      <4>. QED
        BY <1>1, <4>3, <4>4 DEF Sound, Counts
    <3>. QED
      BY <3>4, <3>5, <3>6, <3>7 DEF Sound, ClearIsLate
  <2>. QED
    BY <2>9, <2>10
<1>. QED
  BY <1>5, <1>6

\* So does its compare-and-swap that raises state.
LEMMA SetStateKeeps ==
  ASSUME Inv, WithinWidths, WithinWidths', NEW t \in Threads, SetState(t)
  PROVE  Sound'
<1>1. Typed /\ Sound /\ Run(t)
  BY DEF Inv, Run
<1>2. pc[t] = "a_set" /\ pc \in [Threads -> Labels]
  BY DEF Inv, Typed, TypeOK, SetState
<1>3. \A u \in Threads \ {t} : pc'[u] = pc[u] /\ x'[u] = x[u] /\ i'[u] = i[u]
  BY <1>2 DEF SetState
<1>4. Inside' = Inside
  BY <1>1, InsideStep DEF SetState, CasArrive, CasDepart
<1>5. UNCHANGED <<var, i, x>>
  BY DEF SetState
<1>6. CASE state # i[t]
  <2>1. UNCHANGED <<state, counted>> /\ pc'[t] = "a_state"
    BY <1>2, <1>6 DEF SetState
  <2>. QED
    BY <1>1, <1>2, <1>3, <1>4, <1>5, <2>1, Aside DEF Settled, Closing
<1>7. CASE state = i[t]
  <2>1. pc'[t] = "a_announce" /\ counted' = Inside'
    BY <1>2, <1>4, <1>7 DEF SetState
  <2>2. state'.count = state.count + 1 /\ state'.busy
    BY <1>1, <1>7, Effects DEF Inv
  <2>3. \A u \in Threads : state' # i'[u]
    <3>1. \A u \in Threads : i[u].count <= state.count /\ i[u].count \in Nat /\ state.count \in Nat
      BY DEF Inv, Copies, Typed, TypeOK, States
    <3>. QED
      BY <1>5, <2>2, <3>1
  <2>4. \A u \in Threads : Closing(u)' <=> Closing(u)
    BY <1>2, <1>3, <2>1 DEF Closing
  <2>5. Versions'
    BY <1>1, <1>5, <2>4 DEF Sound, Versions
  <2>6. t \in Inside /\ var.c \in Nat /\ var.c # 0
    <3>1. t \in Inside
      BY <1>2 DEF Inside
    <3>. QED
      BY <1>1, <3>1, InsideCounted DEF Typed
  <2>7. Seen' /\ ClearIsLate'
    BY <2>1, <2>2, <2>3 DEF Seen, ClearIsLate
  <2>8. Counts'
    BY <1>4, <1>5, <2>1, <2>2, <2>6 DEF Counts
  <2>. QED
    BY <2>5, <2>7, <2>8 DEF Sound
<1>. QED
  BY <1>6, <1>7

\* So does the one that takes back the announce bit.
LEMMA AnnounceKeeps ==
  ASSUME Inv, WithinWidths, WithinWidths', NEW t \in Threads, Announce(t)
  PROVE  Sound'
<1>1. Typed /\ Sound /\ Run(t)
  BY DEF Inv, Run
<1>2. pc[t] = "a_announce" /\ pc \in [Threads -> Labels] /\ var \in Vars /\ x \in [Threads -> Vars]
  BY DEF Inv, Typed, TypeOK, Announce
<1>3. /\ \A u \in Threads \ {t} : pc'[u] = pc[u]
      /\ pc'[t] = "a_leaf" /\ UNCHANGED <<x, i, state, counted>>
  BY <1>2 DEF Announce
<1>4. Inside' = Inside
  BY <1>1, InsideStep DEF Announce, CasArrive, CasDepart
<1>5. var'.c = var.c /\ var'.v = var.v
  BY <1>2 DEF Announce, Vars
<1>6. /\ var.c \in Nat /\ var.c # 0
      /\ state.busy /\ counted = Inside
      /\ \A u \in Threads : Closing(u) => x[u].v # var.v
      /\ \A u \in Threads : pc[u] = "d_clear" => state # i[u]
  BY <1>1, <1>2, SettledFacts DEF Settled
<1>7. \A u \in Threads : (Closing(u)' <=> Closing(u)) /\ (pc'[u] = "d_clear" => pc[u] = "d_clear")
  BY <1>2, <1>3 DEF Closing
<1>8. Versions'
  BY <1>1, <1>3, <1>5, <1>6, <1>7 DEF Sound, Versions
<1>9. Seen' /\ ClearIsLate'
  BY <1>3, <1>4, <1>6, <1>7 DEF Seen, ClearIsLate
<1>10. Counts'
  BY <1>1, <1>3, <1>4, <1>5, <1>6 DEF Sound, Counts
<1>. QED
  BY <1>8, <1>9, <1>10 DEF Sound

\* So does root_depart's compare-and-swap of var.
LEMMA CasDepartKeeps ==
  ASSUME Inv, WithinWidths, WithinWidths', NEW t \in Threads, CasDepart(t)
  PROVE  Sound'
<1>1. Typed /\ Sound /\ Run(t)
  BY DEF Inv, Run
<1>2. pc[t] = "d_cas" /\ pc \in [Threads -> Labels] /\ var \in Vars /\ x \in [Threads -> Vars]
  BY DEF Inv, Typed, TypeOK, CasDepart
<1>3. /\ \A u \in Threads \ {t} : pc'[u] = pc[u]
      /\ UNCHANGED <<x, i, state>>
  BY <1>2 DEF CasDepart
<1>4. CASE var # x[t]
  <2>1. Inside' = Inside
    BY <1>1, <1>4, InsideStep
  <2>2. UNCHANGED <<var, counted>> /\ pc'[t] = "d_read"
    BY <1>2, <1>4 DEF CasDepart
  <2>. QED
    BY <1>1, <1>2, <1>3, <2>1, <2>2, Aside DEF Settled, Closing
<1>5. CASE var = x[t]
  <2>1. /\ t \in Inside /\ var.c \in Nat /\ var.c # 0
        /\ state.busy /\ counted = Inside
        /\ \A u \in Threads : Closing(u) => x[u].v # var.v
        /\ \A u \in Threads : pc[u] = "d_clear" => state # i[u]
    BY <1>1, <1>2, SettledFacts DEF Settled
  <2>2. Inside' = Inside \ {t}
    BY <1>1, <1>5, InsideStep
  <2>3. var'.c = var.c - 1 /\ var'.a = FALSE /\ var'.v = var.v
    BY <1>2, <1>5 DEF CasDepart, Vars
  <2>4. (Last(x[t]) <=> Inside = {t}) /\ (var.c < 2 <=> Inside = {t})
    BY <1>1, <1>5, <2>1, InsideCounted DEF Last, Typed
  <2>5. counted' = (IF Inside = {t} THEN {t} ELSE Inside \ {t})
        /\ pc'[t] = (IF Inside = {t} THEN "d_state" ELSE "d_done")
    BY <1>2, <1>5, <2>4 DEF CasDepart
  <2>6. \A u \in Threads : Closing(u)' <=> Closing(u) \/ (u = t /\ Inside = {t})
    BY <1>2, <1>3, <2>5 DEF Closing
  <2>7. \A u \in Threads : pc'[u] = "d_clear" => pc[u] = "d_clear"
    BY <1>3, <2>5
  <2>8. ClearIsLate'
    BY <1>3, <2>1, <2>7 DEF ClearIsLate
  <2>9. CASE Inside = {t}
    <3>1. var'.c = 0
      BY <2>1, <2>3, <2>4, <2>9
    <3>2. ~Sure'
      <4>1. \A u \in Threads : Settled(u)' => u \in Inside'
        BY DEF Settled, Inside
      <4>. QED
        BY <2>2, <2>9, <3>1, <4>1 DEF Sure
    <3>3. Versions'
      BY <1>1, VersionsStep
    <3>4. Counts'
      <4>1. Closing(t)' /\ counted' = {t} /\ x'[t].v = var'.v
        BY <1>3, <1>5, <2>3, <2>5, <2>6, <2>9
      <4>. QED
        BY <1>3, <2>1, <4>1 DEF Counts
    <3>. QED
      BY <2>8, <3>2, <3>3, <3>4 DEF Sound, Seen
  <2>10. CASE Inside # {t}
    <3>1. var'.c # 0
      BY <2>1, <2>3, <2>4, <2>10
    <3>2. counted' = Inside' /\ Inside' # {}
      BY <2>1, <2>2, <2>5, <2>10
    <3>3. Versions'
      BY <1>1, <1>3, <2>1, <2>3, <2>6, <2>10 DEF Sound, Versions
    <3>4. Seen' /\ Counts'
      BY <1>3, <2>1, <3>1, <3>2 DEF Seen, Counts
    <3>. QED
      BY <2>8, <3>3, <3>4 DEF Sound
  <2>. QED
    BY <2>9, <2>10
<1>. QED
  BY <1>4, <1>5

\* So does its look at the version.
LEMMA CheckVersionKeeps ==
  ASSUME Inv, WithinWidths, WithinWidths', NEW t \in Threads, CheckVersion(t)
  PROVE  Sound'
<1>1. Typed /\ Sound /\ Run(t)
  BY DEF Inv, Run
<1>2. pc[t] = "d_version" /\ pc \in [Threads -> Labels]
  BY DEF Inv, Typed, TypeOK, CheckVersion
<1>3. /\ \A u \in Threads \ {t} : pc'[u] = pc[u]
      /\ UNCHANGED <<x, i, var, state>>
  BY <1>2 DEF CheckVersion
<1>4. Inside' = Inside /\ t \notin Inside
  BY <1>1, <1>2, InsideStep DEF CheckVersion, CasArrive, CasDepart, Inside
<1>5. Sure' <=> Sure
  <2>1. \A u \in Threads : Settled(u)' <=> Settled(u)
    BY <1>2, <1>3 DEF CheckVersion, Settled
  <2>. QED
    BY <1>3, <2>1 DEF Sure
<1>6. var.c \in Nat /\ (var.c = 0 <=> Inside = {})
  BY <1>1, InsideCounted DEF Typed
<1>7. CASE var.v # x[t].v
  <2>1. pc'[t] = "d_done" /\ counted' = IF t \in counted THEN Inside ELSE counted
    BY <1>2, <1>7 DEF CheckVersion
  <2>2. \A u \in Threads : Closing(u)' <=> Closing(u) /\ u # t
    BY <1>3, <2>1 DEF Closing
  <2>3. Versions'
    BY <1>1, <1>3, <2>2 DEF Sound, Versions
  <2>4. Seen'
    BY <1>1, <1>3, <1>4, <1>5, <2>1 DEF Sound, Seen
  <2>5. \A u \in Threads : pc'[u] = "d_clear" => u # t /\ pc[u] = "d_clear"
    BY <1>3, <2>1
  <2>6. ClearIsLate'
    BY <1>1, <1>3, <1>5, <2>1, <2>5 DEF Sound, ClearIsLate
  <2>7. Counts'
    <3>1. CASE t \in counted
      <4>1. state.busy /\ Inside # {}
        BY <1>1, <1>6, <1>7, <3>1 DEF Sound, Counts
      <4>. QED
        BY <1>3, <1>4, <1>6, <2>1, <3>1, <4>1 DEF Counts
    <3>2. CASE t \notin counted
      BY <1>1, <1>3, <1>4, <2>1, <2>2, <3>2 DEF Sound, Counts
    <3>. QED
      BY <3>1, <3>2
  <2>. QED
    BY <2>3, <2>4, <2>6, <2>7 DEF Sound
<1>8. CASE var.v = x[t].v
  <2>1. pc'[t] = "d_clear" /\ counted' = counted
    BY <1>2, <1>8 DEF CheckVersion
  <2>2. \A u \in Threads : Closing(u)' <=> Closing(u)
    BY <1>2, <1>3, <2>1 DEF Closing
  <2>3. Versions'
    BY <1>1, <1>3, <2>2 DEF Sound, Versions
  <2>4. Seen'
    BY <1>1, <1>3, <1>4, <1>5, <2>1 DEF Sound, Seen
  <2>5. Counts'
    BY <1>1, <1>3, <1>4, <2>1, <2>2 DEF Sound, Counts
  <2>6. ~Sure /\ counted \subseteq {t}
    <3>1. Closing(t)
      BY <1>2 DEF Closing
    <3>2. var.c = 0 /\ Inside = {}
      BY <1>1, <1>6, <1>8, <3>1 DEF Sound, Versions
    <3>3. ~Sure
      <4>1. \A u \in Threads : Settled(u) => u \in Inside
        BY DEF Settled, Inside
      <4>. QED
        BY <3>2, <4>1 DEF Sure
    <3>4. counted # {} => \E u \in Threads : Closing(u) /\ x[u].v = var.v /\ counted = {u}
      BY <1>1, <3>2 DEF Sound, Counts
    <3>5. counted # {} => counted = {t}
      BY <1>1, <1>8, <3>1, <3>4 DEF Sound, Versions
    <3>. QED
      BY <3>3, <3>5
  <2>7. ClearIsLate'
    BY <1>1, <1>3, <1>5, <2>1, <2>6 DEF Sound, ClearIsLate
  <2>. QED
    BY <2>3, <2>4, <2>5, <2>7 DEF Sound
<1>. QED
  BY <1>7, <1>8

\* So does its compare-and-swap that clears state.
LEMMA ClearStateKeeps ==
  ASSUME Inv, WithinWidths, WithinWidths', NEW t \in Threads, ClearState(t)
  PROVE  Sound'
<1>1. Typed /\ Sound /\ Run(t)
  BY DEF Inv, Run
<1>2. pc[t] = "d_clear" /\ pc \in [Threads -> Labels]
  BY DEF Inv, Typed, TypeOK, ClearState
<1>3. /\ \A u \in Threads \ {t} : pc'[u] = pc[u]
      /\ UNCHANGED <<x, i, var>>
  BY <1>2 DEF ClearState
<1>4. Inside' = Inside
  BY <1>1, InsideStep DEF ClearState, CasArrive, CasDepart
<1>5. CASE state # i[t]
  <2>1. UNCHANGED <<state, counted>> /\ pc'[t] = "d_state"
    BY <1>2, <1>5 DEF ClearState
  <2>. QED
    BY <1>1, <1>2, <1>3, <1>4, <2>1, Aside DEF Settled, Closing
<1>6. CASE state = i[t]
  <2>1. pc'[t] = "d_done" /\ counted' = {}
    BY <1>2, <1>6 DEF ClearState
  <2>2. state'.count = state.count + 1 /\ ~state'.busy
    BY <1>1, <1>6, Effects DEF Inv
  <2>3. \A u \in Threads : state' # i'[u]
    <3>1. \A u \in Threads : i[u].count <= state.count /\ i[u].count \in Nat /\ state.count \in Nat
      BY DEF Inv, Copies, Typed, TypeOK, States
    <3>. QED
      BY <1>3, <2>2, <3>1
  <2>4. ~Sure'
    <3>1. ~Sure
      BY <1>1, <1>2, <1>6 DEF Sound, ClearIsLate
    <3>2. \A u \in Threads : Settled(u)' => Settled(u)
      BY <1>3, <2>1 DEF Settled
    <3>. QED
      BY <1>3, <3>1, <3>2 DEF Sure
  <2>5. \A u \in Threads : Closing(u)' <=> Closing(u) /\ u # t
    BY <1>3, <2>1 DEF Closing
  <2>6. Versions'
    BY <1>1, <1>3, <2>5 DEF Sound, Versions
  <2>7. Seen' /\ ClearIsLate' /\ Counts'
    BY <2>1, <2>2, <2>3, <2>4 DEF Seen, ClearIsLate, Counts
  <2>. QED
    BY <2>6, <2>7 DEF Sound
<1>. QED
  BY <1>5, <1>6

\* Every step keeps the invariant.
LEMMA InvStep ==
  ASSUME Inv, WithinWidths, WithinWidths', [Next]_vars
  PROVE  Inv'
<1>1. ASSUME NEW t \in Threads, Inc(t) \/ Run(t)
      PROVE  Sound'
  <2>1. pc \in [Threads -> Labels] /\ Sound
    BY DEF Inv, Typed, TypeOK
  <2>2. ASSUME Inc(t) \/ ReadVar(t) \/ ReadState(t) \/ IncReturn(t) \/ Dec(t) \/ DecReturn(t)
        PROVE  Sound'
    <3>1. Inside' = Inside
      BY <1>1, <2>2, InsideStep DEF Inv, Inc, ReadVar, ReadState, IncReturn, Dec, DecReturn,
                                    CasArrive, CasDepart
    <3>2. /\ UNCHANGED <<var, state, counted>>
          /\ \A u \in Threads \ {t} : pc'[u] = pc[u] /\ x'[u] = x[u] /\ i'[u] = i[u]
      BY <2>1, <2>2 DEF Inc, ReadVar, ReadState, IncReturn, Dec, DecReturn, Inv, Typed, TypeOK
    <3>3. /\ Settled(t)' <=> Settled(t)
          /\ Closing(t)' <=> Closing(t)
          /\ Closing(t) => x'[t] = x[t]
          /\ pc'[t] # "d_clear"
      <4>. USE <2>1 DEF Settled, Closing
      <4>1. CASE Inc(t)
        BY <4>1 DEF Inc
      <4>2. CASE ReadVar(t)
        BY <4>2 DEF ReadVar
      <4>3. CASE ReadState(t)
        BY <4>3 DEF ReadState
      <4>4. CASE IncReturn(t)
        BY <4>4 DEF IncReturn
      <4>5. CASE Dec(t)
        <5>1. leaf[t] = 1
          BY <4>5 DEF Dec, Inv, Typed, LeafShape, Entering
        <5>. QED
          BY <4>5, <5>1 DEF Dec
      <4>6. CASE DecReturn(t)
        BY <4>6 DEF DecReturn
      <4>. QED
        BY <2>2, <4>1, <4>2, <4>3, <4>4, <4>5, <4>6
    <3>. QED
      BY <2>1, <3>1, <3>2, <3>3, Aside
  <2>. QED
    BY <1>1, <2>2, CasArriveKeeps, SetStateKeeps, AnnounceKeeps, CasDepartKeeps,
       CheckVersionKeeps, ClearStateKeeps DEF Run
<1>2. ASSUME NEW t \in Threads, Inc(t) \/ Run(t)
      PROVE  Inv'
  BY <1>1, <1>2, TypedStep, OvertakenStep, CopiesStep DEF Inv, Next
<1>3. CASE UNCHANGED vars
  <2>1. Typed'
    BY TypedStep DEF Inv
  <2>2. Inside' = Inside
    BY <1>3 DEF vars, Inside
  <2>3. Overtaken' /\ Copies'
    BY <1>3 DEF vars, Inv, Overtaken, OvertakenOf, Closing, Copies
  <2>4. Sound'
    BY <1>3, <2>2 DEF vars, Inv, Sound, Versions, Seen, ClearIsLate, Counts, Sure, Settled, Closing
  <2>. QED
    BY <2>1, <2>3, <2>4 DEF Inv
<1>. QED
  BY <1>2, <1>3 DEF Next, Finished

----------------------------------------------------------------------------
(* What the indicator promises.                                             *)

\* The invariant holds within the widths.
LEMMA InvHolds == Spec /\ []WithinWidths => []Inv
<1>1. Init => Inv
  BY InvInit
<1>2. Inv /\ WithinWidths /\ WithinWidths' /\ [Next]_vars => Inv'
  BY InvStep
<1>. QED
  BY <1>1, <1>2, PTL DEF Spec

\* A reader between the return of snzi_inc and the call of snzi_dec is seen by
\* every query, for any number of threads and any start of the version and of
\* the counter, so long as the counter does not overflow and no departure is
\* held up while 2^16 versions are announced.
THEOREM ReadersAreSeen == Spec /\ []WithinWidths => []PresentIsSeen
<1>1. Inv => PresentIsSeen
  BY DEF Inv, Sound, Seen, Sure, Settled, PresentIsSeen, Query
<1>. QED
  BY <1>1, InvHolds, PTL

\* With no one inside or on the way a query says so; SNZI_wrap shows what
\* happens when the counter overflows.
THEOREM QuietIsSeen == Spec /\ []WithinWidths => []QuietIsClear
<1>1. ASSUME Inv, \A t \in Threads : pc[t] = "idle"
      PROVE  ~Query
  <2>1. Inside = {} /\ \A t \in Threads : ~Closing(t)
    BY <1>1 DEF Inside, Closing
  <2>. QED
    BY <1>1, <2>1 DEF Inv, Sound, Counts, Query
<1>2. Inv => QuietIsClear
  BY <1>1 DEF QuietIsClear
<1>. QED
  BY <1>2, InvHolds, PTL

----------------------------------------------------------------------------
(* The indicator of SNZI is the Indicator: each arrival and each departure  *)
(* takes effect at one step between its call and its return.                *)

Phases == [t \in Threads |-> Phase(pc[t])]

\* A step that takes its thread to another label of the same phase is not seen.
LEMMA SamePhase ==
  ASSUME pc \in [Threads -> Labels], NEW t \in Threads, pc' \in [Threads -> Labels],
         \A u \in Threads \ {t} : pc'[u] = pc[u], Phase(pc'[t]) = Phase(pc[t])
  PROVE  Phases' = Phases
<1>1. \A u \in Threads : Phase(pc'[u]) = Phase(pc[u])
  OBVIOUS
<1>. QED
  BY <1>1 DEF Phases

\* Effects: busy follows from Counts, before the step and after.
LEMMA EffectSeen ==
  ASSUME Inv', Phases' = Phases,
         NEW in \in SUBSET Threads, NEW out \in SUBSET Threads,
         \A u \in in : Phase(pc[u]) = "entering" /\ u \notin counted,
         \A u \in out : Phase(pc[u]) = "leaving" /\ u \in counted,
         counted' = (counted \union in) \ out
  PROVE  Abstract!Next
<1>1. state'.busy = (counted' # {})
  <2>1. state'.busy <=> counted' # {}
    BY DEF Inv, Sound, Counts
  <2>2. state'.busy \in BOOLEAN
    BY DEF Inv, Typed, TypeOK, States
  <2>. QED
    BY <2>1, <2>2
<1>2. Abstract!TakeEffect(in, out)
  BY <1>1 DEF Phases, Abstract!TakeEffect, Query
<1>. QED
  BY <1>2 DEF Abstract!Next

\* A step that moves no call and counts none is not seen.
LEMMA StutterSeen ==
  ASSUME Inv, Inv', Phases' = Phases, counted' = counted
  PROVE  UNCHANGED Abstract!vars
<1>1. (state.busy <=> counted # {}) /\ (state'.busy <=> counted' # {})
  BY DEF Inv, Sound, Counts
<1>2. state.busy \in BOOLEAN /\ state'.busy \in BOOLEAN
  BY DEF Inv, Typed, TypeOK, States
<1>. QED
  BY <1>1, <1>2 DEF Phases, Abstract!vars, Query

\* Calls and returns: the thread's phase changes and nothing else.
LEMMA MoveSeen ==
  ASSUME Inv, NEW t \in Threads, NEW l \in Labels, pc' = [pc EXCEPT ![t] = l],
         UNCHANGED <<counted, state>>,
         \/ Phase(pc[t]) = "out" /\ Phase(l) = "entering"
         \/ Phase(pc[t]) = "in" /\ Phase(l) = "leaving"
         \/ Phase(pc[t]) = "entering" /\ Phase(l) = "in" /\ t \in counted
         \/ Phase(pc[t]) = "leaving" /\ Phase(l) = "out" /\ t \notin counted
  PROVE  Abstract!Next
<1>1. Phases' = [Phases EXCEPT ![t] = Phase(l)]
  BY DEF Phases, Inv, Typed, TypeOK
<1>2. Abstract!Move(t, Phase(pc[t]), Phase(l))
  BY <1>1 DEF Abstract!Move, Phases, Query
<1>3. Abstract!Call(t) \/ Abstract!Return(t)
  BY <1>2 DEF Abstract!Call, Abstract!Return
<1>. QED
  BY <1>3 DEF Abstract!Next

\* While nobody is sure of state, those inside are still entering.
LEMMA UnsureEnter ==
  ASSUME Inv, ~Sure, NEW t \in Inside
  PROVE  t \in Threads /\ Phase(pc[t]) = "entering"
BY DEF Inside, Sure, Settled, Phase

\* Every step is a step of the indicator, or is not seen.
LEMMA StepImplements ==
  ASSUME Inv, Inv', NEW t \in Threads, Inc(t) \/ Run(t)
  PROVE  Abstract!Next \/ UNCHANGED Abstract!vars
<1>1. pc \in [Threads -> Labels] /\ pc' \in [Threads -> Labels] /\ counted \subseteq Threads
      /\ Inside \subseteq Threads
  BY DEF Inv, Typed, TypeOK, Inside
<1>2. Typed /\ Sound
  BY DEF Inv
<1>3. counted = {} \/ counted = Inside \/ \E u \in Threads : Closing(u) /\ counted = {u}
  BY DEF Inv, Sound, Counts
<1>4. CASE Inc(t)
  BY <1>1, <1>4, MoveSeen DEF Inc, Phase, Labels
<1>5. CASE ReadVar(t) \/ ReadState(t) \/ Announce(t)
  <2>1. Phases' = Phases /\ counted' = counted
    BY <1>1, <1>5, SamePhase DEF ReadVar, ReadState, Announce, Phase
  <2>. QED
    BY <2>1, StutterSeen
<1>6. CASE CasArrive(t)
  <2>1. Phases' = Phases /\ Phase(pc[t]) = "entering" /\ t \notin Inside
    BY <1>1, <1>2, <1>6, SamePhase, InsideStep DEF CasArrive, Phase
  <2>2. CASE counted' = counted
    BY <2>1, <2>2, StutterSeen
  <2>3. CASE counted' # counted
    <3>1. counted' = counted \union {t} /\ counted \intersect Inside # {}
      BY <1>6, <2>3 DEF CasArrive
    <3>2. t \notin counted
      BY <1>3, <2>1, <3>1 DEF Closing, Inside
    <3>3. counted' = (counted \union {t}) \ {}
      BY <3>1
    <3>4. \A u \in {t} : Phase(pc[u]) = "entering" /\ u \notin counted
      BY <2>1, <3>2
    <3>5. {t} \in SUBSET Threads /\ {} \in SUBSET Threads
      OBVIOUS
    <3>. QED
      BY <2>1, <3>3, <3>4, <3>5, EffectSeen
  <2>. QED
    BY <2>2, <2>3
<1>7. CASE SetState(t)
  <2>1. Phases' = Phases
    BY <1>1, <1>7, SamePhase DEF SetState, Phase
  <2>2. CASE state # i[t]
    BY <1>7, <2>1, <2>2, StutterSeen DEF SetState
  <2>3. CASE state = i[t]
    <3>1. counted' = (counted \union (Inside \ counted)) \ (counted \ Inside)
      BY <1>7, <2>3 DEF SetState
    <3>2. ASSUME NEW u \in Inside \ counted
          PROVE  Phase(pc[u]) = "entering"
      <4>1. ~Sure
        BY <1>2 DEF Sound, Seen
      <4>. QED
        BY <4>1, UnsureEnter
    <3>3. ASSUME NEW u \in counted \ Inside
          PROVE  Phase(pc[u]) = "leaving"
      BY <1>3 DEF Closing, Phase
    <3>. QED
      BY <1>1, <2>1, <3>1, <3>2, <3>3, EffectSeen
  <2>. QED
    BY <2>2, <2>3
<1>8. CASE IncReturn(t)
  <2>1. t \in counted
    <3>1. Settled(t)
      BY <1>8 DEF IncReturn, Settled
    <3>. QED
      BY <1>2, <3>1, SettledFacts
  <2>. QED
    BY <1>1, <1>8, <2>1, MoveSeen DEF IncReturn, Phase, Labels
<1>9. CASE Dec(t)
  <2>1. leaf[t] = 1
    BY <1>2, <1>9 DEF Dec, Typed, LeafShape, Entering
  <2>. QED
    BY <1>1, <1>9, <2>1, MoveSeen DEF Dec, Phase, Labels
<1>10. CASE CasDepart(t)
  <2>1. Phases' = Phases /\ Phase(pc[t]) = "leaving"
    BY <1>1, <1>10, SamePhase DEF CasDepart, Phase
  <2>2. counted = Inside /\ t \in Inside
    BY <1>2, <1>10, SettledFacts DEF CasDepart, Settled
  <2>3. CASE counted' = counted
    BY <2>1, <2>3, StutterSeen
  <2>4. CASE counted' # counted
    <3>1. counted' = (counted \union {}) \ {t}
      BY <1>10, <2>2, <2>4 DEF CasDepart
    <3>2. \A u \in {t} : Phase(pc[u]) = "leaving" /\ u \in counted
      BY <2>1, <2>2
    <3>3. {t} \in SUBSET Threads /\ {} \in SUBSET Threads
      OBVIOUS
    <3>. QED
      BY <2>1, <3>1, <3>2, <3>3, EffectSeen
  <2>. QED
    BY <2>3, <2>4
<1>11. CASE CheckVersion(t)
  <2>1. Phases' = Phases /\ Phase(pc[t]) = "leaving" /\ t \notin Inside
    BY <1>1, <1>11, SamePhase DEF CheckVersion, Phase, Inside
  <2>2. CASE counted' = counted
    BY <2>1, <2>2, StutterSeen
  <2>3. CASE counted' # counted
    <3>1. counted' = Inside /\ t \in counted
      BY <1>11, <2>3 DEF CheckVersion
    <3>2. counted = {t}
      BY <1>3, <2>1, <3>1
    <3>3. ~Sure
      BY <1>2, <2>1, <3>1 DEF Sound, Seen
    <3>4. \A u \in Inside : Phase(pc[u]) = "entering" /\ u \notin counted
      BY <2>1, <3>2, <3>3, UnsureEnter
    <3>5. counted' = (counted \union Inside) \ {t}
      BY <2>1, <3>1, <3>2
    <3>6. \A u \in {t} : Phase(pc[u]) = "leaving" /\ u \in counted
      BY <2>1, <3>1
    <3>7. Inside \in SUBSET Threads /\ {t} \in SUBSET Threads
      BY <1>1
    <3>. QED
      BY <2>1, <3>4, <3>5, <3>6, <3>7, EffectSeen
  <2>. QED
    BY <2>2, <2>3
<1>12. CASE ClearState(t)
  <2>1. Phases' = Phases /\ Phase(pc[t]) = "leaving"
    BY <1>1, <1>12, SamePhase DEF ClearState, Phase
  <2>2. CASE state # i[t]
    BY <1>12, <2>1, <2>2, StutterSeen DEF ClearState
  <2>3. CASE state = i[t]
    <3>1. counted' = (counted \union {}) \ counted
      BY <1>12, <2>3 DEF ClearState
    <3>2. counted \subseteq {t}
      BY <1>2, <1>12, <2>3 DEF Sound, ClearIsLate, ClearState
    <3>3. \A u \in counted : Phase(pc[u]) = "leaving" /\ u \in counted
      BY <2>1, <3>2
    <3>4. counted \in SUBSET Threads /\ {} \in SUBSET Threads
      BY <1>1
    <3>. QED
      BY <2>1, <3>1, <3>3, <3>4, EffectSeen
  <2>. QED
    BY <2>2, <2>3
<1>13. CASE DecReturn(t)
  <2>1. t \notin counted
    BY <1>3, <1>13 DEF DecReturn, Closing, Inside
  <2>. QED
    BY <1>1, <1>13, <2>1, MoveSeen DEF DecReturn, Phase, Labels
<1>. QED
  BY <1>4, <1>5, <1>6, <1>7, <1>8, <1>9, <1>10, <1>11, <1>12, <1>13 DEF Run

\* Arrivals and departures of snzi_inc and snzi_dec each take effect at one
\* moment, and snzi_query says at every moment whether someone is counted in,
\* within the widths of the two words.
THEOREM SNZIRefines == Spec /\ []WithinWidths => ImplementsIndicator
<1>1. Init => Abstract!Init
  BY DEF Init, Abstract!Init, Phase, Query
<1>2. ASSUME Inv, Inv', [Next]_vars
      PROVE  [Abstract!Next]_(Abstract!vars)
  <2>1. CASE UNCHANGED vars
    <3>1. Phases' = Phases
      BY <2>1 DEF vars, Phases
    <3>. QED
      BY <2>1, <3>1 DEF vars, Abstract!vars, Query, Phases
  <2>2. ASSUME NEW t \in Threads, Inc(t) \/ Run(t)
        PROVE  [Abstract!Next]_(Abstract!vars)
    BY <1>2, <2>2, StepImplements
  <2>. QED
    BY <1>2, <2>1, <2>2 DEF Next, Finished
<1>. QED
  BY <1>1, <1>2, InvHolds, PTL DEF Spec, ImplementsIndicator, Abstract!Spec
=============================================================================
