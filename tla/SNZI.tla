-------------------------------- MODULE SNZI --------------------------------
(***************************************************************************)
(* The scalable non-zero indicator of backends/common/thread.c, with which *)
(* the readers of 10.2-RHTMS announce themselves: snzi_inc, snzi_dec and   *)
(* snzi_query.  Its root holds a word var (a count c, an announce bit a,   *)
(* and a version v of 16 bits) and a word state (an indicator bit over a   *)
(* counter of 31 bits); a thread's own leaf forwards its arrival and its   *)
(* departure.  Every load and every compare-and-swap of a shared word is   *)
(* one action; a leaf is its thread's alone, so its two words of an        *)
(* arrival or a departure are part of the first and the last of them.      *)
(*                                                                         *)
(* An operator named Bug... is a broken form of the one below it; nothing  *)
(* uses it.                                                                *)
(***************************************************************************)
EXTENDS Integers, FiniteSets

CONSTANTS
  N,           \* threads, each with a leaf
  VersionMod,  \* values of v: 2^16
  CountMax,    \* the largest value of state's counter: 2^31 - 1
  Past,        \* times the indicator has been raised and lowered before
  MaxOps       \* bound: arrivals per thread

ASSUME ConstantsAssumption ==
  /\ N \in Nat /\ N >= 1
  /\ VersionMod \in Nat /\ VersionMod >= 1
  /\ CountMax \in Nat /\ CountMax >= 1
  /\ Past \in Nat /\ 2 * Past <= CountMax
  /\ MaxOps \in Nat

Threads == 1..N

VARIABLES
  pc,       \* where each thread is
  x, i,     \* its copies of var and of state
  leaf,     \* its leaf's count: -1 while the arrival is under way
  var,      \* the root: [c, a, v]
  state,    \* the root: [busy, count]
  done,     \* departures it has completed
  counted,  \* history: the threads whose arrival counts
  overtaken \* history: versions announced since a thread's departure closed one

vars == <<pc, x, i, leaf, var, state, done, counted, overtaken>>

NoVar == [c |-> 0, a |-> FALSE, v |-> 0]      \* a local that is not in use
NoState == [busy |-> FALSE, count |-> 0]
Forget(t) == /\ x' = [x EXCEPT ![t] = NoVar] /\ i' = [i EXCEPT ![t] = NoState]
             /\ overtaken' = [overtaken EXCEPT ![t] = 0]

Init ==
  /\ pc = [t \in Threads |-> "idle"]
  /\ leaf = [t \in Threads |-> 0]
  /\ var = [c |-> 0, a |-> FALSE, v |-> Past % VersionMod]
  /\ state = [busy |-> FALSE, count |-> 2 * Past]
  /\ x = [t \in Threads |-> NoVar]
  /\ i = [t \in Threads |-> NoState]
  /\ done = [t \in Threads |-> 0]
  /\ counted = {}
  /\ overtaken = [t \in Threads |-> 0]

Goto(t, l) == pc' = [pc EXCEPT ![t] = l]

\* The threads whose arrival var's count includes
Inside == {t \in Threads : pc[t] \in {"a_state", "a_set", "a_announce", "a_leaf",
                                      "in", "d_read", "d_cas"}}

\* A thread that was the last of a version is about to clear state.
Closing(t) == pc[t] \in {"d_state", "d_version", "d_clear"}
\* The arrival announces a new version past the threads that close one.
Overtake(a) == overtaken' = [u \in Threads |-> overtaken[u] + IF a.c = 0 /\ Closing(u) THEN 1 ELSE 0]

----------------------------------------------------------------------------
(* snzi_inc *)

\* The leaf goes from 0 to -1.
Inc(t) ==
  /\ pc[t] = "idle" /\ done[t] < MaxOps
  /\ leaf' = [leaf EXCEPT ![t] = -1]
  /\ Goto(t, "a_read")
  /\ UNCHANGED <<x, i, var, state, done, counted, overtaken>>

\* Either loop's load of var
ReadVar(t) ==
  /\ pc[t] \in {"a_read", "d_read"}
  /\ x' = [x EXCEPT ![t] = var]
  /\ Goto(t, IF pc[t] = "a_read" THEN "a_cas" ELSE "d_cas")
  /\ UNCHANGED <<i, leaf, var, state, done, counted, overtaken>>

\* var once an arrival has counted on a: the first one announces a new version.
Arrived(a) == IF a.c = 0 THEN [c |-> 1, a |-> TRUE, v |-> (a.v + 1) % VersionMod]
              ELSE [a EXCEPT !.c = @ + 1]

BugCasArrive(t) ==     \* a load and a store
  /\ pc[t] = "a_cas"
  /\ var' = Arrived(x[t]) /\ x' = [x EXCEPT ![t] = var']
  /\ Goto(t, IF var'.a THEN "a_state" ELSE "a_leaf")
  /\ Overtake(x[t]) /\ UNCHANGED <<i, leaf, state, done, counted>>
CasArrive(t) ==
  /\ pc[t] = "a_cas"
  /\ IF var = x[t]
     THEN /\ var' = Arrived(x[t])
          /\ x' = [x EXCEPT ![t] = var']
          /\ counted' = IF counted \intersect Inside = {} THEN counted
                        ELSE counted \union {t}
          /\ Overtake(x[t])
          /\ Goto(t, IF var'.a THEN "a_state" ELSE "a_leaf")
     ELSE /\ Goto(t, "a_read")
          /\ UNCHANGED <<x, var, counted, overtaken>>
  /\ UNCHANGED <<i, leaf, state, done>>

BugReadState(t) ==     \* the load is hoisted out of the loop
  /\ pc[t] \in {"a_state", "d_state"}
  /\ i' = IF i[t] = NoState THEN [i EXCEPT ![t] = state] ELSE i
  /\ Goto(t, IF pc[t] = "a_state" THEN "a_set" ELSE "d_version")
  /\ UNCHANGED <<x, leaf, var, state, done, counted, overtaken>>
\* Either loop's load of state
ReadState(t) ==
  /\ pc[t] \in {"a_state", "d_state"}
  /\ i' = [i EXCEPT ![t] = state]
  /\ Goto(t, IF pc[t] = "a_state" THEN "a_set" ELSE "d_version")
  /\ UNCHANGED <<x, leaf, var, state, done, counted, overtaken>>

\* state's counter takes its bits 0-30 plus one; an arrival then sets bit 31,
\* which a departure leaves clear unless the addition carries into it.
BugRaised(s) == [s EXCEPT !.busy = TRUE]
Raised(s) == [busy |-> TRUE, count |-> IF s.count = CountMax THEN 0 ELSE s.count + 1]
Lowered(s) == IF s.count = CountMax THEN [busy |-> TRUE, count |-> 0]
              ELSE [busy |-> FALSE, count |-> s.count + 1]

SetState(t) ==
  /\ pc[t] = "a_set"
  /\ IF state = i[t]
     THEN /\ state' = Raised(i[t])
          /\ counted' = Inside
          /\ Goto(t, "a_announce")
     ELSE /\ Goto(t, "a_state")
          /\ UNCHANGED <<state, counted>>
  /\ UNCHANGED <<x, i, leaf, var, done, overtaken>>

\* The compare-and-swap that ends root_arrive expects the announce bit clear
\* and sets it.
Announce(t) ==
  /\ pc[t] = "a_announce"
  /\ var' = IF var = [x[t] EXCEPT !.a = FALSE] THEN x[t] ELSE var
  /\ Goto(t, "a_leaf")
  /\ UNCHANGED <<x, i, leaf, state, done, counted, overtaken>>

\* The leaf goes from -1 to 1, and snzi_inc returns.
IncReturn(t) ==
  /\ pc[t] = "a_leaf"
  /\ leaf' = [leaf EXCEPT ![t] = 1]
  /\ Goto(t, "in")
  /\ Forget(t)
  /\ UNCHANGED <<var, state, done, counted>>

----------------------------------------------------------------------------
(* snzi_dec *)

\* The leaf goes from 1 to 0.
Dec(t) ==
  /\ pc[t] = "in"
  /\ leaf' = [leaf EXCEPT ![t] = @ - 1]
  /\ Goto(t, IF leaf[t] = 1 THEN "d_read" ELSE "d_done")
  /\ UNCHANGED <<x, i, var, state, done, counted, overtaken>>

BugLast(a) == a.c < 1
Last(a) == a.c < 2

CasDepart(t) ==
  /\ pc[t] = "d_cas"
  /\ IF var = x[t]
     THEN /\ var' = [x[t] EXCEPT !.c = @ - 1, !.a = FALSE]
          /\ counted' = IF Inside = {t} THEN {t} ELSE Inside \ {t}
          /\ Goto(t, IF Last(x[t]) THEN "d_state" ELSE "d_done")
     ELSE /\ Goto(t, "d_read")
          /\ UNCHANGED <<var, counted>>
  /\ UNCHANGED <<x, i, leaf, state, done, overtaken>>

BugCheckVersion(t) ==
  /\ pc[t] = "d_version"
  /\ Goto(t, "d_clear")
  /\ UNCHANGED <<x, i, leaf, var, state, done, counted, overtaken>>
\* Someone has arrived since: state is theirs.
CheckVersion(t) ==
  /\ pc[t] = "d_version"
  /\ IF var.v # x[t].v
     THEN /\ Goto(t, "d_done")
          /\ counted' = IF t \in counted THEN Inside ELSE counted
     ELSE Goto(t, "d_clear") /\ UNCHANGED counted
  /\ UNCHANGED <<x, i, leaf, var, state, done, overtaken>>

ClearState(t) ==
  /\ pc[t] = "d_clear"
  /\ IF state = i[t]
     THEN /\ state' = Lowered(i[t])
          /\ counted' = {}
          /\ Goto(t, "d_done")
     ELSE /\ Goto(t, "d_state")
          /\ UNCHANGED <<state, counted>>
  /\ UNCHANGED <<x, i, leaf, var, done, overtaken>>

DecReturn(t) ==
  /\ pc[t] = "d_done"
  /\ done' = [done EXCEPT ![t] = @ + 1]
  /\ Goto(t, "idle")
  /\ Forget(t)
  /\ UNCHANGED <<leaf, var, state, counted>>

----------------------------------------------------------------------------
Run(t) ==
  \/ ReadVar(t) \/ CasArrive(t) \/ ReadState(t) \/ SetState(t) \/ Announce(t)
  \/ IncReturn(t) \/ Dec(t) \/ CasDepart(t) \/ CheckVersion(t) \/ ClearState(t)
  \/ DecReturn(t)

Finished ==
  /\ \A t \in Threads : pc[t] = "idle" /\ done[t] = MaxOps
  /\ UNCHANGED vars

Next == (\E t \in Threads : Inc(t) \/ Run(t)) \/ Finished

Spec == Init /\ [][Next]_vars

\* The operating system runs every thread, and a reader's section ends.
FairSpec == Spec /\ \A t \in Threads : WF_vars(Run(t))

----------------------------------------------------------------------------
(* Properties. *)

Labels == {"idle", "a_read", "a_cas", "a_state", "a_set", "a_announce", "a_leaf",
           "in", "d_read", "d_cas", "d_state", "d_version", "d_clear", "d_done"}
Vars == [c : 0..N, a : BOOLEAN, v : 0..VersionMod - 1]
States == [busy : BOOLEAN, count : 0..CountMax]

\* snzi_query: bit 31 of state
Query == state.busy

\* Every variable keeps its type, and var counts exactly those inside: no
\* arrival or departure is counted twice or lost, whatever retries.
TypeOK ==
  /\ pc \in [Threads -> Labels]
  /\ x \in [Threads -> Vars] /\ i \in [Threads -> States]
  /\ leaf \in [Threads -> -1..1]
  /\ var \in Vars /\ state \in States
  /\ done \in [Threads -> 0..MaxOps]
  /\ counted \subseteq Threads /\ overtaken \in [Threads -> Nat]
  /\ var.c = Cardinality(Inside)

\* A reader between the return of snzi_inc and the call of snzi_dec is seen by
\* every query, whoever arrives or departs at the time: no departure that was
\* the last of its version clears the indicator under a later arrival.
PresentIsSeen == \A t \in Threads : pc[t] = "in" => Query

\* With no one inside or on the way, a query says so: writers, who abort or
\* wait on the answer, can go on.
QuietIsClear == (\A t \in Threads : pc[t] = "idle") => ~Query

\* Every snzi_inc and snzi_dec returns, although each may have to retry.
CallsEnd == \A t \in Threads : pc[t] # "idle" ~> pc[t] = "idle"

Phase(l) == IF l = "idle" THEN "out" ELSE IF l = "in" THEN "in"
            ELSE IF l \in {"a_read", "a_cas", "a_state", "a_set", "a_announce", "a_leaf"}
            THEN "entering" ELSE "leaving"

Abstract == INSTANCE Indicator
              WITH phase <- [t \in Threads |-> Phase(pc[t])], busy <- Query
\* Arrivals and departures each take effect at one moment, and the query says
\* at every moment whether someone is counted in.
ImplementsIndicator == Abstract!Spec
=============================================================================
