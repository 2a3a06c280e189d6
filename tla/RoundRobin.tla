----------------------------- MODULE RoundRobin -----------------------------
(***************************************************************************)
(* loadbalancer.RoundRobin.Next called by concurrent request handlers on   *)
(* one service, while the health probers flip the backends.                *)
(*                                                                         *)
(* The shared index is one atomic counter of IndexSize values (2^64 in the *)
(* code).  The Add of a handler and the Load of the backend's health flag  *)
(* are two atomic operations, so they are two steps.  Validate demands an  *)
(* upstream for every service, so the early return of nil for no backends  *)
(* is not modelled: N is positive.                                         *)
(***************************************************************************)
EXTENDS Naturals

CONSTANTS Handlers,    \* concurrent callers of Next
          N,           \* len(backends)
          IndexSize,   \* the counter wraps at this value
          Probing      \* health may change while the service runs

ASSUME RoundRobinAssumption ==
    N \in Nat \ {0} /\ IndexSize \in Nat \ {0} /\ Probing \in BOOLEAN

VARIABLES index,       \* RoundRobin.index
          healthy,     \* Backend.healthy, per backend
          at,          \* where a handler is: "idle", "add", "load", "done"
          tries,       \* its loop variable i
          picked,      \* its idx
          chosen,      \* what Next returned: a backend or Nil
          steady       \* history: backends healthy since its call began

rrVars == <<index, healthy, at, tries, picked, chosen, steady>>

Backends == 0 .. N - 1
Nil      == N

HealthyNow == {b \in Backends : healthy[b]}

\* The types; idx is always the index of a backend.
RRTypeOK ==
    /\ index \in 0 .. IndexSize - 1
    /\ healthy \in [Backends -> BOOLEAN]
    /\ at \in [Handlers -> {"idle", "add", "load", "done"}]
    /\ tries \in [Handlers -> 0 .. N]
    /\ picked \in [Handlers -> Backends]
    /\ chosen \in [Handlers -> Backends \cup {Nil}]
    /\ steady \in [Handlers -> SUBSET Backends]

\* A service in use: any counter value, any health.
RRInit ==
    /\ index \in 0 .. IndexSize - 1
    /\ healthy \in [Backends -> BOOLEAN]
    /\ at = [h \in Handlers |-> "idle"]
    /\ tries = [h \in Handlers |-> 0]
    /\ picked = [h \in Handlers |-> 0]
    /\ chosen = [h \in Handlers |-> Nil]
    /\ steady = [h \in Handlers |-> {}]

Call(h) ==
    /\ at[h] \in {"idle", "done"}
    /\ at' = [at EXCEPT ![h] = "add"]
    /\ tries' = [tries EXCEPT ![h] = 0]
    /\ steady' = [steady EXCEPT ![h] = HealthyNow]
    /\ UNCHANGED <<index, healthy, picked, chosen>>

\* Fault: the counter itself is the index.
AddWithoutModulo(h) ==
    /\ at[h] = "add"
    /\ index' = (index + 1) % IndexSize
    /\ picked' = [picked EXCEPT ![h] = index']
    /\ at' = [at EXCEPT ![h] = "load"]
    /\ UNCHANGED <<healthy, tries, chosen, steady>>

\* idx := r.index.Add(1) % uint64(len(r.backends))
Add(h) ==
    /\ at[h] = "add"
    /\ index' = (index + 1) % IndexSize
    /\ picked' = [picked EXCEPT ![h] = index' % N]
    /\ at' = [at EXCEPT ![h] = "load"]
    /\ UNCHANGED <<healthy, tries, chosen, steady>>

\* backend.IsHealthy() is true: return it.
Take(h) ==
    /\ at[h] = "load" /\ healthy[picked[h]]
    /\ chosen' = [chosen EXCEPT ![h] = picked[h]]
    /\ at' = [at EXCEPT ![h] = "done"]
    /\ UNCHANGED <<index, healthy, tries, picked, steady>>

\* Fault: the loop stops one backend short.
SkipOneShort(h) ==
    /\ at[h] = "load" /\ ~healthy[picked[h]]
    /\ tries' = [tries EXCEPT ![h] = @ + 1]
    /\ at' = [at EXCEPT ![h] = IF tries'[h] < N - 1 THEN "add" ELSE "done"]
    /\ chosen' = [chosen EXCEPT ![h] = IF tries'[h] < N - 1 THEN @ ELSE Nil]
    /\ UNCHANGED <<index, healthy, picked, steady>>

\* Fault: the loop is not bounded.
SkipForever(h) ==
    /\ at[h] = "load" /\ ~healthy[picked[h]]
    /\ at' = [at EXCEPT ![h] = "add"]
    /\ UNCHANGED <<index, healthy, tries, picked, chosen, steady>>

\* Skip it; after len(backends) tries return nil.
Skip(h) ==
    /\ at[h] = "load" /\ ~healthy[picked[h]]
    /\ tries' = [tries EXCEPT ![h] = @ + 1]
    /\ \/ /\ tries'[h] < N
          /\ at' = [at EXCEPT ![h] = "add"]
          /\ chosen' = chosen
       \/ /\ tries'[h] = N
          /\ at' = [at EXCEPT ![h] = "done"]
          /\ chosen' = [chosen EXCEPT ![h] = Nil]
    /\ UNCHANGED <<index, healthy, picked, steady>>

\* A prober calls Backend.SetHealthy(val).
SetHealthy(b, val) ==
    /\ Probing
    /\ healthy' = [healthy EXCEPT ![b] = val]
    /\ steady' = [h \in Handlers |-> {d \in steady[h] : healthy'[d]}]
    /\ UNCHANGED <<index, at, tries, picked, chosen>>

NextStep(h) == Add(h) \/ Take(h) \/ Skip(h)

RRNext ==
    \/ \E h \in Handlers : Call(h) \/ NextStep(h)
    \/ \E b \in Backends, val \in BOOLEAN : SetHealthy(b, val)

RRSpec == RRInit /\ [][RRNext]_rrVars

-----------------------------------------------------------------------------
\* Next returns nil only if every backend was seen unhealthy at some time
\* during the call: a backend that stayed healthy throughout is found.
NilMeansNoneHealthy ==
    \A h \in Handlers : at[h] = "done" /\ chosen[h] = Nil => steady[h] = {}
=============================================================================
