---------------------------- MODULE ProberProofs ----------------------------
(***************************************************************************)
(* Theorems about Prober, for every number of generations, upstreams and   *)
(* incarnations and every set of backends that may fail.                   *)
(***************************************************************************)
EXTENDS Prober, FiniteSetTheorems, TLAPS

(***************************************************************************)
(* The inductive invariant.                                                *)
(***************************************************************************)
SameProber(v, w) == v[1] = w[1] /\ v[2] = w[2]

\* The incarnations of a prober follow one another: when a worker exists,
\* the ones before it have handed over.
ChainInv ==
    \A v, w \in Workers :
        SameProber(v, w) /\ w[3] < v[3] /\ at[v] # "unborn"
            => at[w] \in {"replaced", "gone"}

\* Workers belong to backends that are built, and one that recovers has an
\* incarnation left to start.
BornInv ==
    \A w \in Workers :
        /\ at[w] # "unborn" => w[2] <= built[w[1]]
        /\ at[w] \in Recovering => w[3] < Incarnations

\* A backend of a runtime that is not cancelled has a worker that probes it
\* or is about to be restarted.
Attended ==
    \A g \in Gens \ cancelled, b \in Backends : b <= built[g] =>
        \E i \in 1 .. Incarnations : at[<<g, b, i>>] \in Running \cup Recovering

TypeInv == ProberTypeOK /\ built \in [Gens -> Nat]

ProberInv ==
    /\ TypeInv /\ ChainInv /\ BornInv /\ Attended
    /\ WorkersCounted
    /\ retired \subseteq cancelled /\ RetiredIsQuiet

-----------------------------------------------------------------------------
(***************************************************************************)
(* Workers and their number.                                               *)
(***************************************************************************)
LEMMA BackendsFinite == IsFiniteSet(Gens) /\ IsFiniteSet(Backends) /\ Backends \subseteq Nat \ {0}
<1>1. IsFiniteSet(Gens)
  BY ProberAssumption, FS_Interval DEF Gens
<1>2. \A g \in Gens : Upstreams[g] \in Nat
  BY ProberAssumption DEF Gens
<1>3. \A g \in Gens : IsFiniteSet(1 .. Upstreams[g])
  BY <1>2, FS_Interval
<1>. DEFINE F == {1 .. Upstreams[g] : g \in Gens}
<1>4. IsFiniteSet(F)
  <2>. DEFINE f == [g \in Gens |-> 1 .. Upstreams[g]]
  <2>1. f \in Surjection(Gens, F)
    BY DEF Surjection
  <2>. QED
    BY <1>1, <2>1, FS_Surjection
<1>5. IsFiniteSet(UNION F)
  BY <1>3, <1>4, FS_UNION
<1>. QED
  BY <1>1, <1>2, <1>5 DEF Backends


LEMMA WorkersFinite == IsFiniteSet(Workers)
<1>1. IsFiniteSet(1 .. Incarnations)
  BY ProberAssumption, FS_Interval
<1>. DEFINE P == Gens \X (Backends \X (1 .. Incarnations))
<1>2. IsFiniteSet(P)
  BY <1>1, BackendsFinite, FS_Product
<1>3. [p \in P |-> <<p[1], p[2][1], p[2][2]>>] \in Surjection(P, Workers)
  <2>. DEFINE f == [p \in P |-> <<p[1], p[2][1], p[2][2]>>]
  <2>1. f \in [P -> Workers]
    BY DEF Workers
  <2>2. ASSUME NEW w \in Workers PROVE \E p \in P : f[p] = w
    <3>. DEFINE q == <<w[1], <<w[2], w[3]>>>>
    <3>1. q \in P /\ w = <<w[1], w[2], w[3]>>
      BY DEF Workers
    <3>. QED
      BY <3>1
  <2>. QED
    BY <2>1, <2>2 DEF Surjection
<1>. QED
  BY <1>2, <1>3, FS_Surjection

LEMMA AliveFinite ==
    ASSUME NEW g, NEW S, S = AliveOf(g)
    PROVE  IsFiniteSet(S) /\ Cardinality(S) \in Nat
<1>1. S \subseteq Workers
  BY DEF AliveOf
<1>2. IsFiniteSet(S)
  BY <1>1, WorkersFinite, FS_Subset
<1>. QED
  BY <1>2, FS_CardinalityType

\* A worker is its generation, its backend and the number of its incarnation.
LEMMA WorkerParts ==
    ASSUME NEW w \in Workers
    PROVE  /\ w = <<w[1], w[2], w[3]>>
           /\ w[1] \in Gens /\ w[2] \in Backends /\ w[3] \in 1 .. Incarnations
           /\ w[1] \in Nat /\ w[2] \in Nat /\ w[3] \in Nat /\ w[3] > 0
           /\ <<w[1], w[2]>> \in Gens \X Backends
<1>1. w = <<w[1], w[2], w[3]>> /\ w[1] \in Gens /\ w[2] \in Backends /\ w[3] \in 1 .. Incarnations
  BY DEF Workers
<1>2. w[1] \in Nat /\ w[2] \in Nat
  BY <1>1, ProberAssumption, BackendsFinite DEF Gens
<1>3. w[3] \in Nat /\ w[3] > 0
  BY <1>1, ProberAssumption
<1>. QED
  BY <1>1, <1>2, <1>3

LEMMA SuccessorIsWorker ==
    ASSUME NEW w \in Workers, w[3] < Incarnations
    PROVE  Successor(w) \in Workers /\ Successor(w) # w
BY WorkerParts, ProberAssumption DEF Workers, Successor

LEMMA NewWorker ==
    ASSUME TypeInv, ~Complete(latest)
    PROVE  /\ built[latest] + 1 \in Backends
           /\ <<latest, built[latest] + 1, 1>> \in Workers
           /\ built[latest] + 1 \in 0 .. Upstreams[latest]
<1>1. latest \in Gens /\ Upstreams[latest] \in Nat
  BY ProberAssumption DEF TypeInv, ProberTypeOK, Gens
<1>2. built[latest] \in 0 .. Upstreams[latest] /\ built[latest] # Upstreams[latest]
  BY <1>1 DEF TypeInv, ProberTypeOK, Complete
<1>3. built[latest] + 1 \in 1 .. Upstreams[latest]
  BY <1>1, <1>2
<1>. QED
  BY <1>1, <1>3, ProberAssumption DEF Backends, Workers

-----------------------------------------------------------------------------
(***************************************************************************)
(* How the steps change who is alive.  The actions of the model fall into  *)
(* five classes: those that leave the workers alone, BuildBackend, a       *)
(* worker's moves while it probes or recovers, its end, and Restart.       *)
(***************************************************************************)
Busy == Running \cup Recovering

Advances(w, to) ==
    /\ at[w] \in Busy /\ to \in Busy /\ at' = [at EXCEPT ![w] = to]
    /\ to \in Recovering => w[3] < Incarnations
    /\ UNCHANGED <<buildVars, workerWG>>

LEMMA SameAlive ==
    ASSUME NEW g, \A v \in Workers : Alive(v)' = Alive(v)
    PROVE  AliveOf(g)' = AliveOf(g)
BY DEF AliveOf

LEMMA AdvanceAlive ==
    ASSUME TypeInv, NEW w \in Workers, NEW to, Advances(w, to)
    PROVE  \A v \in Workers : Alive(v)' = Alive(v)
BY DEF TypeInv, ProberTypeOK, Advances, Alive, Busy, Running, Recovering

LEMMA DoneAlive ==
    ASSUME TypeInv, NEW w \in Workers, Alive(w), DoneWorker(w), NEW g \in Gens
    PROVE  AliveOf(g)' = AliveOf(g) \ {w}
<1>1. \A v \in Workers \ {w} : Alive(v)' = Alive(v)
  BY DEF TypeInv, ProberTypeOK, DoneWorker, Alive
<1>2. ~Alive(w)'
  BY DEF TypeInv, ProberTypeOK, DoneWorker, Alive
<1>. QED
  BY <1>1, <1>2 DEF AliveOf

\* When a worker recovers, its successor has not been started.
LEMMA SuccessorUnborn ==
    ASSUME TypeInv, ChainInv, BornInv, NEW w \in Workers, at[w] \in Busy,
           w[3] < Incarnations
    PROVE  at[Successor(w)] = "unborn"
<1>1. Successor(w) \in Workers
  BY SuccessorIsWorker
<1>2. SameProber(Successor(w), w) /\ w[3] < Successor(w)[3]
  <2>1. w[3] \in Nat
    BY WorkerParts
  <2>. QED
    BY <2>1 DEF SameProber, Successor
<1>. QED
  BY <1>1, <1>2 DEF ChainInv, Busy, Running, Recovering

LEMMA RestartAlive ==
    ASSUME TypeInv, ChainInv, BornInv, NEW w \in Workers, Restart(w), NEW g \in Gens
    PROVE  /\ w[3] < Incarnations /\ Successor(w) \in Workers /\ Successor(w) # w
           /\ at[Successor(w)] = "unborn"
           /\ AliveOf(g)' = IF g = w[1] THEN AliveOf(g) \cup {Successor(w)} ELSE AliveOf(g)
<1>1. w[3] < Incarnations /\ at[w] \in Busy
  BY DEF BornInv, Restart, Recovering, Busy
<1>2. Successor(w) \in Workers /\ Successor(w) # w /\ at[Successor(w)] = "unborn"
  BY <1>1, SuccessorIsWorker, SuccessorUnborn
<1>. DEFINE s == Successor(w)
<1>3. s \in Workers /\ s # w /\ at[s] = "unborn"
  BY <1>2
<1>4. at' = [at EXCEPT ![w] = "replaced", ![s] = "select"] /\ at[w] = "restart"
  BY DEF Restart
<1>5. s[1] = w[1]
  BY DEF Successor
<1>. HIDE DEF s
<1>6. \A v \in Workers \ {s} : Alive(v)' = Alive(v)
  BY <1>3, <1>4 DEF TypeInv, ProberTypeOK, Alive
<1>7. Alive(s)'
  BY <1>3, <1>4 DEF TypeInv, ProberTypeOK, Alive
<1>8. AliveOf(g)' = IF g = w[1] THEN AliveOf(g) \cup {s} ELSE AliveOf(g)
  BY <1>3, <1>5, <1>6, <1>7 DEF AliveOf
<1>. QED
  BY <1>1, <1>3, <1>8 DEF s

LEMMA BuildAlive ==
    ASSUME TypeInv, BornInv, BuildBackend, NEW g \in Gens
    PROVE  LET w == <<latest, built[latest] + 1, 1>> IN
           /\ at[w] = "unborn" /\ ~Alive(w)
           /\ AliveOf(g)' = IF g = latest THEN AliveOf(g) \cup {w} ELSE AliveOf(g)
<1>1. PICK w \in Workers : w = <<latest, built[latest] + 1, 1>>
  BY NewWorker DEF BuildBackend
<1>2. w[1] = latest /\ w[2] = built[latest] + 1 /\ built[latest] \in Nat
  BY <1>1 DEF TypeInv, ProberTypeOK
<1>3. at' = [at EXCEPT ![w] = "select"]
  BY <1>1 DEF BuildBackend
<1>4. at[w] = "unborn" /\ ~Alive(w)
  BY <1>2 DEF BornInv, Alive
<1>5. \A v \in Workers \ {w} : Alive(v)' = Alive(v)
  BY <1>3 DEF TypeInv, ProberTypeOK, Alive
<1>6. Alive(w)'
  BY <1>3 DEF TypeInv, ProberTypeOK, Alive
<1>7. AliveOf(g)' = IF g = latest THEN AliveOf(g) \cup {w} ELSE AliveOf(g)
  BY <1>2, <1>5, <1>6 DEF AliveOf
<1>. QED
  BY <1>1, <1>4, <1>7

-----------------------------------------------------------------------------
(***************************************************************************)
(* The incarnations of a prober.                                           *)
(***************************************************************************)
ControlInv == ChainInv /\ BornInv /\ Attended

LEMMA ControlAdvance ==
    ASSUME TypeInv, ControlInv, NEW w \in Workers, NEW to, Advances(w, to)
    PROVE  ControlInv'
<1>. USE DEF Busy, Running, Recovering
<1>1. /\ at \in [Workers -> Places] /\ at' = [at EXCEPT ![w] = to]
      /\ at[w] \in Busy /\ to \in Busy /\ UNCHANGED <<built, cancelled>>
  BY DEF TypeInv, ProberTypeOK, Advances, buildVars
<1>2. ChainInv'
  BY <1>1 DEF ControlInv, ChainInv
<1>3. BornInv'
  BY <1>1 DEF ControlInv, BornInv, Advances
<1>4. Attended'
  <2>. SUFFICES ASSUME NEW g \in Gens \ cancelled, NEW b \in Backends, b <= built[g]
                PROVE  \E i \in 1 .. Incarnations : at'[<<g, b, i>>] \in Busy
    BY <1>1 DEF Attended
  <2>1. PICK i \in 1 .. Incarnations : at[<<g, b, i>>] \in Busy
    BY DEF ControlInv, Attended
  <2>2. <<g, b, i>> \in Workers
    BY DEF Workers
  <2>3. at'[<<g, b, i>>] \in Busy
    BY <1>1, <2>1, <2>2
  <2>. QED
    BY <2>3
<1>. QED
  BY <1>2, <1>3, <1>4 DEF ControlInv

\* A worker ends when its runtime is cancelled, or when it has been replaced.
LEMMA ControlDone ==
    ASSUME TypeInv, ControlInv, NEW w \in Workers, DoneWorker(w), Alive(w),
           w[1] \in cancelled \/ at[w] = "replaced"
    PROVE  ControlInv'
<1>. USE DEF Busy, Running, Recovering
<1>1. /\ at \in [Workers -> Places] /\ at' = [at EXCEPT ![w] = "gone"]
      /\ at[w] # "unborn" /\ UNCHANGED <<built, cancelled>>
  BY DEF TypeInv, ProberTypeOK, DoneWorker, buildVars, Alive
<1>2. ChainInv'
  BY <1>1 DEF ControlInv, ChainInv
<1>3. BornInv'
  BY <1>1 DEF ControlInv, BornInv
<1>4. Attended'
  <2>. SUFFICES ASSUME NEW g \in Gens \ cancelled, NEW b \in Backends, b <= built[g]
                PROVE  \E i \in 1 .. Incarnations : at'[<<g, b, i>>] \in Busy
    BY <1>1 DEF Attended
  <2>1. PICK i \in 1 .. Incarnations : at[<<g, b, i>>] \in Busy
    BY DEF ControlInv, Attended
  <2>2. <<g, b, i>> \in Workers /\ <<g, b, i>> # w
    BY <2>1 DEF Workers
  <2>3. at'[<<g, b, i>>] \in Busy
    BY <1>1, <2>1, <2>2
  <2>. QED
    BY <2>3
<1>. QED
  BY <1>2, <1>3, <1>4 DEF ControlInv

\* Restart hands the backend over to the next incarnation.
LEMMA ControlRestart ==
    ASSUME TypeInv, ControlInv, NEW w \in Workers, Restart(w)
    PROVE  ControlInv'
<1>. USE DEF Busy, Running, Recovering
<1>1. PICK s \in Workers : s = Successor(w) /\ s # w /\ at[s] = "unborn" /\ w[3] < Incarnations
  BY RestartAlive, WorkerParts DEF ControlInv
<1>2. /\ at \in [Workers -> Places] /\ at[w] = "restart"
      /\ at' = [at EXCEPT ![w] = "replaced", ![s] = "select"] /\ UNCHANGED <<built, cancelled>>
  BY <1>1 DEF TypeInv, ProberTypeOK, Restart, buildVars
<1>3. SameProber(s, w) /\ s[3] = w[3] + 1
  BY <1>1 DEF Successor, SameProber
<1>4. \A v \in Workers : v[3] \in Nat
  BY WorkerParts
<1>5. ChainInv'
  <2>. SUFFICES ASSUME NEW v \in Workers, NEW u \in Workers, SameProber(v, u),
                       u[3] < v[3], at'[v] # "unborn"
                PROVE  at'[u] \in {"replaced", "gone"}
    BY DEF ChainInv, SameProber
  <2>1. CASE v # s
    <3>1. at[v] # "unborn"
      BY <1>2, <2>1
    <3>2. at[u] \in {"replaced", "gone"} /\ u # s
      BY <1>1, <3>1 DEF ControlInv, ChainInv
    <3>. QED
      BY <1>2, <3>2
  <2>2. CASE v = s /\ u[3] < w[3]
    <3>1. at[u] \in {"replaced", "gone"} /\ u # s
      BY <1>1, <1>2, <1>3, <2>2 DEF ControlInv, ChainInv, SameProber
    <3>. QED
      BY <1>2, <3>1
  <2>3. CASE v = s /\ ~(u[3] < w[3])
    <3>1. u[3] = w[3]
      BY <1>3, <1>4, <2>3
    <3>2. u = w
      BY <1>3, <2>3, <3>1, WorkerParts DEF SameProber
    <3>. QED
      BY <1>1, <1>2, <3>2
  <2>. QED
    BY <2>1, <2>2, <2>3
<1>6. BornInv'
  BY <1>1, <1>2, <1>3 DEF ControlInv, BornInv, SameProber
<1>7. Attended'
  <2>. SUFFICES ASSUME NEW g \in Gens \ cancelled, NEW b \in Backends, b <= built[g]
                PROVE  \E i \in 1 .. Incarnations : at'[<<g, b, i>>] \in Busy
    BY <1>2 DEF Attended
  <2>1. PICK i \in 1 .. Incarnations : at[<<g, b, i>>] \in Busy
    BY DEF ControlInv, Attended
  <2>2. <<g, b, i>> \in Workers /\ <<g, b, i>> # s
    BY <1>1, <2>1 DEF Workers
  <2>3. CASE <<g, b, i>> # w
    BY <1>2, <2>1, <2>2, <2>3
  <2>4. CASE <<g, b, i>> = w
    <3>1. s = <<g, b, i + 1>> /\ i + 1 \in 1 .. Incarnations
      BY <1>1, <2>4, ProberAssumption DEF Successor
    <3>2. at'[s] = "select"
      BY <1>2
    <3>. QED
      BY <3>1, <3>2
  <2>. QED
    BY <2>3, <2>4
<1>. QED
  BY <1>5, <1>6, <1>7 DEF ControlInv

\* A new backend gets its first worker.
LEMMA ControlBuild ==
    ASSUME TypeInv, ControlInv, BuildBackend
    PROVE  ControlInv'
<1>. USE DEF Busy, Running, Recovering
<1>1. PICK w \in Workers : w = <<latest, built[latest] + 1, 1>>
  BY NewWorker DEF BuildBackend
<1>2. /\ w[1] = latest /\ w[2] = built[latest] + 1 /\ w[3] = 1
      /\ latest \in Gens /\ built \in [Gens -> Nat]
  BY <1>1 DEF TypeInv, ProberTypeOK
<1>3. /\ at \in [Workers -> Places] /\ at' = [at EXCEPT ![w] = "select"]
      /\ built' = [built EXCEPT ![latest] = @ + 1] /\ UNCHANGED cancelled
  BY <1>1, <1>2 DEF TypeInv, ProberTypeOK, BuildBackend
<1>4. \A v \in Workers : v[1] \in Gens /\ v[2] \in Nat /\ v[3] \in Nat /\ v[3] > 0
  BY WorkerParts
<1>5. \A v \in Workers : SameProber(v, w) => at[v] = "unborn"
  BY <1>2, <1>4 DEF ControlInv, BornInv, SameProber
<1>6. ChainInv'
  <2>. SUFFICES ASSUME NEW v \in Workers, NEW u \in Workers, SameProber(v, u),
                       u[3] < v[3], at'[v] # "unborn"
                PROVE  at'[u] \in {"replaced", "gone"}
    BY DEF ChainInv, SameProber
  <2>1. v # w
    BY <1>2, <1>4
  <2>2. at[v] # "unborn"
    BY <1>3, <2>1
  <2>3. at[u] \in {"replaced", "gone"}
    BY <2>2 DEF ControlInv, ChainInv
  <2>4. u # w
    BY <1>5, <2>3 DEF SameProber
  <2>. QED
    BY <1>3, <2>3, <2>4
<1>7. BornInv'
  <2>. SUFFICES ASSUME NEW v \in Workers
                PROVE  /\ at'[v] # "unborn" => v[2] <= built'[v[1]]
                       /\ at'[v] \in Recovering => v[3] < Incarnations
    BY DEF BornInv
  <2>1. CASE v = w
    BY <1>2, <1>3, <2>1
  <2>2. CASE v # w
    BY <1>2, <1>3, <1>4, <2>2 DEF ControlInv, BornInv
  <2>. QED
    BY <2>1, <2>2
<1>8. Attended'
  <2>. SUFFICES ASSUME NEW g \in Gens \ cancelled, NEW b \in Backends, b <= built'[g]
                PROVE  \E i \in 1 .. Incarnations : at'[<<g, b, i>>] \in Busy
    BY <1>3 DEF Attended
  <2>1. CASE g = latest /\ b = built[latest] + 1
    <3>1. w = <<g, b, 1>> /\ 1 \in 1 .. Incarnations /\ at'[w] = "select"
      BY <1>1, <1>3, <2>1, ProberAssumption
    <3>. QED
      BY <3>1
  <2>2. CASE ~(g = latest /\ b = built[latest] + 1)
    <3>1. b <= built[g]
      BY <1>2, <1>3, <2>2, BackendsFinite
    <3>2. PICK i \in 1 .. Incarnations : at[<<g, b, i>>] \in Busy
      BY <3>1 DEF ControlInv, Attended
    <3>3. <<g, b, i>> \in Workers
      BY DEF Workers
    <3>4. at'[<<g, b, i>>] \in Busy
      BY <1>3, <3>2, <3>3
    <3>. QED
      BY <3>4
  <2>. QED
    BY <2>1, <2>2
<1>. QED
  BY <1>6, <1>7, <1>8 DEF ControlInv

\* A worker that panics has an incarnation left: every one before it has
\* panicked as well, and those are fewer than the bound.
LEMMA PanicLeavesRoom ==
    ASSUME TypeInv, ControlInv, NEW w \in Workers, ProbePanics(w)
    PROVE  w[3] < Incarnations
<1>1. at[w] = "probe" /\ Cardinality(Panicked) < Incarnations - 1
  BY DEF ProbePanics, Moves
<1>2. /\ w = <<w[1], w[2], w[3]>> /\ w[1] \in Gens /\ w[2] \in Backends
      /\ w[3] \in 1 .. Incarnations /\ w[3] \in Nat /\ w[3] > 0
  BY WorkerParts
<1>3. IsFiniteSet(Panicked) /\ Cardinality(Panicked) \in Nat
  <2>1. Panicked \subseteq Workers
    BY DEF Panicked
  <2>. QED
    BY <2>1, WorkersFinite, FS_Subset, FS_CardinalityType
<1>. DEFINE f == [j \in 1 .. w[3] - 1 |-> <<w[1], w[2], j>>]
<1>4. ASSUME NEW j \in 1 .. w[3] - 1
      PROVE  f[j] \in Panicked
  <2>. DEFINE u == <<w[1], w[2], j>>
             n == <<w[1], w[2], j + 1>>
  <2>1. u \in Workers /\ n \in Workers /\ u[3] < Incarnations /\ Successor(u) = n
    BY <1>2, ProberAssumption DEF Workers, Successor
  <2>2. CASE j + 1 = w[3]
    BY <1>1, <1>2, <2>1, <2>2 DEF Panicked
  <2>3. CASE j + 1 # w[3]
    <3>1. SameProber(w, n) /\ n[3] < w[3]
      BY <1>2, <2>3 DEF SameProber
    <3>2. at[n] \in {"replaced", "gone"}
      BY <1>1, <2>1, <3>1 DEF ControlInv, ChainInv
    <3>. QED
      BY <2>1, <3>2 DEF Panicked
  <2>. QED
    BY <2>2, <2>3
<1>5. f \in Injection(1 .. w[3] - 1, Panicked)
  <2>1. f \in [1 .. w[3] - 1 -> Panicked]
    BY <1>4
  <2>2. \A i, j \in 1 .. w[3] - 1 : f[i] = f[j] => i = j
    OBVIOUS
  <2>. HIDE DEF f
  <2>. QED
    BY <2>1, <2>2 DEF Injection, IsInjective
<1>. HIDE DEF f
<1>6. Cardinality(1 .. w[3] - 1) <= Cardinality(Panicked)
  BY <1>3, <1>5, FS_Injection
<1>7. Cardinality(1 .. w[3] - 1) = w[3] - 1
  BY <1>2, FS_Interval
<1>. QED
  BY <1>1, <1>2, <1>3, <1>6, <1>7, ProberAssumption

\* BuildRuntime, Server.Reload and Runtime.Stop leave the workers alone.
Supervises ==
    /\ UNCHANGED <<built, workerWG, at, verdict, healthy, up>>
    /\ cancelled \subseteq cancelled'

\* A worker may end because its runtime is cancelled or it is replaced.
Ends(w) == Alive(w) /\ DoneWorker(w) /\ (w[1] \in cancelled \/ at[w] = "replaced")

LEMMA StepKinds ==
    ASSUME TypeInv, ControlInv, ProberNext
    PROVE  \/ Supervises
           \/ BuildBackend
           \/ \E w \in Workers, to \in Busy : Advances(w, to)
           \/ \E w \in Workers : Ends(w)
           \/ \E w \in Workers : Restart(w)
<1>1. CASE \E g \in Gens : StopCancel(g) \/ StopReturn(g)
  BY <1>1 DEF StopCancel, StopReturn, Supervises
<1>2. CASE BeginBuild \/ BuildFails \/ Install
  BY <1>2 DEF BeginBuild, BuildFails, Install, Supervises
<1>3. ASSUME NEW w \in Workers, Tick(w) \/ Probe(w) \/ Publish(w) \/ BackoffElapsed(w)
      PROVE  \E to \in Busy : Advances(w, to)
  <2>1. CASE Tick(w)
    <3>1. Advances(w, "probe")
      BY <2>1 DEF Tick, Moves, Advances, Busy, Running, Recovering
    <3>. QED
      BY <3>1 DEF Busy, Running
  <2>2. CASE Probe(w)
    <3>1. Advances(w, "publish")
      BY <2>2 DEF Probe, Moves, Advances, Busy, Running, Recovering
    <3>. QED
      BY <3>1 DEF Busy, Running
  <2>3. CASE Publish(w)
    <3>1. Advances(w, "select")
      BY <2>3 DEF Publish, Moves, Advances, Busy, Running, Recovering
    <3>. QED
      BY <3>1 DEF Busy, Running
  <2>4. CASE BackoffElapsed(w)
    <3>1. at[w] = "backoff" /\ w[3] < Incarnations
      BY <2>4 DEF BackoffElapsed, Moves, ControlInv, BornInv, Recovering
    <3>2. Advances(w, "restart")
      BY <2>4, <3>1 DEF BackoffElapsed, Moves, Advances, Busy, Running, Recovering
    <3>. QED
      BY <3>2 DEF Busy, Recovering
  <2>. QED
    BY <1>3, <2>1, <2>2, <2>3, <2>4
<1>4. ASSUME NEW w \in Workers, ProbePanics(w)
      PROVE  \E to \in Busy : Advances(w, to)
  <2>1. w[3] < Incarnations
    BY <1>4, PanicLeavesRoom
  <2>2. Advances(w, "backoff")
    BY <1>4, <2>1 DEF ProbePanics, Moves, Advances, Busy, Running, Recovering
  <2>. QED
    BY <2>2 DEF Busy, Recovering
<1>5. ASSUME NEW w \in Workers, SeeDone(w) \/ BackoffCancelled(w) \/ Replaced(w)
      PROVE  Ends(w)
  BY <1>5 DEF SeeDone, BackoffCancelled, Replaced, Ends, Alive
<1>. QED
  BY <1>1, <1>2, <1>3, <1>4, <1>5 DEF ProberNext, Work

LEMMA ControlNext ==
    ASSUME TypeInv, ControlInv, [ProberNext]_proberVars
    PROVE  ControlInv'
<1>1. CASE Supervises
  <2>1. UNCHANGED <<at, built>> /\ cancelled \subseteq cancelled'
    BY <1>1 DEF Supervises
  <2>2. ChainInv' /\ BornInv'
    BY <2>1 DEF ControlInv, ChainInv, BornInv
  <2>3. Attended'
    BY <2>1 DEF ControlInv, Attended
  <2>. QED
    BY <2>2, <2>3 DEF ControlInv
<1>2. CASE UNCHANGED proberVars
  BY <1>1, <1>2 DEF proberVars, Supervises
<1>3. ASSUME NEW w \in Workers, Ends(w) PROVE ControlInv'
  BY <1>3, ControlDone DEF Ends
<1>4. ASSUME NEW w \in Workers, NEW to \in Busy, Advances(w, to) PROVE ControlInv'
  BY <1>4, ControlAdvance
<1>. QED
  BY <1>1, <1>2, <1>3, <1>4, ControlBuild, ControlRestart, StepKinds

-----------------------------------------------------------------------------
(***************************************************************************)
(* Types, the count of workers, and verdicts.                              *)
(***************************************************************************)
LEMMA AliveCounts ==
    ASSUME TypeInv, WorkersCounted, NEW w \in Workers, Alive(w)
    PROVE  workerWG[w[1]] > 0
<1>. DEFINE S == AliveOf(w[1])
<1>1. w \in S /\ w[1] \in Gens
  BY WorkerParts DEF AliveOf
<1>2. IsFiniteSet(S) /\ Cardinality(S) \in Nat
  BY AliveFinite
<1>3. Cardinality(S) # 0
  BY <1>1, <1>2, FS_EmptySet
<1>4. workerWG[w[1]] = Cardinality(S)
  BY <1>1 DEF WorkersCounted
<1>. QED
  BY <1>2, <1>3, <1>4

LEMMA ProberTypeInit == ProberInit => TypeInv
<1>. SUFFICES ASSUME ProberInit PROVE TypeInv
  OBVIOUS
<1>1. 1 \in Gens /\ \A g \in Gens : Upstreams[g] \in Nat /\ 0 \in 0 .. Upstreams[g]
                                    /\ Upstreams[g] \in 0 .. Upstreams[g]
  BY ProberAssumption DEF Gens
<1>2. built \in [Gens -> Nat] /\ \A g \in Gens : built[g] \in 0 .. Upstreams[g]
  BY <1>1 DEF ProberInit
<1>. QED
  BY <1>1, <1>2 DEF ProberInit, TypeInv, ProberTypeOK, Places, Running

LEMMA ProberTypeNext ==
    ASSUME TypeInv, ControlInv, WorkersCounted, [ProberNext]_proberVars
    PROVE  TypeInv'
<1>. USE DEF TypeInv, ProberTypeOK, buildVars
<1>1. CASE BeginBuild
  <2>1. latest + 1 \in Gens
    BY <1>1, ProberAssumption DEF BeginBuild, Gens
  <2>. QED
    BY <1>1, <2>1 DEF BeginBuild
<1>2. CASE BuildBackend
  <2>1. PICK b \in Backends : b = built[latest] + 1 /\ b \in 0 .. Upstreams[latest]
    BY <1>2, NewWorker DEF BuildBackend
  <2>2. latest \in Gens /\ b \in Nat
    BY <2>1, BackendsFinite
  <2>3. /\ built' = [built EXCEPT ![latest] = b]
        /\ healthy' = [healthy EXCEPT ![<<latest, b>>] = TRUE]
        /\ up' = [up EXCEPT ![b] = TRUE]
        /\ workerWG' = [workerWG EXCEPT ![latest] = @ + 1]
        /\ at' = [at EXCEPT ![<<latest, b, 1>>] = "select"]
        /\ UNCHANGED <<latest, active, cancelled, retired, verdict>>
    BY <1>2, <2>1 DEF BuildBackend
  <2>4. built' \in [Gens -> Nat] /\ \A g \in Gens : built'[g] \in 0 .. Upstreams[g]
    BY <2>1, <2>2, <2>3
  <2>5. workerWG' \in [Gens -> Nat]
    BY <2>2, <2>3
  <2>6. at' \in [Workers -> Places]
    BY <2>3 DEF Places, Running
  <2>7. healthy' \in [Gens \X Backends -> BOOLEAN] /\ up' \in [Backends -> BOOLEAN]
    BY <2>3
  <2>. QED
    BY <2>3, <2>4, <2>5, <2>6, <2>7
<1>3. CASE BuildFails \/ Install
  BY <1>3 DEF BuildFails, Install
<1>4. ASSUME NEW g \in Gens, StopCancel(g) \/ StopReturn(g)
      PROVE  TypeInv'
  BY <1>4 DEF StopCancel, StopReturn
<1>5. ASSUME NEW w \in Workers, Tick(w) \/ ProbePanics(w) \/ BackoffElapsed(w)
      PROVE  TypeInv'
  <2>1. at' \in [Workers -> Places]
    BY <1>5 DEF Tick, ProbePanics, BackoffElapsed, Moves, Places, Running, Recovering
  <2>. QED
    BY <1>5, <2>1 DEF Tick, ProbePanics, BackoffElapsed
<1>6. ASSUME NEW w \in Workers, Probe(w)
      PROVE  TypeInv'
  <2>1. at' \in [Workers -> Places]
    BY <1>6 DEF Probe, Moves, Places, Running
  <2>2. PICK val \in BOOLEAN : /\ verdict' = [verdict EXCEPT ![w] = val]
                               /\ healthy' = [healthy EXCEPT ![<<w[1], w[2]>>] = val]
    BY <1>6 DEF Probe, Verdicts
  <2>. QED
    BY <1>6, <2>1, <2>2 DEF Probe
<1>7. ASSUME NEW w \in Workers, Publish(w)
      PROVE  TypeInv'
  <2>1. at' \in [Workers -> Places]
    BY <1>7 DEF Publish, Moves, Places, Running
  <2>2. verdict[w] \in BOOLEAN
    OBVIOUS
  <2>. QED
    BY <1>7, <2>1, <2>2 DEF Publish
<1>8. ASSUME NEW w \in Workers, SeeDone(w) \/ BackoffCancelled(w) \/ Replaced(w)
      PROVE  TypeInv'
  <2>1. DoneWorker(w) /\ Alive(w) /\ w[1] \in Gens
    BY <1>8, WorkerParts DEF SeeDone, BackoffCancelled, Replaced, Alive
  <2>2. workerWG[w[1]] > 0
    BY <2>1, AliveCounts
  <2>3. workerWG' \in [Gens -> Nat]
    BY <2>1, <2>2 DEF DoneWorker
  <2>4. at' \in [Workers -> Places]
    BY <2>1 DEF DoneWorker, Places
  <2>. QED
    BY <2>1, <2>3, <2>4 DEF DoneWorker
<1>9. ASSUME NEW w \in Workers, Restart(w)
      PROVE  TypeInv'
  <2>1. w[1] \in Gens
    BY WorkerParts
  <2>2. at' \in [Workers -> Places]
    BY <1>9 DEF Restart, Places, Running
  <2>3. workerWG' \in [Gens -> Nat]
    BY <1>9, <2>1 DEF Restart
  <2>. QED
    BY <1>9, <2>2, <2>3 DEF Restart
<1>10. CASE UNCHANGED proberVars
  BY <1>10 DEF proberVars
<1>. QED
  BY <1>1, <1>2, <1>3, <1>4, <1>5, <1>6, <1>7, <1>8, <1>9, <1>10 DEF ProberNext, Work

\* AddWorker and DoneWorker keep step with the workers that start and end.
LEMMA ProberCountNext ==
    ASSUME TypeInv, ControlInv, WorkersCounted, [ProberNext]_proberVars
    PROVE  WorkersCounted'
<1>. SUFFICES ASSUME NEW g \in Gens
              PROVE  workerWG'[g] = Cardinality(AliveOf(g)')
  BY DEF WorkersCounted
<1>. DEFINE S == AliveOf(g)
<1>1. IsFiniteSet(S) /\ workerWG[g] = Cardinality(S) /\ workerWG \in [Gens -> Nat]
  BY AliveFinite DEF WorkersCounted, TypeInv, ProberTypeOK
<1>. HIDE DEF S
<1>2. CASE Supervises \/ UNCHANGED proberVars
  <2>1. UNCHANGED <<at, workerWG>>
    BY <1>2 DEF Supervises, proberVars
  <2>2. AliveOf(g)' = S
    BY <2>1, SameAlive DEF Alive, S
  <2>. QED
    BY <1>1, <2>1, <2>2
<1>3. CASE BuildBackend
  <2>1. PICK w \in Workers : w = <<latest, built[latest] + 1, 1>>
    BY <1>3, NewWorker DEF BuildBackend
  <2>2. /\ w \notin S
        /\ AliveOf(g)' = IF g = latest THEN S \cup {w} ELSE S
    BY <1>3, <2>1, BuildAlive DEF S, AliveOf, ControlInv
  <2>3. workerWG' = [workerWG EXCEPT ![latest] = @ + 1]
    BY <1>3 DEF BuildBackend
  <2>4. Cardinality(S \cup {w}) = Cardinality(S) + 1
    BY <1>1, <2>2, FS_AddElement
  <2>. QED
    BY <1>1, <2>2, <2>3, <2>4
<1>4. ASSUME NEW w \in Workers, NEW to \in Busy, Advances(w, to)
      PROVE  workerWG'[g] = Cardinality(AliveOf(g)')
  <2>1. AliveOf(g)' = S
    BY <1>4, AdvanceAlive, SameAlive DEF S
  <2>. QED
    BY <1>1, <1>4, <2>1 DEF Advances
<1>5. ASSUME NEW w \in Workers, Ends(w)
      PROVE  workerWG'[g] = Cardinality(AliveOf(g)')
  <2>1. AliveOf(g)' = S \ {w}
    BY <1>5, DoneAlive DEF Ends, S
  <2>2. w \in S <=> g = w[1]
    BY <1>5 DEF Ends, S, AliveOf
  <2>3. workerWG' = [workerWG EXCEPT ![w[1]] = @ - 1]
    BY <1>5 DEF Ends, DoneWorker
  <2>4. Cardinality(S \ {w}) = IF w \in S THEN Cardinality(S) - 1 ELSE Cardinality(S)
    BY <1>1, FS_RemoveElement
  <2>. QED
    BY <1>1, <2>1, <2>2, <2>3, <2>4
<1>6. ASSUME NEW w \in Workers, Restart(w)
      PROVE  workerWG'[g] = Cardinality(AliveOf(g)')
  <2>1. PICK s \in Workers :
          /\ s = Successor(w) /\ at[s] = "unborn"
          /\ AliveOf(g)' = IF g = w[1] THEN S \cup {s} ELSE S
    BY <1>6, RestartAlive DEF ControlInv, S
  <2>2. s \notin S
    BY <2>1 DEF S, AliveOf, Alive
  <2>3. workerWG' = [workerWG EXCEPT ![w[1]] = @ + 1]
    BY <1>6 DEF Restart
  <2>4. Cardinality(S \cup {s}) = Cardinality(S) + 1
    BY <1>1, <2>2, FS_AddElement
  <2>. QED
    BY <1>1, <2>1, <2>3, <2>4
<1>. QED
  BY <1>2, <1>3, <1>4, <1>5, <1>6, StepKinds

\* Stop returns when the count is zero; nothing starts a worker afterwards.
LEMMA ProberQuietNext ==
    ASSUME TypeInv, ControlInv, WorkersCounted, retired \subseteq cancelled,
           RetiredIsQuiet, [ProberNext]_proberVars
    PROVE  (retired \subseteq cancelled)' /\ RetiredIsQuiet'
<1>1. ASSUME NEW g \in Gens, StopReturn(g)
      PROVE  (retired \subseteq cancelled)' /\ RetiredIsQuiet'
  <2>1. retired' = retired \cup {g} /\ g \in cancelled /\ UNCHANGED <<cancelled, at>>
    BY <1>1 DEF StopReturn
  <2>2. AliveOf(g) = {}
    <3>. DEFINE S == AliveOf(g)
    <3>1. Cardinality(S) = 0
      BY <1>1 DEF StopReturn, WorkersCounted
    <3>2. IsFiniteSet(S)
      BY AliveFinite
    <3>. QED
      BY <3>1, <3>2, FS_EmptySet
  <2>3. \A h : AliveOf(h)' = AliveOf(h)
    BY <2>1 DEF AliveOf, Alive
  <2>. QED
    BY <2>1, <2>2, <2>3 DEF RetiredIsQuiet
<1>2. ASSUME UNCHANGED retired, cancelled \subseteq cancelled',
             \A g \in retired : AliveOf(g)' \subseteq AliveOf(g)
      PROVE  (retired \subseteq cancelled)' /\ RetiredIsQuiet'
  <2>1. (retired \subseteq cancelled)'
    BY <1>2
  <2>2. RetiredIsQuiet'
    BY <1>2 DEF RetiredIsQuiet
  <2>. QED
    BY <2>1, <2>2
<1>3. CASE Supervises \/ UNCHANGED proberVars
  <2>1. CASE \E g \in Gens : StopReturn(g)
    BY <1>1, <2>1
  <2>2. CASE ~\E g \in Gens : StopReturn(g)
    <3>1. cancelled \subseteq cancelled' /\ UNCHANGED at
      BY <1>3 DEF Supervises, proberVars
    <3>2. UNCHANGED retired
      BY <2>2 DEF ProberNext, proberVars, buildVars, BeginBuild, BuildBackend, BuildFails,
         Install, StopCancel, Tick, SeeDone, ProbePanics, Work, Probe, Publish,
         BackoffElapsed, BackoffCancelled, Restart, Replaced, DoneWorker
    <3>3. \A g : AliveOf(g)' = AliveOf(g)
      BY <3>1 DEF AliveOf, Alive
    <3>. QED
      BY <1>2, <3>1, <3>2, <3>3
  <2>. QED
    BY <2>1, <2>2
<1>4. CASE BuildBackend
  <2>1. UNCHANGED <<cancelled, retired>> /\ latest \notin cancelled
    BY <1>4 DEF BuildBackend
  <2>2. \A g \in retired : AliveOf(g)' \subseteq AliveOf(g)
    BY <1>4, <2>1, BuildAlive DEF TypeInv, ProberTypeOK, ControlInv
  <2>. QED
    BY <1>2, <2>1, <2>2
<1>5. ASSUME NEW w \in Workers, NEW to \in Busy, Advances(w, to)
      PROVE  (retired \subseteq cancelled)' /\ RetiredIsQuiet'
  <2>1. \A g : AliveOf(g)' = AliveOf(g)
    BY <1>5, AdvanceAlive, SameAlive
  <2>. QED
    BY <1>2, <1>5, <2>1 DEF Advances, buildVars
<1>6. ASSUME NEW w \in Workers, Ends(w)
      PROVE  (retired \subseteq cancelled)' /\ RetiredIsQuiet'
  <2>1. \A g \in Gens : AliveOf(g)' \subseteq AliveOf(g)
    BY <1>6, DoneAlive DEF Ends
  <2>. QED
    BY <1>2, <1>6, <2>1 DEF Ends, DoneWorker, buildVars, TypeInv, ProberTypeOK
<1>7. ASSUME NEW w \in Workers, Restart(w)
      PROVE  (retired \subseteq cancelled)' /\ RetiredIsQuiet'
  <2>1. w \in AliveOf(w[1])
    BY <1>7 DEF AliveOf, Alive, Restart
  <2>2. w[1] \notin retired
    BY <2>1 DEF RetiredIsQuiet
  <2>3. \A g \in Gens \ {w[1]} : AliveOf(g)' = AliveOf(g)
    BY <1>7, RestartAlive DEF ControlInv
  <2>. QED
    BY <1>2, <1>7, <2>2, <2>3 DEF Restart, buildVars, TypeInv, ProberTypeOK
<1>. QED
  BY <1>3, <1>4, <1>5, <1>6, <1>7, StepKinds

-----------------------------------------------------------------------------
(***************************************************************************)
(* The theorems.                                                           *)
(***************************************************************************)
LEMMA ProberInitial == ProberInit => ProberInv
<1>. SUFFICES ASSUME ProberInit PROVE ProberInv
  OBVIOUS
<1>1. TypeInv
  BY ProberTypeInit
<1>2. 1 \in Gens /\ 1 \in 1 .. Incarnations /\ Upstreams[1] \in Nat
  BY ProberAssumption DEF Gens
<1>3. at = [w \in Workers |-> IF w[1] = 1 /\ w[2] <= Upstreams[1] /\ w[3] = 1
                              THEN "select" ELSE "unborn"]
  BY DEF ProberInit
<1>4. \A g \in Gens : built[g] = IF g = 1 THEN Upstreams[1] ELSE 0
  BY DEF ProberInit
<1>5. ChainInv
  <2>1. \A w \in Workers : w[3] \in Nat /\ w[3] > 0
    BY WorkerParts
  <2>. QED
    BY <1>3, <2>1 DEF ChainInv
<1>6. BornInv
  BY <1>2, <1>3, <1>4 DEF BornInv, Recovering
<1>7. Attended
  <2>. SUFFICES ASSUME NEW g \in Gens, NEW b \in Backends, b <= built[g]
                PROVE  \E i \in 1 .. Incarnations : at[<<g, b, i>>] \in Running \cup Recovering
    BY DEF Attended
  <2>1. g = 1 /\ b <= Upstreams[1]
    BY <1>4, BackendsFinite
  <2>2. <<g, b, 1>> \in Workers
    BY <1>2 DEF Workers
  <2>3. at[<<g, b, 1>>] = "select"
    BY <1>3, <2>1, <2>2
  <2>. QED
    BY <1>2, <2>3 DEF Running
<1>8. WorkersCounted
  <2>. SUFFICES ASSUME NEW g \in Gens PROVE workerWG[g] = Cardinality(AliveOf(g))
    BY DEF WorkersCounted
  <2>1. workerWG[g] = IF g = 1 THEN Upstreams[1] ELSE 0
    BY <1>4 DEF ProberInit
  <2>2. CASE g # 1
    <3>1. AliveOf(g) = {}
      BY <1>3, <2>2 DEF AliveOf, Alive
    <3>. QED
      BY <2>1, <2>2, <3>1, FS_EmptySet
  <2>3. CASE g = 1
    <3>. DEFINE N == 1 .. Upstreams[1]
               S == AliveOf(1)
               f == [b \in N |-> <<1, b, 1>>]
    <3>1. \A b \in N : b \in Backends /\ b <= Upstreams[1]
      BY <1>2 DEF Backends
    <3>2. S = {w \in Workers : w[1] = 1 /\ w[2] <= Upstreams[1] /\ w[3] = 1}
      BY <1>3 DEF AliveOf, Alive
    <3>3. f \in [N -> S]
      BY <1>2, <3>1, <3>2 DEF Workers
    <3>4. \A a, b \in N : f[a] = f[b] => a = b
      OBVIOUS
    <3>5. ASSUME NEW w \in S PROVE \E b \in N : f[b] = w
      <4>1. w = <<w[1], w[2], w[3]>> /\ w[2] \in Nat \ {0}
        BY <3>2, BackendsFinite DEF Workers
      <4>2. w[2] \in N /\ w[1] = 1 /\ w[3] = 1
        BY <1>2, <3>2, <4>1
      <4>. QED
        BY <4>1, <4>2
    <3>. HIDE DEF f, S
    <3>6. f \in Bijection(N, S)
      BY <3>3, <3>4, <3>5 DEF Bijection, Injection, IsInjective, Surjection
    <3>7. IsFiniteSet(N) /\ Cardinality(N) = Upstreams[1]
      BY <1>2, FS_Interval
    <3>. HIDE DEF N
    <3>8. Cardinality(S) = Upstreams[1]
      BY <3>6, <3>7, FS_Bijection DEF ExistsBijection
    <3>. QED
      BY <2>1, <2>3, <3>8 DEF S
  <2>. QED
    BY <2>2, <2>3
<1>9. RetiredIsQuiet /\ retired \subseteq cancelled
  BY DEF ProberInit, RetiredIsQuiet
<1>. QED
  BY <1>1, <1>5, <1>6, <1>7, <1>8, <1>9 DEF ProberInv

LEMMA ProberInductive == ProberInv /\ [ProberNext]_proberVars => ProberInv'
<1>. SUFFICES ASSUME ProberInv, [ProberNext]_proberVars PROVE ProberInv'
  OBVIOUS
<1>1. /\ TypeInv /\ ControlInv /\ WorkersCounted /\ retired \subseteq cancelled
      /\ RetiredIsQuiet
  BY DEF ProberInv, ControlInv
<1>2. TypeInv' /\ ControlInv' /\ WorkersCounted'
  BY <1>1, ProberTypeNext, ControlNext, ProberCountNext
<1>3. (retired \subseteq cancelled)' /\ RetiredIsQuiet'
  BY <1>1, ProberQuietNext
<1>. QED
  BY <1>2, <1>3 DEF ProberInv, ControlInv

LEMMA ProberInvariant == ProberSpec => []ProberInv
BY ProberInitial, ProberInductive, PTL DEF ProberSpec

\* A runtime never has a negative count of workers, so that DoneWorker never
\* panics, and no backend is built beyond the configuration.
THEOREM ProberTypeCorrect == ProberSpec => []ProberTypeOK
<1>1. ProberInv => ProberTypeOK
  BY DEF ProberInv, TypeInv
<1>. QED
  BY <1>1, ProberInvariant, PTL

\* Runtime.workerWG counts the workers that are there, through panics and
\* restarts: AddWorker of the successor comes before DoneWorker.
THEOREM WorkersAreCounted == ProberSpec => []WorkersCounted
<1>1. ProberInv => WorkersCounted
  BY DEF ProberInv
<1>. QED
  BY <1>1, ProberInvariant, PTL

\* However often probers panic, restart and are cancelled: after Stop no
\* worker of a runtime is left or comes back, and a backend is never probed
\* by two workers of its generation.
THEOREM RestartIsSafe == ProberSpec => []RestartSafe
<1>1. ProberInv => RestartSafe
  <2>. SUFFICES ASSUME ProberInv PROVE OneProberPerBackend
    BY DEF ProberInv, RestartSafe
  <2>. SUFFICES ASSUME NEW v \in Workers, NEW w \in Workers, v[1] = w[1], v[2] = w[2],
                       at[v] \in Running, at[w] \in Running
                PROVE  v = w
    BY DEF OneProberPerBackend
  <2>1. ~(v[3] < w[3]) /\ ~(w[3] < v[3])
    BY DEF ProberInv, ChainInv, SameProber, Running
  <2>2. v[3] \in Nat /\ w[3] \in Nat /\ v = <<v[1], v[2], v[3]>> /\ w = <<w[1], w[2], w[3]>>
    BY WorkerParts
  <2>. QED
    BY <2>1, <2>2
<1>. QED
  BY <1>1, ProberInvariant, PTL

-----------------------------------------------------------------------------
(***************************************************************************)
(* The probers implement Workers, which the server is modelled against: a  *)
(* worker of the runtime is a backend that some incarnation attends to.    *)
(***************************************************************************)
AttendedBy(g) == {w[2] : w \in AliveOf(g)}

workersMap == [g \in Gens |-> Cardinality(AttendedBy(g))]

LEMMA AttendedFinite ==
    ASSUME NEW g, NEW S, S = AttendedBy(g)
    PROVE  IsFiniteSet(S) /\ Cardinality(S) \in Nat
<1>1. S \subseteq Backends
  BY WorkerParts DEF AttendedBy, AliveOf
<1>2. IsFiniteSet(S)
  BY <1>1, BackendsFinite, FS_Subset
<1>. QED
  BY <1>2, FS_CardinalityType

LEMMA SameMap ==
    ASSUME \A g \in Gens : AttendedBy(g)' = AttendedBy(g)
    PROVE  workersMap' = workersMap
BY DEF workersMap

\* A probe, a panic and the end of a back-off change nothing the runtime sees.
LEMMA AdvanceMaps ==
    ASSUME ProberInv, NEW w \in Workers, NEW to \in Busy, Advances(w, to)
    PROVE  UNCHANGED <<workersMap, cancelled, retired>>
<1>1. \A g : AliveOf(g)' = AliveOf(g)
  BY AdvanceAlive, SameAlive DEF ProberInv
<1>2. workersMap' = workersMap
  BY <1>1, SameMap DEF AttendedBy
<1>. QED
  BY <1>2 DEF Advances, buildVars

\* Nor does a restart: the backend stays attended to.
LEMMA RestartMaps ==
    ASSUME ProberInv, NEW w \in Workers, Restart(w)
    PROVE  UNCHANGED <<workersMap, cancelled, retired>>
<1>1. ASSUME NEW g \in Gens
      PROVE  AttendedBy(g)' = AttendedBy(g)
  <2>1. CASE g # w[1]
    BY <2>1, RestartAlive DEF AttendedBy, ProberInv
  <2>2. CASE g = w[1]
    <3>1. w \in AliveOf(g)
      BY <2>2 DEF AliveOf, Alive, Restart
    <3>2. AliveOf(g)' = AliveOf(g) \cup {Successor(w)}
      BY <2>2, RestartAlive DEF ProberInv
    <3>3. Successor(w)[2] = w[2]
      BY DEF Successor
    <3>. QED
      BY <3>1, <3>2, <3>3 DEF AttendedBy
  <2>. QED
    BY <2>1, <2>2
<1>. QED
  BY <1>1, SameMap DEF Restart, buildVars

\* NewBackend and StartProber launch one more worker.
LEMMA BuildMaps ==
    ASSUME ProberInv, BuildBackend
    PROVE  Assumed!WorkersNext
<1>1. PICK h \in Gens : h = latest
  BY DEF ProberInv, TypeInv, ProberTypeOK
<1>2. PICK w \in Workers : w = <<latest, built[latest] + 1, 1>>
  BY NewWorker DEF BuildBackend, ProberInv
<1>3. /\ AliveOf(h)' = AliveOf(h) \cup {w}
      /\ \A g \in Gens \ {h} : AliveOf(g)' = AliveOf(g)
  BY <1>1, <1>2, BuildAlive DEF ProberInv
<1>. DEFINE S == AttendedBy(h)
<1>4. AttendedBy(h)' = S \cup {w[2]}
  BY <1>3 DEF AttendedBy
<1>5. \A g \in Gens \ {h} : AttendedBy(g)' = AttendedBy(g)
  BY <1>3 DEF AttendedBy
<1>6. IsFiniteSet(S) /\ Cardinality(S) \in Nat
  BY AttendedFinite
<1>. HIDE DEF S
<1>7. Cardinality(S \cup {w[2]}) \in Nat /\ Cardinality(S \cup {w[2]}) >= Cardinality(S)
  <2>1. Cardinality(S \cup {w[2]}) = IF w[2] \in S THEN Cardinality(S) ELSE Cardinality(S) + 1
    BY <1>6, FS_AddElement, Zenon
  <2>. QED
    BY <1>6, <2>1
<1>8. workersMap'[h] \in Nat /\ workersMap'[h] >= workersMap[h]
  BY <1>4, <1>7 DEF workersMap, S
<1>9. workersMap' = [workersMap EXCEPT ![h] = workersMap'[h]]
  BY <1>5 DEF workersMap
<1>10. UNCHANGED <<cancelled, retired>> /\ h \notin cancelled
  BY <1>1 DEF BuildBackend
<1>11. Assumed!Launch(h)
  BY <1>8, <1>9, <1>10 DEF Assumed!Launch, workersMap, AttendedBy
<1>. QED
  BY <1>11 DEF Assumed!WorkersNext

\* The end of a worker is seen only if it was the last of its backend, and
\* then its runtime is cancelled.
LEMMA EndMaps ==
    ASSUME ProberInv, NEW w \in Workers, Ends(w)
    PROVE  Assumed!WorkersNext \/ UNCHANGED <<workersMap, cancelled, retired>>
<1>. DEFINE h == w[1]
           S == AttendedBy(w[1])
<1>1. h \in Gens /\ w \in AliveOf(h)
  BY WorkerParts DEF AliveOf, Ends
<1>2. \A g \in Gens : AliveOf(g)' = AliveOf(g) \ {w}
  BY DoneAlive DEF Ends, ProberInv
<1>3. \A g \in Gens \ {h} : AttendedBy(g)' = AttendedBy(g)
  BY <1>2 DEF AttendedBy, AliveOf
<1>4. AttendedBy(h)' = S \/ AttendedBy(h)' = S \ {w[2]}
  BY <1>1, <1>2 DEF AttendedBy
<1>5. UNCHANGED <<cancelled, retired>>
  BY DEF Ends, DoneWorker, buildVars
<1>6. CASE AttendedBy(h)' = S
  <2>1. workersMap' = workersMap
    BY <1>3, <1>6, SameMap
  <2>. QED
    BY <1>5, <2>1
<1>7. CASE AttendedBy(h)' # S
  <2>1. AttendedBy(h)' = S \ {w[2]} /\ w[2] \in S
    BY <1>1, <1>4, <1>7 DEF AttendedBy
  <2>2. h \in cancelled
    <3>. SUFFICES ASSUME h \notin cancelled PROVE FALSE
      OBVIOUS
    <3>1. at[w] = "replaced" /\ w[2] <= built[h] /\ w[2] \in Backends
      BY WorkerParts DEF Ends, ProberInv, BornInv
    <3>2. PICK i \in 1 .. Incarnations : at[<<h, w[2], i>>] \in Running \cup Recovering
      BY <1>1, <3>1 DEF ProberInv, Attended
    <3>. DEFINE v == <<h, w[2], i>>
    <3>3. v \in Workers /\ v # w /\ v \in AliveOf(h)
      BY <1>1, <3>1, <3>2 DEF Workers, AliveOf, Alive, Running, Recovering
    <3>4. v \in AliveOf(h)' /\ v[2] = w[2]
      BY <1>1, <1>2, <3>3
    <3>5. w[2] \in AttendedBy(h)'
      BY <3>4 DEF AttendedBy
    <3>. QED
      BY <2>1, <3>5
  <2>3. IsFiniteSet(S) /\ Cardinality(S) \in Nat
    BY AttendedFinite
  <2>4. Cardinality(S) # 0
    BY <2>1, <2>3, FS_EmptySet
  <2>5. Cardinality(S \ {w[2]}) = Cardinality(S) - 1
    <3>1. Cardinality(S \ {w[2]}) = IF w[2] \in S THEN Cardinality(S) - 1 ELSE Cardinality(S)
      BY <2>3, FS_RemoveElement, Zenon
    <3>. QED
      BY <2>1, <3>1
  <2>6. workersMap[h] = Cardinality(S)
    BY <1>1 DEF workersMap
  <2>7. workersMap' = [workersMap EXCEPT ![h] = @ - 1]
    BY <1>1, <1>3, <2>1, <2>5 DEF workersMap
  <2>8. Assumed!Leave(h)
    <3>1. workersMap[h] > 0
      BY <2>3, <2>4, <2>6
    <3>. QED
      BY <1>5, <2>2, <2>7, <3>1 DEF Assumed!Leave, workersMap, AttendedBy
  <2>. QED
    BY <1>1, <2>8 DEF Assumed!WorkersNext
<1>. QED
  BY <1>6, <1>7

LEMMA SuperviseMaps ==
    ASSUME ProberInv, ProberNext, Supervises
    PROVE  Assumed!WorkersNext \/ UNCHANGED <<workersMap, cancelled, retired>>
<1>1. workersMap' = workersMap
  <2>1. \A g : AttendedBy(g)' = AttendedBy(g)
    BY DEF Supervises, AttendedBy, AliveOf, Alive
  <2>. QED
    BY <2>1, SameMap
<1>2. ASSUME NEW g \in Gens, cancelled' = cancelled \cup {g}, UNCHANGED retired
      PROVE  Assumed!WorkersNext
  <2>1. Assumed!Cancel(g)
    BY <1>1, <1>2 DEF Assumed!Cancel, workersMap, AttendedBy
  <2>. QED
    BY <2>1 DEF Assumed!WorkersNext
<1>3. ASSUME NEW g \in Gens, StopReturn(g)
      PROVE  Assumed!WorkersNext
  <2>1. /\ g \in cancelled /\ retired' = retired \cup {g} /\ UNCHANGED cancelled
        /\ workerWG[g] = 0
    BY <1>3 DEF StopReturn
  <2>2. AttendedBy(g) = {}
    <3>. DEFINE A == AliveOf(g)
    <3>1. Cardinality(A) = 0 /\ IsFiniteSet(A)
      BY <2>1, AliveFinite DEF ProberInv, WorkersCounted
    <3>2. A = {}
      BY <3>1, FS_EmptySet
    <3>. QED
      BY <3>2 DEF AttendedBy
  <2>3. workersMap[g] = 0
    BY <2>2, FS_EmptySet DEF workersMap
  <2>4. Assumed!Retire(g)
    BY <1>1, <2>1, <2>3 DEF Assumed!Retire, workersMap, AttendedBy
  <2>. QED
    BY <2>4 DEF Assumed!WorkersNext
<1>4. CASE \E g \in Gens : cancelled' = cancelled \cup {g} /\ UNCHANGED retired
  BY <1>2, <1>4
<1>5. CASE UNCHANGED <<cancelled, retired>>
  BY <1>1, <1>5
<1>6. \/ \E g \in Gens : StopReturn(g)
      \/ \E g \in Gens : cancelled' = cancelled \cup {g} /\ UNCHANGED retired
      \/ UNCHANGED <<cancelled, retired>>
  <2>1. latest \in Gens
    BY DEF ProberInv, TypeInv, ProberTypeOK
  <2>. QED
    BY <2>1 DEF ProberNext, buildVars, BeginBuild, BuildBackend, BuildFails, Install,
       StopCancel, Tick, SeeDone, ProbePanics, Work, Probe, Publish, BackoffElapsed,
       BackoffCancelled, Restart, Replaced, DoneWorker
<1>. QED
  BY <1>3, <1>4, <1>5, <1>6

\* The probers keep the promise the server is modelled against: a worker is
\* there from StartProber until its runtime is cancelled, whatever panics,
\* and Stop returns only when the last one of the runtime has left.
THEOREM ProbersImplementWorkers == ProberSpec => ImplementsWorkers
<1>1. ProberInit => Assumed!WorkersInit
  <2>. SUFFICES ASSUME ProberInit PROVE Assumed!WorkersInit
    OBVIOUS
  <2>1. workersMap \in [Gens -> Nat]
    BY AttendedFinite DEF workersMap
  <2>. QED
    BY <2>1 DEF Assumed!WorkersInit, ProberInit, workersMap, AttendedBy
<1>2. ProberInv /\ [ProberNext]_proberVars => [Assumed!WorkersNext]_Assumed!workerVars
  <2>. SUFFICES ASSUME ProberInv, [ProberNext]_proberVars
                PROVE  Assumed!WorkersNext \/ UNCHANGED <<workersMap, cancelled, retired>>
    BY DEF Assumed!workerVars, workersMap, AttendedBy
  <2>1. CASE UNCHANGED proberVars
    <3>1. UNCHANGED <<at, cancelled, retired>>
      BY <2>1 DEF proberVars
    <3>2. \A g : AttendedBy(g)' = AttendedBy(g)
      BY <3>1 DEF AttendedBy, AliveOf, Alive
    <3>. QED
      BY <3>1, <3>2, SameMap
  <2>2. CASE ProberNext
    <3>1. TypeInv /\ ControlInv
      BY DEF ProberInv, ControlInv
    <3>. QED
      BY <2>2, <3>1, StepKinds, SuperviseMaps, BuildMaps, AdvanceMaps, EndMaps, RestartMaps
  <2>. QED
    BY <2>1, <2>2
<1>. QED
  BY <1>1, <1>2, ProberInvariant, PTL DEF ProberSpec, ImplementsWorkers, Assumed!WorkersSpec
=============================================================================
