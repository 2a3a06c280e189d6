------------------------------- MODULE Prober -------------------------------
(***************************************************************************)
(* health.StartProber: one worker per backend and generation, that probes  *)
(* the upstream on every tick, stores the verdict in the backend and in    *)
(* the backend_up gauge, restarts itself after a panic and leaves when the *)
(* context of its runtime is cancelled.                                    *)
(*                                                                         *)
(* The gauge is keyed by URL, so the generations that live side by side    *)
(* during a reload share it.  A worker <<g, b, i>> is the i-th incarnation *)
(* of the prober of backend b of generation g.  Observability is enabled.  *)
(* The secondary recovery is not modelled: nothing in the recovery itself  *)
(* can panic (fmt recovers what it formats, and AddWorker is called while  *)
(* the count is positive).                                                 *)
(***************************************************************************)
EXTENDS Naturals, FiniteSets

CONSTANTS MaxGen,       \* generations that are built
          Upstreams,    \* how many upstreams the configuration of each has;
                        \* the backends 1, 2, ... are built in this order
          Incarnations, \* bound on the incarnations of the probers
          Flaky         \* backends whose probe may fail or panic

ASSUME ProberAssumption ==
    /\ {MaxGen, Incarnations} \subseteq Nat \ {0}
    /\ Upstreams \in [1 .. MaxGen -> Nat \ {0}]
    /\ Flaky \subseteq Nat

VARIABLES latest,       \* the last generation that was begun
          active,       \* the generation the server uses
          built,        \* backends of each generation built so far
          cancelled,    \* generations whose context is cancelled
          retired,      \* generations whose Stop has returned
          workerWG,     \* Runtime.workerWG
          at, verdict,  \* where a worker is; the result of its probe
          healthy,      \* Backend.healthy, per generation
          up            \* metric torus_backend_up, per URL

proberVars == <<latest, active, built, cancelled, retired, workerWG, at,
                verdict, healthy, up>>
buildVars  == <<latest, active, built, cancelled, retired>>

Gens     == 1 .. MaxGen
Backends == UNION {1 .. Upstreams[g] : g \in Gens}
Workers  == Gens \X Backends \X (1 .. Incarnations)

\* Where a worker is: in select, in Check, in SetHealthy between the flag and
\* the gauge, in the recovery of a panic before and after it looks at the
\* context, and after it has started its successor.
Running    == {"select", "probe", "publish"}
Recovering == {"backoff", "restart"}
Places     == {"unborn", "replaced", "gone"} \cup Running \cup Recovering

Alive(w) == at[w] \notin {"unborn", "gone"}

AliveOf(g) == {w \in Workers : w[1] = g /\ Alive(w)}

\* The types; workerWG in particular never goes below zero.
ProberTypeOK ==
    /\ latest \in Gens /\ active \in Gens
    /\ \A g \in Gens : built[g] \in 0 .. Upstreams[g]
    /\ cancelled \subseteq Gens /\ retired \subseteq Gens
    /\ workerWG \in [Gens -> Nat]
    /\ at \in [Workers -> Places] /\ verdict \in [Workers -> BOOLEAN]
    /\ healthy \in [Gens \X Backends -> BOOLEAN]
    /\ up \in [Backends -> BOOLEAN]

\* Generation 1 has been built and serves.
ProberInit ==
    /\ latest = 1 /\ active = 1
    /\ built = [g \in Gens |-> IF g = 1 THEN Upstreams[1] ELSE 0]
    /\ cancelled = {} /\ retired = {}
    /\ workerWG = built
    /\ at = [w \in Workers |-> IF w[1] = 1 /\ w[2] <= Upstreams[1] /\ w[3] = 1
                               THEN "select" ELSE "unborn"]
    /\ verdict = [w \in Workers |-> TRUE]
    /\ healthy = [p \in Gens \X Backends |-> TRUE]
    /\ up = [b \in Backends |-> TRUE]

-----------------------------------------------------------------------------
(***************************************************************************)
(* BuildRuntime, the server and Runtime.Stop, as far as probers see them.  *)
(***************************************************************************)
Complete(g) == built[g] = Upstreams[g]

\* Manager.Reload is called by one goroutine: the next build begins when
\* the last one is installed and the runtime it replaced is retired.
BeginBuild ==
    /\ latest < MaxGen
    /\ \A g \in 1 .. latest : Complete(g) \/ g \in cancelled
    /\ \A g \in 1 .. latest : Complete(g) => g = active \/ g \in retired
    /\ latest' = latest + 1
    /\ UNCHANGED <<active, built, cancelled, retired, workerWG, at, verdict,
                   healthy, up>>

\* NewBackend, which ends with SetHealthy(true), then StartProber.
BuildBackend ==
    LET b == built[latest] + 1
        w == <<latest, b, 1>>
    IN  /\ ~Complete(latest) /\ latest \notin cancelled
        /\ built' = [built EXCEPT ![latest] = b]
        /\ healthy' = [healthy EXCEPT ![<<latest, b>>] = TRUE]
        /\ up' = [up EXCEPT ![b] = TRUE]
        /\ workerWG' = [workerWG EXCEPT ![latest] = @ + 1]
        /\ at' = [at EXCEPT ![w] = "select"]
        /\ UNCHANGED <<latest, active, cancelled, retired, verdict>>

\* NewBackend fails: cancel(), and nobody waits for the workers.
BuildFails ==
    /\ ~Complete(latest) /\ latest \notin cancelled
    /\ cancelled' = cancelled \cup {latest}
    /\ UNCHANGED <<latest, active, built, retired, workerWG, at, verdict,
                   healthy, up>>

\* Server.Reload swaps the runtime while the server runs.
Install ==
    /\ active < latest /\ Complete(latest) /\ latest \notin cancelled
    /\ active \notin cancelled
    /\ active' = latest
    /\ UNCHANGED <<latest, built, cancelled, retired, workerWG, at, verdict,
                   healthy, up>>

\* Stop of a runtime that was replaced, of the active one (Shutdown, or a
\* Start that failed) or of one that the server refused: it was not RUNNING,
\* whether it had stopped or had not started yet.
StopCancel(g) ==
    /\ Complete(g) /\ g \notin cancelled
    /\ cancelled' = cancelled \cup {g}
    /\ UNCHANGED <<latest, active, built, retired, workerWG, at, verdict,
                   healthy, up>>

StopReturn(g) ==
    /\ Complete(g) /\ g \in cancelled \ retired /\ workerWG[g] = 0
    /\ retired' = retired \cup {g}
    /\ UNCHANGED <<latest, active, built, cancelled, workerWG, at, verdict,
                   healthy, up>>

-----------------------------------------------------------------------------
(***************************************************************************)
(* The worker.                                                             *)
(***************************************************************************)
Moves(w, from, to) == at[w] = from /\ at' = [at EXCEPT ![w] = to]

\* Fault: the recovery calls DoneWorker as well.
DoneTwice(w) ==
    /\ at' = [at EXCEPT ![w] = "gone"]
    /\ workerWG' = [workerWG EXCEPT ![w[1]] = @ - (IF at[w] = "replaced" THEN 2 ELSE 1)]
    /\ UNCHANGED <<buildVars, verdict, healthy, up>>

\* The worker returns, and its deferred DoneWorker runs.
DoneWorker(w) ==
    /\ at' = [at EXCEPT ![w] = "gone"]
    /\ workerWG' = [workerWG EXCEPT ![w[1]] = @ - 1]
    /\ UNCHANGED <<buildVars, verdict, healthy, up>>

\* select: both cases may be ready, and then either is taken.
Tick(w) ==
    /\ Moves(w, "select", "probe")
    /\ UNCHANGED <<buildVars, workerWG, verdict, healthy, up>>

\* Fault: break instead of return leaves the select and not the loop.
SeeDoneBreaks(w) ==
    w[1] \in cancelled /\ at[w] = "select" /\ UNCHANGED proberVars

SeeDone(w) == w[1] \in cancelled /\ at[w] = "select" /\ DoneWorker(w)

\* Check returns: 200, or an error.  The context of the probe derives from
\* the one of the runtime, so cancelling that fails the probe as well.
Verdicts(w) == IF w[2] \in Flaky \/ w[1] \in cancelled THEN BOOLEAN ELSE {TRUE}

\* Fault: SetHealthy publishes changes of the flag only.
ProbeChanges(w) ==
    /\ at[w] = "probe"
    /\ \E val \in Verdicts(w) :
         /\ at' = [at EXCEPT ![w] = IF healthy[<<w[1], w[2]>>] = val
                                    THEN "select" ELSE "publish"]
         /\ verdict' = [verdict EXCEPT ![w] = val]
         /\ healthy' = [healthy EXCEPT ![<<w[1], w[2]>>] = val]
    /\ UNCHANGED <<buildVars, workerWG, up>>

\* The verdict is stored by Backend.SetHealthy: the flag, then the gauge.
Probe(w) ==
    /\ Moves(w, "probe", "publish")
    /\ \E val \in Verdicts(w) :
         /\ verdict' = [verdict EXCEPT ![w] = val]
         /\ healthy' = [healthy EXCEPT ![<<w[1], w[2]>>] = val]
    /\ UNCHANGED <<buildVars, workerWG, up>>

Publish(w) ==
    /\ Moves(w, "publish", "select")
    /\ up' = [up EXCEPT ![w[2]] = verdict[w]]
    /\ verdict' = [verdict EXCEPT ![w] = TRUE]
    /\ UNCHANGED <<buildVars, workerWG, healthy>>

Successor(w) == <<w[1], w[2], w[3] + 1>>

\* The workers that panicked.
Panicked == {w \in Workers : \/ at[w] \in Recovering
                             \/ w[3] < Incarnations /\ at[Successor(w)] # "unborn"}

ProbePanics(w) ==
    /\ w[2] \in Flaky /\ Cardinality(Panicked) < Incarnations - 1
    /\ Moves(w, "probe", "backoff")
    /\ UNCHANGED <<buildVars, workerWG, verdict, healthy, up>>

\* The recovery: two seconds, or the end of the runtime.  The context is
\* looked at before the restart, not during it.
BackoffElapsed(w) ==
    /\ w[1] \notin cancelled /\ Moves(w, "backoff", "restart")
    /\ UNCHANGED <<buildVars, workerWG, verdict, healthy, up>>

BackoffCancelled(w) ==
    w[1] \in cancelled /\ at[w] = "backoff" /\ DoneWorker(w)

\* Fault: the deferred calls run in the other order, DoneWorker first.
RestartAfterDone(w) ==
    /\ at[w] = "restart"
    /\ \/ /\ w[3] = 1
          /\ at' = [at EXCEPT ![w] = "gone", ![Successor(w)] = "restart"]
          /\ workerWG' = [workerWG EXCEPT ![w[1]] = @ - 1]
       \/ /\ w[3] = 2
          /\ at' = [at EXCEPT ![w] = "select"]
          /\ workerWG' = [workerWG EXCEPT ![w[1]] = @ + 1]
    /\ UNCHANGED <<buildVars, verdict, healthy, up>>

\* Fault: the recovery does not restart the prober.
RestartDropped(w) == at[w] = "restart" /\ DoneWorker(w)

\* StartProber: AddWorker, and the successor runs.
Restart(w) ==
    /\ at[w] = "restart"
    /\ at' = [at EXCEPT ![w] = "replaced", ![Successor(w)] = "select"]
    /\ workerWG' = [workerWG EXCEPT ![w[1]] = @ + 1]
    /\ UNCHANGED <<buildVars, verdict, healthy, up>>

Replaced(w) == at[w] = "replaced" /\ DoneWorker(w)

\* What the worker does when it is not in select.
Work(w) ==
    \/ Probe(w) \/ Publish(w)
    \/ BackoffElapsed(w) \/ BackoffCancelled(w) \/ Restart(w) \/ Replaced(w)

ProberNext ==
    \/ BeginBuild \/ BuildBackend \/ BuildFails \/ Install
    \/ \E g \in Gens : StopCancel(g) \/ StopReturn(g)
    \/ \E w \in Workers : Tick(w) \/ SeeDone(w) \/ ProbePanics(w) \/ Work(w)

ProberSpec == ProberInit /\ [][ProberNext]_proberVars

(***************************************************************************)
(* Fairness.  The prober of a backend keeps running: a probe has a         *)
(* deadline, the ticker ticks.  A context that is done stays ready while   *)
(* ticks come one per interval, and select chooses at random: SeeDone is   *)
(* taken when it is offered again and again.                               *)
(***************************************************************************)
Probers == {p \in Gens \X Backends : p[2] <= Upstreams[p[1]]}

Incarnation(p, i) == <<p[1], p[2], i>>

Runs(p)  == \E i \in 1 .. Incarnations : Tick(Incarnation(p, i)) \/ Work(Incarnation(p, i))
Stops(p) == \E i \in 1 .. Incarnations : SeeDone(Incarnation(p, i))

ProberLiveSpec ==
    /\ ProberSpec
    /\ \A p \in Probers : WF_proberVars(Runs(p)) /\ SF_proberVars(Stops(p))

-----------------------------------------------------------------------------
(***************************************************************************)
(* Properties.                                                             *)
(***************************************************************************)
\* workerWG counts the workers that are alive.
WorkersCounted == \A g \in Gens : workerWG[g] = Cardinality(AliveOf(g))

\* After Runtime.Stop has returned no worker of the runtime is left, and
\* none comes back from the recovery of a panic: nothing probes an upstream
\* or writes the gauge for a retired runtime.
RetiredIsQuiet == \A g \in retired : AliveOf(g) = {}

\* A backend is never probed by two workers of a generation: a restarted
\* prober replaces the one that panicked.
OneProberPerBackend ==
    \A v, w \in Workers :
        (v[1] = w[1] /\ v[2] = w[2] /\ at[v] \in Running /\ at[w] \in Running) => v = w

\* The recovery of a panic replaces one worker by one: it neither doubles a
\* prober nor brings one back after Stop.
RestartSafe == RetiredIsQuiet /\ OneProberPerBackend

\* The runtime's view: a worker leaves for good only after cancellation, and
\* one that restarts never makes Stop return too early.
Assumed == INSTANCE Workers WITH
    Runtimes <- Gens, cancelled <- cancelled, retired <- retired,
    workers <- [g \in Gens |-> Cardinality({w[2] : w \in AliveOf(g)})]

ImplementsWorkers == Assumed!WorkersSpec

\* Every worker of a cancelled runtime leaves, whatever it was doing, also
\* the workers of a build that failed, for which nobody waits.
WorkersLeave == \A g \in Gens : (g \in cancelled) ~> (AliveOf(g) = {})

\* A prober that panics comes back: a backend in use is probed for ever.
KeepsProbing ==
    \A g \in Gens, b \in Backends :
        []<>(built[g] < b \/ g \in cancelled
               \/ \E w \in Workers : w[1] = g /\ w[2] = b /\ at[w] = "probe")

\* Nothing of another generation is left that could write the gauge.
Alone(g) ==
    /\ g \notin cancelled
    /\ \A h \in Gens \ {g} : AliveOf(h) = {} /\ (h > latest \/ h \in cancelled)

\* A gauge that a retiring or refused generation has overwritten, with the
\* verdict of a probe that its own cancellation failed or with the first
\* "up" of a new backend, catches up with the flag of the active one.
GaugeCatchesUp ==
    \A b \in Backends :
        []<>(~Alone(active) \/ b > Upstreams[active] \/ up[b] = healthy[<<active, b>>])
=============================================================================
