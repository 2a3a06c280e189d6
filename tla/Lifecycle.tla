------------------------------ MODULE Lifecycle ------------------------------
(***************************************************************************)
(* The runtime lifecycle of the Go proxy: proxy.Server (Start, Shutdown,   *)
(* Reload and the acquire/release pair of httpHandler), runtime.Runtime    *)
(* (the two WaitGroups and Stop) and reload.Manager.Reload.                *)
(*                                                                         *)
(* A goroutine is the one running Server.Start, one calling                *)
(* Server.Shutdown or one calling Manager.Reload; pc says where it is.     *)
(* Every client is one keep-alive connection, served by a goroutine of     *)
(* net/http.  A step is what the code does between two points where        *)
(* another goroutine can observe or change shared state.  A critical       *)
(* section that holds runtimeMu for writing is one step, enabled when no   *)
(* handler is inside its read-locked section (LockFree).                   *)
(***************************************************************************)
EXTENDS Naturals, FiniteSets

CONSTANTS
    Clients,        \* client connections
    Callers,        \* goroutines that may call Server.Shutdown
    Reloaders,      \* goroutines that call Manager.Reload (main.go has one)
    Starter,        \* the goroutine that runs Server.Start
    MaxGen,         \* bound on the generations that are built
    Probers,        \* health probers (workers) of a complete runtime
    EarlyShutdown,  \* Shutdown may overlap the start-up part of Start
    ServeMayFail    \* http.Server.Serve may return an unexpected error

ASSUME ClientsAssumption == IsFiniteSet(Clients)
ASSUME GoroutineAssumption ==
    /\ Starter \notin Callers \cup Reloaders
    /\ Callers \cap Reloaders = {}
ASSUME BoundAssumption == MaxGen \in Nat \ {0} /\ Probers \in Nat
ASSUME EnvironmentAssumption ==
    EarlyShutdown \in BOOLEAN /\ ServeMayFail \in BOOLEAN

VARIABLES
    state, ready, active,             \* Server.state, .ready, .runtime
    shutdownDone, shutdownErr,        \* the channel is closed; err # nil
    srvSet, baseCancelled,            \* Server.srv # nil; forceCancel ran
    listening, inShutdown,            \* http.Server: Serve loop, Shutdown
    pc, rt, fresh, result,            \* goroutine-local state
    nextGeneration, cancelled,        \* runtimes built; Runtime.cancel ran
    requestWG, workerWG, retired,     \* WaitGroups; Stop has returned
    gauge,                            \* metric torus_runtime_generation
    conn, held                        \* connections; the handler's rt

serverVars  == <<state, ready, active, shutdownDone, shutdownErr>>
httpVars    == <<srvSet, baseCancelled, listening, inShutdown>>
localVars   == <<pc, rt, fresh, result>>
runtimeVars == <<nextGeneration, cancelled, requestWG, workerWG, retired>>
connVars    == <<conn, held>>
vars == <<serverVars, httpVars, localVars, runtimeVars, gauge, connVars>>

Runtimes   == 1 .. MaxGen
Goroutines == {Starter} \cup Callers \cup Reloaders

(***************************************************************************)
(* Where a goroutine can be.  The three Stop states are inside             *)
(* Runtime.Stop; the owner states follow a Shutdown that took ownership.   *)
(***************************************************************************)
StopStates    == {"cancel", "waitRequests", "waitWorkers"}
StarterStates == {"start", "listen", "publishReady", "publishRunning",
                  "serve", "serving", "serveFailed", "forceCancel", "done"}
CallerStates  == {"idle", "awaiting", "ownedStarting", "ownedRunning",
                  "draining", "forcing", "complete", "failed", "done",
                  "panicked"}
ReloaderStates == {"idle", "built", "swapped"}
OwnerStates   == {"ownedStarting", "ownedRunning", "draining", "forcing",
                  "complete", "failed"} \cup StopStates

ConnStates == {"closed", "open", "loaded", "acquired", "idle"}

TypeOK ==
    /\ state \in {"starting", "running", "shuttingDown", "stopped"}
    /\ ready \in BOOLEAN /\ active \in Runtimes
    /\ shutdownDone \in BOOLEAN /\ shutdownErr \in BOOLEAN
    /\ srvSet \in BOOLEAN /\ baseCancelled \in BOOLEAN
    /\ listening \in BOOLEAN /\ inShutdown \in BOOLEAN
    /\ pc \in [Goroutines ->
                 StopStates \cup StarterStates \cup CallerStates \cup ReloaderStates]
    /\ pc[Starter] \in StopStates \cup StarterStates
    /\ \A c \in Callers : pc[c] \in StopStates \cup CallerStates
    /\ \A m \in Reloaders : pc[m] \in StopStates \cup ReloaderStates
    /\ rt \in [Goroutines -> Runtimes]
    /\ fresh \in [Reloaders -> Runtimes]
    /\ result \in [Callers -> {"none", "nil", "err"}]
    /\ nextGeneration \in Runtimes
    /\ cancelled \in SUBSET Runtimes /\ retired \in SUBSET Runtimes
    /\ requestWG \in [Runtimes -> Nat] /\ workerWG \in [Runtimes -> Nat]
    /\ gauge \in Runtimes
    /\ conn \in [Clients -> ConnStates]
    /\ held \in [Clients -> Runtimes]

-----------------------------------------------------------------------------
(***************************************************************************)
(* main.go has built generation 1 and created the server.                  *)
(***************************************************************************)
Init ==
    /\ state = "starting" /\ ready = FALSE /\ active = 1
    /\ shutdownDone = FALSE /\ shutdownErr = FALSE
    /\ srvSet = FALSE /\ baseCancelled = FALSE
    /\ listening = FALSE /\ inShutdown = FALSE
    /\ pc = [g \in Goroutines |-> IF g = Starter THEN "start" ELSE "idle"]
    /\ rt = [g \in Goroutines |-> 1]
    /\ fresh = [m \in Reloaders |-> 1]
    /\ result = [c \in Callers |-> "none"]
    /\ nextGeneration = 1 /\ cancelled = {} /\ retired = {}
    /\ requestWG = [g \in Runtimes |-> 0]
    /\ workerWG = [g \in Runtimes |-> IF g = 1 THEN Probers ELSE 0]
    /\ gauge = 1
    /\ conn = [c \in Clients |-> "closed"]
    /\ held = [c \in Clients |-> 1]

Goto(g, from, to) == pc[g] = from /\ pc' = [pc EXCEPT ![g] = to]

\* Fault: writers do not wait for the handlers' read-locked section.
LockIgnored == TRUE

\* No handler is inside runtimeMu.RLock: a writer can take the lock.
LockFree == \A c \in Clients : conn[c] # "loaded"

\* The runtime g is held by the handlers of these clients.
Holders(g) == {c \in Clients : conn[c] = "acquired" /\ held[c] = g}

-----------------------------------------------------------------------------
(***************************************************************************)
(* Connections and httpHandler.                                            *)
(***************************************************************************)
\* http.Server accepts a connection, or one on keep-alive sends a request.
Accept(c) ==
    /\ conn[c] = "closed" /\ listening
    /\ conn' = [conn EXCEPT ![c] = "open"]
    /\ UNCHANGED <<serverVars, httpVars, localVars, runtimeVars, gauge, held>>

NextRequest(c) ==
    /\ conn[c] = "idle"
    /\ conn' = [conn EXCEPT ![c] = "open"]
    /\ UNCHANGED <<serverVars, httpVars, localVars, runtimeVars, gauge, held>>

\* The client goes away, or a read or idle timeout closes the connection.
Disconnect(c) ==
    /\ conn[c] \in {"open", "idle"}
    /\ conn' = [conn EXCEPT ![c] = "closed"]
    /\ UNCHANGED <<serverVars, httpVars, localVars, runtimeVars, gauge, held>>

\* runtimeMu.RLock; rt := s.runtime.Load()
HandlerLoad(c) ==
    /\ conn[c] = "open"
    /\ conn' = [conn EXCEPT ![c] = "loaded"]
    /\ held' = [held EXCEPT ![c] = active]
    /\ UNCHANGED <<serverVars, httpVars, localVars, runtimeVars, gauge>>

\* rt.AcquireRequest(); runtimeMu.RUnlock
AcquireRequest(c) ==
    /\ conn[c] = "loaded"
    /\ conn' = [conn EXCEPT ![c] = "acquired"]
    /\ requestWG' = [requestWG EXCEPT ![held[c]] = @ + 1]
    /\ UNCHANGED <<serverVars, httpVars, localVars, nextGeneration, cancelled,
                   workerWG, retired, gauge, held>>

\* Fault: the deferred release goes to the runtime that is active by then.
ReleaseOfActive(c, next) ==
    /\ conn[c] = "acquired"
    /\ inShutdown => next = "closed"
    /\ conn' = [conn EXCEPT ![c] = next]
    /\ requestWG' = [requestWG EXCEPT ![active] = @ - 1]
    /\ UNCHANGED <<serverVars, httpVars, localVars, nextGeneration, cancelled,
                   workerWG, retired, gauge, held>>

\* The handler returns and its deferred ReleaseRequest runs.  The connection
\* goes back to keep-alive unless http.Server is shutting down.
Release(c, next) ==
    /\ conn[c] = "acquired"
    /\ inShutdown => next = "closed"
    /\ conn' = [conn EXCEPT ![c] = next]
    /\ requestWG' = [requestWG EXCEPT ![held[c]] = @ - 1]
    /\ UNCHANGED <<serverVars, httpVars, localVars, nextGeneration, cancelled,
                   workerWG, retired, gauge, held>>

Finish(c) == \E next \in {"idle", "closed"} : Release(c, next)

Request(c) ==
    \/ Accept(c) \/ NextRequest(c) \/ Disconnect(c)
    \/ HandlerLoad(c) \/ AcquireRequest(c) \/ Finish(c)

-----------------------------------------------------------------------------
(***************************************************************************)
(* Runtime.Stop, called with the runtime rt[g] by any goroutine g.         *)
(***************************************************************************)
AfterStop(g) == IF g = Starter THEN "done"
                ELSE IF g \in Callers THEN "complete" ELSE "idle"

\* Fault: Stop waits for the workers without telling them.
StopWithoutCancel(g) ==
    /\ Goto(g, "cancel", "waitRequests")
    /\ UNCHANGED <<serverVars, httpVars, rt, fresh, result, runtimeVars, gauge,
                   connVars>>

StopCancel(g) ==
    /\ Goto(g, "cancel", "waitRequests")
    /\ cancelled' = cancelled \cup {rt[g]}
    /\ UNCHANGED <<serverVars, httpVars, rt, fresh, result, nextGeneration,
                   requestWG, workerWG, retired, gauge, connVars>>

StopRequests(g) ==
    /\ Goto(g, "waitRequests", "waitWorkers")
    /\ requestWG[rt[g]] = 0
    /\ UNCHANGED <<serverVars, httpVars, rt, fresh, result, runtimeVars, gauge,
                   connVars>>

\* Fault: Stop waits for the requests only.
StopWorkersUnwaited(g) ==
    /\ Goto(g, "waitWorkers", AfterStop(g))
    /\ retired' = retired \cup {rt[g]}
    /\ UNCHANGED <<serverVars, httpVars, rt, fresh, result, nextGeneration,
                   cancelled, requestWG, workerWG, gauge, connVars>>

StopWorkers(g) ==
    /\ Goto(g, "waitWorkers", AfterStop(g))
    /\ workerWG[rt[g]] = 0
    /\ retired' = retired \cup {rt[g]}
    /\ UNCHANGED <<serverVars, httpVars, rt, fresh, result, nextGeneration,
                   cancelled, requestWG, workerWG, gauge, connVars>>

Stop(g) == StopCancel(g) \/ StopRequests(g) \/ StopWorkers(g)

\* Fault: a prober calls DoneWorker twice.
WorkerExitTwice(g) ==
    /\ g \in cancelled /\ workerWG[g] > 0
    /\ workerWG' = [workerWG EXCEPT ![g] = @ - 2]
    /\ UNCHANGED <<serverVars, httpVars, localVars, nextGeneration, cancelled,
                   requestWG, retired, gauge, connVars>>

\* A health prober sees the cancelled context and calls DoneWorker.  A prober
\* that panics adds its successor before it leaves, so the count stays.
WorkerExit(g) ==
    /\ g \in cancelled /\ workerWG[g] > 0
    /\ workerWG' = [workerWG EXCEPT ![g] = @ - 1]
    /\ UNCHANGED <<serverVars, httpVars, localVars, nextGeneration, cancelled,
                   requestWG, retired, gauge, connVars>>

-----------------------------------------------------------------------------
(***************************************************************************)
(* Server.Start.  The stores of ready and of state take no lock.           *)
(***************************************************************************)
StartSetup ==
    /\ Goto(Starter, "start", "listen")
    /\ rt' = [rt EXCEPT ![Starter] = active]
    /\ srvSet' = TRUE
    /\ UNCHANGED <<serverVars, baseCancelled, listening, inShutdown, fresh,
                   result, runtimeVars, gauge, connVars>>

ListenOk ==
    /\ Goto(Starter, "listen", "publishReady")
    /\ UNCHANGED <<serverVars, httpVars, rt, fresh, result, runtimeVars, gauge,
                   connVars>>

ListenFail ==
    /\ Goto(Starter, "listen", "cancel")
    /\ ready' = FALSE /\ state' = "stopped"
    /\ baseCancelled' = TRUE
    /\ UNCHANGED <<active, shutdownDone, shutdownErr, srvSet, listening,
                   inShutdown, rt, fresh, result, runtimeVars, gauge, connVars>>

StoreReady ==
    /\ Goto(Starter, "publishReady", "publishRunning")
    /\ ready' = TRUE
    /\ UNCHANGED <<state, active, shutdownDone, shutdownErr, httpVars, rt,
                   fresh, result, runtimeVars, gauge, connVars>>

StoreRunning ==
    /\ Goto(Starter, "publishRunning", "serve")
    /\ state' = "running"
    /\ UNCHANGED <<ready, active, shutdownDone, shutdownErr, httpVars, rt,
                   fresh, result, runtimeVars, gauge, connVars>>

\* Serve refuses a server that is already shutting down (ErrServerClosed).
Serve ==
    /\ Goto(Starter, "serve", IF inShutdown THEN "done" ELSE "serving")
    /\ listening' = ~inShutdown
    /\ UNCHANGED <<serverVars, srvSet, baseCancelled, inShutdown, rt, fresh,
                   result, runtimeVars, gauge, connVars>>

ServeClosed ==
    /\ Goto(Starter, "serving", "done")
    /\ inShutdown
    /\ UNCHANGED <<serverVars, httpVars, rt, fresh, result, runtimeVars, gauge,
                   connVars>>

\* Accept fails for good; connections that are already open live on.
ServeFail ==
    /\ ServeMayFail
    /\ Goto(Starter, "serving", "serveFailed")
    /\ ~inShutdown
    /\ listening' = FALSE
    /\ UNCHANGED <<serverVars, srvSet, baseCancelled, inShutdown, rt, fresh,
                   result, runtimeVars, gauge, connVars>>

\* The section of Start that decides, under runtimeMu, who cleans up.
ServeFailStop ==
    /\ LockFree /\ state = "running"
    /\ Goto(Starter, "serveFailed", "forceCancel")
    /\ ready' = FALSE /\ state' = "stopped"
    /\ rt' = [rt EXCEPT ![Starter] = active]
    /\ UNCHANGED <<active, shutdownDone, shutdownErr, httpVars, fresh, result,
                   runtimeVars, gauge, connVars>>

ServeFailYield ==
    /\ LockFree /\ state # "running"
    /\ Goto(Starter, "serveFailed", "done")
    /\ UNCHANGED <<serverVars, httpVars, rt, fresh, result, runtimeVars, gauge,
                   connVars>>

StartForceCancel ==
    /\ Goto(Starter, "forceCancel", "cancel")
    /\ baseCancelled' = TRUE
    /\ UNCHANGED <<serverVars, srvSet, listening, inShutdown, rt, fresh, result,
                   runtimeVars, gauge, connVars>>

StarterStep ==
    \/ StartSetup \/ ListenOk \/ ListenFail \/ StoreReady \/ StoreRunning
    \/ Serve \/ ServeClosed \/ ServeFailStop \/ ServeFailYield
    \/ StartForceCancel \/ Stop(Starter)

-----------------------------------------------------------------------------
(***************************************************************************)
(* Server.Shutdown, called by c.                                           *)
(***************************************************************************)
\* c is free to call and gets runtimeMu.
MayShutdown(c) == LockFree /\ pc[c] = "idle"

ErrOf(failed) == IF failed THEN "err" ELSE "nil"

ShutdownStopped(c) ==
    /\ MayShutdown(c) /\ state = "stopped"
    /\ pc' = [pc EXCEPT ![c] = "done"]
    /\ result' = [result EXCEPT ![c] = ErrOf(shutdownErr)]
    /\ UNCHANGED <<serverVars, httpVars, rt, fresh, runtimeVars, gauge, connVars>>

ShutdownJoin(c) ==
    /\ MayShutdown(c) /\ state = "shuttingDown"
    /\ pc' = [pc EXCEPT ![c] = "awaiting"]
    /\ UNCHANGED <<serverVars, httpVars, rt, fresh, result, runtimeVars, gauge,
                   connVars>>

\* Fault: a caller that joins does not wait for shutdownDone.
AwaitedTooEarly(c) ==
    /\ Goto(c, "awaiting", "done")
    /\ LockFree
    /\ result' = [result EXCEPT ![c] = ErrOf(shutdownErr)]
    /\ UNCHANGED <<serverVars, httpVars, rt, fresh, runtimeVars, gauge, connVars>>

ShutdownAwaited(c) ==
    /\ Goto(c, "awaiting", "done")
    /\ shutdownDone /\ LockFree
    /\ result' = [result EXCEPT ![c] = ErrOf(shutdownErr)]
    /\ UNCHANGED <<serverVars, httpVars, rt, fresh, runtimeVars, gauge, connVars>>

\* Fault: the owner stores neither SHUTTING_DOWN nor ready = false.
OwnUnmarked(c) ==
    /\ MayShutdown(c) /\ state \in {"starting", "running"}
    /\ pc' = [pc EXCEPT ![c] = "ownedRunning"]
    /\ rt' = [rt EXCEPT ![c] = active]
    /\ UNCHANGED <<serverVars, httpVars, fresh, result, runtimeVars, gauge, connVars>>

\* Fault: any caller becomes an owner, whatever the state.
OwnFromAnyState(c) ==
    /\ MayShutdown(c)
    /\ pc' = [pc EXCEPT ![c] = "ownedRunning"]
    /\ state' = "shuttingDown" /\ ready' = FALSE
    /\ rt' = [rt EXCEPT ![c] = active]
    /\ UNCHANGED <<active, shutdownDone, shutdownErr, httpVars, fresh, result,
                   runtimeVars, gauge, connVars>>

ShutdownOwn(c) ==
    /\ MayShutdown(c) /\ state \in {"starting", "running"}
    /\ pc' = [pc EXCEPT ![c] =
                IF state = "running" THEN "ownedRunning" ELSE "ownedStarting"]
    /\ state' = "shuttingDown" /\ ready' = FALSE
    /\ rt' = [rt EXCEPT ![c] = active]
    /\ UNCHANGED <<active, shutdownDone, shutdownErr, httpVars, fresh, result,
                   runtimeVars, gauge, connVars>>

\* s.srv is read without synchronisation: an owner that saw STARTING may
\* still read nil after Start has assigned it (a data race).
ShutdownNoServer(c) ==
    /\ Goto(c, "ownedStarting", "cancel")
    /\ UNCHANGED <<serverVars, httpVars, rt, fresh, result, runtimeVars, gauge,
                   connVars>>

\* srv.Shutdown(ctx): close the listener and the idle connections.
HttpShutdown(c) ==
    /\ pc[c] = "ownedRunning" \/ (pc[c] = "ownedStarting" /\ srvSet)
    /\ pc' = [pc EXCEPT ![c] = "draining"]
    /\ inShutdown' = TRUE /\ listening' = FALSE
    /\ conn' = [d \in Clients |-> IF conn[d] = "idle" THEN "closed" ELSE conn[d]]
    /\ UNCHANGED <<serverVars, srvSet, baseCancelled, rt, fresh, result,
                   runtimeVars, gauge, held>>

Drained == \A c \in Clients : conn[c] = "closed"

HttpDrained(c) ==
    /\ Drained /\ Goto(c, "draining", "cancel")
    /\ UNCHANGED <<serverVars, httpVars, rt, fresh, result, runtimeVars, gauge,
                   connVars>>

\* The grace period expires: forceCancel, then a second srv.Shutdown.
DrainTimeout(c) ==
    /\ Goto(c, "draining", "forcing")
    /\ baseCancelled' = TRUE
    /\ UNCHANGED <<serverVars, srvSet, listening, inShutdown, rt, fresh, result,
                   runtimeVars, gauge, connVars>>

ForcedDrained(c) ==
    /\ Drained /\ Goto(c, "forcing", "cancel")
    /\ UNCHANGED <<serverVars, httpVars, rt, fresh, result, runtimeVars, gauge,
                   connVars>>

\* Fault: the forced srv.Shutdown has no deadline.
NoForcedTimeout(c) == pc[c] = "forcing" /\ FALSE /\ UNCHANGED vars

\* Fault: the error of the forced srv.Shutdown is dropped.
ForcedErrorDropped(c) ==
    /\ Goto(c, "forcing", "complete")
    /\ UNCHANGED <<serverVars, httpVars, rt, fresh, result, runtimeVars, gauge,
                   connVars>>

ForcedTimeout(c) ==
    /\ Goto(c, "forcing", "failed")
    /\ UNCHANGED <<serverVars, httpVars, rt, fresh, result, runtimeVars, gauge,
                   connVars>>

\* complete(err): the state stays SHUTTING_DOWN when err # nil.
Complete(c) ==
    /\ pc[c] \in {"complete", "failed"}
    /\ LockFree /\ ~shutdownDone
    /\ pc' = [pc EXCEPT ![c] = "done"]
    /\ shutdownErr' = (pc[c] = "failed")
    /\ state' = IF pc[c] = "failed" THEN state ELSE "stopped"
    /\ shutdownDone' = TRUE
    /\ result' = [result EXCEPT ![c] = ErrOf(pc[c] = "failed")]
    /\ UNCHANGED <<ready, active, httpVars, rt, fresh, runtimeVars, gauge,
                   connVars>>

\* complete closes a closed channel: the panic ends the process.
CompletePanic(c) ==
    /\ pc[c] \in {"complete", "failed"}
    /\ LockFree /\ shutdownDone
    /\ pc' = [pc EXCEPT ![c] = "panicked"]
    /\ shutdownErr' = (pc[c] = "failed")
    /\ state' = IF pc[c] = "failed" THEN state ELSE "stopped"
    /\ UNCHANGED <<ready, active, shutdownDone, httpVars, rt, fresh, result,
                   runtimeVars, gauge, connVars>>

\* Calling Shutdown is the environment's choice; the rest is its own work.
ShutdownCall(c) == ShutdownStopped(c) \/ ShutdownJoin(c) \/ ShutdownOwn(c)

ShutdownStep(c) ==
    \/ ShutdownAwaited(c) \/ ShutdownNoServer(c) \/ HttpShutdown(c)
    \/ HttpDrained(c) \/ DrainTimeout(c) \/ ForcedDrained(c) \/ ForcedTimeout(c)
    \/ Stop(c) \/ Complete(c) \/ CompletePanic(c)

-----------------------------------------------------------------------------
(***************************************************************************)
(* Manager.Reload, called by m: build a runtime, then Server.Reload.  A    *)
(* configuration or certificate that does not load ends the call before it *)
(* has a generation or a worker: nothing changes, so it is no action here. *)
(***************************************************************************)
\* BuildRuntime fails on backend k+1: the generation is used up, the k
\* probers already started are cancelled and nobody waits for them.
BuildPartial(m) ==
    /\ pc[m] = "idle" /\ nextGeneration < MaxGen
    /\ nextGeneration' = nextGeneration + 1
    /\ cancelled' = cancelled \cup {nextGeneration + 1}
    /\ \E k \in 0 .. Probers :
         workerWG' = [workerWG EXCEPT ![nextGeneration + 1] = k]
    /\ UNCHANGED <<serverVars, httpVars, localVars, requestWG, retired, gauge,
                   connVars>>

BuildRuntime(m) ==
    /\ Goto(m, "idle", "built")
    /\ nextGeneration < MaxGen
    /\ nextGeneration' = nextGeneration + 1
    /\ workerWG' = [workerWG EXCEPT ![nextGeneration + 1] = Probers]
    /\ rt' = [rt EXCEPT ![m] = nextGeneration + 1]
    /\ UNCHANGED <<serverVars, httpVars, fresh, result, cancelled, requestWG,
                   retired, gauge, connVars>>

\* Fault: Manager.Reload does not stop the runtime that was refused.
RejectWithoutStop(m) ==
    /\ LockFree /\ state # "running"
    /\ Goto(m, "built", "idle")
    /\ UNCHANGED <<serverVars, httpVars, rt, fresh, result, runtimeVars, gauge,
                   connVars>>

\* ErrServerNotRunning: Manager.Reload stops the runtime it built.
ReloadReject(m) ==
    /\ LockFree /\ state # "running"
    /\ Goto(m, "built", "cancel")
    /\ UNCHANGED <<serverVars, httpVars, rt, fresh, result, runtimeVars, gauge,
                   connVars>>

\* oldRuntime := s.runtime.Swap(newRuntime)
ReloadSwap(m) ==
    /\ LockFree /\ state = "running"
    /\ Goto(m, "built", "swapped")
    /\ active' = rt[m]
    /\ rt' = [rt EXCEPT ![m] = active]
    /\ fresh' = [fresh EXCEPT ![m] = rt[m]]
    /\ UNCHANGED <<state, ready, shutdownDone, shutdownErr, httpVars, result,
                   runtimeVars, gauge, connVars>>

\* observability.SetRuntimeGeneration, after runtimeMu is released.
ReloadGauge(m) ==
    /\ Goto(m, "swapped", "cancel")
    /\ gauge' = fresh[m]
    /\ UNCHANGED <<serverVars, httpVars, rt, fresh, result, runtimeVars, connVars>>

ReloadCall(m) == BuildPartial(m) \/ BuildRuntime(m)

ReloadStep(m) == ReloadReject(m) \/ ReloadSwap(m) \/ ReloadGauge(m) \/ Stop(m)

-----------------------------------------------------------------------------
\* A panic in any goroutine ends the process and so every step.
ProcessAlive == \A c \in Callers : pc[c] # "panicked"

\* Start has published RUNNING or has failed before it listened.
StartPublished ==
    pc[Starter] \notin {"start", "listen", "publishReady", "publishRunning"}

\* When Shutdown is called.  The code does not ask, and main.go calls it on a
\* signal that may come while Start is still starting up (EarlyShutdown).
MayCall == EarlyShutdown \/ StartPublished

Next ==
    /\ ProcessAlive
    /\ \/ \E c \in Clients : Request(c)
       \/ \E g \in Runtimes : WorkerExit(g)
       \/ StarterStep \/ ServeFail
       \/ \E c \in Callers : (MayCall /\ ShutdownCall(c)) \/ ShutdownStep(c)
       \/ \E m \in Reloaders : ReloadCall(m) \/ ReloadStep(m)

Spec == Init /\ [][Next]_vars

-----------------------------------------------------------------------------
(***************************************************************************)
(* Fairness.  Every goroutine keeps running its own code; the ones that    *)
(* take runtimeMu for writing get it (sync.RWMutex holds back new readers  *)
(* while a writer waits), hence strong fairness.  Probers leave once their *)
(* context is cancelled.  Nothing is assumed of clients or upstreams.      *)
(***************************************************************************)
Fairness ==
    /\ SF_vars(ProcessAlive /\ StarterStep)
    /\ \A c \in Callers : SF_vars(ProcessAlive /\ ShutdownStep(c))
    /\ \A m \in Reloaders : SF_vars(ProcessAlive /\ ReloadStep(m))
    /\ \A c \in Clients : WF_vars(ProcessAlive /\ AcquireRequest(c))
    /\ \A g \in Runtimes : WF_vars(ProcessAlive /\ WorkerExit(g))

LiveSpec == Spec /\ Fairness

-----------------------------------------------------------------------------
(***************************************************************************)
(* Safety.                                                                 *)
(***************************************************************************)
\* requestWG counts the handlers that hold a runtime: Add and Done of
\* httpHandler always hit the same runtime, reloads in between or not.
RequestsCounted == \A g \in Runtimes : requestWG[g] = Cardinality(Holders(g))

\* A request that acquired a runtime keeps it alive: Runtime.Stop of that
\* runtime has not returned while the handler runs.
HeldRuntimeAlive == \A c \in Clients : conn[c] = "acquired" => held[c] \notin retired

\* No handler registers with a runtime whose Stop has begun: requestWG.Add
\* never races with requestWG.Wait.
NoAcquireAfterCancel ==
    [][\A g \in cancelled : requestWG'[g] <= requestWG[g]]_vars

\* Ownership: a runtime that was built and is not cancelled is the active one
\* or is in the hands of exactly one Manager.Reload, which will install it
\* or stop it; a replaced runtime is in the hands of the Reload that did it.
OwnedUntilCancelled ==
    \A g \in (1 .. nextGeneration) \ cancelled :
        \/ g = active
        \/ \E m \in Reloaders :
             /\ rt[m] = g /\ pc[m] \in {"built", "swapped", "cancel"}
             /\ \A n \in Reloaders \ {m} : ~(rt[n] = g /\ pc[n] # "idle")

IsOwner(c) == pc[c] \in OwnerStates

\* Readiness becomes false when the shutdown begins, before the drain
\* completes: once a caller owns the shutdown /ready answers 503, for good.
NotReadyOnceShutdown ==
    (shutdownDone \/ \E c \in Callers : IsOwner(c)) => ~ready

\* One caller at most owns the shutdown, so shutdownDone is closed once.
OneShutdownOwner ==
    \A c, d \in Callers : IsOwner(c) => (IsOwner(d) => c = d) /\ ~shutdownDone

\* Shutdown is a hard boundary: once a caller owns it no runtime is installed.
NoInstallAfterShutdown ==
    [][(shutdownDone \/ \E c \in Callers : IsOwner(c)) => active' = active]_vars

\* The lifecycle state never goes back, and STOPPED is final, whenever Shutdown
\* is called and however Serve ends.  The one step that may go back is Start's
\* own store of RUNNING, made without runtimeMu over whatever is there.
Rank == [starting |-> 0, running |-> 1, shuttingDown |-> 2, stopped |-> 3]

LifecycleOrder ==
    [][\/ Rank[state] <= Rank[state']
       \/ pc[Starter] = "publishRunning" /\ pc'[Starter] = "serve"]_vars

\* A successful Shutdown leaves nothing behind: every connection is closed,
\* no runtime has a request and the active runtime has no worker.
ShutdownLeavesNothing ==
    shutdownDone /\ ~shutdownErr =>
        /\ \A c \in Clients : conn[c] = "closed"
        /\ \A g \in Runtimes : requestWG[g] = 0
        /\ active \in retired /\ workerWG[active] = 0

\* Callers of Shutdown agree on its result.
SameShutdownResult ==
    \A c, d \in Callers : result[c] # "none" /\ result[d] # "none" => result[c] = result[d]

-----------------------------------------------------------------------------
(***************************************************************************)
(* Liveness.                                                               *)
(***************************************************************************)
\* A Shutdown that overlapped Start found no http.Server: it waits without a
\* deadline for requests that Start goes on serving.  An owner that drained
\* the server finds none.
WaitsUndrained(c) == pc[c] = "waitRequests" /\ requestWG[rt[c]] > 0

\* Shutdown returns to its owner and to everyone who joined, whatever the
\* clients and the upstreams do; the only ones that may not return are an
\* owner that overlapped Start and those who wait for it.  A caller calls
\* once: each call ends if, again and again, none is under way.
Settled(c) ==
    \/ pc[c] \in {"idle", "done"} \/ WaitsUndrained(c)
    \/ pc[c] = "awaiting" /\ \E d \in Callers : WaitsUndrained(d)

ShutdownReturns == []<>(~ProcessAlive \/ \A c \in Callers : Settled(c))

\* A runtime that was replaced or refused is retired once no request holds
\* it, and Reload returns: nothing that happens around it keeps it alive.
ReplacedRuntimeRetired ==
    \A m \in Reloaders :
        (pc[m] \in {"swapped"} \cup StopStates /\ Holders(rt[m]) = {})
            ~> (rt[m] \in retired \/ ~ProcessAlive)

-----------------------------------------------------------------------------
(***************************************************************************)
(* Refinement of the abstract generations.                                 *)
(***************************************************************************)
PhaseOf(g) ==
    IF g > nextGeneration THEN "unbuilt"
    ELSE IF g \in retired THEN "retired"
    ELSE IF g = active /\ g \notin cancelled THEN "active"
    ELSE IF \E m \in Reloaders : pc[m] = "built" /\ rt[m] = g THEN "built"
    ELSE "draining"

phaseMap  == [g \in Runtimes |-> PhaseOf(g)]
holderMap == [c \in Clients |-> IF conn[c] = "acquired" THEN held[c] ELSE 0]

Abstract == INSTANCE Generations WITH phase <- phaseMap, holder <- holderMap

\* The server implements the abstract generations.
ImplementsGenerations == Abstract!GenSpec

\* The server uses its workers by the interface that the health probers
\* implement: it starts them before it cancels, and retires a runtime whose
\* last worker has left after that.
Assumed == INSTANCE Workers WITH workers <- workerWG

ImplementsWorkers == Assumed!WorkersSpec
=============================================================================
