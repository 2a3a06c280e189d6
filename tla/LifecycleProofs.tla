--------------------------- MODULE LifecycleProofs ---------------------------
(***************************************************************************)
(* Theorems about Lifecycle, for every set of clients, callers and         *)
(* reloaders and every bound on the generations, the last of them that it  *)
(* implements Generations.                                                 *)
(***************************************************************************)
EXTENDS Lifecycle, FiniteSetTheorems, TLAPS

(***************************************************************************)
(* The inductive invariants.                                               *)
(***************************************************************************)
StartupStates == {"start", "listen", "publishReady", "publishRunning"}

\* Who owns the shutdown, and what that says of state and ready.
ServerInv ==
    /\ pc[Starter] \in StartupStates =>
         state = "starting" /\ ~shutdownDone /\ \A c \in Callers : pc[c] = "idle"
    /\ pc[Starter] \notin StartupStates => state # "starting"
    /\ ready => state = "running" \/ pc[Starter] = "publishRunning"
    /\ \A c \in Callers : IsOwner(c) => state = "shuttingDown" /\ ~shutdownDone
    /\ \A c, d \in Callers : IsOwner(c) /\ IsOwner(d) => c = d
    /\ shutdownDone => state \in {"shuttingDown", "stopped"}

\* No handler runs and none will.
Quiet ==
    /\ Drained /\ ~listening
    /\ inShutdown \/ pc[Starter] \in StopStates \cup {"done"}

\* What net/http serves, and where Start is.
ServeInv ==
    /\ listening => pc[Starter] = "serving" /\ ~inShutdown
    /\ inShutdown => \A c \in Clients : conn[c] # "idle"
    /\ pc[Starter] \in StartupStates \cup {"serve"} => Drained
    /\ pc[Starter] \notin {"serveFailed", "forceCancel"}
    /\ pc[Starter] \in StopStates => Quiet /\ state = "stopped" /\ rt[Starter] = active
    /\ pc[Starter] \in StartupStates => rt[Starter] = active
    /\ pc[Starter] = "done" => inShutdown \/ Quiet

\* The runtime a caller of Shutdown works on.
OwnerInv ==
    \A c \in Callers :
        /\ IsOwner(c) => rt[c] = active
        /\ pc[c] \in {"draining", "forcing"} => inShutdown
        /\ pc[c] # "ownedStarting"
        /\ pc[c] \in StopStates => Quiet

\* The runtimes in the hands of the reloaders.
ReloaderInv ==
    \A m \in Reloaders : pc[m] # "idle" =>
        /\ rt[m] <= nextGeneration /\ rt[m] # active
        /\ pc[m] = "built" =>
             /\ rt[m] \notin cancelled
             /\ requestWG[rt[m]] = 0
             /\ \A n \in Reloaders \ {m} : pc[n] # "idle" => rt[n] # rt[m]

\* Cancelled and retired runtimes.
StopInv ==
    /\ active <= nextGeneration
    /\ \A c \in Clients : conn[c] = "loaded" => held[c] = active
    /\ \A g \in Runtimes : g > nextGeneration =>
         g \notin cancelled /\ requestWG[g] = 0
    /\ active \in cancelled => Quiet
    /\ \A x \in Goroutines : pc[x] \in {"waitRequests", "waitWorkers"} =>
         rt[x] \in cancelled
    /\ \A x \in Goroutines : pc[x] = "waitWorkers" => requestWG[rt[x]] = 0
    /\ retired \subseteq cancelled
    /\ \A g \in retired : requestWG[g] = 0

RuntimeInv == ServeInv /\ OwnerInv /\ ReloaderInv /\ StopInv

-----------------------------------------------------------------------------
(***************************************************************************)
(* Type correctness and request counting, in every environment.            *)
(***************************************************************************)
\* The handlers of a runtime are finitely many, and a runtime that some
\* handler holds has a positive count.
LEMMA HoldersFinite ==
    ASSUME NEW g, NEW S, S = Holders(g)
    PROVE  IsFiniteSet(S) /\ Cardinality(S) \in Nat
<1>1. S \subseteq Clients
  BY DEF Holders
<1>2. IsFiniteSet(S)
  BY <1>1, ClientsAssumption, FS_Subset
<1>. QED
  BY <1>2, FS_CardinalityType

LEMMA HolderCounts ==
    ASSUME TypeOK, RequestsCounted, NEW c \in Clients, conn[c] = "acquired"
    PROVE  requestWG[held[c]] > 0
<1>. DEFINE S == Holders(held[c])
<1>1. c \in S
  BY DEF Holders
<1>2. IsFiniteSet(S) /\ Cardinality(S) \in Nat
  BY HoldersFinite
<1>3. Cardinality(S) # 0
  BY <1>1, <1>2, FS_EmptySet
<1>4. held[c] \in Runtimes
  BY DEF TypeOK
<1>5. requestWG[held[c]] = Cardinality(S)
  BY <1>4 DEF RequestsCounted
<1>. QED
  BY <1>2, <1>3, <1>5

LEMMA TypeInit == Init => TypeOK
<1>. SUFFICES ASSUME Init PROVE TypeOK
  OBVIOUS
<1>1. 1 \in Runtimes /\ 0 \in Nat /\ Probers \in Nat
  BY BoundAssumption DEF Runtimes
<1>2. Starter \in Goroutines /\ Callers \subseteq Goroutines /\ Reloaders \subseteq Goroutines
  BY DEF Goroutines
<1>. QED
  BY <1>1, <1>2, GoroutineAssumption
  DEF Init, TypeOK, StopStates, StarterStates, CallerStates, ReloaderStates, ConnStates

\* Every step keeps the types; a release needs the count to be positive.
LEMMA TypeNext ==
    ASSUME TypeOK, RequestsCounted, [Next]_vars
    PROVE  TypeOK'
<1>. USE DEF Goroutines
<1>a. Starter \notin Callers /\ Starter \notin Reloaders /\ Callers \cap Reloaders = {}
  BY GoroutineAssumption
<1>1. CASE \E c \in Clients : Request(c)
  <2>. PICK c \in Clients : Request(c)
    BY <1>1
  <2>1. CASE Accept(c)
    BY <2>1 DEF TypeOK, Accept, serverVars, httpVars, localVars, runtimeVars, ConnStates
  <2>2. CASE NextRequest(c)
    BY <2>2 DEF TypeOK, NextRequest, serverVars, httpVars, localVars, runtimeVars, ConnStates
  <2>3. CASE Disconnect(c)
    BY <2>3 DEF TypeOK, Disconnect, serverVars, httpVars, localVars, runtimeVars, ConnStates
  <2>4. CASE HandlerLoad(c)
    BY <2>4 DEF TypeOK, HandlerLoad, serverVars, httpVars, localVars, runtimeVars, ConnStates
  <2>5. CASE AcquireRequest(c)
    BY <2>5 DEF TypeOK, AcquireRequest, serverVars, httpVars, localVars, ConnStates
  <2>6. CASE Finish(c)
    <3>. PICK next \in {"idle", "closed"} : Release(c, next)
      BY <2>6 DEF Finish
    <3>1. requestWG[held[c]] > 0
      BY HolderCounts DEF Release
    <3>2. requestWG' \in [Runtimes -> Nat]
      BY <3>1 DEF TypeOK, Release
    <3>. QED
      BY <3>2 DEF TypeOK, Release, serverVars, httpVars, localVars, ConnStates
  <2>. QED
    BY <2>1, <2>2, <2>3, <2>4, <2>5, <2>6 DEF Request
<1>2. CASE \E g \in Runtimes : WorkerExit(g)
  BY <1>2 DEF TypeOK, WorkerExit, serverVars, httpVars, localVars, connVars
<1>. USE DEF StopStates, StarterStates, CallerStates, ReloaderStates, Goto
<1>b. ASSUME NEW g \in Goroutines, Stop(g) PROVE TypeOK'
  <2>. USE <1>a
  <2>1. CASE StopCancel(g)
    BY <2>1 DEF TypeOK, StopCancel, serverVars, httpVars, connVars
  <2>2. CASE StopRequests(g)
    BY <2>2 DEF TypeOK, StopRequests, serverVars, httpVars, runtimeVars, connVars
  <2>3. CASE StopWorkers(g)
    <3>1. retired' \in SUBSET Runtimes
      BY <2>3 DEF TypeOK, StopWorkers
    <3>. QED
      BY <2>3, <3>1 DEF TypeOK, StopWorkers, AfterStop, serverVars, httpVars, connVars
  <2>. QED
    BY <1>b, <2>1, <2>2, <2>3 DEF Stop
<1>3. CASE StarterStep \/ ServeFail
  <2>. USE <1>a
  <2>1. CASE StartSetup
    BY <2>1 DEF TypeOK, StartSetup, serverVars, runtimeVars, connVars
  <2>2. CASE ListenOk
    BY <2>2 DEF TypeOK, ListenOk, serverVars, httpVars, runtimeVars, connVars
  <2>3. CASE ListenFail
    BY <2>3 DEF TypeOK, ListenFail, runtimeVars, connVars
  <2>4. CASE StoreReady
    BY <2>4 DEF TypeOK, StoreReady, httpVars, runtimeVars, connVars
  <2>5. CASE StoreRunning
    BY <2>5 DEF TypeOK, StoreRunning, httpVars, runtimeVars, connVars
  <2>6. CASE Serve
    BY <2>6 DEF TypeOK, Serve, serverVars, runtimeVars, connVars
  <2>7. CASE ServeClosed
    BY <2>7 DEF TypeOK, ServeClosed, serverVars, httpVars, runtimeVars, connVars
  <2>8. CASE ServeFail
    BY <2>8 DEF TypeOK, ServeFail, serverVars, runtimeVars, connVars
  <2>9. CASE ServeFailStop
    BY <2>9 DEF TypeOK, ServeFailStop, httpVars, runtimeVars, connVars
  <2>10. CASE ServeFailYield
    BY <2>10 DEF TypeOK, ServeFailYield, serverVars, httpVars, runtimeVars, connVars
  <2>11. CASE StartForceCancel
    BY <2>11 DEF TypeOK, StartForceCancel, serverVars, runtimeVars, connVars
  <2>. QED
    BY <1>3, <1>b, <2>1, <2>2, <2>3, <2>4, <2>5, <2>6, <2>7, <2>8, <2>9, <2>10, <2>11
    DEF StarterStep
<1>4. CASE \E c \in Callers : ShutdownCall(c) \/ ShutdownStep(c)
  <2>. PICK c \in Callers : ShutdownCall(c) \/ ShutdownStep(c)
    BY <1>4
  <2>. USE <1>a DEF ErrOf
  <2>1. CASE ShutdownStopped(c)
    BY <2>1 DEF TypeOK, ShutdownStopped, MayShutdown, serverVars, httpVars, runtimeVars, connVars
  <2>2. CASE ShutdownJoin(c)
    BY <2>2 DEF TypeOK, ShutdownJoin, MayShutdown, serverVars, httpVars, runtimeVars, connVars
  <2>3. CASE ShutdownAwaited(c)
    BY <2>3 DEF TypeOK, ShutdownAwaited, serverVars, httpVars, runtimeVars, connVars
  <2>4. CASE ShutdownOwn(c)
    BY <2>4 DEF TypeOK, ShutdownOwn, MayShutdown, httpVars, runtimeVars, connVars
  <2>5. CASE ShutdownNoServer(c)
    BY <2>5 DEF TypeOK, ShutdownNoServer, serverVars, httpVars, runtimeVars, connVars
  <2>6. CASE HttpShutdown(c)
    <3>1. conn' \in [Clients -> ConnStates]
      BY <2>6 DEF TypeOK, HttpShutdown, ConnStates
    <3>. QED
      BY <2>6, <3>1 DEF TypeOK, HttpShutdown, serverVars, runtimeVars
  <2>7. CASE HttpDrained(c)
    BY <2>7 DEF TypeOK, HttpDrained, serverVars, httpVars, runtimeVars, connVars
  <2>8. CASE DrainTimeout(c)
    BY <2>8 DEF TypeOK, DrainTimeout, serverVars, runtimeVars, connVars
  <2>9. CASE ForcedDrained(c)
    BY <2>9 DEF TypeOK, ForcedDrained, serverVars, httpVars, runtimeVars, connVars
  <2>10. CASE ForcedTimeout(c)
    BY <2>10 DEF TypeOK, ForcedTimeout, serverVars, httpVars, runtimeVars, connVars
  <2>11. CASE Complete(c)
    BY <2>11 DEF TypeOK, Complete, httpVars, runtimeVars, connVars
  <2>12. CASE CompletePanic(c)
    BY <2>12 DEF TypeOK, CompletePanic, httpVars, runtimeVars, connVars
  <2>. QED
    BY <1>b, <2>1, <2>2, <2>3, <2>4, <2>5, <2>6, <2>7, <2>8, <2>9, <2>10, <2>11, <2>12
    DEF ShutdownCall, ShutdownStep
<1>5. CASE \E m \in Reloaders : ReloadCall(m) \/ ReloadStep(m)
  <2>. PICK m \in Reloaders : ReloadCall(m) \/ ReloadStep(m)
    BY <1>5
  <2>. USE <1>a
  <2>1. CASE BuildPartial(m)
    <3>1. nextGeneration + 1 \in Runtimes
      BY <2>1, BoundAssumption DEF TypeOK, BuildPartial, Runtimes
    <3>2. PICK k \in 0 .. Probers : workerWG' = [workerWG EXCEPT ![nextGeneration + 1] = k]
      BY <2>1 DEF BuildPartial
    <3>3. k \in Nat
      BY <3>2, BoundAssumption
    <3>4. workerWG' \in [Runtimes -> Nat]
      BY <3>2, <3>3 DEF TypeOK
    <3>. QED
      BY <2>1, <3>1, <3>4
      DEF TypeOK, BuildPartial, serverVars, httpVars, localVars, connVars
  <2>2. CASE BuildRuntime(m)
    <3>1. nextGeneration + 1 \in Runtimes
      BY <2>2, BoundAssumption DEF TypeOK, BuildRuntime, Runtimes
    <3>2. workerWG' \in [Runtimes -> Nat]
      BY <2>2, BoundAssumption DEF TypeOK, BuildRuntime
    <3>3. rt' \in [Goroutines -> Runtimes]
      BY <2>2, <3>1 DEF TypeOK, BuildRuntime
    <3>. QED
      BY <2>2, <3>1, <3>2, <3>3 DEF TypeOK, BuildRuntime, serverVars, httpVars, connVars
  <2>3. CASE ReloadReject(m)
    BY <2>3 DEF TypeOK, ReloadReject, serverVars, httpVars, runtimeVars, connVars
  <2>4. CASE ReloadSwap(m)
    BY <2>4 DEF TypeOK, ReloadSwap, httpVars, runtimeVars, connVars
  <2>5. CASE ReloadGauge(m)
    BY <2>5 DEF TypeOK, ReloadGauge, serverVars, httpVars, runtimeVars, connVars
  <2>. QED
    BY <1>b, <2>1, <2>2, <2>3, <2>4, <2>5 DEF ReloadCall, ReloadStep
<1>6. CASE UNCHANGED vars
  BY <1>6 DEF TypeOK, vars, serverVars, httpVars, localVars, runtimeVars, connVars
<1>. QED
  BY <1>1, <1>2, <1>3, <1>4, <1>5, <1>6 DEF Next

\* A step that starts or ends no handler leaves every Holders(g) alone.
LEMMA SameHolders ==
    ASSUME TypeOK, NEW g, held' = held,
           \A c \in Clients : conn'[c] = "acquired" <=> conn[c] = "acquired"
    PROVE  Holders(g)' = Holders(g)
BY DEF Holders

\* Steps other than AcquireRequest and Release start and end no handler.
LEMMA CountUnchanged ==
    ASSUME TypeOK, RequestsCounted, requestWG' = requestWG, held' = held,
           \A c \in Clients : conn'[c] = "acquired" <=> conn[c] = "acquired"
    PROVE  RequestsCounted'
BY SameHolders DEF RequestsCounted

LEMMA CountNext ==
    ASSUME TypeOK, RequestsCounted, [Next]_vars
    PROVE  RequestsCounted'
<1>. DEFINE Same == /\ requestWG' = requestWG /\ held' = held
                    /\ \A c \in Clients : conn'[c] = "acquired" <=> conn[c] = "acquired"
<1>a. ASSUME Same PROVE RequestsCounted'
  BY <1>a, CountUnchanged
<1>1. CASE \E c \in Clients : Request(c)
  <2>. PICK c \in Clients : Request(c)
    BY <1>1
  <2>. DEFINE h == held[c]
  <2>0. h \in Runtimes /\ requestWG \in [Runtimes -> Nat] /\ conn \in [Clients -> ConnStates]
    BY DEF TypeOK
  <2>1. CASE Accept(c) \/ NextRequest(c) \/ Disconnect(c)
    BY <1>a, <2>0, <2>1 DEF Accept, NextRequest, Disconnect, runtimeVars
  <2>2. CASE HandlerLoad(c)
    <3>1. \A g : Holders(g)' = Holders(g)
      BY <2>0, <2>2 DEF HandlerLoad, Holders, TypeOK
    <3>. QED
      BY <2>2, <3>1 DEF HandlerLoad, RequestsCounted, runtimeVars
  <2>3. CASE AcquireRequest(c)
    <3>1. Holders(h)' = Holders(h) \cup {c} /\ c \notin Holders(h)
      BY <2>0, <2>3 DEF AcquireRequest, Holders
    <3>2. Cardinality(Holders(h))' = Cardinality(Holders(h)) + 1
      BY <3>1, HoldersFinite, FS_AddElement
    <3>3. \A g \in Runtimes : g # h => Holders(g)' = Holders(g)
      BY <2>0, <2>3 DEF AcquireRequest, Holders
    <3>. QED
      BY <2>0, <2>3, <3>2, <3>3 DEF AcquireRequest, RequestsCounted
  <2>4. CASE Finish(c)
    <3>. PICK next \in {"idle", "closed"} : Release(c, next)
      BY <2>4 DEF Finish
    <3>1. Holders(h)' = Holders(h) \ {c} /\ c \in Holders(h)
      BY <2>0 DEF Release, Holders
    <3>2. Cardinality(Holders(h))' = Cardinality(Holders(h)) - 1
      BY <3>1, HoldersFinite, FS_RemoveElement
    <3>3. \A g \in Runtimes : g # h => Holders(g)' = Holders(g)
      BY <2>0 DEF Release, Holders
    <3>. QED
      BY <2>0, <3>2, <3>3 DEF Release, RequestsCounted
  <2>. QED
    BY <2>1, <2>2, <2>3, <2>4 DEF Request
<1>2. CASE \E g \in Runtimes : WorkerExit(g)
  BY <1>2, <1>a DEF WorkerExit, connVars
<1>b. ASSUME NEW g \in Goroutines, Stop(g) PROVE Same
  BY <1>b DEF Stop, StopCancel, StopRequests, StopWorkers, runtimeVars, connVars
<1>3. CASE StarterStep \/ ServeFail
  <2>. Starter \in Goroutines
    BY DEF Goroutines
  <2>. QED
    BY <1>3, <1>a, <1>b
    DEF StarterStep, StartSetup, ListenOk, ListenFail, StoreReady, StoreRunning, Serve,
        ServeClosed, ServeFail, ServeFailStop, ServeFailYield, StartForceCancel,
        runtimeVars, connVars
<1>4. CASE \E c \in Callers : ShutdownCall(c) \/ ShutdownStep(c)
  <2>. PICK c \in Callers : ShutdownCall(c) \/ ShutdownStep(c)
    BY <1>4
  <2>1. c \in Goroutines
    BY DEF Goroutines
  <2>2. CASE HttpShutdown(c)
    BY <2>2, <1>a DEF HttpShutdown, runtimeVars
  <2>3. CASE ~HttpShutdown(c)
    BY <2>1, <2>3, <1>a, <1>b
    DEF ShutdownCall, ShutdownStep, ShutdownStopped, ShutdownJoin, ShutdownAwaited,
        ShutdownOwn, ShutdownNoServer, HttpDrained, DrainTimeout, ForcedDrained,
        ForcedTimeout, Complete, CompletePanic, runtimeVars, connVars
  <2>. QED
    BY <2>2, <2>3
<1>5. CASE \E m \in Reloaders : ReloadCall(m) \/ ReloadStep(m)
  <2>. PICK m \in Reloaders : ReloadCall(m) \/ ReloadStep(m)
    BY <1>5
  <2>1. m \in Goroutines
    BY DEF Goroutines
  <2>. QED
    BY <2>1, <1>a, <1>b
    DEF ReloadCall, ReloadStep, BuildPartial, BuildRuntime, ReloadReject, ReloadSwap,
        ReloadGauge, runtimeVars, connVars
<1>6. CASE UNCHANGED vars
  BY <1>6, <1>a DEF vars, runtimeVars, connVars
<1>. QED
  BY <1>1, <1>2, <1>3, <1>4, <1>5, <1>6 DEF Next

LEMMA CountInit == Init => RequestsCounted
<1>. SUFFICES ASSUME Init, NEW g \in Runtimes PROVE requestWG[g] = Cardinality(Holders(g))
  BY DEF RequestsCounted
<1>1. Holders(g) = {}
  BY DEF Init, Holders
<1>. QED
  BY <1>1, FS_EmptySet DEF Init

(***************************************************************************)
(* Type correctness: whatever overlaps Start and whether or not Serve      *)
(* fails, the server's fields, the goroutines of Start, Shutdown and       *)
(* Reload, and both WaitGroups keep their types; no counter goes negative. *)
(***************************************************************************)
THEOREM TypeCorrect == Spec => []TypeOK
<1>1. Init => TypeOK /\ RequestsCounted
  BY TypeInit, CountInit
<1>2. TypeOK /\ RequestsCounted /\ [Next]_vars => (TypeOK /\ RequestsCounted)'
  BY TypeNext, CountNext
<1>. QED
  BY <1>1, <1>2, PTL DEF Spec

(***************************************************************************)
(* Request counting: AcquireRequest and ReleaseRequest of httpHandler hit  *)
(* the same runtime, so requestWG is the number of handlers that hold it,  *)
(* in every environment.                                                   *)
(***************************************************************************)
THEOREM RequestsAreCounted == Spec => []RequestsCounted
<1>1. Init => TypeOK /\ RequestsCounted
  BY TypeInit, CountInit
<1>2. TypeOK /\ RequestsCounted /\ [Next]_vars => (TypeOK /\ RequestsCounted)'
  BY TypeNext, CountNext
<1>. QED
  BY <1>1, <1>2, PTL DEF Spec

-----------------------------------------------------------------------------
(***************************************************************************)
(* The shutdown boundary, when Shutdown does not overlap start-up.  Serve  *)
(* may fail.                                                               *)
(***************************************************************************)
LEMMA ServerInit == Init => ServerInv
BY GoroutineAssumption
DEF Init, ServerInv, StartupStates, IsOwner, OwnerStates, StopStates, Goroutines

\* A step of a reloader, a worker or a connection changes nothing ServerInv
\* speaks of.
LEMMA ServerFrame ==
    ASSUME ServerInv, state' = state, ready' = ready, shutdownDone' = shutdownDone,
           pc'[Starter] = pc[Starter], \A c \in Callers : pc'[c] = pc[c]
    PROVE  ServerInv'
BY DEF ServerInv, IsOwner

LEMMA ServerNext ==
    ASSUME TypeOK, ServerInv, ~EarlyShutdown, [Next]_vars
    PROVE  ServerInv'
<1>. USE DEF Goroutines
<1>a. Starter \notin Callers /\ Starter \notin Reloaders /\ Callers \cap Reloaders = {}
  BY GoroutineAssumption
<1>b. pc \in [Goroutines -> StopStates \cup StarterStates \cup CallerStates \cup ReloaderStates]
  BY DEF TypeOK
<1>1. CASE \E c \in Clients : Request(c)
  BY <1>1, ServerFrame
  DEF Request, Accept, NextRequest, Disconnect, HandlerLoad, AcquireRequest, Finish,
      Release, serverVars, localVars
<1>2. CASE \E g \in Runtimes : WorkerExit(g)
  BY <1>2, ServerFrame DEF WorkerExit, serverVars, localVars
<1>3. CASE StarterStep \/ ServeFail
  <2>. USE <1>a, <1>b DEF Goto
  <2>1. CASE StartSetup
    BY <2>1 DEF StartSetup, ServerInv, StartupStates, IsOwner, serverVars
  <2>2. CASE ListenOk
    BY <2>2 DEF ListenOk, ServerInv, StartupStates, IsOwner, serverVars
  <2>3. CASE ListenFail
    BY <2>3 DEF ListenFail, ServerInv, StartupStates, IsOwner, OwnerStates, StopStates
  <2>4. CASE StoreReady
    BY <2>4 DEF StoreReady, ServerInv, StartupStates, IsOwner
  <2>5. CASE StoreRunning
    BY <2>5 DEF StoreRunning, ServerInv, StartupStates, IsOwner, OwnerStates, StopStates
  <2>6. CASE Serve
    BY <2>6 DEF Serve, ServerInv, StartupStates, IsOwner, serverVars
  <2>7. CASE ServeClosed
    BY <2>7 DEF ServeClosed, ServerInv, StartupStates, IsOwner, serverVars
  <2>8. CASE ServeFail
    BY <2>8 DEF ServeFail, ServerInv, StartupStates, IsOwner, serverVars
  <2>9. CASE ServeFailStop
    BY <2>9 DEF ServeFailStop, ServerInv, StartupStates, IsOwner
  <2>10. CASE ServeFailYield
    BY <2>10 DEF ServeFailYield, ServerInv, StartupStates, IsOwner, serverVars
  <2>11. CASE StartForceCancel
    BY <2>11 DEF StartForceCancel, ServerInv, StartupStates, IsOwner, serverVars
  <2>12. CASE Stop(Starter)
    BY <2>12
    DEF Stop, StopCancel, StopRequests, StopWorkers, AfterStop, ServerInv, StartupStates,
        IsOwner, serverVars
  <2>. QED
    BY <1>3, <2>1, <2>2, <2>3, <2>4, <2>5, <2>6, <2>7, <2>8, <2>9, <2>10, <2>11, <2>12
    DEF StarterStep
<1>4. CASE \E c \in Callers : (MayCall /\ ShutdownCall(c)) \/ ShutdownStep(c)
  <2>. PICK c \in Callers : (MayCall /\ ShutdownCall(c)) \/ ShutdownStep(c)
    BY <1>4
  <2>. USE <1>a, <1>b DEF Goto, OwnerStates, StopStates
  <2>1. CASE ShutdownStopped(c)
    BY <2>1 DEF ShutdownStopped, MayCall, StartPublished, ServerInv, StartupStates, IsOwner, serverVars
  <2>2. CASE ShutdownJoin(c)
    BY <2>2 DEF ShutdownJoin, MayCall, StartPublished, ServerInv, StartupStates, IsOwner, serverVars
  <2>3. CASE ShutdownAwaited(c)
    BY <2>3 DEF ShutdownAwaited, ServerInv, StartupStates, IsOwner, serverVars
  <2>4. CASE MayCall /\ ShutdownOwn(c)
    BY <2>4 DEF ShutdownOwn, MayCall, StartPublished, ServerInv, StartupStates, IsOwner
  <2>5. CASE ShutdownNoServer(c)
    BY <2>5 DEF ShutdownNoServer, ServerInv, StartupStates, IsOwner, serverVars
  <2>6. CASE HttpShutdown(c)
    BY <2>6 DEF HttpShutdown, ServerInv, StartupStates, IsOwner, serverVars
  <2>7. CASE HttpDrained(c) \/ DrainTimeout(c) \/ ForcedDrained(c) \/ ForcedTimeout(c)
    BY <2>7
    DEF HttpDrained, DrainTimeout, ForcedDrained, ForcedTimeout, ServerInv, StartupStates,
        IsOwner, serverVars
  <2>8. CASE Stop(c)
    BY <2>8
    DEF Stop, StopCancel, StopRequests, StopWorkers, AfterStop, ServerInv, StartupStates,
        IsOwner, serverVars
  <2>9. CASE Complete(c)
    BY <2>9 DEF Complete, ServerInv, StartupStates, IsOwner
  <2>10. CASE CompletePanic(c)
    BY <2>10 DEF CompletePanic, ServerInv, IsOwner
  <2>. QED
    BY <2>1, <2>2, <2>3, <2>4, <2>5, <2>6, <2>7, <2>8, <2>9, <2>10
    DEF ShutdownCall, ShutdownStep
<1>5. CASE \E m \in Reloaders : ReloadCall(m) \/ ReloadStep(m)
  <2>. PICK m \in Reloaders : ReloadCall(m) \/ ReloadStep(m)
    BY <1>5
  <2>1. /\ state' = state /\ ready' = ready /\ shutdownDone' = shutdownDone
        /\ \A x \in Goroutines \ {m} : pc'[x] = pc[x]
    BY <1>b
    DEF ReloadCall, ReloadStep, BuildPartial, BuildRuntime, ReloadReject, ReloadSwap,
        ReloadGauge, Stop, StopCancel, StopRequests, StopWorkers, Goto, serverVars, localVars
  <2>. QED
    BY <2>1, <1>a, ServerFrame
<1>6. CASE UNCHANGED vars
  BY <1>6, ServerFrame DEF vars, serverVars, localVars
<1>. QED
  BY <1>1, <1>2, <1>3, <1>4, <1>5, <1>6 DEF Next

\* The two invariants hold together.
LEMMA ServerInvariant ==
    ASSUME ~EarlyShutdown
    PROVE  Spec => [](TypeOK /\ ServerInv)
<1>1. Init => TypeOK /\ RequestsCounted /\ ServerInv
  BY TypeInit, CountInit, ServerInit
<1>2. TypeOK /\ RequestsCounted /\ ServerInv /\ [Next]_vars
        => (TypeOK /\ RequestsCounted /\ ServerInv)'
  BY TypeNext, CountNext, ServerNext
<1>. QED
  BY <1>1, <1>2, PTL DEF Spec

(***************************************************************************)
(* One caller of Server.Shutdown at most owns the shutdown, and it has not *)
(* closed shutdownDone yet: complete never closes it twice.                *)
(***************************************************************************)
THEOREM ShutdownHasOneOwner ==
    ASSUME ~EarlyShutdown
    PROVE  Spec => []OneShutdownOwner
<1>1. TypeOK /\ ServerInv => OneShutdownOwner
  BY DEF ServerInv, OneShutdownOwner
<1>. QED
  BY <1>1, ServerInvariant, PTL

(***************************************************************************)
(* Server.Reload installs nothing once a caller owns the shutdown.         *)
(***************************************************************************)
THEOREM ShutdownIsABoundary ==
    ASSUME ~EarlyShutdown
    PROVE  Spec => NoInstallAfterShutdown
<1>. DEFINE Begun == shutdownDone \/ \E c \in Callers : IsOwner(c)
<1>1. ASSUME TypeOK, ServerInv, [Next]_vars
      PROVE  [Begun => active' = active]_vars
  <2>. SUFFICES ASSUME Next, active' # active PROVE ~Begun
    BY <1>1 DEF vars, serverVars
  <2>1. \E m \in Reloaders : ReloadSwap(m)
    BY DEF Next, Request, Accept, NextRequest, Disconnect, HandlerLoad, AcquireRequest,
           Finish, Release, WorkerExit, StarterStep, StartSetup, ListenOk, ListenFail,
           StoreReady, StoreRunning, Serve, ServeClosed, ServeFail, ServeFailStop,
           ServeFailYield, StartForceCancel, ShutdownCall, ShutdownStep, ShutdownStopped,
           ShutdownJoin, ShutdownAwaited, ShutdownOwn, ShutdownNoServer, HttpShutdown,
           HttpDrained, DrainTimeout, ForcedDrained, ForcedTimeout, Complete,
           CompletePanic, ReloadCall, ReloadStep, BuildPartial, BuildRuntime,
           ReloadReject, ReloadGauge, Stop, StopCancel, StopRequests, StopWorkers, serverVars
  <2>2. state = "running"
    BY <2>1 DEF ReloadSwap
  <2>. QED
    BY <1>1, <2>2 DEF ServerInv
<1>. QED
  BY <1>1, ServerInvariant, PTL DEF Spec, NoInstallAfterShutdown

(***************************************************************************)
(* Server.state never goes back but by Start's own store of RUNNING, with  *)
(* reloads, concurrent shutdowns, a Shutdown that overlaps the start-up    *)
(* and a failing Serve.                                                    *)
(***************************************************************************)
THEOREM StateMovesForward == Spec => LifecycleOrder
<1>. DEFINE Back == pc[Starter] = "publishRunning" /\ pc'[Starter] = "serve"
<1>1. ASSUME TypeOK, [Next]_vars
      PROVE  [Rank[state] <= Rank[state'] \/ Back]_vars
  <2>a. \A x, y \in {"starting", "running", "shuttingDown", "stopped"} :
           /\ Rank[x] <= Rank[x] /\ Rank[x] <= Rank["stopped"]
           /\ x # "stopped" => Rank[x] <= Rank["shuttingDown"]
    BY DEF Rank
  <2>. SUFFICES ASSUME Next, state' # state PROVE Rank[state] <= Rank[state'] \/ Back
    BY <1>1, <2>a DEF vars, serverVars, TypeOK
  <2>1. \/ ListenFail \/ StoreRunning \/ ServeFailStop
        \/ \E c \in Callers : ShutdownOwn(c) \/ Complete(c) \/ CompletePanic(c)
    BY DEF Next, Request, Accept, NextRequest, Disconnect, HandlerLoad, AcquireRequest,
           Finish, Release, WorkerExit, StarterStep, StartSetup, ListenOk, StoreReady,
           Serve, ServeClosed, ServeFail, ServeFailYield, StartForceCancel, ShutdownCall,
           ShutdownStep, ShutdownStopped, ShutdownJoin, ShutdownAwaited, ShutdownNoServer,
           HttpShutdown, HttpDrained, DrainTimeout, ForcedDrained, ForcedTimeout,
           ReloadCall, ReloadStep, BuildPartial, BuildRuntime, ReloadReject, ReloadSwap,
           ReloadGauge, Stop, StopCancel, StopRequests, StopWorkers, serverVars
  <2>2. CASE StoreRunning
    BY <1>1, <2>2 DEF StoreRunning, Goto, TypeOK, Goroutines
  <2>3. CASE ListenFail \/ ServeFailStop
    BY <1>1, <2>a, <2>3 DEF ListenFail, ServeFailStop, TypeOK
  <2>4. ASSUME NEW c \in Callers, ShutdownOwn(c) PROVE Rank[state] <= Rank[state']
    BY <1>1, <2>a, <2>4 DEF ShutdownOwn, TypeOK
  <2>5. ASSUME NEW c \in Callers, Complete(c) \/ CompletePanic(c)
        PROVE  Rank[state] <= Rank[state']
    BY <1>1, <2>a, <2>5 DEF Complete, CompletePanic, TypeOK
  <2>. QED
    BY <2>1, <2>2, <2>3, <2>4, <2>5
<1>. QED
  BY <1>1, TypeCorrect, PTL DEF Spec, LifecycleOrder

-----------------------------------------------------------------------------
(***************************************************************************)
(* Requests and runtimes, when Serve does not fail either.                 *)
(***************************************************************************)
LEMMA RuntimeInit == Init => RuntimeInv
<1>. SUFFICES ASSUME Init PROVE RuntimeInv
  OBVIOUS
<1>1. 1 \in Runtimes /\ \A g \in Runtimes : g \in Nat
  BY BoundAssumption DEF Runtimes
<1>2. pc[Starter] = "start" /\ \A x \in Callers \cup Reloaders : pc[x] = "idle"
  BY GoroutineAssumption DEF Init, Goroutines
<1>3. ServeInv /\ OwnerInv /\ ReloaderInv
  BY <1>1, <1>2
  DEF Init, ServeInv, OwnerInv, ReloaderInv, StartupStates, StopStates, IsOwner,
      OwnerStates, Drained, Goroutines
<1>4. StopInv
  BY <1>1, <1>2 DEF Init, StopInv, Goroutines
<1>. QED
  BY <1>3, <1>4 DEF RuntimeInv

\* Once quiet, always quiet: no connection is accepted or reused.
LEMMA QuietStable ==
    ASSUME TypeOK, Quiet, [Next]_vars
    PROVE  Quiet'
<1>. USE DEF Goroutines, Quiet, Drained
<1>a. Starter \notin Callers /\ Starter \notin Reloaders
  BY GoroutineAssumption
<1>b. pc \in [Goroutines -> StopStates \cup StarterStates \cup CallerStates \cup ReloaderStates]
  BY DEF TypeOK
<1>1. CASE \E c \in Clients : Request(c)
  BY <1>1
  DEF Request, Accept, NextRequest, Disconnect, HandlerLoad, AcquireRequest, Finish, Release
<1>2. CASE \E g \in Runtimes : WorkerExit(g)
  BY <1>2 DEF WorkerExit, httpVars, localVars, connVars
<1>3. CASE StarterStep \/ ServeFail
  <2>. USE <1>b DEF Goto, StopStates
  <2>1. CASE Serve
    BY <2>1 DEF Serve, connVars
  <2>2. CASE Stop(Starter)
    BY <2>2 DEF Stop, StopCancel, StopRequests, StopWorkers, AfterStop, httpVars, connVars
  <2>3. CASE StartSetup \/ ListenOk \/ ListenFail \/ StoreReady \/ StoreRunning
    BY <2>3 DEF StartSetup, ListenOk, ListenFail, StoreReady, StoreRunning, httpVars, connVars
  <2>4. CASE ServeClosed \/ ServeFail \/ ServeFailStop \/ ServeFailYield \/ StartForceCancel
    BY <2>4
    DEF ServeClosed, ServeFail, ServeFailStop, ServeFailYield, StartForceCancel, httpVars,
        connVars
  <2>. QED
    BY <1>3, <2>1, <2>2, <2>3, <2>4 DEF StarterStep
<1>4. CASE \E c \in Callers : ShutdownCall(c) \/ ShutdownStep(c)
  <2>. PICK c \in Callers : ShutdownCall(c) \/ ShutdownStep(c)
    BY <1>4
  <2>1. pc'[Starter] = pc[Starter]
    BY <1>a, <1>b
    DEF ShutdownCall, ShutdownStep, ShutdownStopped, ShutdownJoin, ShutdownAwaited,
        ShutdownOwn, ShutdownNoServer, HttpShutdown, HttpDrained, DrainTimeout,
        ForcedDrained, ForcedTimeout, Complete, CompletePanic, Stop, StopCancel,
        StopRequests, StopWorkers, Goto
  <2>2. CASE HttpShutdown(c)
    BY <2>1, <2>2 DEF HttpShutdown
  <2>3. CASE ~HttpShutdown(c)
    BY <2>1, <2>3
    DEF ShutdownCall, ShutdownStep, ShutdownStopped, ShutdownJoin, ShutdownAwaited,
        ShutdownOwn, ShutdownNoServer, HttpDrained, DrainTimeout, ForcedDrained,
        ForcedTimeout, Complete, CompletePanic, Stop, StopCancel, StopRequests,
        StopWorkers, httpVars, connVars
  <2>. QED
    BY <2>2, <2>3
<1>5. CASE \E m \in Reloaders : ReloadCall(m) \/ ReloadStep(m)
  <2>. PICK m \in Reloaders : ReloadCall(m) \/ ReloadStep(m)
    BY <1>5
  <2>1. pc'[Starter] = pc[Starter]
    BY <1>a, <1>b
    DEF ReloadCall, ReloadStep, BuildPartial, BuildRuntime, ReloadReject, ReloadSwap,
        ReloadGauge, Stop, StopCancel, StopRequests, StopWorkers, Goto, localVars
  <2>. QED
    BY <2>1
    DEF ReloadCall, ReloadStep, BuildPartial, BuildRuntime, ReloadReject, ReloadSwap,
        ReloadGauge, Stop, StopCancel, StopRequests, StopWorkers, httpVars, connVars
<1>6. CASE UNCHANGED vars
  BY <1>6 DEF vars, httpVars, localVars, connVars
<1>. QED
  BY <1>1, <1>2, <1>3, <1>4, <1>5, <1>6 DEF Next

\* A handler registers only with the active runtime, and with none once that
\* is cancelled: any other count only goes down.
LEMMA CountsFall ==
    ASSUME TypeOK, RequestsCounted, StopInv, [Next]_vars,
           NEW g \in Runtimes, g # active \/ active \in cancelled
    PROVE  requestWG'[g] <= requestWG[g]
<1>0. requestWG \in [Runtimes -> Nat] /\ held \in [Clients -> Runtimes]
  BY DEF TypeOK
<1>1. ASSUME NEW c \in Clients, AcquireRequest(c) PROVE requestWG'[g] <= requestWG[g]
  <2>1. held[c] = active /\ conn[c] = "loaded"
    BY <1>1 DEF AcquireRequest, StopInv
  <2>2. active \notin cancelled
    BY <2>1 DEF StopInv, Quiet, Drained
  <2>. QED
    BY <1>0, <1>1, <2>1, <2>2 DEF AcquireRequest
<1>2. ASSUME NEW c \in Clients, Finish(c) PROVE requestWG'[g] <= requestWG[g]
  BY <1>0, <1>2 DEF Finish, Release
<1>3. CASE requestWG' = requestWG
  BY <1>0, <1>3
<1>4. (\E c \in Clients : AcquireRequest(c) \/ Finish(c)) \/ requestWG' = requestWG
  BY DEF Next, Request, Accept, NextRequest, Disconnect, HandlerLoad, WorkerExit,
         StarterStep, StartSetup, ListenOk, ListenFail, StoreReady, StoreRunning, Serve,
         ServeClosed, ServeFail, ServeFailStop, ServeFailYield, StartForceCancel,
         ShutdownCall, ShutdownStep, ShutdownStopped, ShutdownJoin, ShutdownAwaited,
         ShutdownOwn, ShutdownNoServer, HttpShutdown, HttpDrained, DrainTimeout,
         ForcedDrained, ForcedTimeout, Complete, CompletePanic, ReloadCall, ReloadStep,
         BuildPartial, BuildRuntime, ReloadReject, ReloadSwap, ReloadGauge, Stop,
         StopCancel, StopRequests, StopWorkers, runtimeVars, vars
<1>. QED
  BY <1>1, <1>2, <1>3, <1>4

\* A count of zero stays zero, except that of an active runtime in service.
LEMMA ZeroStays ==
    ASSUME TypeOK, RequestsCounted, StopInv, [Next]_vars,
           NEW g \in Runtimes, g # active \/ active \in cancelled, requestWG[g] = 0
    PROVE  requestWG'[g] = 0
<1>1. TypeOK'
  BY TypeNext
<1>2. requestWG'[g] \in Nat
  BY <1>1 DEF TypeOK
<1>. QED
  BY <1>2, CountsFall

FullInv == TypeOK /\ RequestsCounted /\ ServerInv /\ RuntimeInv

LEMMA ServeNext ==
    ASSUME FullInv, ~EarlyShutdown, ~ServeMayFail, [Next]_vars
    PROVE  ServeInv'
<1>. USE DEF Goroutines
<1>a. Starter \notin Callers /\ Starter \notin Reloaders
  BY GoroutineAssumption
<1>b. /\ pc \in [Goroutines -> StopStates \cup StarterStates \cup CallerStates \cup ReloaderStates]
      /\ rt \in [Goroutines -> Runtimes]
      /\ conn \in [Clients -> ConnStates]
      /\ pc[Starter] \in StopStates \cup StarterStates
  BY DEF FullInv, TypeOK
<1>c. ServeInv /\ ServerInv
  BY DEF FullInv, RuntimeInv
<1>d. Quiet => Quiet'
  BY QuietStable DEF FullInv
<1>1. CASE \E c \in Clients : Request(c)
  <2>1. /\ UNCHANGED <<listening, inShutdown, pc, rt, active, state>>
        /\ Drained /\ ~listening => Drained'
        /\ inShutdown => \A c \in Clients : conn'[c] # "idle"
    BY <1>1, <1>b, <1>c
    DEF Request, Accept, NextRequest, Disconnect, HandlerLoad, AcquireRequest, Finish,
        Release, Drained, ServeInv, serverVars, httpVars, localVars
  <2>. QED
    BY <2>1, <1>c, <1>d DEF ServeInv, StartupStates
<1>e. ASSUME UNCHANGED <<listening, inShutdown, active, state, conn>>,
             pc'[Starter] = pc[Starter], rt'[Starter] = rt[Starter]
      PROVE  ServeInv'
  BY <1>c, <1>d, <1>e DEF ServeInv, Drained
<1>2. CASE \E g \in Runtimes : WorkerExit(g)
  BY <1>2, <1>e DEF WorkerExit, serverVars, httpVars, localVars, connVars
<1>3. CASE StarterStep \/ ServeFail
  <2>. USE <1>b, <1>c DEF Goto, StartupStates, StopStates, Drained, ServeInv
  <2>1. CASE StartSetup
    BY <2>1 DEF StartSetup, serverVars, connVars
  <2>2. CASE ListenOk
    BY <2>2 DEF ListenOk, serverVars, httpVars, connVars
  <2>3. CASE ListenFail
    <3>1. Quiet'
      BY <2>3 DEF ListenFail, Quiet, connVars
    <3>. QED
      BY <2>3, <3>1 DEF ListenFail, connVars
  <2>4. CASE StoreReady
    BY <2>4 DEF StoreReady, httpVars, connVars
  <2>5. CASE StoreRunning
    BY <2>5 DEF StoreRunning, httpVars, connVars
  <2>6. CASE Serve
    BY <2>6 DEF Serve, serverVars, connVars
  <2>7. CASE ServeClosed
    BY <2>7 DEF ServeClosed, serverVars, httpVars, connVars
  <2>8. CASE ServeFail \/ ServeFailStop \/ ServeFailYield \/ StartForceCancel
    BY <2>8 DEF ServeFail, ServeFailStop, ServeFailYield, StartForceCancel
  <2>9. CASE Stop(Starter)
    <3>1. Quiet /\ state = "stopped" /\ rt[Starter] = active
      BY <2>9 DEF Stop, StopCancel, StopRequests, StopWorkers
    <3>2. /\ UNCHANGED <<listening, inShutdown, active, state, conn, rt>>
          /\ pc'[Starter] \in StopStates \cup {"done"}
      BY <2>9
      DEF Stop, StopCancel, StopRequests, StopWorkers, AfterStop, serverVars, httpVars, connVars
    <3>3. Quiet' /\ ~listening
      BY <3>1, <1>d DEF Quiet
    <3>. QED
      BY <3>1, <3>2, <3>3
  <2>. QED
    BY <1>3, <2>1, <2>2, <2>3, <2>4, <2>5, <2>6, <2>7, <2>8, <2>9 DEF StarterStep
<1>4. CASE \E c \in Callers : ShutdownCall(c) \/ ShutdownStep(c)
  <2>. PICK c \in Callers : ShutdownCall(c) \/ ShutdownStep(c)
    BY <1>4
  <2>1. /\ pc'[Starter] = pc[Starter] /\ rt'[Starter] = rt[Starter]
        /\ active' = active
    BY <1>a, <1>b
    DEF ShutdownCall, ShutdownStep, ShutdownStopped, ShutdownJoin, ShutdownAwaited,
        ShutdownOwn, ShutdownNoServer, HttpShutdown, HttpDrained, DrainTimeout,
        ForcedDrained, ForcedTimeout, Complete, CompletePanic, Stop, StopCancel,
        StopRequests, StopWorkers, Goto, serverVars
  <2>2. CASE HttpShutdown(c)
    <3>1. /\ inShutdown' /\ ~listening' /\ state' = state
          /\ \A d \in Clients : conn'[d] # "idle"
          /\ Drained => Drained'
      BY <2>2 DEF HttpShutdown, Drained, serverVars
    <3>. QED
      BY <1>c, <1>d, <2>1, <3>1 DEF ServeInv
  <2>3. CASE ShutdownOwn(c) \/ Complete(c) \/ CompletePanic(c)
    <3>1. UNCHANGED <<listening, inShutdown, conn>>
      BY <2>3 DEF ShutdownOwn, Complete, CompletePanic, httpVars, connVars
    <3>2. state = "stopped" => state' = "stopped"
      BY <2>3 DEF ShutdownOwn, Complete, CompletePanic
    <3>. QED
      BY <1>c, <1>d, <2>1, <3>1, <3>2 DEF ServeInv, Drained
  <2>4. CASE ~(HttpShutdown(c) \/ ShutdownOwn(c) \/ Complete(c) \/ CompletePanic(c))
    BY <2>1, <2>4, <1>e
    DEF ShutdownCall, ShutdownStep, ShutdownStopped, ShutdownJoin, ShutdownAwaited,
        ShutdownNoServer, HttpDrained, DrainTimeout, ForcedDrained, ForcedTimeout, Stop,
        StopCancel, StopRequests, StopWorkers, serverVars, httpVars, connVars
  <2>. QED
    BY <2>2, <2>3, <2>4
<1>5. CASE \E m \in Reloaders : ReloadCall(m) \/ ReloadStep(m)
  <2>. PICK m \in Reloaders : ReloadCall(m) \/ ReloadStep(m)
    BY <1>5
  <2>1. /\ pc'[Starter] = pc[Starter] /\ rt'[Starter] = rt[Starter]
        /\ UNCHANGED <<listening, inShutdown, state, conn>>
    BY <1>a, <1>b
    DEF ReloadCall, ReloadStep, BuildPartial, BuildRuntime, ReloadReject, ReloadSwap,
        ReloadGauge, Stop, StopCancel, StopRequests, StopWorkers, Goto, serverVars,
        httpVars, localVars, connVars
  <2>2. CASE ReloadSwap(m)
    <3>1. state = "running" /\ pc[Starter] \notin StartupStates
      BY <2>2, <1>c DEF ReloadSwap, ServerInv
    <3>. QED
      BY <1>c, <1>d, <2>1, <3>1 DEF ServeInv, Drained
  <2>3. CASE ~ReloadSwap(m)
    <3>1. active' = active
      BY <2>3
      DEF ReloadCall, ReloadStep, BuildPartial, BuildRuntime, ReloadReject, ReloadGauge,
          Stop, StopCancel, StopRequests, StopWorkers, serverVars
    <3>. QED
      BY <2>1, <3>1, <1>e
  <2>. QED
    BY <2>2, <2>3
<1>6. CASE UNCHANGED vars
  BY <1>6, <1>e DEF vars, serverVars, httpVars, localVars, connVars
<1>. QED
  BY <1>1, <1>2, <1>3, <1>4, <1>5, <1>6 DEF Next

LEMMA OwnerNext ==
    ASSUME FullInv, ~EarlyShutdown, ~ServeMayFail, [Next]_vars
    PROVE  OwnerInv'
<1>. USE DEF Goroutines
<1>a. Starter \notin Callers /\ Starter \notin Reloaders /\ Callers \cap Reloaders = {}
  BY GoroutineAssumption
<1>b. /\ pc \in [Goroutines -> StopStates \cup StarterStates \cup CallerStates \cup ReloaderStates]
      /\ rt \in [Goroutines -> Runtimes]
  BY DEF FullInv, TypeOK
<1>c. OwnerInv /\ ServeInv /\ ServerInv
  BY DEF FullInv, RuntimeInv
<1>d. Quiet => Quiet'
  BY QuietStable DEF FullInv
<1>e. ASSUME inShutdown' = inShutdown, active' = active,
             \A c \in Callers : pc'[c] = pc[c] /\ rt'[c] = rt[c]
      PROVE  OwnerInv'
  BY <1>c, <1>d, <1>e DEF OwnerInv, IsOwner
<1>1. CASE \E c \in Clients : Request(c)
  BY <1>1, <1>e
  DEF Request, Accept, NextRequest, Disconnect, HandlerLoad, AcquireRequest, Finish,
      Release, serverVars, httpVars, localVars
<1>2. CASE \E g \in Runtimes : WorkerExit(g)
  BY <1>2, <1>e DEF WorkerExit, serverVars, httpVars, localVars
<1>3. CASE StarterStep \/ ServeFail
  <2>1. /\ inShutdown' = inShutdown /\ active' = active
        /\ \A x \in Goroutines \ {Starter} : pc'[x] = pc[x] /\ rt'[x] = rt[x]
    BY <1>3, <1>b
    DEF StarterStep, StartSetup, ListenOk, ListenFail, StoreReady, StoreRunning, Serve,
        ServeClosed, ServeFail, ServeFailStop, ServeFailYield, StartForceCancel, Stop,
        StopCancel, StopRequests, StopWorkers, Goto, serverVars, httpVars
  <2>. QED
    BY <2>1, <1>a, <1>e
<1>4. CASE \E c \in Callers : (MayCall /\ ShutdownCall(c)) \/ ShutdownStep(c)
  <2>. PICK c \in Callers : (MayCall /\ ShutdownCall(c)) \/ ShutdownStep(c)
    BY <1>4
  <2>1. /\ inShutdown => inShutdown'
        /\ active' = active
        /\ \A d \in Callers \ {c} : pc'[d] = pc[d] /\ rt'[d] = rt[d]
    BY <1>b
    DEF ShutdownCall, ShutdownStep, ShutdownStopped, ShutdownJoin, ShutdownAwaited,
        ShutdownOwn, ShutdownNoServer, HttpShutdown, HttpDrained, DrainTimeout,
        ForcedDrained, ForcedTimeout, Complete, CompletePanic, Stop, StopCancel,
        StopRequests, StopWorkers, Goto, serverVars, httpVars
  <2>2. \A d \in Callers \ {c} :
           /\ IsOwner(d)' => rt'[d] = active'
           /\ pc'[d] \in {"draining", "forcing"} => inShutdown'
           /\ pc'[d] # "ownedStarting"
           /\ pc'[d] \in StopStates => Quiet'
    BY <2>1, <1>c, <1>d DEF OwnerInv, IsOwner
  <2>. SUFFICES /\ IsOwner(c)' => rt'[c] = active'
                /\ pc'[c] \in {"draining", "forcing"} => inShutdown'
                /\ pc'[c] # "ownedStarting"
                /\ pc'[c] \in StopStates => Quiet'
    BY <2>2 DEF OwnerInv
  <2>. USE <1>a, <1>b, <1>c DEF Goto, StopStates, OwnerStates, IsOwner, OwnerInv
  <2>3. CASE ShutdownStopped(c)
    BY <2>3 DEF ShutdownStopped
  <2>4. CASE ShutdownJoin(c) \/ ShutdownAwaited(c)
    BY <2>4 DEF ShutdownJoin, ShutdownAwaited
  <2>5. CASE MayCall /\ ShutdownOwn(c)
    BY <2>5
    DEF ShutdownOwn, MayCall, StartPublished, ServerInv, StartupStates
  <2>6. CASE ShutdownNoServer(c)
    BY <2>6 DEF ShutdownNoServer
  <2>7. CASE HttpShutdown(c)
    BY <2>7 DEF HttpShutdown, serverVars
  <2>8. CASE HttpDrained(c) \/ ForcedDrained(c)
    <3>1. Quiet
      BY <2>8 DEF HttpDrained, ForcedDrained, Quiet, ServeInv
    <3>2. rt' = rt /\ active' = active /\ pc'[c] = "cancel" /\ rt[c] = active
      BY <2>8 DEF HttpDrained, ForcedDrained, serverVars
    <3>. QED
      BY <3>1, <3>2, <1>d
  <2>9. CASE DrainTimeout(c) \/ ForcedTimeout(c)
    BY <2>9 DEF DrainTimeout, ForcedTimeout, serverVars, httpVars
  <2>10. CASE Stop(c)
    <3>1. Quiet'
      BY <2>10, <1>d DEF Stop, StopCancel, StopRequests, StopWorkers
    <3>2. /\ rt' = rt /\ active' = active /\ rt[c] = active
          /\ pc'[c] \in {"waitRequests", "waitWorkers", "complete"}
      BY <2>10
      DEF Stop, StopCancel, StopRequests, StopWorkers, AfterStop, serverVars
    <3>. QED
      BY <3>1, <3>2
  <2>11. CASE Complete(c) \/ CompletePanic(c)
    BY <2>11 DEF Complete, CompletePanic
  <2>. QED
    BY <2>3, <2>4, <2>5, <2>6, <2>7, <2>8, <2>9, <2>10, <2>11 DEF ShutdownCall, ShutdownStep
<1>5. CASE \E m \in Reloaders : ReloadCall(m) \/ ReloadStep(m)
  <2>. PICK m \in Reloaders : ReloadCall(m) \/ ReloadStep(m)
    BY <1>5
  <2>1. /\ inShutdown' = inShutdown
        /\ \A c \in Callers : pc'[c] = pc[c] /\ rt'[c] = rt[c]
    BY <1>a, <1>b
    DEF ReloadCall, ReloadStep, BuildPartial, BuildRuntime, ReloadReject, ReloadSwap,
        ReloadGauge, Stop, StopCancel, StopRequests, StopWorkers, Goto, httpVars, localVars
  <2>2. CASE ReloadSwap(m)
    <3>1. state = "running"
      BY <2>2 DEF ReloadSwap
    <3>2. \A c \in Callers : ~IsOwner(c)
      BY <3>1, <1>c DEF ServerInv
    <3>. QED
      BY <2>1, <3>2, <1>c, <1>d DEF OwnerInv, IsOwner
  <2>3. CASE ~ReloadSwap(m)
    <3>1. active' = active
      BY <2>3
      DEF ReloadCall, ReloadStep, BuildPartial, BuildRuntime, ReloadReject, ReloadGauge,
          Stop, StopCancel, StopRequests, StopWorkers, serverVars
    <3>. QED
      BY <2>1, <3>1, <1>e
  <2>. QED
    BY <2>2, <2>3
<1>6. CASE UNCHANGED vars
  BY <1>6, <1>e DEF vars, serverVars, httpVars, localVars
<1>. QED
  BY <1>1, <1>2, <1>3, <1>4, <1>5, <1>6 DEF Next

LEMMA ReloaderNext ==
    ASSUME FullInv, [Next]_vars
    PROVE  ReloaderInv'
<1>. USE DEF Goroutines
<1>a. Starter \notin Callers /\ Starter \notin Reloaders /\ Callers \cap Reloaders = {}
  BY GoroutineAssumption
<1>b. /\ pc \in [Goroutines -> StopStates \cup StarterStates \cup CallerStates \cup ReloaderStates]
      /\ rt \in [Goroutines -> Runtimes]
      /\ \A m \in Reloaders : pc[m] \in StopStates \cup ReloaderStates
      /\ active \in Nat /\ nextGeneration \in Nat
      /\ \A x \in Goroutines : rt[x] \in Nat
  BY BoundAssumption DEF FullInv, TypeOK, Runtimes
<1>c. ReloaderInv /\ StopInv /\ OwnerInv /\ ServeInv
  BY DEF FullInv, RuntimeInv
<1>d. \A m \in Reloaders : pc[m] = "built" => requestWG'[rt[m]] = 0
  BY <1>b, <1>c, ZeroStays DEF FullInv, ReloaderInv
\* A step of anyone else: cancelled can grow by the active runtime only.
<1>e. ASSUME nextGeneration' = nextGeneration, active' = active,
             cancelled' \subseteq cancelled \cup {active},
             \A m \in Reloaders : pc'[m] = pc[m] /\ rt'[m] = rt[m]
      PROVE  ReloaderInv'
  BY <1>c, <1>d, <1>e DEF ReloaderInv
<1>1. CASE \E c \in Clients : Request(c)
  BY <1>1, <1>e
  DEF Request, Accept, NextRequest, Disconnect, HandlerLoad, AcquireRequest, Finish,
      Release, serverVars, localVars, runtimeVars
<1>2. CASE \E g \in Runtimes : WorkerExit(g)
  BY <1>2, <1>e DEF WorkerExit, serverVars, localVars
<1>3. CASE StarterStep \/ ServeFail
  <2>1. /\ nextGeneration' = nextGeneration /\ active' = active
        /\ \A x \in Goroutines \ {Starter} : pc'[x] = pc[x] /\ rt'[x] = rt[x]
    BY <1>3, <1>b
    DEF StarterStep, StartSetup, ListenOk, ListenFail, StoreReady, StoreRunning, Serve,
        ServeClosed, ServeFail, ServeFailStop, ServeFailYield, StartForceCancel, Stop,
        StopCancel, StopRequests, StopWorkers, Goto, serverVars, runtimeVars
  <2>2. cancelled' \subseteq cancelled \cup {active}
    BY <1>3, <1>c
    DEF StarterStep, StartSetup, ListenOk, ListenFail, StoreReady, StoreRunning, Serve,
        ServeClosed, ServeFail, ServeFailStop, ServeFailYield, StartForceCancel, Stop,
        StopCancel, StopRequests, StopWorkers, Goto, runtimeVars, ServeInv, StopStates
  <2>. QED
    BY <2>1, <2>2, <1>a, <1>e
<1>4. CASE \E c \in Callers : ShutdownCall(c) \/ ShutdownStep(c)
  <2>. PICK c \in Callers : ShutdownCall(c) \/ ShutdownStep(c)
    BY <1>4
  <2>1. /\ nextGeneration' = nextGeneration /\ active' = active
        /\ \A x \in Goroutines \ {c} : pc'[x] = pc[x] /\ rt'[x] = rt[x]
    BY <1>b
    DEF ShutdownCall, ShutdownStep, ShutdownStopped, ShutdownJoin, ShutdownAwaited,
        ShutdownOwn, ShutdownNoServer, HttpShutdown, HttpDrained, DrainTimeout,
        ForcedDrained, ForcedTimeout, Complete, CompletePanic, Stop, StopCancel,
        StopRequests, StopWorkers, Goto, serverVars, runtimeVars
  <2>2. cancelled' \subseteq cancelled \cup {active}
    BY <1>c
    DEF ShutdownCall, ShutdownStep, ShutdownStopped, ShutdownJoin, ShutdownAwaited,
        ShutdownOwn, ShutdownNoServer, HttpShutdown, HttpDrained, DrainTimeout,
        ForcedDrained, ForcedTimeout, Complete, CompletePanic, Stop, StopCancel,
        StopRequests, StopWorkers, Goto, runtimeVars, OwnerInv, IsOwner, OwnerStates,
        StopStates
  <2>. QED
    BY <2>1, <2>2, <1>a, <1>e
<1>5. CASE \E m \in Reloaders : ReloadCall(m) \/ ReloadStep(m)
  <2>. PICK m \in Reloaders : ReloadCall(m) \/ ReloadStep(m)
    BY <1>5
  <2>. USE <1>b, <1>c DEF Goto, ReloaderInv
  <2>1. CASE BuildPartial(m)
    BY <2>1, <1>d DEF BuildPartial, serverVars, localVars
  <2>2. CASE BuildRuntime(m)
    <3>1. nextGeneration + 1 \in Runtimes
      BY <2>2, BoundAssumption DEF BuildRuntime, Runtimes
    <3>2. nextGeneration + 1 \notin cancelled /\ requestWG[nextGeneration + 1] = 0
      BY <3>1 DEF StopInv
    <3>. QED
      BY <2>2, <3>1, <3>2, <1>d DEF BuildRuntime, StopInv, serverVars
  <2>3. CASE ReloadReject(m)
    BY <2>3, <1>d DEF ReloadReject, serverVars, runtimeVars
  <2>4. CASE ReloadSwap(m)
    BY <2>4, <1>d DEF ReloadSwap, StopInv, runtimeVars
  <2>5. CASE ReloadGauge(m)
    BY <2>5, <1>d DEF ReloadGauge, serverVars, runtimeVars
  <2>6. CASE StopCancel(m)
    BY <2>6, <1>d DEF StopCancel, serverVars
  <2>7. CASE StopRequests(m)
    BY <2>7, <1>d DEF StopRequests, serverVars, runtimeVars
  <2>8. CASE StopWorkers(m)
    BY <2>8, <1>a, <1>d DEF StopWorkers, AfterStop, serverVars
  <2>. QED
    BY <2>1, <2>2, <2>3, <2>4, <2>5, <2>6, <2>7, <2>8 DEF ReloadCall, ReloadStep, Stop
<1>6. CASE UNCHANGED vars
  BY <1>6, <1>e DEF vars, serverVars, localVars, runtimeVars
<1>. QED
  BY <1>1, <1>2, <1>3, <1>4, <1>5, <1>6 DEF Next

\* StopInv, one lemma for what a step of a goroutine leaves alone and one
\* proof step per action.
LEMMA StopNext ==
    ASSUME FullInv, [Next]_vars
    PROVE  StopInv'
<1>. USE DEF Goroutines
<1>a. Starter \notin Callers /\ Starter \notin Reloaders /\ Callers \cap Reloaders = {}
  BY GoroutineAssumption
<1>b. /\ pc \in [Goroutines -> StopStates \cup StarterStates \cup CallerStates \cup ReloaderStates]
      /\ rt \in [Goroutines -> Runtimes]
      /\ conn \in [Clients -> ConnStates] /\ held \in [Clients -> Runtimes]
      /\ active \in Runtimes /\ nextGeneration \in Runtimes
      /\ retired \subseteq Runtimes /\ cancelled \subseteq Runtimes
      /\ Runtimes \subseteq Nat
  BY BoundAssumption DEF FullInv, TypeOK, Runtimes
<1>c. ReloaderInv /\ StopInv /\ OwnerInv /\ ServeInv
  BY DEF FullInv, RuntimeInv
<1>d. Quiet => Quiet'
  BY QuietStable DEF FullInv
<1>e. /\ \A g \in cancelled : requestWG[g] = 0 => requestWG'[g] = 0
      /\ \A g \in Runtimes : g > nextGeneration => requestWG'[g] = 0
  <2>1. \A g \in cancelled : g # active \/ active \in cancelled
    OBVIOUS
  <2>2. \A g \in Runtimes : g > nextGeneration => g # active /\ requestWG[g] = 0
    BY <1>b, <1>c DEF StopInv
  <2>. QED
    BY <1>b, <1>c, <2>1, <2>2, ZeroStays DEF FullInv
\* Only the goroutine x moves, not inside Stop; runtimes are left alone.
<1>f. ASSUME UNCHANGED <<active, nextGeneration, cancelled, retired>>,
             \A c \in Clients : conn'[c] = "loaded" => held'[c] = active,
             NEW x \in Goroutines,
             (pc'[x] = pc[x] /\ rt'[x] = rt[x]) \/ pc'[x] \notin {"waitRequests", "waitWorkers"},
             \A y \in Goroutines \ {x} : pc'[y] = pc[y] /\ rt'[y] = rt[y]
      PROVE  StopInv'
  <2>1. \A y \in Goroutines : pc'[y] \in {"waitRequests", "waitWorkers"} =>
           pc'[y] = pc[y] /\ rt'[y] = rt[y] /\ rt[y] \in cancelled
    BY <1>c, <1>f DEF StopInv
  <2>2. \A y \in Goroutines : pc'[y] = "waitWorkers" => requestWG'[rt'[y]] = 0
    BY <1>c, <1>e, <2>1 DEF StopInv
  <2>3. \A g \in retired' : requestWG'[g] = 0
    BY <1>c, <1>e, <1>f DEF StopInv
  <2>. QED
    BY <1>c, <1>d, <1>e, <1>f, <2>1, <2>2, <2>3 DEF StopInv
\* Runtime.Stop, by any goroutine.
<1>g. ASSUME NEW x \in Goroutines, Stop(x), pc[x] = "cancel" => rt[x] # active \/ Quiet,
             rt[x] <= nextGeneration
      PROVE  StopInv'
  <2>. USE <1>b DEF Goto
  <2>1. UNCHANGED <<active, nextGeneration, conn, held, requestWG, rt>>
    BY <1>g DEF Stop, StopCancel, StopRequests, StopWorkers, serverVars, runtimeVars, connVars
  <2>2. CASE StopCancel(x)
    BY <2>1, <2>2, <1>c, <1>d, <1>g DEF StopCancel, StopInv
  <2>3. CASE StopRequests(x)
    BY <2>1, <2>3, <1>c, <1>d DEF StopRequests, StopInv, runtimeVars
  <2>4. CASE StopWorkers(x)
    <3>1. /\ cancelled' = cancelled /\ retired' = retired \cup {rt[x]}
          /\ pc[x] = "waitWorkers" /\ pc'[x] \notin {"waitRequests", "waitWorkers"}
          /\ \A y \in Goroutines \ {x} : pc'[y] = pc[y]
      BY <2>4 DEF StopWorkers, AfterStop
    <3>2. rt[x] \in cancelled /\ requestWG[rt[x]] = 0
      BY <3>1, <1>c DEF StopInv
    <3>. QED
      BY <2>1, <3>1, <3>2, <1>c, <1>d DEF StopInv
  <2>. QED
    BY <1>g, <2>2, <2>3, <2>4 DEF Stop
<1>1. CASE \E c \in Clients : Request(c)
  <2>1. /\ UNCHANGED <<active, nextGeneration, cancelled, retired, pc, rt>>
    BY <1>1
    DEF Request, Accept, NextRequest, Disconnect, HandlerLoad, AcquireRequest, Finish,
        Release, serverVars, localVars, runtimeVars
  <2>2. \A c \in Clients : conn'[c] = "loaded" => held'[c] = active
    BY <1>1, <1>b, <1>c
    DEF Request, Accept, NextRequest, Disconnect, HandlerLoad, AcquireRequest, Finish,
        Release, StopInv
  <2>. QED
    BY <2>1, <2>2, <1>f
<1>h. ASSUME connVars' = connVars PROVE \A c \in Clients : conn'[c] = "loaded" => held'[c] = active
  BY <1>c, <1>h DEF StopInv, connVars
<1>2. CASE \E g \in Runtimes : WorkerExit(g)
  BY <1>2, <1>f, <1>h DEF WorkerExit, serverVars, localVars
<1>3. CASE StarterStep \/ ServeFail
  <2>1. CASE Stop(Starter)
    <3>1. pc[Starter] = "cancel" => Quiet
      BY <1>c DEF ServeInv, StopStates
    <3>2. rt[Starter] <= nextGeneration
      BY <2>1, <1>b, <1>c DEF Stop, StopCancel, StopRequests, StopWorkers, Goto, ServeInv, StopStates, StopInv
    <3>. QED
      BY <2>1, <3>1, <3>2, <1>g
  <2>2. CASE ~Stop(Starter)
    <3>1. /\ UNCHANGED <<active, nextGeneration, cancelled, retired, connVars>>
          /\ \A y \in Goroutines \ {Starter} : pc'[y] = pc[y] /\ rt'[y] = rt[y]
          /\ pc'[Starter] \notin {"waitRequests", "waitWorkers"}
      BY <1>3, <2>2, <1>b
      DEF StarterStep, StartSetup, ListenOk, ListenFail, StoreReady, StoreRunning, Serve,
          ServeClosed, ServeFail, ServeFailStop, ServeFailYield, StartForceCancel, Goto,
          serverVars, runtimeVars
    <3>. QED
      BY <3>1, <1>f, <1>h
  <2>. QED
    BY <2>1, <2>2
<1>4. CASE \E c \in Callers : ShutdownCall(c) \/ ShutdownStep(c)
  <2>. PICK c \in Callers : ShutdownCall(c) \/ ShutdownStep(c)
    BY <1>4
  <2>1. CASE Stop(c)
    <3>1. pc[c] = "cancel" => Quiet
      BY <1>c DEF OwnerInv, StopStates
    <3>2. rt[c] <= nextGeneration
      BY <2>1, <1>b, <1>c
      DEF Stop, StopCancel, StopRequests, StopWorkers, Goto, OwnerInv, IsOwner, OwnerStates,
          StopStates, StopInv
    <3>. QED
      BY <2>1, <3>1, <3>2, <1>g
  <2>2. CASE HttpShutdown(c)
    <3>1. /\ UNCHANGED <<active, nextGeneration, cancelled, retired, held>>
          /\ \A d \in Clients : conn'[d] = "loaded" => conn[d] = "loaded"
          /\ \A y \in Goroutines \ {c} : pc'[y] = pc[y] /\ rt'[y] = rt[y]
          /\ pc'[c] = "draining"
      BY <2>2, <1>b DEF HttpShutdown, serverVars, runtimeVars
    <3>. QED
      BY <3>1, <1>c, <1>f DEF StopInv
  <2>3. CASE ~Stop(c) /\ ~HttpShutdown(c)
    <3>1. /\ UNCHANGED <<active, nextGeneration, cancelled, retired, connVars>>
          /\ \A y \in Goroutines \ {c} : pc'[y] = pc[y] /\ rt'[y] = rt[y]
          /\ pc'[c] \notin {"waitRequests", "waitWorkers"}
      BY <2>3, <1>b
      DEF ShutdownCall, ShutdownStep, ShutdownStopped, ShutdownJoin, ShutdownAwaited,
          ShutdownOwn, ShutdownNoServer, HttpDrained, DrainTimeout, ForcedDrained,
          ForcedTimeout, Complete, CompletePanic, Goto, serverVars, runtimeVars
    <3>. QED
      BY <3>1, <1>f, <1>h
  <2>. QED
    BY <2>1, <2>2, <2>3
<1>5. CASE \E m \in Reloaders : ReloadCall(m) \/ ReloadStep(m)
  <2>. PICK m \in Reloaders : ReloadCall(m) \/ ReloadStep(m)
    BY <1>5
  <2>1. CASE Stop(m)
    <3>1. rt[m] # active /\ rt[m] <= nextGeneration
      BY <2>1, <1>c DEF Stop, StopCancel, StopRequests, StopWorkers, Goto, ReloaderInv
    <3>. QED
      BY <2>1, <3>1, <1>g
  <2>2. CASE BuildPartial(m)
    <3>1. /\ UNCHANGED <<active, retired, connVars, pc, rt>>
          /\ nextGeneration' = nextGeneration + 1
          /\ cancelled' = cancelled \cup {nextGeneration + 1}
      BY <2>2 DEF BuildPartial, serverVars, localVars
    <3>2. active' <= nextGeneration' /\ active # nextGeneration + 1
      BY <3>1, <1>b, <1>c DEF StopInv
    <3>3. \A g \in Runtimes : g > nextGeneration' => g \notin cancelled' /\ requestWG'[g] = 0
      BY <3>1, <1>b, <1>c, <1>e DEF StopInv
    <3>4. \A y \in Goroutines : pc'[y] = "waitWorkers" => requestWG'[rt'[y]] = 0
      BY <1>c, <1>e, <3>1 DEF StopInv
    <3>5. \A g \in retired' : requestWG'[g] = 0
      BY <1>c, <1>e, <3>1 DEF StopInv
    <3>. QED
      BY <1>c, <1>d, <1>h, <3>1, <3>2, <3>3, <3>4, <3>5 DEF StopInv
  <2>3. CASE BuildRuntime(m)
    <3>1. /\ UNCHANGED <<active, cancelled, retired, connVars>>
          /\ nextGeneration' = nextGeneration + 1
          /\ pc'[m] = "built"
          /\ \A y \in Goroutines \ {m} : pc'[y] = pc[y] /\ rt'[y] = rt[y]
      BY <2>3, <1>b DEF BuildRuntime, Goto, serverVars
    <3>2. \A y \in Goroutines : pc'[y] \in {"waitRequests", "waitWorkers"} =>
             pc'[y] = pc[y] /\ rt'[y] = rt[y] /\ rt[y] \in cancelled
      BY <1>c, <3>1 DEF StopInv
    <3>3. \A y \in Goroutines : pc'[y] = "waitWorkers" => requestWG'[rt'[y]] = 0
      BY <1>c, <1>e, <3>2 DEF StopInv
    <3>4. \A g \in retired' : requestWG'[g] = 0
      BY <1>c, <1>e, <3>1 DEF StopInv
    <3>. QED
      BY <1>b, <1>c, <1>d, <1>e, <1>h, <3>1, <3>2, <3>3, <3>4 DEF StopInv
  <2>4. CASE ReloadSwap(m)
    <3>1. /\ UNCHANGED <<nextGeneration, cancelled, retired, connVars>>
          /\ active' = rt[m] /\ pc[m] = "built" /\ pc'[m] = "swapped"
          /\ \A y \in Goroutines \ {m} : pc'[y] = pc[y] /\ rt'[y] = rt[y]
      BY <2>4, <1>b DEF ReloadSwap, Goto, runtimeVars
    <3>2. active' <= nextGeneration /\ active' \notin cancelled
      BY <3>1, <1>c DEF ReloaderInv
    <3>3. \A c \in Clients : conn'[c] # "loaded"
      BY <2>4, <3>1 DEF ReloadSwap, LockFree, connVars
    <3>4. \A y \in Goroutines : pc'[y] \in {"waitRequests", "waitWorkers"} =>
             pc'[y] = pc[y] /\ rt'[y] = rt[y] /\ rt[y] \in cancelled
      BY <1>c, <3>1 DEF StopInv
    <3>5. \A y \in Goroutines : pc'[y] = "waitWorkers" => requestWG'[rt'[y]] = 0
      BY <1>c, <1>e, <3>4 DEF StopInv
    <3>6. \A g \in retired' : requestWG'[g] = 0
      BY <1>c, <1>e, <3>1 DEF StopInv
    <3>. QED
      BY <1>c, <1>e, <3>1, <3>2, <3>3, <3>4, <3>5, <3>6 DEF StopInv
  <2>5. CASE ReloadReject(m) \/ ReloadGauge(m)
    <3>1. /\ UNCHANGED <<active, nextGeneration, cancelled, retired, connVars>>
          /\ \A y \in Goroutines \ {m} : pc'[y] = pc[y] /\ rt'[y] = rt[y]
          /\ pc'[m] = "cancel"
      BY <2>5, <1>b DEF ReloadReject, ReloadGauge, Goto, serverVars, runtimeVars
    <3>. QED
      BY <3>1, <1>f, <1>h
  <2>. QED
    BY <2>1, <2>2, <2>3, <2>4, <2>5 DEF ReloadCall, ReloadStep
<1>6. CASE UNCHANGED vars
  <2>1. Starter \in Goroutines
    OBVIOUS
  <2>. QED
    BY <1>6, <2>1, <1>f, <1>h DEF vars, serverVars, localVars, runtimeVars
<1>. QED
  BY <1>1, <1>2, <1>3, <1>4, <1>5, <1>6 DEF Next

\* Everything together.
LEMMA FullInvariant ==
    ASSUME ~EarlyShutdown, ~ServeMayFail
    PROVE  Spec => []FullInv
<1>1. Init => FullInv
  BY TypeInit, CountInit, ServerInit, RuntimeInit DEF FullInv
<1>2. ASSUME FullInv, [Next]_vars PROVE FullInv'
  <2>1. TypeOK /\ RequestsCounted /\ ServerInv
    BY <1>2 DEF FullInv
  <2>2. TypeOK' /\ RequestsCounted' /\ ServerInv'
    BY <1>2, <2>1, TypeNext, CountNext, ServerNext
  <2>3. RuntimeInv'
    BY <1>2, ServeNext, OwnerNext, ReloaderNext, StopNext DEF RuntimeInv
  <2>. QED
    BY <2>2, <2>3 DEF FullInv
<1>. QED
  BY <1>1, <1>2, PTL DEF Spec

(***************************************************************************)
(* A request that acquired a runtime in httpHandler keeps it alive: Stop   *)
(* of that runtime, called by Reload, Shutdown or Start, has not returned. *)
(***************************************************************************)
THEOREM RequestKeepsRuntimeAlive ==
    ASSUME ~EarlyShutdown, ~ServeMayFail
    PROVE  Spec => []HeldRuntimeAlive
<1>1. ASSUME FullInv PROVE HeldRuntimeAlive
  <2>. SUFFICES ASSUME NEW c \in Clients, conn[c] = "acquired", held[c] \in retired
                PROVE  FALSE
    BY DEF HeldRuntimeAlive
  <2>1. requestWG[held[c]] > 0
    BY <1>1, HolderCounts DEF FullInv
  <2>2. requestWG[held[c]] = 0
    BY <1>1 DEF FullInv, RuntimeInv, StopInv
  <2>. QED
    BY <2>1, <2>2
<1>. QED
  BY <1>1, FullInvariant, PTL

(***************************************************************************)
(* No handler registers with a runtime whose Stop has begun, so the Add of *)
(* requestWG never races with its Wait.                                    *)
(***************************************************************************)
THEOREM NoLateAcquire ==
    ASSUME ~EarlyShutdown, ~ServeMayFail
    PROVE  Spec => NoAcquireAfterCancel
<1>1. ASSUME FullInv, [Next]_vars
      PROVE  [\A g \in cancelled : requestWG'[g] <= requestWG[g]]_vars
  <2>1. TypeOK /\ RequestsCounted /\ StopInv /\ cancelled \subseteq Runtimes
    BY <1>1 DEF FullInv, RuntimeInv, TypeOK
  <2>. QED
    BY <1>1, <2>1, CountsFall
<1>. QED
  BY <1>1, FullInvariant, PTL DEF Spec, NoAcquireAfterCancel

-----------------------------------------------------------------------------
(***************************************************************************)
(* The server implements the abstract generations: the refinement mapping  *)
(* of Lifecycle takes every behaviour of Spec to one of Generations.       *)
(***************************************************************************)
\* A cancelled active runtime belongs to a server that does not run any more,
\* so a reload never replaces it.
CancelInv == active \in cancelled => state \in {"shuttingDown", "stopped"}

RefInv == FullInv /\ CancelInv

\* What the mapping needs to know of the invariant.
LEMMA Facts ==
    ASSUME RefInv
    PROVE  /\ pc \in [Goroutines -> StopStates \cup StarterStates \cup CallerStates \cup ReloaderStates]
           /\ rt \in [Goroutines -> Runtimes] /\ Reloaders \subseteq Goroutines
           /\ active \in Runtimes /\ nextGeneration \in Runtimes /\ Runtimes \subseteq Nat
           /\ retired \subseteq cancelled /\ cancelled \subseteq Runtimes
           /\ conn \in [Clients -> ConnStates] /\ held \in [Clients -> Runtimes]
           /\ \A g \in cancelled : g <= nextGeneration
           /\ active <= nextGeneration
           /\ \A m \in Reloaders : pc[m] # "idle" => rt[m] <= nextGeneration /\ rt[m] # active
           /\ \A m \in Reloaders : pc[m] = "built" => rt[m] \notin cancelled
           /\ \A m, n \in Reloaders : pc[m] = "built" /\ pc[n] = "built" /\ m # n => rt[m] # rt[n]
<1>1. ReloaderInv /\ StopInv /\ TypeOK
  BY DEF RefInv, FullInv, RuntimeInv
<1>2. Runtimes \subseteq Nat
  BY BoundAssumption DEF Runtimes
<1>3. \A g \in cancelled : g <= nextGeneration
  BY <1>1, <1>2 DEF StopInv, TypeOK
<1>. QED
  BY <1>1, <1>2, <1>3 DEF TypeOK, ReloaderInv, StopInv, Goroutines

LEMMA RefInit == Init => Abstract!GenInit
<1>. SUFFICES ASSUME Init PROVE Abstract!GenInit
  OBVIOUS
<1>1. \A m \in Reloaders : pc[m] = "idle"
  BY GoroutineAssumption DEF Init, Goroutines
<1>2. Runtimes \subseteq Nat
  BY BoundAssumption DEF Runtimes
<1>3. \A g \in Runtimes : PhaseOf(g) = IF g = 1 THEN "active" ELSE "unbuilt"
  BY <1>1, <1>2, BoundAssumption DEF Init, PhaseOf, Runtimes
<1>4. phaseMap = [g \in Abstract!Gens |-> IF g = 1 THEN "active" ELSE "unbuilt"]
  BY <1>3 DEF phaseMap, Runtimes, Abstract!Gens
<1>5. holderMap = [c \in Clients |-> Abstract!None]
  BY DEF Init, holderMap, Abstract!None
<1>. QED
  BY <1>4, <1>5 DEF Abstract!GenInit

\* A server that shuts down or has stopped never runs again.
LEMMA CancelNext ==
    ASSUME RefInv, ~EarlyShutdown, ~ServeMayFail, [Next]_vars
    PROVE  CancelInv'
<1>. DEFINE Over == state \in {"shuttingDown", "stopped"}
<1>0. ServerInv /\ ServeInv /\ OwnerInv /\ ReloaderInv /\ StopInv /\ CancelInv
  BY DEF RefInv, FullInv, RuntimeInv
<1>1. Over => Over'
  <2>1. \/ state' = state
        \/ ListenFail \/ StoreRunning \/ ServeFailStop
        \/ \E c \in Callers : ShutdownOwn(c) \/ Complete(c) \/ CompletePanic(c)
    BY DEF Next, Request, Accept, NextRequest, Disconnect, HandlerLoad, AcquireRequest,
           Finish, Release, WorkerExit, StarterStep, StartSetup, ListenOk, StoreReady,
           Serve, ServeClosed, ServeFail, ServeFailYield, StartForceCancel, ShutdownCall,
           ShutdownStep, ShutdownStopped, ShutdownJoin, ShutdownAwaited, ShutdownNoServer,
           HttpShutdown, HttpDrained, DrainTimeout, ForcedDrained, ForcedTimeout,
           ReloadCall, ReloadStep, BuildPartial, BuildRuntime, ReloadReject, ReloadSwap,
           ReloadGauge, Stop, StopCancel, StopRequests, StopWorkers, serverVars, vars
  <2>2. CASE ListenFail \/ StoreRunning \/ ServeFailStop
    BY <1>0, <2>2 DEF ListenFail, StoreRunning, ServeFailStop, Goto, ServerInv, StartupStates
  <2>3. CASE \E c \in Callers : ShutdownOwn(c) \/ Complete(c) \/ CompletePanic(c)
    BY <2>3 DEF ShutdownOwn, Complete, CompletePanic
  <2>. QED
    BY <2>1, <2>2, <2>3
<1>2. \/ active' = active /\ cancelled' = cancelled
      \/ \E x \in Goroutines : StopCancel(x)
      \/ \E m \in Reloaders : BuildPartial(m) \/ ReloadSwap(m)
  BY DEF Next, Request, Accept, NextRequest, Disconnect, HandlerLoad, AcquireRequest,
         Finish, Release, WorkerExit, StarterStep, StartSetup, ListenOk, ListenFail,
         StoreReady, StoreRunning, Serve, ServeClosed, ServeFail, ServeFailStop,
         ServeFailYield, StartForceCancel, ShutdownCall, ShutdownStep, ShutdownStopped,
         ShutdownJoin, ShutdownAwaited, ShutdownOwn, ShutdownNoServer, HttpShutdown,
         HttpDrained, DrainTimeout, ForcedDrained, ForcedTimeout, Complete,
         CompletePanic, ReloadCall, ReloadStep, BuildRuntime, ReloadReject, ReloadGauge,
         Stop, StopRequests, StopWorkers, serverVars, runtimeVars, vars, Goroutines
<1>3. CASE active' = active /\ cancelled' = cancelled
  BY <1>0, <1>1, <1>3 DEF CancelInv
<1>4. ASSUME NEW x \in Goroutines, StopCancel(x) PROVE CancelInv'
  <2>1. active' = active /\ cancelled' = cancelled \cup {rt[x]} /\ pc[x] = "cancel"
    BY <1>4 DEF StopCancel, Goto, serverVars
  <2>2. rt[x] = active => Over
    BY <1>0, <2>1
    DEF Goroutines, ServeInv, OwnerInv, ReloaderInv, ServerInv, IsOwner, OwnerStates, StopStates
  <2>. QED
    BY <1>0, <1>1, <2>1, <2>2 DEF CancelInv
<1>5. ASSUME NEW m \in Reloaders, BuildPartial(m) PROVE CancelInv'
  <2>1. active # nextGeneration + 1
    BY Facts
  <2>. QED
    BY <1>0, <1>1, <1>5, <2>1 DEF BuildPartial, CancelInv, serverVars
<1>6. ASSUME NEW m \in Reloaders, ReloadSwap(m) PROVE CancelInv'
  BY <1>6, Facts DEF ReloadSwap, Goto, CancelInv, runtimeVars
<1>. QED
  BY <1>2, <1>3, <1>4, <1>5, <1>6

-----------------------------------------------------------------------------
(***************************************************************************)
(* What a step does to the mapped variables.                               *)
(***************************************************************************)
\* The reloaders hold the same finished, uninstalled runtimes as before.
SameBuilt ==
    \A m \in Reloaders : /\ pc'[m] = "built" <=> pc[m] = "built"
                         /\ pc[m] = "built" => rt'[m] = rt[m]

LEMMA PhaseFrame ==
    ASSUME nextGeneration' = nextGeneration, retired' = retired, active' = active,
           cancelled' = cancelled, SameBuilt
    PROVE  phaseMap' = phaseMap
<1>1. \A g \in Runtimes : PhaseOf(g)' = PhaseOf(g)
  BY DEF PhaseOf, SameBuilt
<1>. QED
  BY <1>1 DEF phaseMap

LEMMA PhaseMove ==
    ASSUME NEW g \in Runtimes, NEW from, NEW to, PhaseOf(g) = from, PhaseOf(g)' = to,
           \A h \in Runtimes \ {g} : PhaseOf(h)' = PhaseOf(h)
    PROVE  Abstract!Move(g, from, to)
<1>1. phaseMap' = [phaseMap EXCEPT ![g] = to]
  BY DEF phaseMap
<1>. QED
  BY <1>1 DEF phaseMap, Abstract!Move

LEMMA HolderFrame ==
    ASSUME \A c \in Clients : /\ conn'[c] = "acquired" <=> conn[c] = "acquired"
                              /\ conn[c] = "acquired" => held'[c] = held[c]
    PROVE  holderMap' = holderMap
BY DEF holderMap

-----------------------------------------------------------------------------
(***************************************************************************)
(* Every step of the server is a step of Generations or leaves it alone.   *)
(***************************************************************************)
LEMMA AcquireStep ==
    ASSUME RefInv, NEW c \in Clients, AcquireRequest(c)
    PROVE  Abstract!Acquire(c, active)
<1>1. held[c] = active /\ active \notin cancelled /\ conn[c] = "loaded"
  BY DEF RefInv, FullInv, RuntimeInv, StopInv, AcquireRequest, Quiet, Drained
<1>2. holderMap[c] = 0 /\ holderMap' = [holderMap EXCEPT ![c] = active]
  BY <1>1, Facts DEF holderMap, AcquireRequest
<1>3. PhaseOf(active) = "active"
  BY <1>1, Facts DEF PhaseOf
<1>4. phaseMap' = phaseMap
  BY PhaseFrame DEF AcquireRequest, SameBuilt, serverVars, localVars
<1>. QED
  BY <1>2, <1>3, <1>4, Facts DEF phaseMap, Abstract!Acquire, Abstract!None

LEMMA ReleaseStep ==
    ASSUME RefInv, NEW c \in Clients, NEW next \in {"idle", "closed"}, Release(c, next)
    PROVE  Abstract!Drop(c)
<1>1. holderMap[c] # 0
  BY Facts, BoundAssumption DEF holderMap, Release, Runtimes
<1>2. holderMap' = [holderMap EXCEPT ![c] = 0]
  BY Facts DEF holderMap, Release
<1>3. phaseMap' = phaseMap
  BY PhaseFrame DEF Release, SameBuilt, serverVars, localVars
<1>. QED
  BY <1>1, <1>2, <1>3 DEF Abstract!Drop, Abstract!None

\* Cancelling the active runtime closes the server; cancelling a replaced, a
\* refused or an already cancelled runtime changes nothing.
LEMMA CancelStep ==
    ASSUME RefInv, NEW x \in Goroutines, StopCancel(x)
    PROVE  Abstract!Close(active) \/ UNCHANGED <<phaseMap, holderMap>>
<1>1. holderMap' = holderMap
  BY HolderFrame DEF StopCancel, connVars
<1>2. SameBuilt
  BY Facts DEF StopCancel, Goto, SameBuilt
<1>3. CASE rt[x] = active /\ active \notin cancelled
  <2>1. PhaseOf(active) = "active"
    BY <1>3, Facts DEF PhaseOf
  <2>2. active' = active /\ PhaseOf(active)' = "draining"
    BY <1>2, <1>3, Facts DEF PhaseOf, StopCancel, SameBuilt, serverVars
  <2>3. \A h \in Runtimes \ {active} : PhaseOf(h)' = PhaseOf(h)
    BY <1>2, <1>3, Facts DEF PhaseOf, StopCancel, SameBuilt, serverVars
  <2>4. PICK a \in Runtimes : a = active
    BY Facts
  <2>5. PhaseOf(a)' = "draining"
    BY <2>2, <2>4 DEF PhaseOf
  <2>6. Abstract!Move(a, "active", "draining")
    BY <2>1, <2>3, <2>4, <2>5, PhaseMove
  <2>. QED
    BY <1>1, <2>4, <2>6 DEF Abstract!Close
<1>4. CASE ~(rt[x] = active /\ active \notin cancelled)
  <2>1. \A h \in Runtimes : PhaseOf(h)' = PhaseOf(h)
    BY <1>2, <1>4 DEF PhaseOf, StopCancel, SameBuilt, serverVars
  <2>. QED
    BY <1>1, <2>1 DEF phaseMap
<1>. QED
  BY <1>3, <1>4

\* Stop returns for a runtime that no request holds.
LEMMA RetireStep ==
    ASSUME RefInv, NEW x \in Goroutines, StopWorkers(x)
    PROVE  Abstract!Retire(rt[x]) \/ UNCHANGED <<phaseMap, holderMap>>
<1>. DEFINE g == rt[x]
<1>1. holderMap' = holderMap
  BY HolderFrame DEF StopWorkers, connVars
<1>2. SameBuilt
  BY Facts DEF StopWorkers, Goto, AfterStop, SameBuilt
<1>3. g \in cancelled /\ requestWG[g] = 0 /\ g \in Runtimes
  BY Facts DEF RefInv, FullInv, RuntimeInv, StopInv, StopWorkers, Goto
<1>4. CASE g \in retired
  <2>1. retired' = retired
    BY <1>4 DEF StopWorkers
  <2>. QED
    BY <1>1, <1>2, <2>1, PhaseFrame DEF StopWorkers, serverVars
<1>5. CASE g \notin retired
  <2>1. PhaseOf(g) = "draining"
    BY <1>3, <1>5, Facts DEF PhaseOf
  <2>2. PICK h \in Runtimes : h = g
    BY <1>3
  <2>3. PhaseOf(h)' = "retired"
    BY <1>3, <2>2, Facts DEF PhaseOf, StopWorkers
  <2>4. \A k \in Runtimes \ {h} : PhaseOf(k)' = PhaseOf(k)
    BY <1>2, <2>2 DEF PhaseOf, StopWorkers, SameBuilt, serverVars
  <2>5. Abstract!Move(h, "draining", "retired")
    BY <2>1, <2>2, <2>3, <2>4, PhaseMove
  <2>6. \A c \in Clients : holderMap[c] # h
    <3>. SUFFICES ASSUME NEW c \in Clients, holderMap[c] = h PROVE FALSE
      OBVIOUS
    <3>1. h # 0
      BY <1>3, <2>2, BoundAssumption DEF Runtimes
    <3>2. conn[c] = "acquired" /\ held[c] = g
      BY <2>2, <3>1 DEF holderMap
    <3>3. requestWG[g] > 0
      BY <3>2, HolderCounts DEF RefInv, FullInv
    <3>. QED
      BY <1>3, <3>3
  <2>. QED
    BY <1>1, <2>2, <2>5, <2>6 DEF Abstract!Retire
<1>. QED
  BY <1>4, <1>5

\* The next generation is beyond everything the state mentions.
LEMMA NextIsNew ==
    ASSUME RefInv, nextGeneration < MaxGen, NEW g, g = nextGeneration + 1
    PROVE  /\ g \in Runtimes /\ g > nextGeneration /\ g # active
           /\ g \notin cancelled /\ g \notin retired
           /\ \A m \in Reloaders : pc[m] = "built" => rt[m] # g
           /\ \A h \in Runtimes : h # g => (h > g <=> h > nextGeneration)
           /\ ~(g > g)
<1>1. nextGeneration \in Nat /\ nextGeneration >= 1 /\ MaxGen \in Nat
  BY Facts, BoundAssumption DEF Runtimes
<1>2. g \in Runtimes /\ g > nextGeneration /\ ~(g > g)
  BY <1>1 DEF Runtimes
<1>3. \A h \in Runtimes : h # g => (h > g <=> h > nextGeneration)
  <2>. SUFFICES ASSUME NEW h \in Runtimes, h # g PROVE h > g <=> h > nextGeneration
    OBVIOUS
  <2>1. h \in Nat
    BY BoundAssumption DEF Runtimes
  <2>. QED
    BY <1>1, <2>1
<1>4. \A h \in Nat : h <= nextGeneration => h # g
  BY <1>1
<1>5. active \in Nat /\ active <= nextGeneration
  BY Facts
<1>6. \A h \in cancelled : h \in Nat /\ h <= nextGeneration
  BY Facts
<1>7. \A m \in Reloaders : pc[m] = "built" => rt[m] \in Nat /\ rt[m] <= nextGeneration
  BY Facts
<1>8. g # active
  BY <1>4, <1>5
<1>9. g \notin cancelled /\ g \notin retired
  BY <1>4, <1>6, Facts
<1>. QED
  BY <1>2, <1>3, <1>4, <1>7, <1>8, <1>9

\* A complete build, and one that fails part of the way.
LEMMA BuildStep ==
    ASSUME RefInv, NEW m \in Reloaders, BuildRuntime(m)
    PROVE  Abstract!Build(nextGeneration + 1)
<1>1. PICK g \in Runtimes : g = nextGeneration + 1
  BY NextIsNew DEF BuildRuntime
<1>2. /\ nextGeneration' = g /\ g > nextGeneration /\ g # active
      /\ g \notin cancelled /\ g \notin retired
      /\ \A n \in Reloaders : pc[n] = "built" => rt[n] # g
      /\ \A h \in Runtimes : h # g => (h > g <=> h > nextGeneration)
      /\ ~(g > g)
  BY <1>1, NextIsNew DEF BuildRuntime
<1>3. PhaseOf(g) = "unbuilt"
  BY <1>2 DEF PhaseOf
<1>4. pc'[m] = "built" /\ rt'[m] = g
  BY <1>1, Facts DEF BuildRuntime, Goto
<1>5. PhaseOf(g)' = "built"
  BY <1>2, <1>4 DEF PhaseOf, BuildRuntime, serverVars
<1>6. \A n \in Reloaders \ {m} : pc'[n] = pc[n] /\ rt'[n] = rt[n]
  BY Facts DEF BuildRuntime, Goto
<1>7. \A h \in Runtimes \ {g} : PhaseOf(h)' = PhaseOf(h)
  <2>. SUFFICES ASSUME NEW h \in Runtimes \ {g} PROVE PhaseOf(h)' = PhaseOf(h)
    OBVIOUS
  <2>1. h > nextGeneration' <=> h > nextGeneration
    BY <1>2
  <2>2. (\E n \in Reloaders : pc'[n] = "built" /\ rt'[n] = h)
          <=> (\E n \in Reloaders : pc[n] = "built" /\ rt[n] = h)
    BY <1>4, <1>6 DEF BuildRuntime, Goto
  <2>. QED
    BY <2>1, <2>2 DEF PhaseOf, BuildRuntime, serverVars
<1>8. holderMap' = holderMap
  BY HolderFrame DEF BuildRuntime, connVars
<1>9. Abstract!Move(g, "unbuilt", "built")
  BY <1>3, <1>5, <1>7, PhaseMove
<1>. QED
  BY <1>1, <1>8, <1>9 DEF Abstract!Build

LEMMA AbandonStep ==
    ASSUME RefInv, NEW m \in Reloaders, BuildPartial(m)
    PROVE  Abstract!Abandon(nextGeneration + 1)
<1>1. PICK g \in Runtimes : g = nextGeneration + 1
  BY NextIsNew DEF BuildPartial
<1>2. /\ nextGeneration' = g /\ g > nextGeneration /\ g # active
      /\ g \notin cancelled /\ g \notin retired
      /\ \A n \in Reloaders : pc[n] = "built" => rt[n] # g
      /\ \A h \in Runtimes : h # g => (h > g <=> h > nextGeneration)
      /\ ~(g > g)
  BY <1>1, NextIsNew DEF BuildPartial
<1>3. PhaseOf(g) = "unbuilt"
  BY <1>2 DEF PhaseOf
<1>4. g \in cancelled' /\ SameBuilt
  BY <1>1 DEF BuildPartial, localVars, SameBuilt
<1>5. PhaseOf(g)' = "draining"
  BY <1>2, <1>4 DEF PhaseOf, BuildPartial, localVars
<1>6. \A h \in Runtimes \ {g} : PhaseOf(h)' = PhaseOf(h)
  <2>. SUFFICES ASSUME NEW h \in Runtimes \ {g} PROVE PhaseOf(h)' = PhaseOf(h)
    OBVIOUS
  <2>1. h > nextGeneration' <=> h > nextGeneration
    BY <1>2
  <2>. QED
    BY <1>1, <2>1 DEF PhaseOf, BuildPartial, serverVars, localVars
<1>7. holderMap' = holderMap
  BY HolderFrame DEF BuildPartial, connVars
<1>8. Abstract!Move(g, "unbuilt", "draining")
  BY <1>3, <1>5, <1>6, PhaseMove
<1>. QED
  BY <1>1, <1>7, <1>8 DEF Abstract!Abandon

\* A refused runtime starts to drain.
LEMMA DiscardStep ==
    ASSUME RefInv, NEW m \in Reloaders, ReloadReject(m)
    PROVE  Abstract!Discard(rt[m])
<1>1. PICK g \in Runtimes : g = rt[m]
  BY Facts
<1>2. pc[m] = "built" /\ g \notin retired /\ g # active /\ g <= nextGeneration
  BY <1>1, Facts DEF ReloadReject, Goto
<1>3. PhaseOf(g) = "built"
  BY <1>1, <1>2, Facts DEF PhaseOf
<1>4. rt' = rt /\ pc'[m] = "cancel" /\ \A n \in Reloaders \ {m} : pc'[n] = pc[n]
  BY Facts DEF ReloadReject, Goto
<1>5. \A n \in Reloaders : pc'[n] = "built" => rt'[n] # g
  BY <1>1, <1>2, <1>4, Facts
<1>6. PhaseOf(g)' = "draining"
  BY <1>2, <1>5, Facts DEF PhaseOf, ReloadReject, serverVars, runtimeVars
<1>7. \A h \in Runtimes \ {g} : PhaseOf(h)' = PhaseOf(h)
  BY <1>1, <1>4 DEF PhaseOf, ReloadReject, serverVars, runtimeVars
<1>8. holderMap' = holderMap
  BY HolderFrame DEF ReloadReject, connVars
<1>9. Abstract!Move(g, "built", "draining")
  BY <1>3, <1>6, <1>7, PhaseMove
<1>. QED
  BY <1>1, <1>8, <1>9 DEF Abstract!Discard

\* The swap of the runtime pointer.
LEMMA InstallStep ==
    ASSUME RefInv, NEW m \in Reloaders, ReloadSwap(m)
    PROVE  Abstract!Install(rt[m], active)
<1>1. PICK g \in Runtimes, old \in Runtimes : g = rt[m] /\ old = active
  BY Facts
<1>2. /\ pc[m] = "built" /\ g \notin retired /\ g \notin cancelled
      /\ g # old /\ g <= nextGeneration
  BY <1>1, Facts DEF ReloadSwap, Goto
<1>3. old \notin cancelled /\ old \notin retired /\ old <= nextGeneration
  BY <1>1, Facts DEF ReloadSwap, RefInv, CancelInv
<1>4. PhaseOf(g) = "built" /\ PhaseOf(old) = "active"
  BY <1>1, <1>2, <1>3, Facts DEF PhaseOf
<1>5. /\ pc'[m] = "swapped" /\ active' = g /\ cancelled' = cancelled
      /\ retired' = retired /\ nextGeneration' = nextGeneration
      /\ \A n \in Reloaders \ {m} : pc'[n] = pc[n] /\ rt'[n] = rt[n]
  BY <1>1, Facts DEF ReloadSwap, Goto, runtimeVars
<1>6. PhaseOf(g)' = "active"
  BY <1>2, <1>5, Facts DEF PhaseOf
<1>7. \A n \in Reloaders : pc'[n] = "built" => rt'[n] # old
  BY <1>1, <1>5, Facts
<1>8. PhaseOf(old)' = "draining"
  BY <1>2, <1>3, <1>5, <1>7, Facts DEF PhaseOf
<1>9. \A h \in Runtimes \ {g, old} : PhaseOf(h)' = PhaseOf(h)
  BY <1>1, <1>5 DEF PhaseOf
<1>10. phaseMap' = [phaseMap EXCEPT ![g] = "active", ![old] = "draining"]
  BY <1>2, <1>6, <1>8, <1>9 DEF phaseMap
<1>11. holderMap' = holderMap
  BY HolderFrame DEF ReloadSwap, connVars
<1>. QED
  BY <1>1, <1>4, <1>10, <1>11 DEF phaseMap, Abstract!Install

-----------------------------------------------------------------------------
\* Every other step leaves the mapped variables alone.
LEMMA FrameStep ==
    ASSUME RefInv, nextGeneration' = nextGeneration, retired' = retired,
           active' = active, cancelled' = cancelled, SameBuilt,
           \A c \in Clients : /\ conn'[c] = "acquired" <=> conn[c] = "acquired"
                              /\ conn[c] = "acquired" => held'[c] = held[c]
    PROVE  UNCHANGED <<phaseMap, holderMap>>
BY PhaseFrame, HolderFrame

LEMMA RefNext ==
    ASSUME RefInv, [Next]_vars
    PROVE  Abstract!GenNext \/ UNCHANGED <<phaseMap, holderMap>>
<1>. DEFINE Goal == Abstract!GenNext \/ UNCHANGED <<phaseMap, holderMap>>
            SameHeld == \A c \in Clients :
                          /\ conn'[c] = "acquired" <=> conn[c] = "acquired"
                          /\ conn[c] = "acquired" => held'[c] = held[c]
            SameRts == /\ nextGeneration' = nextGeneration /\ retired' = retired
                       /\ active' = active /\ cancelled' = cancelled
<1>a. ASSUME SameRts, SameBuilt, SameHeld PROVE Goal
  BY <1>a, FrameStep
<1>b. /\ pc \in [Goroutines -> StopStates \cup StarterStates \cup CallerStates \cup ReloaderStates]
      /\ conn \in [Clients -> ConnStates] /\ held \in [Clients -> Runtimes]
      /\ active \in Runtimes /\ rt \in [Goroutines -> Runtimes]
      /\ \A x \in Reloaders : x \in Goroutines
  BY Facts
<1>c. Runtimes = Abstract!Gens
  BY DEF Runtimes, Abstract!Gens
<1>d. Starter \notin Reloaders /\ Callers \cap Reloaders = {}
  BY GoroutineAssumption
<1>1. CASE \E c \in Clients : Request(c)
  <2>. PICK c \in Clients : Request(c)
    BY <1>1
  <2>1. CASE Accept(c) \/ NextRequest(c) \/ Disconnect(c) \/ HandlerLoad(c)
    <3>1. SameHeld
      BY <1>b, <2>1 DEF Accept, NextRequest, Disconnect, HandlerLoad
    <3>2. SameRts /\ SameBuilt
      BY <2>1 DEF Accept, NextRequest, Disconnect, HandlerLoad, SameBuilt,
                  serverVars, localVars, runtimeVars
    <3>. QED
      BY <1>a, <3>1, <3>2
  <2>2. CASE AcquireRequest(c)
    BY <1>b, <1>c, <2>2, AcquireStep DEF Abstract!GenNext
  <2>3. CASE Finish(c)
    <3>. PICK next \in {"idle", "closed"} : Release(c, next)
      BY <2>3 DEF Finish
    <3>. QED
      BY ReleaseStep DEF Abstract!GenNext
  <2>. QED
    BY <2>1, <2>2, <2>3 DEF Request
<1>2. CASE \E g \in Runtimes : WorkerExit(g)
  BY <1>2, <1>a DEF WorkerExit, SameBuilt, serverVars, localVars, connVars
<1>e. ASSUME NEW x \in Goroutines, Stop(x) PROVE Goal
  <2>1. CASE StopCancel(x)
    BY <1>b, <1>c, <2>1, CancelStep DEF Abstract!GenNext
  <2>2. CASE StopRequests(x)
    <3>1. SameBuilt
      BY <1>b, <2>2 DEF StopRequests, Goto, SameBuilt
    <3>. QED
      BY <1>a, <2>2, <3>1 DEF StopRequests, serverVars, runtimeVars, connVars
  <2>3. CASE StopWorkers(x)
    BY <1>b, <1>c, <2>3, RetireStep DEF Abstract!GenNext
  <2>. QED
    BY <1>e, <2>1, <2>2, <2>3 DEF Stop
<1>3. CASE StarterStep \/ ServeFail
  <2>1. CASE Stop(Starter)
    BY <1>e, <2>1 DEF Goroutines
  <2>2. CASE ~Stop(Starter)
    <3>1. SameBuilt
      BY <1>3, <1>b, <1>d, <2>2
      DEF StarterStep, StartSetup, ListenOk, ListenFail, StoreReady, StoreRunning, Serve,
          ServeClosed, ServeFail, ServeFailStop, ServeFailYield, StartForceCancel, Goto,
          SameBuilt
    <3>2. SameRts /\ SameHeld
      BY <1>3, <2>2
      DEF StarterStep, StartSetup, ListenOk, ListenFail, StoreReady, StoreRunning, Serve,
          ServeClosed, ServeFail, ServeFailStop, ServeFailYield, StartForceCancel,
          serverVars, runtimeVars, connVars
    <3>. QED
      BY <1>a, <3>1, <3>2
  <2>. QED
    BY <2>1, <2>2
<1>4. CASE \E c \in Callers : ShutdownCall(c) \/ ShutdownStep(c)
  <2>. PICK c \in Callers : ShutdownCall(c) \/ ShutdownStep(c)
    BY <1>4
  <2>1. CASE Stop(c)
    BY <1>e, <2>1 DEF Goroutines
  <2>2. CASE ~Stop(c)
    <3>1. SameBuilt
      BY <1>b, <1>d, <2>2
      DEF ShutdownCall, ShutdownStep, ShutdownStopped, ShutdownJoin, ShutdownAwaited,
          ShutdownOwn, ShutdownNoServer, HttpShutdown, HttpDrained, DrainTimeout,
          ForcedDrained, ForcedTimeout, Complete, CompletePanic, Goto, SameBuilt
    <3>2. SameRts
      BY <2>2
      DEF ShutdownCall, ShutdownStep, ShutdownStopped, ShutdownJoin, ShutdownAwaited,
          ShutdownOwn, ShutdownNoServer, HttpShutdown, HttpDrained, DrainTimeout,
          ForcedDrained, ForcedTimeout, Complete, CompletePanic, serverVars, runtimeVars
    <3>3. SameHeld
      BY <1>b, <2>2
      DEF ShutdownCall, ShutdownStep, ShutdownStopped, ShutdownJoin, ShutdownAwaited,
          ShutdownOwn, ShutdownNoServer, HttpShutdown, HttpDrained, DrainTimeout,
          ForcedDrained, ForcedTimeout, Complete, CompletePanic, connVars
    <3>. QED
      BY <1>a, <3>1, <3>2, <3>3
  <2>. QED
    BY <2>1, <2>2
<1>5. CASE \E m \in Reloaders : ReloadCall(m) \/ ReloadStep(m)
  <2>. PICK m \in Reloaders : ReloadCall(m) \/ ReloadStep(m)
    BY <1>5
  <2>1. CASE BuildPartial(m) \/ BuildRuntime(m)
    <3>1. nextGeneration + 1 \in Abstract!Gens
      BY <1>c, <2>1, NextIsNew DEF BuildPartial, BuildRuntime
    <3>. QED
      BY <2>1, <3>1, AbandonStep, BuildStep DEF Abstract!GenNext
  <2>2. CASE ReloadReject(m)
    BY <1>b, <1>c, <2>2, DiscardStep DEF Abstract!GenNext
  <2>3. CASE ReloadSwap(m)
    BY <1>b, <1>c, <2>3, InstallStep DEF Abstract!GenNext
  <2>4. CASE ReloadGauge(m)
    <3>1. SameBuilt
      BY <1>b, <2>4 DEF ReloadGauge, Goto, SameBuilt
    <3>. QED
      BY <1>a, <2>4, <3>1 DEF ReloadGauge, serverVars, runtimeVars, connVars
  <2>5. CASE Stop(m)
    BY <1>b, <1>e, <2>5
  <2>. QED
    BY <2>1, <2>2, <2>3, <2>4, <2>5 DEF ReloadCall, ReloadStep
<1>6. CASE UNCHANGED vars
  BY <1>6, <1>a DEF SameBuilt, vars, serverVars, localVars, runtimeVars, connVars
<1>. QED
  BY <1>1, <1>2, <1>3, <1>4, <1>5, <1>6 DEF Next

LEMMA RefInvariant ==
    ASSUME ~EarlyShutdown, ~ServeMayFail
    PROVE  Spec => []RefInv
<1>1. Init => CancelInv
  BY DEF Init, CancelInv
<1>2. ASSUME FullInv, CancelInv, [Next]_vars PROVE CancelInv'
  BY <1>2, CancelNext DEF RefInv
<1>3. FullInv /\ CancelInv => RefInv
  BY DEF RefInv
<1>. QED
  BY <1>1, <1>2, <1>3, FullInvariant, PTL DEF Spec

(***************************************************************************)
(* The server implements the abstract generations: its locks, WaitGroups   *)
(* and goroutines give every request one generation for its whole life,    *)
(* replace the active generation in one step and retire each generation    *)
(* once, after its last request (Server.Reload, Server.Shutdown,           *)
(* Runtime.Stop and httpHandler together).                                 *)
(***************************************************************************)
THEOREM ServerImplementsGenerations ==
    ASSUME ~EarlyShutdown, ~ServeMayFail
    PROVE  Spec => ImplementsGenerations
<1>1. ASSUME RefInv, [Next]_vars
      PROVE  [Abstract!GenNext]_Abstract!genVars
  BY <1>1, RefNext DEF Abstract!genVars
<1>. QED
  BY <1>1, RefInit, RefInvariant, PTL DEF Spec, ImplementsGenerations, Abstract!GenSpec

==============================================================================
