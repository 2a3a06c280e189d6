------------------------- MODULE LifecycleOwnership -------------------------
(***************************************************************************)
(* Who is responsible for a runtime and its workers, and what a Shutdown   *)
(* that has returned leaves behind.  The ownership theorems hold in every  *)
(* environment of Lifecycle: Shutdown may overlap Start, and Serve may     *)
(* fail.                                                                   *)
(***************************************************************************)
EXTENDS LifecycleProofs

(***************************************************************************)
(* The inductive invariant of ownership.                                   *)
(***************************************************************************)
\* Only generations that were built are used, cancelled or have workers.
RangeInv ==
    /\ active <= nextGeneration
    /\ \A x \in Goroutines : rt[x] <= nextGeneration
    /\ \A g \in cancelled : g <= nextGeneration
    /\ \A g \in Runtimes : g > nextGeneration => workerWG[g] = 0

\* Reloaders hold different runtimes, and none of them the active one.
HandsInv ==
    \A m \in Reloaders : pc[m] # "idle" =>
        /\ rt[m] # active
        /\ \A n \in Reloaders \ {m} : pc[n] # "idle" => rt[n] # rt[m]

\* Stop waits for what it has cancelled, and is over when no worker is left.
WaitInv ==
    /\ \A x \in Goroutines : pc[x] \in {"waitRequests", "waitWorkers"} => rt[x] \in cancelled
    /\ retired \subseteq cancelled
    /\ \A g \in retired : workerWG[g] = 0

OwnershipInv ==
    TypeOK /\ RequestsCounted /\ RangeInv /\ HandsInv /\ OwnedUntilCancelled /\ WaitInv

\* What Shutdown has done when it is about to complete.
AllStopped == Quiet /\ active \in retired

CompleteInv ==
    /\ \A c \in Callers : pc[c] = "complete" => AllStopped
    /\ shutdownDone /\ ~shutdownErr => AllStopped

\* Every result that was given is the one that is recorded.
ResultInv ==
    \A c \in Callers : result[c] # "none" =>
        result[c] = ErrOf(shutdownErr) /\ (shutdownDone \/ state = "stopped")

-----------------------------------------------------------------------------
(***************************************************************************)
(* The steps, as far as ownership is concerned.                            *)
(***************************************************************************)
Waiting == {"waitRequests", "waitWorkers"}

\* Steps that neither touch a runtime nor move a reloader or a Stop: they
\* may load the active runtime into a local variable.
Aside ==
    /\ UNCHANGED <<active, nextGeneration, cancelled, workerWG, retired, fresh, gauge>>
    /\ \A m \in Reloaders : pc'[m] = pc[m] /\ rt'[m] = rt[m]
    /\ \A x \in Goroutines : rt'[x] \in {rt[x], active}
    /\ \A x \in Goroutines : pc'[x] \in Waiting => pc[x] = pc'[x] /\ rt'[x] = rt[x]

LEMMA AsideRequest ==
    ASSUME NEW c \in Clients, Request(c)
    PROVE  Aside
BY DEF Request, Accept, NextRequest, Disconnect, HandlerLoad, AcquireRequest, Finish,
   Release, serverVars, localVars, runtimeVars, Aside, Goroutines

LEMMA AsideStart ==
    ASSUME TypeOK,
           \/ StartSetup \/ ListenOk \/ ListenFail \/ StoreReady \/ StoreRunning \/ Serve
           \/ ServeClosed \/ ServeFail \/ ServeFailStop \/ ServeFailYield \/ StartForceCancel
    PROVE  Aside
<1>. USE DEF Goroutines, Goto, Waiting, Aside, serverVars, runtimeVars
<1>a. Starter \notin Reloaders /\ Starter \in Goroutines /\ Reloaders \subseteq Goroutines
  BY GoroutineAssumption
<1>b. /\ pc \in [Goroutines -> StopStates \cup StarterStates \cup CallerStates \cup ReloaderStates]
      /\ rt \in [Goroutines -> Runtimes]
  BY DEF TypeOK
<1>1. CASE StartSetup
  BY <1>a, <1>b, <1>1 DEF StartSetup
<1>2. CASE ListenOk
  BY <1>a, <1>b, <1>2 DEF ListenOk
<1>3. CASE ListenFail
  BY <1>a, <1>b, <1>3 DEF ListenFail
<1>4. CASE StoreReady
  BY <1>a, <1>b, <1>4 DEF StoreReady
<1>5. CASE StoreRunning
  BY <1>a, <1>b, <1>5 DEF StoreRunning
<1>6. CASE Serve
  BY <1>a, <1>b, <1>6 DEF Serve
<1>7. CASE ServeClosed
  BY <1>a, <1>b, <1>7 DEF ServeClosed
<1>8. CASE ServeFail
  BY <1>a, <1>b, <1>8 DEF ServeFail
<1>9. CASE ServeFailStop
  BY <1>a, <1>b, <1>9 DEF ServeFailStop
<1>10. CASE ServeFailYield
  BY <1>a, <1>b, <1>10 DEF ServeFailYield
<1>11. CASE StartForceCancel
  BY <1>a, <1>b, <1>11 DEF StartForceCancel
<1>. QED
  BY <1>1, <1>2, <1>3, <1>4, <1>5, <1>6, <1>7, <1>8, <1>9, <1>10, <1>11

LEMMA AsideShutdown ==
    ASSUME TypeOK, NEW c \in Callers, ShutdownCall(c) \/ ShutdownStep(c), ~Stop(c)
    PROVE  Aside
<1>. USE DEF Goroutines, Goto, Waiting, Aside, serverVars, runtimeVars
<1>a. c \notin Reloaders /\ c \in Goroutines /\ Reloaders \subseteq Goroutines
  BY GoroutineAssumption
<1>b. /\ pc \in [Goroutines -> StopStates \cup StarterStates \cup CallerStates \cup ReloaderStates]
      /\ rt \in [Goroutines -> Runtimes]
  BY DEF TypeOK
<1>1. CASE ShutdownStopped(c)
  BY <1>a, <1>b, <1>1 DEF ShutdownStopped
<1>2. CASE ShutdownJoin(c)
  BY <1>a, <1>b, <1>2 DEF ShutdownJoin
<1>3. CASE ShutdownOwn(c)
  BY <1>a, <1>b, <1>3 DEF ShutdownOwn
<1>4. CASE ShutdownAwaited(c)
  BY <1>a, <1>b, <1>4 DEF ShutdownAwaited
<1>5. CASE ShutdownNoServer(c)
  BY <1>a, <1>b, <1>5 DEF ShutdownNoServer
<1>6. CASE HttpShutdown(c)
  BY <1>a, <1>b, <1>6 DEF HttpShutdown
<1>7. CASE HttpDrained(c)
  BY <1>a, <1>b, <1>7 DEF HttpDrained
<1>8. CASE DrainTimeout(c)
  BY <1>a, <1>b, <1>8 DEF DrainTimeout
<1>9. CASE ForcedDrained(c)
  BY <1>a, <1>b, <1>9 DEF ForcedDrained
<1>10. CASE ForcedTimeout(c)
  BY <1>a, <1>b, <1>10 DEF ForcedTimeout
<1>11. CASE Complete(c)
  BY <1>a, <1>b, <1>11 DEF Complete
<1>12. CASE CompletePanic(c)
  BY <1>a, <1>b, <1>12 DEF CompletePanic
<1>. QED
  BY <1>1, <1>2, <1>3, <1>4, <1>5, <1>6, <1>7, <1>8, <1>9, <1>10, <1>11, <1>12
  DEF ShutdownCall, ShutdownStep

LEMMA OwnershipKinds ==
    ASSUME TypeOK, [Next]_vars
    PROVE  \/ Aside
           \/ \E g \in Runtimes : WorkerExit(g)
           \/ \E x \in Goroutines : StopCancel(x) \/ StopRequests(x) \/ StopWorkers(x)
           \/ \E m \in Reloaders : BuildPartial(m) \/ BuildRuntime(m) \/ ReloadReject(m)
                                     \/ ReloadSwap(m) \/ ReloadGauge(m)
<1>a. Starter \in Goroutines /\ Callers \subseteq Goroutines /\ Reloaders \subseteq Goroutines
  BY DEF Goroutines
<1>1. CASE \E c \in Clients : Request(c)
  BY <1>1, AsideRequest
<1>2. CASE StarterStep \/ ServeFail
  <2>1. CASE Stop(Starter)
    BY <1>a, <2>1 DEF Stop
  <2>2. CASE ~Stop(Starter)
    <3>1. Aside
      BY <1>2, <2>2, AsideStart DEF StarterStep
    <3>. QED
      BY <3>1
  <2>. QED
    BY <2>1, <2>2
<1>3. CASE \E c \in Callers : ShutdownCall(c) \/ ShutdownStep(c)
  BY <1>a, <1>3, AsideShutdown DEF Stop
<1>4. CASE \E m \in Reloaders : ReloadCall(m) \/ ReloadStep(m)
  BY <1>a, <1>4 DEF ReloadCall, ReloadStep, Stop
<1>5. CASE UNCHANGED vars
  BY <1>5 DEF vars, serverVars, localVars, runtimeVars, Aside, Goroutines
<1>. QED
  BY <1>1, <1>2, <1>3, <1>4, <1>5 DEF Next

-----------------------------------------------------------------------------
(***************************************************************************)
(* Every kind of step keeps ownership.                                     *)
(***************************************************************************)
OwnCore == RangeInv /\ HandsInv /\ OwnedUntilCancelled /\ WaitInv

LEMMA OwnTypes ==
    ASSUME TypeOK
    PROVE  /\ pc \in [Goroutines -> StopStates \cup StarterStates \cup CallerStates \cup ReloaderStates]
           /\ rt \in [Goroutines -> Runtimes] /\ Reloaders \subseteq Goroutines
           /\ fresh \in [Reloaders -> Runtimes]
           /\ active \in Runtimes /\ nextGeneration \in Runtimes /\ Runtimes \subseteq Nat
           /\ workerWG \in [Runtimes -> Nat] /\ cancelled \subseteq Runtimes
           /\ retired \subseteq Runtimes
BY BoundAssumption DEF TypeOK, Goroutines, Runtimes

LEMMA OwnAside ==
    ASSUME TypeOK, OwnCore, Aside
    PROVE  OwnCore'
<1>. USE OwnTypes DEF OwnCore, Aside
<1>1. RangeInv'
  BY DEF RangeInv
<1>2. HandsInv'
  BY DEF HandsInv
<1>3. OwnedUntilCancelled'
  BY DEF OwnedUntilCancelled
<1>4. WaitInv'
  BY DEF WaitInv, Waiting
<1>. QED
  BY <1>1, <1>2, <1>3, <1>4

LEMMA OwnWorkerExit ==
    ASSUME TypeOK, OwnCore, NEW g \in Runtimes, WorkerExit(g)
    PROVE  OwnCore'
<1>. USE OwnTypes DEF OwnCore
<1>0. /\ UNCHANGED <<active, nextGeneration, cancelled, retired, pc, rt>>
      /\ workerWG[g] > 0 /\ g \in cancelled /\ workerWG' = [workerWG EXCEPT ![g] = @ - 1]
  BY DEF WorkerExit, serverVars, localVars
<1>1. RangeInv'
  BY <1>0 DEF RangeInv
<1>2. HandsInv'
  BY <1>0 DEF HandsInv
<1>3. OwnedUntilCancelled'
  BY <1>0 DEF OwnedUntilCancelled
<1>4. WaitInv'
  BY <1>0 DEF WaitInv
<1>. QED
  BY <1>1, <1>2, <1>3, <1>4

LEMMA OwnStop ==
    ASSUME TypeOK, OwnCore, NEW x \in Goroutines,
           StopCancel(x) \/ StopRequests(x) \/ StopWorkers(x)
    PROVE  OwnCore'
<1>. USE OwnTypes DEF OwnCore, Goto
<1>0. /\ UNCHANGED <<active, nextGeneration, rt, workerWG>>
      /\ cancelled \subseteq cancelled' /\ cancelled' \subseteq cancelled \cup {rt[x]}
      /\ retired \subseteq retired' /\ retired' \subseteq retired \cup {rt[x]}
      /\ \A y \in Goroutines \ {x} : pc'[y] = pc[y]
      /\ pc[x] \in StopStates
  BY DEF StopCancel, StopRequests, StopWorkers, serverVars, runtimeVars, StopStates
<1>1. RangeInv'
  BY <1>0 DEF RangeInv
<1>2. HandsInv'
  BY <1>0 DEF HandsInv, StopStates
<1>3. OwnedUntilCancelled'
  <2>. SUFFICES ASSUME NEW g \in (1 .. nextGeneration) \ cancelled', g # active
                PROVE  \E m \in Reloaders :
                         /\ rt[m] = g /\ pc'[m] \in {"built", "swapped", "cancel"}
                         /\ \A n \in Reloaders \ {m} : ~(rt[n] = g /\ pc'[n] # "idle")
    BY <1>0 DEF OwnedUntilCancelled
  <2>1. PICK m \in Reloaders :
               /\ rt[m] = g /\ pc[m] \in {"built", "swapped", "cancel"}
               /\ \A n \in Reloaders \ {m} : ~(rt[n] = g /\ pc[n] # "idle")
    BY <1>0 DEF OwnedUntilCancelled
  <2>2. m # x
    BY <2>1 DEF StopCancel, StopRequests, StopWorkers
  <2>3. \A n \in Reloaders \ {m} : ~(rt[n] = g /\ pc'[n] # "idle")
    BY <1>0, <2>1 DEF StopStates
  <2>. QED
    BY <1>0, <2>1, <2>2, <2>3
<1>4. WaitInv'
  <2>1. \A y \in Goroutines : pc'[y] \in {"waitRequests", "waitWorkers"} => rt[y] \in cancelled'
    BY <1>0 DEF WaitInv, StopCancel, StopRequests, StopWorkers, AfterStop
  <2>2. retired' \subseteq cancelled' /\ \A g \in retired' : workerWG[g] = 0
    BY <1>0 DEF WaitInv, StopCancel, StopRequests, StopWorkers, runtimeVars
  <2>. QED
    BY <1>0, <2>1, <2>2 DEF WaitInv
<1>. QED
  BY <1>1, <1>2, <1>3, <1>4

LEMMA NextGeneration ==
    ASSUME TypeOK, RangeInv, WaitInv, nextGeneration < MaxGen
    PROVE  /\ nextGeneration + 1 \in Runtimes /\ nextGeneration + 1 # active
           /\ nextGeneration + 1 \notin cancelled /\ nextGeneration + 1 \notin retired
           /\ \A x \in Goroutines : rt[x] # nextGeneration + 1
           /\ workerWG[nextGeneration + 1] = 0
<1>1. nextGeneration + 1 \in Runtimes /\ nextGeneration + 1 > nextGeneration
  BY OwnTypes, BoundAssumption DEF Runtimes
<1>. QED
  BY <1>1, OwnTypes DEF RangeInv, WaitInv

LEMMA OwnBuildPartial ==
    ASSUME TypeOK, OwnCore, NEW m \in Reloaders, BuildPartial(m)
    PROVE  OwnCore'
<1>. USE OwnTypes DEF OwnCore
<1>n. PICK g \in Runtimes :
        /\ g = nextGeneration + 1 /\ g # active /\ g \notin cancelled /\ g \notin retired
        /\ \A x \in Goroutines : rt[x] # g
  BY NextGeneration DEF BuildPartial
<1>m. /\ \A h \in Runtimes : h <= nextGeneration => h <= g
      /\ \A h \in Runtimes : h > g => h > nextGeneration /\ h # g
      /\ \A h \in (1 .. g) \ {g} : h \in 1 .. nextGeneration
      /\ g <= g
  <2>1. nextGeneration \in Nat /\ Runtimes \subseteq Nat /\ g = nextGeneration + 1
    BY <1>n
  <2>. QED
    BY <2>1
<1>0. /\ UNCHANGED <<active, retired, pc, rt>>
      /\ nextGeneration' = g /\ cancelled' = cancelled \cup {g}
      /\ \A h \in Runtimes \ {g} : workerWG'[h] = workerWG[h]
  BY <1>n DEF BuildPartial, serverVars, localVars
<1>1. RangeInv'
  BY <1>n, <1>m, <1>0 DEF RangeInv
<1>2. HandsInv'
  BY <1>0 DEF HandsInv
<1>3. OwnedUntilCancelled'
  <2>1. \A h \in (1 .. g) \ cancelled' : h \in (1 .. nextGeneration) \ cancelled
    BY <1>m, <1>0
  <2>. QED
    BY <1>0, <2>1 DEF OwnedUntilCancelled
<1>4. WaitInv'
  BY <1>n, <1>0 DEF WaitInv
<1>. QED
  BY <1>1, <1>2, <1>3, <1>4

LEMMA OwnBuild ==
    ASSUME TypeOK, OwnCore, NEW m \in Reloaders, BuildRuntime(m)
    PROVE  OwnCore'
<1>. USE OwnTypes DEF OwnCore
<1>n. PICK g \in Runtimes :
        /\ g = nextGeneration + 1 /\ g # active /\ g \notin cancelled /\ g \notin retired
        /\ \A x \in Goroutines : rt[x] # g
  BY NextGeneration DEF BuildRuntime
<1>m. /\ \A h \in Runtimes : h <= nextGeneration => h <= g
      /\ \A h \in Runtimes : h > g => h > nextGeneration /\ h # g
      /\ \A h \in (1 .. g) \ {g} : h \in 1 .. nextGeneration
      /\ g <= g
  <2>1. nextGeneration \in Nat /\ Runtimes \subseteq Nat /\ g = nextGeneration + 1
    BY <1>n
  <2>. QED
    BY <2>1
<1>0. /\ UNCHANGED <<active, cancelled, retired>>
      /\ nextGeneration' = g /\ pc[m] = "idle"
      /\ pc' = [pc EXCEPT ![m] = "built"] /\ rt' = [rt EXCEPT ![m] = g]
      /\ workerWG' = [workerWG EXCEPT ![g] = Probers]
  BY <1>n DEF BuildRuntime, Goto, serverVars
<1>1. RangeInv'
  BY <1>n, <1>m, <1>0 DEF RangeInv
<1>2. HandsInv'
  BY <1>n, <1>0 DEF HandsInv
<1>3. OwnedUntilCancelled'
  <2>. SUFFICES ASSUME NEW h \in (1 .. g) \ cancelled, h # active
                PROVE  \E k \in Reloaders :
                         /\ rt'[k] = h /\ pc'[k] \in {"built", "swapped", "cancel"}
                         /\ \A n \in Reloaders \ {k} : ~(rt'[n] = h /\ pc'[n] # "idle")
    BY <1>0 DEF OwnedUntilCancelled
  <2>1. CASE h = g
    <3>1. /\ rt'[m] = h /\ pc'[m] = "built"
          /\ \A n \in Reloaders \ {m} : rt'[n] # h
      BY <1>n, <1>0, <2>1
    <3>. QED
      BY <3>1
  <2>2. CASE h # g
    <3>1. h \in (1 .. nextGeneration) \ cancelled
      BY <1>m, <2>2
    <3>2. PICK k \in Reloaders :
            /\ rt[k] = h /\ pc[k] \in {"built", "swapped", "cancel"}
            /\ \A n \in Reloaders \ {k} : ~(rt[n] = h /\ pc[n] # "idle")
      BY <3>1 DEF OwnedUntilCancelled
    <3>3. k # m /\ rt'[k] = h /\ pc'[k] = pc[k]
      BY <1>0, <3>2
    <3>4. \A n \in Reloaders \ {k} : ~(rt'[n] = h /\ pc'[n] # "idle")
      BY <1>0, <2>2, <3>2
    <3>. QED
      BY <3>2, <3>3, <3>4
  <2>. QED
    BY <2>1, <2>2
<1>4. WaitInv'
  BY <1>n, <1>0 DEF WaitInv
<1>. QED
  BY <1>1, <1>2, <1>3, <1>4

LEMMA OwnSwap ==
    ASSUME TypeOK, OwnCore, NEW m \in Reloaders, ReloadSwap(m)
    PROVE  OwnCore'
<1>. USE OwnTypes DEF OwnCore
<1>0. /\ UNCHANGED <<nextGeneration, cancelled, retired, workerWG>>
      /\ pc[m] = "built" /\ active' = rt[m]
      /\ pc' = [pc EXCEPT ![m] = "swapped"] /\ rt' = [rt EXCEPT ![m] = active]
  BY DEF ReloadSwap, Goto, runtimeVars
<1>1. RangeInv'
  BY <1>0 DEF RangeInv
<1>2. HandsInv'
  BY <1>0 DEF HandsInv
<1>3. OwnedUntilCancelled'
  <2>. SUFFICES ASSUME NEW h \in (1 .. nextGeneration) \ cancelled, h # rt[m]
                PROVE  \E k \in Reloaders :
                         /\ rt'[k] = h /\ pc'[k] \in {"built", "swapped", "cancel"}
                         /\ \A n \in Reloaders \ {k} : ~(rt'[n] = h /\ pc'[n] # "idle")
    BY <1>0 DEF OwnedUntilCancelled
  <2>1. CASE h = active
    <3>1. /\ rt'[m] = h /\ pc'[m] = "swapped"
          /\ \A n \in Reloaders \ {m} : ~(rt'[n] = h /\ pc'[n] # "idle")
      BY <1>0, <2>1 DEF HandsInv
    <3>. QED
      BY <3>1
  <2>2. CASE h # active
    <3>1. PICK k \in Reloaders :
            /\ rt[k] = h /\ pc[k] \in {"built", "swapped", "cancel"}
            /\ \A n \in Reloaders \ {k} : ~(rt[n] = h /\ pc[n] # "idle")
      BY <2>2 DEF OwnedUntilCancelled
    <3>2. k # m /\ rt'[k] = h /\ pc'[k] = pc[k]
      BY <1>0, <3>1
    <3>3. \A n \in Reloaders \ {k} : ~(rt'[n] = h /\ pc'[n] # "idle")
      BY <1>0, <2>2, <3>1
    <3>. QED
      BY <3>1, <3>2, <3>3
  <2>. QED
    BY <2>1, <2>2
<1>4. WaitInv'
  BY <1>0 DEF WaitInv
<1>. QED
  BY <1>1, <1>2, <1>3, <1>4

\* A refused runtime is stopped, and so is a replaced one after the gauge.
LEMMA OwnToCancel ==
    ASSUME TypeOK, OwnCore, NEW m \in Reloaders, ReloadReject(m) \/ ReloadGauge(m)
    PROVE  OwnCore'
<1>. USE OwnTypes DEF OwnCore
<1>0. /\ UNCHANGED <<active, nextGeneration, cancelled, retired, workerWG, rt>>
      /\ pc[m] \in {"built", "swapped"} /\ pc' = [pc EXCEPT ![m] = "cancel"]
  BY DEF ReloadReject, ReloadGauge, Goto, serverVars, runtimeVars
<1>1. RangeInv'
  BY <1>0 DEF RangeInv
<1>2. HandsInv'
  BY <1>0 DEF HandsInv
<1>3. OwnedUntilCancelled'
  BY <1>0 DEF OwnedUntilCancelled
<1>4. WaitInv'
  BY <1>0 DEF WaitInv
<1>. QED
  BY <1>1, <1>2, <1>3, <1>4

LEMMA OwnershipInvariant == Spec => []OwnershipInv
<1>1. Init => OwnershipInv
  <2>. SUFFICES ASSUME Init PROVE RangeInv /\ HandsInv /\ OwnedUntilCancelled /\ WaitInv
    BY TypeInit, CountInit DEF OwnershipInv
  <2>1. 1 \in Runtimes /\ Runtimes \subseteq Nat
    BY BoundAssumption DEF Runtimes
  <2>2. \A x \in Goroutines : rt[x] = 1 /\ pc[x] \in {"start", "idle"}
    BY DEF Init
  <2>3. \A m \in Reloaders : pc[m] = "idle"
    BY GoroutineAssumption DEF Init, Goroutines
  <2>4. \A g \in 1 .. nextGeneration : g = active
    BY DEF Init
  <2>5. \A g \in Runtimes : g > 1 => workerWG[g] = 0
    BY <2>1 DEF Init
  <2>. QED
    BY <2>1, <2>2, <2>3, <2>4, <2>5
    DEF Init, RangeInv, HandsInv, OwnedUntilCancelled, WaitInv
<1>2. OwnershipInv /\ [Next]_vars => OwnershipInv'
  <2>. SUFFICES ASSUME OwnershipInv, [Next]_vars PROVE OwnershipInv'
    OBVIOUS
  <2>1. TypeOK /\ RequestsCounted /\ OwnCore
    BY DEF OwnershipInv, OwnCore
  <2>2. TypeOK' /\ RequestsCounted'
    BY <2>1, TypeNext, CountNext
  <2>3. OwnCore'
    BY <2>1, OwnershipKinds, OwnAside, OwnWorkerExit, OwnStop, OwnBuildPartial, OwnBuild,
       OwnSwap, OwnToCancel
  <2>. QED
    BY <2>2, <2>3 DEF OwnershipInv, OwnCore
<1>. QED
  BY <1>1, <1>2, PTL DEF Spec

\* No runtime is forgotten, however reloads, a failing Start and Shutdown
\* interleave: one that is not cancelled is active or in the hands of exactly
\* one Manager.Reload, which installs or stops it.
THEOREM RuntimesAreOwned == Spec => []OwnedUntilCancelled
<1>1. OwnershipInv => OwnedUntilCancelled
  BY DEF OwnershipInv
<1>. QED
  BY <1>1, OwnershipInvariant, PTL

-----------------------------------------------------------------------------
(***************************************************************************)
(* The server's use of workers.                                            *)
(***************************************************************************)
LEMMA LaunchStep ==
    ASSUME OwnershipInv, NEW m \in Reloaders, BuildPartial(m) \/ BuildRuntime(m)
    PROVE  Assumed!WorkersNext
<1>1. PICK g \in Runtimes : g = nextGeneration + 1 /\ g \notin cancelled /\ workerWG[g] = 0
  BY NextGeneration DEF OwnershipInv, BuildPartial, BuildRuntime
<1>2. PICK k \in 0 .. Probers : workerWG' = [workerWG EXCEPT ![g] = k]
  <2>1. CASE BuildPartial(m)
    BY <1>1, <2>1 DEF BuildPartial
  <2>2. CASE BuildRuntime(m)
    <3>1. Probers \in 0 .. Probers
      BY BoundAssumption
    <3>2. workerWG' = [workerWG EXCEPT ![g] = Probers]
      BY <1>1, <2>2 DEF BuildRuntime
    <3>. QED
      BY <3>1, <3>2
  <2>. QED
    BY <2>1, <2>2
<1>3. workerWG \in [Runtimes -> Nat] /\ k \in Nat /\ k >= 0
  BY OwnTypes, BoundAssumption DEF OwnershipInv
<1>4. workerWG'[g] = k /\ workerWG' = [workerWG EXCEPT ![g] = workerWG'[g]]
  BY <1>2, <1>3
<1>5. cancelled' \in {cancelled, cancelled \cup {g}} /\ UNCHANGED retired
  BY <1>1 DEF BuildPartial, BuildRuntime
<1>6. Assumed!Launch(g)
  BY <1>1, <1>3, <1>4, <1>5 DEF Assumed!Launch
<1>. QED
  BY <1>6 DEF Assumed!WorkersNext

LEMMA WorkerStep ==
    ASSUME OwnershipInv, [Next]_vars
    PROVE  Assumed!WorkersNext \/ UNCHANGED <<workerWG, cancelled, retired>>
<1>1. CASE Aside
  BY <1>1 DEF Aside
<1>2. ASSUME NEW g \in Runtimes, WorkerExit(g)
      PROVE  Assumed!WorkersNext
  <2>1. Assumed!Leave(g)
    BY <1>2 DEF WorkerExit, Assumed!Leave
  <2>. QED
    BY <2>1 DEF Assumed!WorkersNext
<1>3. ASSUME NEW x \in Goroutines, StopCancel(x) \/ StopRequests(x) \/ StopWorkers(x)
      PROVE  Assumed!WorkersNext \/ UNCHANGED <<workerWG, cancelled, retired>>
  <2>0. rt[x] \in Runtimes
    BY OwnTypes DEF OwnershipInv
  <2>1. CASE StopCancel(x)
    <3>1. Assumed!Cancel(rt[x])
      BY <2>1 DEF StopCancel, Assumed!Cancel
    <3>. QED
      BY <2>0, <3>1 DEF Assumed!WorkersNext
  <2>2. CASE StopRequests(x)
    BY <2>2 DEF StopRequests, runtimeVars
  <2>3. CASE StopWorkers(x)
    <3>1. rt[x] \in cancelled
      BY <2>3 DEF OwnershipInv, WaitInv, StopWorkers, Goto
    <3>2. Assumed!Retire(rt[x])
      BY <2>3, <3>1 DEF StopWorkers, Assumed!Retire
    <3>. QED
      BY <2>0, <3>2 DEF Assumed!WorkersNext
  <2>. QED
    BY <1>3, <2>1, <2>2, <2>3
<1>4. ASSUME NEW m \in Reloaders, ReloadReject(m) \/ ReloadSwap(m) \/ ReloadGauge(m)
      PROVE  UNCHANGED <<workerWG, cancelled, retired>>
  BY <1>4 DEF ReloadReject, ReloadSwap, ReloadGauge, runtimeVars
<1>. QED
  BY <1>1, <1>2, <1>3, <1>4, OwnershipKinds, LaunchStep DEF OwnershipInv

\* In every environment the server relies on no more than Workers promises:
\* it starts a runtime's workers before it cancels the runtime, and Stop
\* returns after the cancellation, when the last worker has left.
THEOREM ServerUsesWorkers == Spec => ImplementsWorkers
<1>1. Init => Assumed!WorkersInit
  BY BoundAssumption DEF Init, Assumed!WorkersInit
<1>2. OwnershipInv /\ [Next]_vars => [Assumed!WorkersNext]_Assumed!workerVars
  BY WorkerStep DEF Assumed!workerVars
<1>. QED
  BY <1>1, <1>2, OwnershipInvariant, PTL DEF Spec, ImplementsWorkers, Assumed!WorkersSpec

-----------------------------------------------------------------------------
(***************************************************************************)
(* The result of Shutdown.                                                 *)
(***************************************************************************)
LEMMA ResultFrame ==
    ASSUME ResultInv, UNCHANGED <<result, shutdownErr, shutdownDone>>,
           state = "stopped" => state' = "stopped"
    PROVE  ResultInv'
BY DEF ResultInv, ErrOf

LEMMA ResultNext ==
    ASSUME TypeOK, ServerInv, ResultInv, [Next]_vars
    PROVE  ResultInv'
<1>. USE DEF serverVars, localVars
<1>a. result \in [Callers -> {"none", "nil", "err"}]
  BY DEF TypeOK
<1>1. CASE \E c \in Clients : Request(c)
  BY <1>1, ResultFrame
  DEF Request, Accept, NextRequest, Disconnect, HandlerLoad, AcquireRequest, Finish, Release
<1>2. CASE \E g \in Runtimes : WorkerExit(g)
  BY <1>2, ResultFrame DEF WorkerExit
<1>3. CASE StarterStep \/ ServeFail
  <2>1. CASE StoreRunning
    <3>1. state = "starting"
      BY <2>1 DEF StoreRunning, Goto, ServerInv, StartupStates
    <3>. QED
      BY <2>1, <3>1, ResultFrame DEF StoreRunning
  <2>2. CASE StartSetup \/ ListenOk \/ ListenFail \/ StoreReady \/ Serve
    BY <2>2, ResultFrame DEF StartSetup, ListenOk, ListenFail, StoreReady, Serve
  <2>3. CASE ServeClosed \/ ServeFail \/ ServeFailStop \/ ServeFailYield \/ StartForceCancel
    BY <2>3, ResultFrame
    DEF ServeClosed, ServeFail, ServeFailStop, ServeFailYield, StartForceCancel
  <2>4. CASE Stop(Starter)
    BY <2>4, ResultFrame DEF Stop, StopCancel, StopRequests, StopWorkers
  <2>. QED
    BY <1>3, <2>1, <2>2, <2>3, <2>4 DEF StarterStep
<1>4. CASE \E c \in Callers : ShutdownCall(c) \/ ShutdownStep(c)
  <2>. PICK c \in Callers : ShutdownCall(c) \/ ShutdownStep(c)
    BY <1>4
  <2>1. CASE ShutdownStopped(c)
    <3>1. /\ result' = [result EXCEPT ![c] = ErrOf(shutdownErr)] /\ state = "stopped"
          /\ UNCHANGED <<state, shutdownErr, shutdownDone>>
      BY <2>1 DEF ShutdownStopped
    <3>. QED
      BY <1>a, <3>1 DEF ResultInv, ErrOf
  <2>2. CASE ShutdownAwaited(c)
    <3>1. /\ result' = [result EXCEPT ![c] = ErrOf(shutdownErr)] /\ shutdownDone
          /\ UNCHANGED <<state, shutdownErr, shutdownDone>>
      BY <2>2 DEF ShutdownAwaited
    <3>. QED
      BY <1>a, <3>1 DEF ResultInv, ErrOf
  <2>3. CASE Complete(c)
    <3>1. IsOwner(c)
      BY <2>3 DEF Complete, IsOwner, OwnerStates
    <3>2. state = "shuttingDown" /\ ~shutdownDone
      BY <3>1 DEF ServerInv
    <3>3. \A d \in Callers : result[d] = "none"
      BY <3>2 DEF ResultInv
    <3>4. /\ result' = [result EXCEPT ![c] = ErrOf(pc[c] = "failed")]
          /\ shutdownErr' = (pc[c] = "failed") /\ shutdownDone' = TRUE
      BY <2>3 DEF Complete
    <3>. QED
      BY <1>a, <3>3, <3>4 DEF ResultInv, ErrOf
  <2>4. CASE CompletePanic(c)
    <3>1. IsOwner(c) /\ shutdownDone
      BY <2>4 DEF CompletePanic, IsOwner, OwnerStates
    <3>. QED
      BY <3>1 DEF ServerInv
  <2>5. CASE ShutdownOwn(c)
    BY <2>5, ResultFrame DEF ShutdownOwn
  <2>6. CASE ShutdownJoin(c) \/ ShutdownNoServer(c) \/ HttpShutdown(c) \/ HttpDrained(c)
    BY <2>6, ResultFrame DEF ShutdownJoin, ShutdownNoServer, HttpShutdown, HttpDrained
  <2>7. CASE DrainTimeout(c) \/ ForcedDrained(c) \/ ForcedTimeout(c) \/ Stop(c)
    BY <2>7, ResultFrame
    DEF DrainTimeout, ForcedDrained, ForcedTimeout, Stop, StopCancel, StopRequests, StopWorkers
  <2>. QED
    BY <2>1, <2>2, <2>3, <2>4, <2>5, <2>6, <2>7 DEF ShutdownCall, ShutdownStep
<1>5. CASE \E m \in Reloaders : ReloadCall(m) \/ ReloadStep(m)
  BY <1>5, ResultFrame
  DEF ReloadCall, ReloadStep, BuildPartial, BuildRuntime, ReloadReject, ReloadSwap,
      ReloadGauge, Stop, StopCancel, StopRequests, StopWorkers
<1>6. CASE UNCHANGED vars
  BY <1>6, ResultFrame DEF vars
<1>. QED
  BY <1>1, <1>2, <1>3, <1>4, <1>5, <1>6 DEF Next

\* Everyone who calls Shutdown learns the same result: the owner, those who
\* wait for it and those who come when the server has stopped.
THEOREM ShutdownResultsAgree ==
    ASSUME ~EarlyShutdown
    PROVE  Spec => []SameShutdownResult
<1>1. Init => ResultInv
  BY DEF Init, ResultInv
<1>2. TypeOK /\ ServerInv /\ ResultInv /\ [Next]_vars => ResultInv'
  BY ResultNext
<1>3. ResultInv => SameShutdownResult
  BY DEF ResultInv, SameShutdownResult
<1>. QED
  BY <1>1, <1>2, <1>3, ServerInvariant, PTL DEF Spec

-----------------------------------------------------------------------------
(***************************************************************************)
(* What a successful Shutdown leaves behind.                               *)
(***************************************************************************)
\* The active runtime stays what it is when everything has stopped.
LEMMA StoppedStable ==
    ASSUME TypeOK, AllStopped, state # "running", [Next]_vars
    PROVE  AllStopped'
<1>1. Quiet' /\ active \in retired
  BY QuietStable DEF AllStopped
<1>2. CASE Aside
  BY <1>1, <1>2 DEF Aside, AllStopped
<1>3. ASSUME NEW g \in Runtimes, WorkerExit(g)
      PROVE  AllStopped'
  BY <1>1, <1>3 DEF WorkerExit, AllStopped, serverVars
<1>4. ASSUME NEW x \in Goroutines, StopCancel(x) \/ StopRequests(x) \/ StopWorkers(x)
      PROVE  AllStopped'
  BY <1>1, <1>4 DEF StopCancel, StopRequests, StopWorkers, AllStopped, serverVars, runtimeVars
<1>5. ASSUME NEW m \in Reloaders,
             \/ BuildPartial(m) \/ BuildRuntime(m) \/ ReloadReject(m) \/ ReloadSwap(m)
             \/ ReloadGauge(m)
      PROVE  AllStopped'
  BY <1>1, <1>5
  DEF BuildPartial, BuildRuntime, ReloadReject, ReloadSwap, ReloadGauge, AllStopped,
      serverVars, runtimeVars
<1>. QED
  BY <1>2, <1>3, <1>4, <1>5, OwnershipKinds

\* Only Stop brings a caller to complete, and only complete or failed ends a
\* Shutdown.
LEMMA HowCompleted ==
    ASSUME TypeOK, [Next]_vars
    PROVE  /\ \A c \in Callers : pc'[c] = "complete" => pc[c] = "complete" \/ StopWorkers(c)
           /\ shutdownDone' /\ ~shutdownErr' =>
                \/ shutdownDone /\ ~shutdownErr
                \/ \E c \in Callers : pc[c] = "complete"
                \/ shutdownDone /\ \E c \in Callers : pc[c] = "failed"
<1>. DEFINE Goal == /\ \A c \in Callers : pc'[c] = "complete" => pc[c] = "complete" \/ StopWorkers(c)
                    /\ shutdownDone' /\ ~shutdownErr' =>
                         \/ shutdownDone /\ ~shutdownErr
                         \/ \E c \in Callers : pc[c] = "complete"
                         \/ shutdownDone /\ \E c \in Callers : pc[c] = "failed"
<1>. USE DEF Goroutines, Goto, serverVars, localVars
<1>a. Starter \notin Callers /\ Callers \cap Reloaders = {}
  BY GoroutineAssumption
<1>b. pc \in [Goroutines -> StopStates \cup StarterStates \cup CallerStates \cup ReloaderStates]
  BY DEF TypeOK
<1>1. CASE \E c \in Clients : Request(c)
  BY <1>1
  DEF Request, Accept, NextRequest, Disconnect, HandlerLoad, AcquireRequest, Finish, Release
<1>2. CASE \E g \in Runtimes : WorkerExit(g)
  BY <1>2 DEF WorkerExit
<1>3. CASE StarterStep \/ ServeFail
  <2>1. \A c \in Callers : pc'[c] = pc[c]
    BY <1>a, <1>b, <1>3
    DEF StarterStep, StartSetup, ListenOk, ListenFail, StoreReady, StoreRunning, Serve,
        ServeClosed, ServeFail, ServeFailStop, ServeFailYield, StartForceCancel, Stop,
        StopCancel, StopRequests, StopWorkers
  <2>2. UNCHANGED <<shutdownDone, shutdownErr>>
    BY <1>3
    DEF StarterStep, StartSetup, ListenOk, ListenFail, StoreReady, StoreRunning, Serve,
        ServeClosed, ServeFail, ServeFailStop, ServeFailYield, StartForceCancel, Stop,
        StopCancel, StopRequests, StopWorkers
  <2>. QED
    BY <2>1, <2>2
<1>4. CASE \E c \in Callers : ShutdownCall(c) \/ ShutdownStep(c)
  <2>. PICK c \in Callers : ShutdownCall(c) \/ ShutdownStep(c)
    BY <1>4
  <2>1. CASE Complete(c) \/ CompletePanic(c)
    BY <1>b, <2>1 DEF Complete, CompletePanic
  <2>2. CASE Stop(c)
    BY <1>b, <2>2 DEF Stop, StopCancel, StopRequests, StopWorkers
  <2>3. CASE ShutdownStopped(c) \/ ShutdownJoin(c) \/ ShutdownOwn(c) \/ ShutdownAwaited(c)
    BY <1>b, <2>3 DEF ShutdownStopped, ShutdownJoin, ShutdownOwn, ShutdownAwaited
  <2>4. CASE ShutdownNoServer(c) \/ HttpShutdown(c) \/ HttpDrained(c)
    BY <1>b, <2>4 DEF ShutdownNoServer, HttpShutdown, HttpDrained
  <2>5. CASE DrainTimeout(c) \/ ForcedDrained(c) \/ ForcedTimeout(c)
    BY <1>b, <2>5 DEF DrainTimeout, ForcedDrained, ForcedTimeout
  <2>. QED
    BY <2>1, <2>2, <2>3, <2>4, <2>5 DEF ShutdownCall, ShutdownStep
<1>5. CASE \E m \in Reloaders : ReloadCall(m) \/ ReloadStep(m)
  <2>1. \A c \in Callers : pc'[c] = pc[c]
    BY <1>a, <1>b, <1>5
    DEF ReloadCall, ReloadStep, BuildPartial, BuildRuntime, ReloadReject, ReloadSwap,
        ReloadGauge, Stop, StopCancel, StopRequests, StopWorkers
  <2>2. UNCHANGED <<shutdownDone, shutdownErr>>
    BY <1>5
    DEF ReloadCall, ReloadStep, BuildPartial, BuildRuntime, ReloadReject, ReloadSwap,
        ReloadGauge, Stop, StopCancel, StopRequests, StopWorkers
  <2>. QED
    BY <2>1, <2>2
<1>6. CASE UNCHANGED vars
  BY <1>6 DEF vars
<1>. QED
  BY <1>1, <1>2, <1>3, <1>4, <1>5, <1>6 DEF Next

LEMMA CompleteNext ==
    ASSUME FullInv, CompleteInv, [Next]_vars
    PROVE  CompleteInv'
<1>1. TypeOK /\ ServerInv /\ OwnerInv
  BY DEF FullInv, RuntimeInv
<1>2. ASSUME NEW c \in Callers, pc[c] = "complete"
      PROVE  AllStopped'
  <2>1. IsOwner(c)
    BY <1>2 DEF IsOwner, OwnerStates
  <2>. QED
    BY <1>1, <1>2, <2>1, StoppedStable DEF CompleteInv, ServerInv
<1>3. ASSUME NEW c \in Callers, StopWorkers(c)
      PROVE  AllStopped'
  <2>1. pc[c] = "waitWorkers" /\ retired' = retired \cup {rt[c]} /\ UNCHANGED active
    BY <1>3 DEF StopWorkers, Goto, serverVars
  <2>2. rt[c] = active /\ Quiet
    BY <1>1, <2>1 DEF OwnerInv, IsOwner, OwnerStates, StopStates
  <2>. QED
    BY <1>1, <2>1, <2>2, QuietStable DEF AllStopped
<1>4. ASSUME shutdownDone, ~shutdownErr
      PROVE  AllStopped'
  BY <1>1, <1>4, StoppedStable DEF CompleteInv, ServerInv
<1>5. ASSUME NEW c \in Callers, pc[c] = "failed"
      PROVE  ~shutdownDone
  BY <1>1, <1>5 DEF ServerInv, IsOwner, OwnerStates
<1>. QED
  BY <1>1, <1>2, <1>3, <1>4, <1>5, HowCompleted DEF CompleteInv

\* When Shutdown has returned nil, every connection is closed, no runtime has
\* a request, and the active runtime is retired with its last worker gone:
\* also after a drain that had to be forced and with reloads under way.
THEOREM ShutdownIsClean ==
    ASSUME ~EarlyShutdown, ~ServeMayFail
    PROVE  Spec => []ShutdownLeavesNothing
<1>1. Init => CompleteInv
  BY GoroutineAssumption DEF Init, CompleteInv, Goroutines
<1>2. FullInv /\ CompleteInv /\ [Next]_vars => CompleteInv'
  BY CompleteNext
<1>3. FullInv /\ OwnershipInv /\ CompleteInv => ShutdownLeavesNothing
  <2>. SUFFICES ASSUME FullInv, OwnershipInv, AllStopped
                PROVE  /\ \A c \in Clients : conn[c] = "closed"
                       /\ \A g \in Runtimes : requestWG[g] = 0
                       /\ active \in retired /\ workerWG[active] = 0
    BY DEF CompleteInv, ShutdownLeavesNothing
  <2>1. \A c \in Clients : conn[c] = "closed"
    BY DEF AllStopped, Quiet, Drained
  <2>2. \A g \in Runtimes : Holders(g) = {}
    BY <2>1 DEF Holders
  <2>3. \A g \in Runtimes : requestWG[g] = 0
    BY <2>2, FS_EmptySet DEF FullInv, RequestsCounted
  <2>4. active \in retired /\ workerWG[active] = 0
    BY DEF AllStopped, OwnershipInv, WaitInv
  <2>. QED
    BY <2>1, <2>3, <2>4
<1>. QED
  BY <1>1, <1>2, <1>3, FullInvariant, OwnershipInvariant, PTL DEF Spec
=============================================================================
