---------------------------- MODULE TorusProofs ----------------------------
(***************************************************************************)
(* Theorems about Torus, for every bound on the versions of the file and   *)
(* on the events that wait.  Fairness plays no part in them.               *)
(***************************************************************************)
EXTENDS Torus, SequenceTheorems, TLAPS

(***************************************************************************)
(* The inductive invariants.                                               *)
(***************************************************************************)
\* An error is on its way to exit code 1 only after a failure.
FailureInv ==
    /\ starter \in {"stopping", "failed", "exiting"} => failed
    /\ main = "exit1" => failed
    /\ exit = "one" => failed

\* What is loaded was built, and what is built was read from the file.
VersionInv == loaded <= built /\ built <= file.version

\* An event that arms the timer waits in watcher.Events.
Announced == \E i \in 1 .. Len(queue) : queue[i] \in {"write", "create"}

\* The reload that brings in the version that is due has begun or will begin.
OnItsWay ==
    \/ Announced
    \/ timer # "off"
    \/ watcher = "load"
    \/ watcher = "install" /\ built = due
    \/ watcher = "stopped"

\* A version is due while a watched server runs, it is what the file holds,
\* and it is loaded or on its way.
DueInv ==
    /\ starter = "starting" => server # "running"
    /\ due # 0 => starter # "starting" /\ watcher # "new"
    /\ due # 0 => file.version = due /\ file.loads
    /\ due # 0 /\ server = "running" => loaded = due \/ OnItsWay

TorusInv == TorusTypeOK /\ FailureInv /\ VersionInv /\ DueInv

-----------------------------------------------------------------------------
(***************************************************************************)
(* Type correctness.                                                       *)
(***************************************************************************)
LEMMA TorusTypeInit == TorusInit => TorusTypeOK
<1>. SUFFICES ASSUME TorusInit PROVE TorusTypeOK
  OBVIOUS
<1>1. 1 \in Versions /\ 0 \in 0 .. MaxVersion
  BY TorusAssumption DEF Versions
<1>2. <<>> \in Seq(Ops) /\ Len(<<>>) <= MaxEvents
  BY TorusAssumption
<1>. QED
  BY <1>1, <1>2 DEF TorusInit, TorusTypeOK

\* An event is queued only where there is room.
LEMMA NotifyTypes ==
    ASSUME TorusTypeOK, NEW op \in Ops, Notify(op)
    PROVE  queue' \in Seq(Ops) /\ Len(queue') <= MaxEvents
<1>1. Append(queue, op) \in Seq(Ops) /\ Len(Append(queue, op)) = Len(queue) + 1
  BY AppendProperties DEF TorusTypeOK
<1>2. Len(queue) \in Nat
  BY DEF TorusTypeOK
<1>. QED
  BY <1>1, <1>2, TorusAssumption DEF TorusTypeOK, Notify

LEMMA HoldsTypes ==
    ASSUME TorusTypeOK, NEW loads \in BOOLEAN, Holds(loads)
    PROVE  /\ file' \in [version: Versions, loads: BOOLEAN]
           /\ due' \in 0 .. MaxVersion
<1>1. file.version + 1 \in Versions /\ file.version + 1 \in 0 .. MaxVersion
  BY TorusAssumption DEF TorusTypeOK, Holds, Versions
<1>. QED
  BY <1>1, TorusAssumption DEF Holds

LEMMA TorusTypeNext ==
    ASSUME TorusTypeOK, [TorusNext]_torusVars
    PROVE  TorusTypeOK'
<1>. USE DEF mainVars, startVars, watchVars, fileVars
<1>1. CASE FileStep
  <2>1. CASE WriteBegins \/ WriteEnds \/ Replace
    <3>1. PICK op \in {"write", "create"} : Notify(op)
      BY <2>1 DEF WriteBegins, WriteEnds, Replace
    <3>2. PICK loads \in BOOLEAN : Holds(loads)
      BY <2>1 DEF WriteBegins, WriteEnds, Replace
    <3>3. queue' \in Seq(Ops) /\ Len(queue') <= MaxEvents
      BY <3>1, NotifyTypes DEF Ops
    <3>4. file' \in [version: Versions, loads: BOOLEAN] /\ due' \in 0 .. MaxVersion
      BY <3>2, HoldsTypes
    <3>5. editing' \in BOOLEAN
      BY <2>1 DEF WriteBegins, WriteEnds, Replace
    <3>. QED
      BY <2>1, <3>3, <3>4, <3>5 DEF TorusTypeOK, WriteBegins, WriteEnds, Replace
  <2>2. CASE OtherChange
    <3>1. queue' \in Seq(Ops) /\ Len(queue') <= MaxEvents
      BY <2>2, NotifyTypes DEF OtherChange, Ops
    <3>. QED
      BY <2>2, <3>1 DEF TorusTypeOK, OtherChange
  <2>. QED
    BY <1>1, <2>1, <2>2 DEF FileStep
<1>2. CASE WatcherStart \/ WatcherStep
  <2>1. CASE TakeEvent
    <3>1. Tail(queue) \in Seq(Ops) /\ Len(Tail(queue)) = Len(queue) - 1
      BY <2>1, HeadTailProperties DEF TorusTypeOK, TakeEvent
    <3>2. Len(queue) \in Nat /\ queue' = Tail(queue)
      BY <2>1 DEF TorusTypeOK, TakeEvent
    <3>3. queue' \in Seq(Ops) /\ Len(queue') <= MaxEvents
      BY <3>1, <3>2, TorusAssumption DEF TorusTypeOK
    <3>. QED
      BY <2>1, <3>3 DEF TorusTypeOK, TakeEvent
  <2>2. CASE WatcherStart \/ TimerFires \/ TakeTimer \/ SeeDone
    BY <2>2 DEF TorusTypeOK, WatcherStart, TimerFires, TakeTimer, SeeDone
  <2>3. CASE Build \/ Install
    BY <2>3 DEF TorusTypeOK, Build, Install
  <2>. QED
    BY <1>2, <2>1, <2>2, <2>3 DEF WatcherStep
<1>3. CASE Signal \/ Listen \/ StartFails \/ ServeFails \/ StarterStep
  <2>1. CASE Signal
    BY <2>1 DEF TorusTypeOK, Signal
  <2>2. CASE Listen
    BY <2>2 DEF TorusTypeOK, Listen
  <2>3. CASE StartFails
    BY <2>3 DEF TorusTypeOK, StartFails
  <2>4. CASE ServeFails
    BY <2>4 DEF TorusTypeOK, ServeFails
  <2>5. CASE ServeClosed
    BY <2>5 DEF TorusTypeOK, ServeClosed
  <2>6. CASE FailureCancels
    BY <2>6 DEF TorusTypeOK, FailureCancels
  <2>7. CASE FailureExits
    BY <2>7 DEF TorusTypeOK, FailureExits
  <2>. QED
    BY <1>3, <2>1, <2>2, <2>3, <2>4, <2>5, <2>6, <2>7 DEF StarterStep
<1>4. CASE MainStep
  <2>1. CASE NotifyContext
    BY <2>1 DEF TorusTypeOK, NotifyContext
  <2>2. CASE Wake
    BY <2>2 DEF TorusTypeOK, Wake
  <2>3. CASE CancelRoot
    BY <2>3 DEF TorusTypeOK, CancelRoot
  <2>4. CASE CallShutdown
    BY <2>4 DEF TorusTypeOK, CallShutdown
  <2>5. CASE HttpShutdown
    BY <2>5 DEF TorusTypeOK, HttpShutdown
  <2>6. CASE ShutdownNoServer
    BY <2>6 DEF TorusTypeOK, ShutdownNoServer
  <2>7. CASE ShutdownOk
    BY <2>7 DEF TorusTypeOK, ShutdownOk
  <2>8. CASE ShutdownFails
    BY <2>8 DEF TorusTypeOK, ShutdownFails
  <2>9. CASE MainExits
    BY <2>9 DEF TorusTypeOK, MainExits
  <2>. QED
    BY <1>4, <2>1, <2>2, <2>3, <2>4, <2>5, <2>6, <2>7, <2>8, <2>9 DEF MainStep
<1>5. CASE StopReturns
  BY <1>5 DEF TorusTypeOK, StopReturns, Retire, StartReturns, RuntimeStopped
<1>6. CASE UNCHANGED torusVars
  BY <1>6 DEF TorusTypeOK, torusVars
<1>. QED
  BY <1>1, <1>2, <1>3, <1>4, <1>5, <1>6 DEF TorusNext

-----------------------------------------------------------------------------
(***************************************************************************)
(* Exit codes.                                                             *)
(***************************************************************************)
LEMMA FailureNext ==
    ASSUME FailureInv, [TorusNext]_torusVars
    PROVE  FailureInv'
<1>. USE DEF mainVars, startVars, FailureInv
<1>1. CASE FileStep
  BY <1>1 DEF FileStep, WriteBegins, WriteEnds, Replace, OtherChange
<1>2. CASE WatcherStart \/ WatcherStep
  BY <1>2 DEF WatcherStart, WatcherStep, TakeEvent, TimerFires, TakeTimer, SeeDone,
     Build, Install
<1>3. CASE Signal \/ Listen \/ StartFails \/ ServeFails
  BY <1>3 DEF Signal, Listen, StartFails, ServeFails
<1>4. CASE StarterStep
  BY <1>4 DEF StarterStep, ServeClosed, FailureCancels, FailureExits
<1>5. CASE MainStep
  BY <1>5 DEF MainStep, NotifyContext, Wake, CancelRoot, CallShutdown, HttpShutdown,
     ShutdownNoServer, ShutdownOk, ShutdownFails, MainExits
<1>6. CASE StopReturns
  BY <1>6 DEF StopReturns, Retire, StartReturns, RuntimeStopped
<1>7. CASE UNCHANGED torusVars
  BY <1>7 DEF torusVars
<1>. QED
  BY <1>1, <1>2, <1>3, <1>4, <1>5, <1>6, <1>7 DEF TorusNext

-----------------------------------------------------------------------------
(***************************************************************************)
(* Versions and events.                                                    *)
(***************************************************************************)
\* What the processes other than the file's writers and the watcher do
\* leaves the file, the events and the loaded version alone.
LEMMA OthersLeaveWatcher ==
    ASSUME \/ Signal \/ Listen \/ StartFails \/ ServeFails \/ StarterStep \/ MainStep
           \/ StartReturns \/ RuntimeStopped
    PROVE  UNCHANGED <<watchVars, fileVars, queue>>
<1>1. CASE Signal \/ Listen \/ StartFails \/ ServeFails
  BY <1>1 DEF Signal, Listen, StartFails, ServeFails
<1>2. CASE StarterStep
  BY <1>2 DEF StarterStep, ServeClosed, FailureCancels, FailureExits
<1>3. CASE MainStep
  BY <1>3 DEF MainStep, NotifyContext, Wake, CancelRoot, CallShutdown, HttpShutdown,
     ShutdownNoServer, ShutdownOk, ShutdownFails, MainExits
<1>4. CASE StartReturns \/ RuntimeStopped
  BY <1>4 DEF StartReturns, RuntimeStopped
<1>. QED
  BY <1>1, <1>2, <1>3, <1>4

\* The versions of the file only grow, Build takes the one that is there and
\* Install the one that was built.
LEMMA VersionNext ==
    ASSUME TorusTypeOK, VersionInv, [TorusNext]_torusVars
    PROVE  VersionInv' /\ loaded <= loaded'
<1>. USE DEF watchVars, fileVars, VersionInv
<1>a. file.version \in Nat /\ built \in Nat /\ loaded \in Nat
  BY TorusAssumption DEF TorusTypeOK, Versions
<1>1. CASE WriteBegins \/ WriteEnds \/ Replace
  <2>1. file'.version = file.version + 1
    BY <1>1 DEF WriteBegins, WriteEnds, Replace, Holds
  <2>2. UNCHANGED <<built, loaded>>
    BY <1>1 DEF WriteBegins, WriteEnds, Replace
  <2>. QED
    BY <1>a, <2>1, <2>2
<1>2. CASE OtherChange
  BY <1>a, <1>2 DEF OtherChange
<1>3. CASE WatcherStart \/ TakeEvent \/ TimerFires \/ TakeTimer \/ SeeDone \/ Retire
  <2>1. UNCHANGED <<built, loaded, file>>
    BY <1>3 DEF WatcherStart, TakeEvent, TimerFires, TakeTimer, SeeDone, Retire
  <2>. QED
    BY <1>a, <2>1
<1>4. CASE Build
  BY <1>a, <1>4 DEF Build
<1>5. CASE Install
  BY <1>a, <1>5 DEF Install
<1>6. CASE \/ Signal \/ Listen \/ StartFails \/ ServeFails \/ StarterStep \/ MainStep
           \/ StartReturns \/ RuntimeStopped
  BY <1>a, <1>6, OthersLeaveWatcher
<1>7. CASE UNCHANGED torusVars
  BY <1>a, <1>7 DEF torusVars
<1>. QED
  BY <1>1, <1>2, <1>3, <1>4, <1>5, <1>6, <1>7
  DEF TorusNext, FileStep, WatcherStep, StopReturns

\* A new event does not displace the ones that wait.
LEMMA NotifyKeeps ==
    ASSUME TorusTypeOK, NEW op \in Ops, Notify(op),
           Announced \/ (Watched /\ op \in {"write", "create"})
    PROVE  Announced'
<1>1. /\ Len(Append(queue, op)) = Len(queue) + 1 /\ Len(queue) \in Nat
      /\ \A i \in 1 .. Len(queue) : Append(queue, op)[i] = queue[i]
      /\ Append(queue, op)[Len(queue) + 1] = op
  BY AppendProperties DEF TorusTypeOK
<1>2. CASE queue' = queue /\ Announced
  BY <1>2 DEF Announced
<1>3. CASE queue' = Append(queue, op) /\ Announced
  <2>1. PICK i \in 1 .. Len(queue) : queue[i] \in {"write", "create"}
    BY <1>3 DEF Announced
  <2>2. i \in 1 .. Len(queue') /\ queue'[i] = queue[i]
    BY <1>1, <1>3, <2>1
  <2>. QED
    BY <2>1, <2>2 DEF Announced
<1>4. CASE queue' = Append(queue, op) /\ op \in {"write", "create"}
  <2>1. Len(queue) + 1 \in 1 .. Len(queue') /\ queue'[Len(queue) + 1] = op
    BY <1>1, <1>4
  <2>. QED
    BY <1>4, <2>1 DEF Announced
<1>. QED
  BY <1>2, <1>3, <1>4 DEF Notify

\* An event that is taken arms the timer or is not the one that was awaited.
LEMMA TakeKeeps ==
    ASSUME TorusTypeOK, Announced, TakeEvent
    PROVE  Announced' \/ timer' = "armed"
<1>1. PICK i \in 1 .. Len(queue) : queue[i] \in {"write", "create"}
  BY DEF Announced
<1>2. queue \in Seq(Ops) /\ queue # <<>> /\ queue' = Tail(queue) /\ Len(queue) \in Nat
  BY DEF TorusTypeOK, TakeEvent
<1>3. CASE i = 1
  <2>1. Head(queue) = queue[1]
    BY <1>2
  <2>. QED
    BY <1>1, <1>3, <2>1 DEF TakeEvent
<1>4. CASE i # 1
  <2>1. /\ Len(Tail(queue)) = Len(queue) - 1
        /\ \A j \in 1 .. Len(Tail(queue)) : Tail(queue)[j] = queue[j + 1]
    BY <1>2, HeadTailProperties
  <2>2. i - 1 \in 1 .. Len(queue')
    BY <1>1, <1>2, <1>4, <2>1
  <2>3. queue'[i - 1] = queue[i]
    BY <1>1, <1>2, <2>1, <2>2
  <2>. QED
    BY <1>1, <2>2, <2>3 DEF Announced
<1>. QED
  BY <1>3, <1>4

-----------------------------------------------------------------------------
(***************************************************************************)
(* The version that is due.                                                *)
(***************************************************************************)
\* The server runs only after Listen, and leaves RUNNING for good.
LEMMA ServerRunsOnce ==
    ASSUME DueInv, \/ Signal \/ StartFails \/ ServeFails \/ StarterStep \/ MainStep
                   \/ StartReturns \/ RuntimeStopped
    PROVE  /\ server' = "running" => server = "running"
           /\ starter' = "starting" => starter = "starting"
<1>1. CASE Signal \/ StartFails \/ ServeFails
  BY <1>1 DEF Signal, StartFails, ServeFails, startVars
<1>2. CASE StarterStep
  BY <1>2 DEF StarterStep, ServeClosed, FailureCancels, FailureExits, startVars
<1>3. CASE MainStep
  BY <1>3 DEF MainStep, NotifyContext, Wake, CancelRoot, CallShutdown, HttpShutdown,
     ShutdownNoServer, ShutdownOk, ShutdownFails, MainExits, startVars
<1>4. CASE StartReturns \/ RuntimeStopped
  BY <1>4 DEF StartReturns, RuntimeStopped, startVars
<1>. QED
  BY <1>1, <1>2, <1>3, <1>4

\* A change of the file is announced when it becomes due.
LEMMA DueChange ==
    ASSUME TorusTypeOK, DueInv, WriteBegins \/ WriteEnds \/ Replace
    PROVE  DueInv'
<1>1. PICK op \in {"write", "create"} : Notify(op)
  BY DEF WriteBegins, WriteEnds, Replace
<1>2. PICK loads \in BOOLEAN : Holds(loads)
  BY DEF WriteBegins, WriteEnds, Replace
<1>3. UNCHANGED <<starter, server, watcher>>
  BY DEF WriteBegins, WriteEnds, Replace, startVars, watchVars
<1>4. due' # 0 => /\ due' = file'.version /\ file'.loads
                  /\ Watched /\ server = "running"
  BY <1>2 DEF Holds
<1>5. due' # 0 => Announced'
  BY <1>1, <1>4, NotifyKeeps DEF Ops
<1>. QED
  BY <1>3, <1>4, <1>5 DEF DueInv, OnItsWay, Watched

\* Once announced, it stays on its way until it is loaded.
LEMMA DueNext ==
    ASSUME TorusTypeOK, VersionInv, DueInv, [TorusNext]_torusVars
    PROVE  DueInv'
<1>. USE DEF mainVars, startVars, watchVars, fileVars
<1>1. CASE WriteBegins \/ WriteEnds \/ Replace
  BY <1>1, DueChange
<1>2. CASE OtherChange
  <2>1. UNCHANGED <<starter, server, watcher, due, file, loaded, built, timer>>
    BY <1>2 DEF OtherChange
  <2>2. Announced => Announced'
    BY <1>2, NotifyKeeps DEF OtherChange, Ops
  <2>. QED
    BY <2>1, <2>2 DEF DueInv, OnItsWay
<1>3. CASE WatcherStart
  <2>1. due = 0 /\ UNCHANGED <<starter, server, due>>
    BY <1>3 DEF WatcherStart, DueInv
  <2>. QED
    BY <2>1 DEF DueInv
<1>4. CASE TakeEvent
  <2>1. UNCHANGED <<starter, server, watcher, due, file, loaded, built>>
    BY <1>4 DEF TakeEvent
  <2>2. Announced => Announced' \/ timer' # "off"
    BY <1>4, TakeKeeps
  <2>3. timer # "off" => timer' # "off"
    BY <1>4 DEF TakeEvent
  <2>. QED
    BY <2>1, <2>2, <2>3 DEF DueInv, OnItsWay
<1>5. CASE TimerFires \/ TakeTimer \/ SeeDone
  <2>1. UNCHANGED <<starter, server, due, file, loaded, built, queue>>
    BY <1>5 DEF TimerFires, TakeTimer, SeeDone
  <2>2. Announced' = Announced
    BY <2>1 DEF Announced
  <2>. QED
    BY <1>5, <2>1, <2>2 DEF DueInv, OnItsWay, TimerFires, TakeTimer, SeeDone
<1>6. CASE Build
  <2>1. UNCHANGED <<starter, server, due, file, loaded, queue, timer>>
    BY <1>6 DEF Build
  <2>2. Announced' = Announced
    BY <2>1 DEF Announced
  <2>3. due # 0 => watcher' = "install" /\ built' = due
    BY <1>6 DEF Build, DueInv
  <2>. QED
    BY <1>6, <2>1, <2>2, <2>3 DEF DueInv, OnItsWay, Build
<1>7. CASE Install
  <2>1. UNCHANGED <<starter, server, due, file, built, queue, timer>>
    BY <1>7 DEF Install
  <2>2. Announced' = Announced
    BY <2>1 DEF Announced
  <2>3. due # 0 /\ loaded = due => built = due
    <3>1. built \in Nat /\ loaded \in Nat /\ file.version \in Nat
      BY TorusAssumption DEF TorusTypeOK, Versions
    <3>. QED
      BY <3>1 DEF DueInv, VersionInv
  <2>. QED
    BY <1>7, <2>1, <2>2, <2>3 DEF DueInv, OnItsWay, Install
<1>8. CASE Retire
  <2>1. UNCHANGED <<starter, server, due, file, built, loaded, queue, timer>>
    BY <1>8 DEF Retire
  <2>2. Announced' = Announced
    BY <2>1 DEF Announced
  <2>. QED
    BY <1>8, <2>1, <2>2 DEF DueInv, OnItsWay, Retire
<1>9. CASE Listen
  BY <1>9 DEF DueInv, Listen
<1>10. CASE \/ Signal \/ StartFails \/ ServeFails \/ StarterStep \/ MainStep
            \/ StartReturns \/ RuntimeStopped
  <2>1. UNCHANGED <<watcher, due, file, built, loaded, queue, timer>>
    BY <1>10, OthersLeaveWatcher
  <2>2. Announced' = Announced
    BY <2>1 DEF Announced
  <2>. QED
    BY <1>10, <2>1, <2>2, ServerRunsOnce DEF DueInv, OnItsWay
<1>11. CASE UNCHANGED torusVars
  <2>1. UNCHANGED <<starter, server, watcher, due, file, built, loaded, queue, timer>>
    BY <1>11 DEF torusVars
  <2>2. Announced' = Announced
    BY <2>1 DEF Announced
  <2>. QED
    BY <2>1, <2>2 DEF DueInv, OnItsWay
<1>. QED
  BY <1>1, <1>2, <1>3, <1>4, <1>5, <1>6, <1>7, <1>8, <1>9, <1>10, <1>11
  DEF TorusNext, FileStep, WatcherStep, StopReturns

-----------------------------------------------------------------------------
(***************************************************************************)
(* The theorems.                                                           *)
(***************************************************************************)
LEMMA TorusInvariant == TorusSpec => []TorusInv
<1>1. TorusInit => TorusInv
  <2>. SUFFICES ASSUME TorusInit PROVE TorusInv
    OBVIOUS
  <2>1. TorusTypeOK
    BY TorusTypeInit
  <2>. QED
    BY <2>1 DEF TorusInv, TorusInit, FailureInv, VersionInv, DueInv
<1>2. TorusInv /\ [TorusNext]_torusVars => TorusInv'
  BY TorusTypeNext, FailureNext, VersionNext, DueNext DEF TorusInv
<1>. QED
  BY <1>1, <1>2, PTL DEF TorusSpec

\* The goroutines of main.go are where their code can be, the file is a
\* version within the bound, and no more events wait than there is room for.
THEOREM TorusTypeCorrect == TorusSpec => []TorusTypeOK
<1>1. TorusInv => TorusTypeOK
  BY DEF TorusInv
<1>. QED
  BY <1>1, TorusInvariant, PTL

\* Whatever the order of edits, events, timer and reloads: when the watcher
\* has nothing left to do, a running server uses the last version it was
\* told of.  No change is lost to the debounce, to a reload in progress or
\* to a load that failed on a half-written file.
THEOREM NoChangeIsLost == TorusSpec => []QuietIsCurrent
<1>1. TorusInv => QuietIsCurrent
  <2>. SUFFICES ASSUME TorusInv, watcher = "select", queue = <<>>, timer = "off",
                       due # 0, server = "running"
                PROVE  loaded = due
    BY DEF QuietIsCurrent
  <2>1. ~Announced
    BY DEF Announced
  <2>. QED
    BY <2>1 DEF TorusInv, DueInv, OnItsWay
<1>. QED
  BY <1>1, TorusInvariant, PTL

\* main and the goroutine of Start race to end the process, and whichever
\* does: exit code 1 is given only when Start or Shutdown has failed.
THEOREM ExitCodeIsEarned == TorusSpec => []GracefulExitIsZero
<1>1. TorusInv => GracefulExitIsZero
  BY DEF TorusInv, FailureInv, GracefulExitIsZero
<1>. QED
  BY <1>1, TorusInvariant, PTL

\* A reload never takes the server back to an older version of the file,
\* although Build and Install are steps apart and the file may change, be
\* half written or fail to load between them.
LoadedMovesForward == [][loaded <= loaded']_torusVars

THEOREM NoRollback == TorusSpec => LoadedMovesForward
<1>1. TorusInv /\ [TorusNext]_torusVars => [loaded <= loaded']_torusVars
  BY VersionNext DEF TorusInv
<1>. QED
  BY <1>1, TorusInvariant, PTL DEF TorusSpec, LoadedMovesForward
=============================================================================
