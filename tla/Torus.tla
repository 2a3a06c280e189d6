------------------------------- MODULE Torus -------------------------------
(***************************************************************************)
(* The process: cmd/torus/main.go, the configuration watcher and the file  *)
(* it watches, around Server and Manager (Lifecycle has their detail).     *)
(*                                                                         *)
(* The goroutines are main, the one that runs Server.Start and the one     *)
(* that runs Watcher.Start, which calls Manager.Reload itself and so sees  *)
(* no event while it does.  A configuration is the number of its version   *)
(* and whether it loads: LoadConfig and BuildRuntime succeed on it.        *)
(***************************************************************************)
EXTENDS Naturals, Sequences

CONSTANTS MaxVersion,   \* bound on the versions of the file
          MaxEvents     \* bound on the events that wait to be received

ASSUME TorusAssumption == MaxVersion \in Nat \ {0} /\ MaxEvents \in Nat \ {0}

VARIABLES main, starter, watcher,   \* where the three goroutines are
          exit,                     \* how the process ended
          server,                   \* Server.state
          rootDone, signalled,      \* rootCtx is cancelled; a signal came
          file, editing,            \* torus.yaml; a write is in progress
          queue, timer,             \* watcher.Events; the debounce timer
          built, loaded,            \* version Reload has built; the active one
          due, failed               \* history: the last version the watcher
                                    \* must load; Start or Shutdown failed

mainVars  == <<main, signalled>>
startVars == <<starter, server>>
watchVars == <<watcher, timer, built, loaded>>
fileVars  == <<file, editing, due>>
torusVars == <<mainVars, startVars, watchVars, fileVars, exit, rootDone, queue,
               failed>>

Versions == 1 .. MaxVersion
Ops      == {"write", "create", "chmod"}

\* The types of the process and the bound on pending events.
TorusTypeOK ==
    /\ main \in {"boot", "wait", "woken", "call", "own", "ownEarly", "stop", "stopped",
               "drain", "exit0", "exit1"}
    /\ starter \in {"starting", "running", "stopping", "failed", "exiting", "returned"}
    /\ watcher \in {"new", "select", "load", "install", "retire", "stopped"}
    /\ exit \in {"none", "zero", "one", "killed"}
    /\ server \in {"starting", "running", "shuttingDown", "stopped"}
    /\ rootDone \in BOOLEAN /\ signalled \in BOOLEAN
    /\ file \in [version: Versions, loads: BOOLEAN] /\ editing \in BOOLEAN
    /\ queue \in Seq(Ops) /\ Len(queue) <= MaxEvents
    /\ timer \in {"off", "armed", "fired"}
    /\ built \in Versions /\ loaded \in Versions
    /\ due \in 0 .. MaxVersion /\ failed \in BOOLEAN

\* BuildInitialRuntime has succeeded; the goroutines are being started.
TorusInit ==
    /\ main = "boot" /\ starter = "starting" /\ watcher = "new"
    /\ exit = "none" /\ server = "starting"
    /\ rootDone = FALSE /\ signalled = FALSE
    /\ file = [version |-> 1, loads |-> TRUE] /\ editing = FALSE
    /\ queue = <<>> /\ timer = "off"
    /\ built = 1 /\ loaded = 1
    /\ due = 0 /\ failed = FALSE

-----------------------------------------------------------------------------
(***************************************************************************)
(* The file.  It is written in place, which is seen half done, or replaced *)
(* by a rename; other changes (chmod, other files) raise events as well.   *)
(***************************************************************************)
Watched == watcher \notin {"new", "stopped"}

Notify(op) ==
    /\ Len(queue) < MaxEvents
    /\ queue' = IF Watched THEN Append(queue, op) ELSE queue

\* The file holds a new version, which the watcher owes to the server.
Holds(loads) ==
    /\ file.version < MaxVersion
    /\ file' = [version |-> file.version + 1, loads |-> loads]
    /\ due' = IF loads /\ ~editing' /\ Watched /\ server = "running"
              THEN file.version + 1 ELSE 0

WriteBegins ==
    /\ ~editing /\ editing' = TRUE
    /\ \E loads \in BOOLEAN : Holds(loads)
    /\ Notify("write")
    /\ UNCHANGED <<mainVars, startVars, watchVars, exit, rootDone, failed>>

WriteEnds ==
    /\ editing /\ editing' = FALSE
    /\ \E loads \in BOOLEAN : Holds(loads)
    /\ Notify("write")
    /\ UNCHANGED <<mainVars, startVars, watchVars, exit, rootDone, failed>>

Replace ==
    /\ ~editing /\ editing' = FALSE
    /\ \E loads \in BOOLEAN : Holds(loads)
    /\ Notify("create")
    /\ UNCHANGED <<mainVars, startVars, watchVars, exit, rootDone, failed>>

OtherChange ==
    /\ Notify("chmod")
    /\ UNCHANGED <<mainVars, startVars, watchVars, fileVars, exit, rootDone, failed>>

-----------------------------------------------------------------------------
(***************************************************************************)
(* Watcher.Start.  In select any case that is ready may be taken.          *)
(***************************************************************************)
\* watcher.Add(dir), or an error from fsnotify: the proxy runs without it.
WatcherStart ==
    /\ watcher = "new" /\ watcher' \in {"select", "stopped"}
    /\ UNCHANGED <<mainVars, startVars, timer, built, loaded, fileVars, exit,
                   rootDone, queue, failed>>

\* Fault: only Write events arm the timer.
TakeWrite ==
    /\ watcher = "select" /\ queue # <<>>
    /\ queue' = Tail(queue)
    /\ timer' = IF Head(queue) = "write" THEN "armed" ELSE timer
    /\ UNCHANGED <<mainVars, startVars, watcher, built, loaded, fileVars, exit,
                   rootDone, failed>>

\* An event that matters replaces the timer and its channel.
TakeEvent ==
    /\ watcher = "select" /\ queue # <<>>
    /\ queue' = Tail(queue)
    /\ timer' = IF Head(queue) \in {"write", "create"} THEN "armed" ELSE timer
    /\ UNCHANGED <<mainVars, startVars, watcher, built, loaded, fileVars, exit,
                   rootDone, failed>>

\* 250 ms have passed since the last event.
TimerFires ==
    /\ timer = "armed" /\ timer' = "fired"
    /\ UNCHANGED <<mainVars, startVars, watcher, built, loaded, fileVars, exit,
                   rootDone, queue, failed>>

\* debounceC = nil, then Manager.Reload.
TakeTimer ==
    /\ watcher = "select" /\ timer = "fired"
    /\ watcher' = "load" /\ timer' = "off"
    /\ UNCHANGED <<mainVars, startVars, built, loaded, fileVars, exit, rootDone,
                   queue, failed>>

SeeDone ==
    /\ watcher = "select" /\ rootDone /\ watcher' = "stopped"
    /\ UNCHANGED <<mainVars, startVars, timer, built, loaded, fileVars, exit,
                   rootDone, queue, failed>>

\* Fault: the error of buildRuntime is not looked at.
BuildUnchecked ==
    /\ watcher = "load" /\ watcher' = "install"
    /\ built' = IF file.loads THEN file.version ELSE 0
    /\ UNCHANGED <<mainVars, startVars, timer, loaded, fileVars, exit, rootDone,
                   queue, failed>>

\* buildRuntime reads the file as it is now.
Build ==
    /\ watcher = "load"
    /\ \/ file.loads /\ watcher' = "install" /\ built' = file.version
       \/ ~file.loads /\ watcher' = "select" /\ built' = built
    /\ UNCHANGED <<mainVars, startVars, timer, loaded, fileVars, exit, rootDone,
                   queue, failed>>

\* Server.Reload: swapped while RUNNING, otherwise refused for good.
Install ==
    /\ watcher = "install" /\ watcher' = "retire"
    /\ loaded' = IF server = "running" THEN built ELSE loaded
    /\ UNCHANGED <<mainVars, startVars, timer, built, fileVars, exit, rootDone,
                   queue, failed>>

\* Fault: what happened during the reload is discarded after it.
RetireAndDrain ==
    /\ watcher = "retire" /\ watcher' = "select" /\ queue' = <<>>
    /\ UNCHANGED <<mainVars, startVars, timer, built, loaded, fileVars, exit,
                   rootDone, failed>>

\* Stop of the replaced or refused runtime returns.  It waits for the last
\* request that holds the runtime, without a deadline.
Retire ==
    /\ watcher = "retire" /\ watcher' = "select"
    /\ UNCHANGED <<mainVars, startVars, timer, built, loaded, fileVars, exit,
                   rootDone, queue, failed>>

-----------------------------------------------------------------------------
(***************************************************************************)
(* The goroutine of Server.Start.                                          *)
(***************************************************************************)
\* The store of RUNNING takes no lock and overwrites whatever is there.
Listen ==
    /\ starter = "starting" /\ starter' = "running" /\ server' = "running"
    /\ UNCHANGED <<mainVars, watchVars, fileVars, exit, rootDone, queue, failed>>

\* http.Server.Shutdown has begun: Serve returns ErrServerClosed.
Closing == main \in {"drain", "exit0", "exit1"}

\* net.Listen fails, or Serve while the state is RUNNING: STOPPED first, then
\* the runtime is stopped.
StartFails ==
    /\ starter = "starting" \/ (starter = "running" /\ server = "running" /\ ~Closing)
    /\ starter' = "stopping" /\ server' = "stopped" /\ failed' = TRUE
    /\ UNCHANGED <<mainVars, watchVars, fileVars, exit, rootDone, queue>>

\* Serve fails while Shutdown owns the state.
ServeFails ==
    /\ starter = "running" /\ server = "shuttingDown" /\ main = "own"
    /\ starter' = "failed" /\ failed' = TRUE
    /\ UNCHANGED <<mainVars, server, watchVars, fileVars, exit, rootDone, queue>>

\* Fault: http.ErrServerClosed counts as an error.
ServeClosedIsError ==
    /\ starter = "running" /\ Closing
    /\ starter' = "failed"
    /\ UNCHANGED <<mainVars, server, watchVars, fileVars, exit, rootDone, queue, failed>>

\* Serve returns ErrServerClosed: Start returns nil.
ServeClosed ==
    /\ starter = "running" /\ Closing
    /\ starter' = "returned"
    /\ UNCHANGED <<mainVars, server, watchVars, fileVars, exit, rootDone, queue, failed>>

\* Stop of the runtime returns, again without a deadline.
StartReturns ==
    /\ starter = "stopping" /\ starter' = "failed"
    /\ UNCHANGED <<mainVars, server, watchVars, fileVars, exit, rootDone, queue, failed>>

\* Fault: the error is logged and that is all.
FailureLogged ==
    /\ starter = "failed" /\ starter' = "returned"
    /\ UNCHANGED <<mainVars, server, watchVars, fileVars, exit, rootDone, queue, failed>>

\* cancel(), which wakes main, and then os.Exit(1).
FailureCancels ==
    /\ starter = "failed" /\ starter' = "exiting" /\ rootDone' = TRUE
    /\ UNCHANGED <<mainVars, server, watchVars, fileVars, exit, queue, failed>>

FailureExits ==
    /\ starter = "exiting" /\ exit' = "one"
    /\ UNCHANGED <<mainVars, startVars, watchVars, fileVars, rootDone, queue, failed>>

-----------------------------------------------------------------------------
(***************************************************************************)
(* main.                                                                   *)
(***************************************************************************)
NotifyContext ==
    /\ main = "boot" /\ main' = "wait"
    /\ UNCHANGED <<signalled, startVars, watchVars, fileVars, exit, rootDone,
                   queue, failed>>

\* SIGINT or SIGTERM; before NotifyContext it kills the process.
Signal ==
    /\ signalled' = TRUE
    /\ exit' = IF main = "boot" THEN "killed" ELSE exit
    /\ UNCHANGED <<main, startVars, watchVars, fileVars, rootDone, queue, failed>>

Wake ==
    /\ main = "wait" /\ (signalled \/ rootDone) /\ main' = "woken"
    /\ UNCHANGED <<signalled, startVars, watchVars, fileVars, exit, rootDone,
                   queue, failed>>

CancelRoot ==
    /\ main = "woken" /\ main' = "call" /\ rootDone' = TRUE
    /\ UNCHANGED <<signalled, startVars, watchVars, fileVars, exit, queue, failed>>

\* Server.Shutdown: nothing to do for a server that has stopped.
CallShutdown ==
    /\ main = "call"
    /\ \/ server = "stopped" /\ main' = "exit0" /\ server' = server
       \/ /\ server # "stopped" /\ server' = "shuttingDown"
          /\ main' = IF server = "starting" THEN "ownEarly" ELSE "own"
    /\ UNCHANGED <<signalled, starter, watchVars, fileVars, exit, rootDone, queue,
                   failed>>

HttpShutdown ==
    /\ main \in {"own", "ownEarly"} /\ main' = "drain"
    /\ UNCHANGED <<signalled, startVars, watchVars, fileVars, exit, rootDone,
                   queue, failed>>

\* s.srv is still nil for an owner that saw STARTING: only the runtime is
\* stopped.  Start goes on and serves, and Stop waits without a deadline for
\* the requests it accepts.
ShutdownNoServer ==
    /\ main = "ownEarly" /\ main' = "stop"
    /\ UNCHANGED <<signalled, startVars, watchVars, fileVars, exit, rootDone,
                   queue, failed>>

RuntimeStopped ==
    /\ main = "stop" /\ main' = "stopped" /\ server' = "stopped"
    /\ UNCHANGED <<signalled, starter, watchVars, fileVars, exit, rootDone, queue,
                   failed>>

\* Drained and retired, possibly by force.
ShutdownOk ==
    /\ main = "drain" /\ main' = "exit0" /\ server' = "stopped"
    /\ UNCHANGED <<signalled, starter, watchVars, fileVars, exit, rootDone, queue,
                   failed>>

ShutdownFails ==
    /\ main = "drain" /\ main' = "exit1" /\ failed' = TRUE
    /\ UNCHANGED <<signalled, startVars, watchVars, fileVars, exit, rootDone, queue>>

MainExits ==
    /\ main \in {"stopped", "exit0", "exit1"}
    /\ exit' = IF main = "exit1" THEN "one" ELSE "zero"
    /\ UNCHANGED <<mainVars, startVars, watchVars, fileVars, rootDone, queue, failed>>

-----------------------------------------------------------------------------
FileStep    == WriteBegins \/ WriteEnds \/ Replace \/ OtherChange
WatcherStep == TakeEvent \/ TimerFires \/ TakeTimer \/ SeeDone \/ Build \/ Install
StarterStep == ServeClosed \/ FailureCancels \/ FailureExits
MainStep    == NotifyContext \/ Wake \/ CancelRoot \/ CallShutdown \/ HttpShutdown
                 \/ ShutdownNoServer \/ ShutdownOk \/ ShutdownFails \/ MainExits

\* A Runtime.Stop that waits for requests returns.
StopReturns == Retire \/ StartReturns \/ RuntimeStopped

\* The end of the process ends every goroutine.
Runs == exit = "none"

TorusNext ==
    /\ Runs
    /\ \/ FileStep \/ WatcherStart \/ WatcherStep \/ Signal
       \/ Listen \/ StartFails \/ ServeFails \/ StarterStep \/ MainStep \/ StopReturns

(***************************************************************************)
(* Fairness: the goroutines run their own code, and the drain of Shutdown  *)
(* has its deadlines.  A Runtime.Stop that waits for requests has none, so *)
(* nothing is assumed of StopReturns.  select chooses at random among the  *)
(* cases that are ready, so events that do not matter cannot hold back the *)
(* timer for ever.                                                         *)
(***************************************************************************)
TorusSpec ==
    /\ TorusInit /\ [][TorusNext]_torusVars
    /\ WF_torusVars(Runs /\ WatcherStep) /\ WF_torusVars(Runs /\ TimerFires)
    /\ SF_torusVars(Runs /\ TakeTimer)
    /\ WF_torusVars(Runs /\ StarterStep) /\ WF_torusVars(Runs /\ MainStep)

-----------------------------------------------------------------------------
(***************************************************************************)
(* Properties.                                                             *)
(***************************************************************************)
\* A watcher with nothing left to do has loaded the version it owes: no
\* sequence of half-written files, bursts of events, failed loads and
\* changes during a reload leaves a running server on an old configuration.
QuietIsCurrent ==
    (watcher = "select" /\ queue = <<>> /\ timer = "off" /\ due # 0)
        => (loaded = due \/ server # "running")

\* A change the watcher saw while the server was running is loaded, unless
\* the next change comes first, or the end of the server.  One thing alone
\* can hold it back: the Reload before it, which stays for ever in the Stop
\* of the runtime it replaced.
ChangeIsLoaded ==
    []<>(watcher # "retire") =>
        \A v \in Versions :
            (due = v) ~> (loaded = v \/ due # v \/ server # "running" \/ rootDone \/ ~Runs)

\* A server that fails ends the process, and so does a signal, whatever the
\* clients, the watcher and Start are doing.  The one exception is a signal
\* that came before Start had made its http.Server: main may stay in the
\* Stop of a runtime that Start goes on to serve.
ProcessEnds ==
    /\ (starter = "failed") ~> (exit # "none")
    /\ []<>(main # "stop") => (signalled ~> (exit # "none"))

\* Exit code 1 means that Start or Shutdown failed: a graceful shutdown is
\* never reported as a failure, whichever goroutine exits first.
GracefulExitIsZero == exit = "one" => failed
=============================================================================
