# A TLA+ model of Torus

Torus is an HTTP reverse proxy written in Go (`cmd/`, `internal/`), with an earlier
prototype in TypeScript (`node/`). This directory holds TLA+ modules translated from
the source, the TLC configurations that check them on small instances, and theorems
about them proved with TLAPS. `PROJECT.json` maps every definition that models code to
its lines, and lists the runs, the hazards and the theorems.

The part of Torus that is hard to get right is the *runtime lifecycle*: a running server
replaces its whole configuration (router, services, backends, health probers, TLS)
without dropping requests, while it may at the same time be shutting down. It is
modelled first and in most detail. Around it stand the probers, the request handler, the
configuration watcher and the process; beside the program, the benchmark tooling
(`docs/benchmarking/`), whose Python analysis turns measured runs into published numbers.

## 1. Inventory

| Component | State | Operations | Talks to |
|---|---|---|---|
| Server (`proxy/server.go`) | `state`, `ready`, `runtime` pointer, `runtimeMu`, `shutdownDone`/`Err`, `srv`, base context | `Start`, `Shutdown`, `Reload`, `httpHandler`, `/readyz` | `http.Server`, Runtime, router, metrics |
| Runtime (`runtime/runtime.go`) | `requestWG`, `workerWG`, `cancel`, generation | `AcquireRequest`/`ReleaseRequest`, `AddWorker`/`DoneWorker`, `Stop` | probers, Server |
| Builder (`runtime/builder.go`) | global `nextGeneration` | `BuildRuntime` | config, upstream, health |
| Reload manager (`reload/manager.go`) | path, server | `BuildInitialRuntime`, `Reload` | builder, Server |
| Load balancer (`loadbalancer/round_robin.go`) | atomic `index` | `Next` | backends |
| Backend (`upstream/backend.go`) | atomic `healthy`, gauge | `SetHealthy`, `IsHealthy`, proxying | prober, balancer |
| Router (`routing/router.go`) | map of routes | `AddRoute`, `Route` | handler |
| Prober (`health/checker.go`) | ticker, context | `StartProber`, probe, restart after a panic | Runtime, Backend |
| Config watcher (`configwatcher/watcher.go`) | debounce timer, context | `Start` | fsnotify, manager |
| Configuration (`config/config.go`) | none | `LoadConfig`, `Validate` | builder |
| Entry point (`cmd/torus/main.go`) | root and signal contexts | `main` | all of the above |
| Observability (`observability/`) | gauges and counters | setters, `Handler` | all of the above |
| Node prototype (`node/src`) | cluster workers, pools, Redis buckets | master/worker protocol, pool choice, limiter | own processes |
| Benchmark scripts (`docs/benchmarking/scripts`) | the dataset directory of a benchmark id, monitor processes | `benchmark.sh`, `collect.sh`, `monitor.sh`, `analyze.sh` | wrk, vegeta, analysis |
| Benchmark analysis (`docs/benchmarking/analysis`) | `parsed.json`, `summary.json`, `plots/`, `report-auto.md` | parse, summarise, draw, report | dataset |
| Installer (`deployments/systemd`) | files of the host | `install.sh` | systemd |

What makes these parts correct:

* **Server and Runtime** - a request uses one generation from start to end and keeps it
  alive; the pointer swap is atomic with respect to acquisition; a replaced or refused
  generation is stopped by exactly one goroutine and is eventually retired; shutdown has
  one owner, one result, a bounded duration, and is a boundary that no reload crosses;
  readiness falls when it begins.
* **Load balancer** - a call of `Next` ends, and returns nil only if no backend stayed
  healthy during the call.
* **Router** - the longest route that covers the path, whatever order the map is visited.
* **Prober** - at most one worker per backend at a time, registered without a gap, gone
  after cancellation; the gauge returns to what the active generation sees.
* **Watcher** - the last change of the file is eventually loaded, or rejected and counted
  once; nothing is loaded after cancellation.
* **Configuration** - what `Validate` accepts, `BuildRuntime` builds completely.
* **Entry point** - the exit code says whether the server failed.
* **Benchmark tooling** - what a successful analysis publishes is what was measured, by the
  execution it names, whatever an earlier or interrupted script left in the directory; the
  statistics are those of the samples.
* **Node prototype** - the master's shutdown reaches every worker; `getNext` finds a healthy server;
  the bucket never grants more than its capacity plus its refill.

What is hard: handlers, reloads, probers, `Start` and `Shutdown` are all goroutines that
share the runtime pointer, the state word and two WaitGroups; some stores take the lock
and some do not; `Serve` may fail and the drain may time out at any moment; builds can
fail part of the way. The benchmark scripts share a directory that nobody cleans and can
stop at any write. The `hazards` list of `PROJECT.json` places each of these at its line.

## 2. Modules

| Module | Models |
|---|---|
| `Lifecycle` | Server, Runtime, Manager.Reload, the outcomes of BuildRuntime, and what they need of `net/http` |
| `Generations` | the abstract promise: generations that are built, active, draining, retired |
| `Workers` | what a runtime may assume of its background workers; Lifecycle relies on it, Prober implements it |
| `Prober` | `health.StartProber`, BuildRuntime backend by backend, `Runtime.Stop`, the shared gauge |
| `RoundRobin` | `RoundRobin.Next` with concurrent callers and health flips |
| `Routing` | `Router.Route` over a map visited in any order |
| `Handler` | the composition of Routing and RoundRobin in `httpHandler`: 404, 503 or a backend |
| `Torus` | `main`, the goroutine of `Start`, `Watcher.Start`, `Manager.Reload` and the configuration file |
| `Pipeline` | one benchmark dataset and the scripts that measure, analyse and report it |
| `Statistics` | the arithmetic of the analysis |
| `MCLifecycle`, `MCProber`, `MCRoundRobin`, `MCRouting`, `MCHandler`, `MCPipeline` | symmetry sets and constants for TLC |
| `LifecycleProofs` | inductive invariants and the theorems about Lifecycle; it implements Generations |
| `LifecycleOwnership` | who holds a runtime, what a shutdown leaves; Lifecycle uses Workers |
| `ProberProofs` | the theorems about Prober; Prober implements Workers |
| `FoldLemmas` | induction over data; what `FlattenSeq`, sums, `Min` and `Max` give |
| `HandlerProofs` | what the bytes of a path look like; the theorems about Routing, RoundRobin and Handler |
| `TorusProofs` | the theorems about Torus |
| `PipelineProofs` | the theorems about Pipeline |
| `StatisticsProofs` | the theorems about Statistics |

Definitions whose comment begins with "Fault:" are deliberately wrong versions of an
operation. Nothing uses them; each stands next to the operation it can replace, and shows
that a property notices such a mistake (`mutants` in `PROJECT.json`).

### Lifecycle

Goroutines are `Starter` (runs `Server.Start`), `Callers` (each calls `Server.Shutdown`
once) and `Reloaders` (each calls `Manager.Reload`, again and again); `pc` is where each
one is, `rt` its local runtime pointer. A client is one keep-alive connection with the
goroutine `net/http` runs for it: *closed*, *open* (accepted, request not yet handled),
*loaded* (inside the read-locked section), *acquired* (handler running), *idle*.

| Code | Model |
|---|---|
| `state`, `ready`, `runtime`, `shutdownDone`, `shutdownErr` | `state`, `ready`, `active`, `shutdownDone` (closed), `shutdownErr` (not nil) |
| `runtimeMu.RLock` ... `RUnlock` in `httpHandler` | between `HandlerLoad` and `AcquireRequest`: `conn[c] = "loaded"` |
| a section under `runtimeMu.Lock` | one action with the guard `LockFree` |
| a store without the lock (`Start`) | an action of its own (`StoreReady`, `StoreRunning`) |
| `Runtime.Stop`, by whoever calls it | `StopCancel`, `StopRequests`, `StopWorkers` on `rt[g]` |
| `requestWG`, `workerWG` | counters per generation |
| `SetRuntimeGeneration` | `gauge`, set by `ReloadGauge` after the lock is released |
| the unsynchronised read of `s.srv` in `Shutdown` | an owner that saw STARTING may read nil or the server (`ShutdownNoServer`, `HttpShutdown`) |
| `close(s.shutdownDone)` of a closed channel | `CompletePanic`: the process ends |
| `BuildRuntime` | `BuildRuntime`, or `BuildPartial`: it fails after k probers were started. A configuration or certificate that does not load leaves no trace and is no action |

`net/http` is external and modelled as the code uses it: `Shutdown` closes the listener
and the idle connections at once, then waits until no connection is left or its context
expires; `Serve` returns `ErrServerClosed` once `Shutdown` has begun, and refuses to start
after it; a connection whose handler returns during a shutdown is closed. A handler always
counts as a connection, because the status recorder does not unwrap and so nothing can be
hijacked.

Two constants describe the environment, and both describe things that can happen:

* `EarlyShutdown`: `Shutdown` may overlap the start-up part of `Start`. `main.go` starts
  `Start` in a goroutine and does not wait for it, so a signal in the first moments does
  this. With it TRUE the request counts still balance, every runtime has one owner, the
  state goes back only by the store of RUNNING in `Start`, and `Shutdown` and `Reload` still
  end (run `live`); readiness does not hold (run `early_ready`), nor do most other promises.
  `Server.Shutdown` itself has no such guard (`MayShutdown`): the constant restricts when
  somebody calls it (`MayCall`, in `Next`).
* `ServeMayFail`: `Serve` may return an unexpected error. With it TRUE ownership and the
  shutdown boundary hold (proved, section 4); that a request keeps its runtime alive does
  not (run `serve_fail_held`).

`MaxGen` bounds the generations and `Probers` is the number of workers of a complete
runtime; nothing else is bounded.

Timeouts are actions that may happen at any time (`DrainTimeout`, `ForcedTimeout`), so
every race with a late answer is covered. Cancelling the base context obliges nobody to
return: an upstream may ignore it.

### Generations

The same story with no server: `phase` of each generation and the generation each client
`holder`s. `Lifecycle!Abstract` is the refinement mapping. The active generation stops
being active when the pointer is swapped (`Install`) or when its `Stop` begins (`Close`).

### Workers and Prober

`Workers` is the interface between the two halves of a runtime: workers are started before
the context is cancelled, leave only after that, and `Stop` returns when the last has left.
Both sides are checked against it: Lifecycle (`ImplementsWorkers`, run `server`) starts and
waits for workers that way and treats them as a number; Prober (run `prober`) shows that
goroutines that tick, probe, panic and restart are such workers.

A worker `<<g, b, i>>` is the i-th incarnation of the prober of backend b of generation g.
Its places follow the code: in `select`, in `Check`, between the two stores of
`SetHealthy`, in the two-second back-off, about to restart, and restarted but not yet
unregistered (`replaced`: the deferred `DoneWorker` runs after the recovery, so the new
worker is counted before the old one leaves). Cancellation can come between any two of
them. `BuildBackend` starts one prober at a time and `BuildFails` leaves those already
started cancelled but not waited for. `Stop` may be called on any generation that is built:
a replaced one, the active one, or one the server refused. `up` is the gauge `torus_backend_up`, keyed by URL
and so shared by the generations; `healthy` is the flag, which each generation has for
itself.

### RoundRobin, Routing, Handler

`Add` and the load of the health flag are separate atomic operations, so they are separate
steps. `steady` is a history variable: the backends that have been healthy since the call
began. `IndexSize` is the wrap of the counter, 2^64 in the code; the instances use
multiples of `N`, because reaching a wrap takes 2^64 calls. (For a number of backends that
does not divide 2^64 one scan across the wrap would visit some backend twice.)

Keys and paths are byte sequences made of segments, of which one is a prefix of the other
("a", "ab"). `Matches` compares bytes as the code does; `Covers` compares segments. The
loop visits the keys in any order. `http.ServeMux` cleans paths before the handler sees
them, so no segment is empty.

`Handler` puts them in sequence under one request while probers flip the health flags.
`bound` is the set of routes that have a service, any subset of the table: `Validate`
compares trimmed names and `BuildRuntime` looks up the names as written, so any route of a
valid configuration may have none, and its requests are answered with 404.

### Torus

Three goroutines (`main`, `starter`, `watcher`), the server's state word and the file. The
file is written in place, half of it seen first, or replaced by a rename; each change queues
an event if the directory is watched. Any ready case of `select` may be taken, so an event,
the timer and the cancelled context race as they do in the code. `Manager.Reload` runs in
the watcher's goroutine: `Build` reads the file as it is *then*, `Install` succeeds while
RUNNING, `Retire` ends when the old runtime has drained. An owner of the shutdown that saw
STARTING (`ownEarly`) may find no `http.Server`; it then only stops the runtime, and stays in
that `Stop` (`stop`) until the requests that `Start` goes on accepting are done. `due` is the version the watcher
owes the server: the last one that loads, completely written while the watch was on and the
server was running. A change before the watch, or while the server is STARTING, is not
owed, and the code does not load it until the next edit.

### Pipeline

The state is the directory of one benchmark id (`metadata`, `raw`, `parsed`, `plots`,
`summary`, `report`), which every script shares and none cleans, and the script that is
running. Measured numbers are reduced to their origin: a sample is the pair of the run and
the execution that measured it. Every step may fail, and every write can be interrupted
with the file cut short: a tool before, during or after it wrote its output (`ToolFails`), and
the drawing after any number of figures (`InterruptDraw`, in the order of `DrawOrder`; the
system figures of one tool, all drawn from the same files, are taken together). What a program reads and writes is modelled by its *keys*
(`ParseWrk`, `SummarizeWrk`, `WrkTables`, `SummaryFields`, `ReportFields`, ...), because a
key one program asks for and another does not write is an exception; so is a JSON file cut
short. A plot is its file and the key it is drawn from. `VmstatColumns` is the number of
columns vmstat prints, 17 or (since procps-ng 4.0.4) 18.

### Statistics

`metrics.py`, the unit conversions of `parser.py`, the padded and aggregated series of
`system_plots.py` and the merged histogram of `vegeta_plots.py`, as operators on sequences
with exact fractions in place of floats (the standard deviation is kept squared). A
histogram line that the parser cannot read has the bucket "" and may stand for a request
(`Skipped`). `Sorted`
is what `sorted()` returns, stated as an order statistic: the i-th place holds the least
sample that i samples do not exceed. The lines of the histogram files are identified by
their run and their place (`Entries`), so that two equal lines stay two. `ReadRun` reads the
runs one by one, so TLC evaluates the properties on every bounded input.

## 3. Runs

| Run | Instance | Distinct states | Shows |
|---|---|---|---|
| `server` | 2 clients, 2 callers, 1 reloader, 4 generations | 225 thousand | who owns the shutdown and every runtime, requests keep their runtime alive, what a successful shutdown leaves, one result for all callers; Generations and Workers are implemented |
| `live` | 1 client, 2 callers, 1 reloader, 2 generations, early shutdown, Serve may fail | 155 thousand | in every environment counts balance, runtimes have one owner and the state goes back only by `Start`'s store; `Shutdown` returns to everyone; replaced and refused runtimes are retired |
| `handler` | up to 2 routes of depth 2, 3 backends, health flips | 442 thousand | the longest route, 404 and 503 only for their reasons, an answer for every request |
| `prober` | 2 generations with 1 and 2 backends, one flaky, one panic | 35 thousand | a restart neither doubles a prober nor outlives `Stop`; workers leave; probing goes on; the gauge catches up |
| `torus` | 4 versions of the file, 2 pending events | 382 thousand | the last change is loaded and a signal or a failure ends the process, each up to a `Stop` without deadline; exit code 1 means a failure |
| `pipeline` | 2 executions of 3 scenarios, 2 iterations, 3 analyses | 5.7 million | a success tells what is on disk; the plots it lists are its own; an abort has a cause; analyses are reproducible |
| `statistics` | 5 figures, 3 series or histograms of length 2, samples 0 to 3 | 92 thousand | statistics, units, padding and histograms agree with their reference definitions |
| `early_ready`, `serve_fail_held`, `rr_shared`, `routing_root`, `stale_dataset` | small | - | disagreements, see below |

Why these bounds. Three generations are one active, one being replaced and one being built,
the most the server can confuse, and a fourth is a second reload; two callers are an owner
and one who joins; two clients let one handler hold the old runtime while another acquires
the new one; one worker is enough to make `Stop` wait. The proofs below remove the bounds
for the properties that matter most. Two generations of probers are all that write a gauge
at one time, since a reload retires the old one first; one panic is one restart, and the
restarted prober is like the first. In Torus four versions are a write seen half done and a
second change during the reload of the first. Two executions are the old and the new data;
three analyses are one that publishes, one that is interrupted and one after it. Two routes
are a match and a longer one; three backends make a scan pass an unhealthy one on both
sides; the counter wraps after 6. Five samples reach both parities of the median and
interpolation between every pair of ranks.

Deadlock checking is off where the system may stop: after `Shutdown` or the end of the
process, when a request is answered, when no script is started and the bound on analyses is
used up, and when all inputs are read.

**Fairness.** `LiveSpec` gives every goroutine of the server strong fairness, because its
steps need `runtimeMu` for writing and a `sync.RWMutex` holds back new readers once a
writer waits, so a writer always gets in. Handlers inside the read-locked section and
probers with a cancelled context are only weakly fair: nothing can disable them. Nothing is
assumed of clients or upstreams, so `ShutdownReturns` rests on the two deadlines alone. It excepts a `Shutdown` that
overlapped `Start`, found no `http.Server` and so waits, with no deadline, for requests that
`Start` goes on accepting, and the callers that wait for that one.
`ReplacedRuntimeRetired` therefore starts from a runtime no request holds: a reload waits
for the old requests without a deadline, and the server's `WriteTimeout` does not end a
handler that waits for a stalled upstream.

`HandlerSpec`: the handler's goroutine runs (weak), nothing is assumed of probers.
`ProberLiveSpec`: each prober runs (weak: the ticker ticks, a probe has a deadline), and a
prober that is offered the cancelled context again and again takes it (strong: Go's
`select` chooses uniformly among ready cases). Panics, failures of upstreams, builds and
stops are not fair. `TorusSpec`: goroutines run (weak), the expired timer is taken in the
end though events keep coming (strong, `select` again). A `Runtime.Stop` that waits for
requests has no deadline in the code, so `StopReturns` (the reload's at `server.go:392`, the one
of a failed `Start`, and the one of a `Shutdown` that found no `http.Server`) is not fair, and
the properties say what then remains: `ChangeIsLoaded` holds if the watcher is not for ever
in the `Stop` of the runtime it replaced, and `ProcessEnds` if main is not for ever in that
of line 309. Signals, edits and failures are not fair. Pipeline and Statistics have no liveness properties.

### Disagreements between code and documentation

* `early_ready` - `Start` stores `ready` and RUNNING without the lock and without looking at
  the state, so a `Shutdown` on an early signal is overwritten, and the server says it is ready
  while it shuts down; "Readiness becomes false when shutdown begins, before the drain
  completes." (`docs/engineering/architecture/runtime-lifecycle.md:959`).
* `serve_fail_held` - after an unexpected `Serve` error, connections that are still open
  can acquire the runtime that `Start` has stopped; "A request that acquires Runtime N
  keeps Runtime N alive until the request completes" (`docs/engineering/architecture/runtime-lifecycle.md:952`).
* `rr_shared` - two concurrent scans share the counter, and one of them can miss a healthy
  backend on every try; "If all backends are unhealthy, it returns nil"
  (`docs/engineering/ARCHITECTURE.md:108`).
* `routing_root` - the key `/` matches the path `/` only, "A route at `/` can be used as a
  catch-all" (`docs/configuration/routing.md:108`).
* `stale_dataset` - the dataset directory is named after the benchmark's id and reused, and
  the analysis takes every run it finds, so a second execution with fewer iterations or
  another tool publishes old runs under its own metadata; "Every benchmark execution creates
  a new dataset." (`docs/benchmarking/datasets.md:101`).

Notes: behaviour met while modelling, outside the promises checked above.

* The run `server`, and the theorems of section 4 that say so, exclude the window of
  `early_ready` (`EarlyShutdown = FALSE`): what an early `Shutdown` leaves is a server that
  serves with a stopped runtime, and a second caller may own a second shutdown. `live`
  includes it.
* `Reload` sets the generation gauge after it has released the lock, so two concurrent
  reloads, which `server_test.go:730` makes, can leave it at the older generation. The watcher
  is the only caller in the program, and calls from one goroutine; the gauge is not read
  back, and no property is about it.
* The header of vmstat starts with a blank, which `startswith("r ")` of `parser.py:162`
  misses. With 17 columns it is taken for a row and `int("r")` aborts the analysis of an
  intact dataset: with `VmstatColumns = 17`, `AbortHasCause` fails on the first analysis. With
  18 columns no row is ever accepted and all vmstat plots are missing. vmstat is listed under
  "Supported inputs include:" (`docs/benchmarking/benchmark-automation.md:237`).
* When `Start` fails its goroutine cancels the root context before it exits with 1; main may
  wake up, find the server STOPPED and exit with 0 first. `GracefulExitIsZero` claims only
  the other direction.
* A failed reload is counted by the manager and again by the watcher.
* After cancellation a failing probe still marks the backend of the draining runtime
  unhealthy: a request that holds that runtime and has not chosen its backend yet can get
  503. No property is about the flags of a cancelled runtime; `GaugeCatchesUp` is about what
  such a probe leaves in the shared gauge, and `AnswerJustified` says of that 503 that the
  backends were marked unhealthy, not why.
* Two services with the same upstream URL share one gauge (Prober has one backend per URL).
* `primary_metrics` of the report looks for a directory `plots/wrk` and for names with
  underscores; no plot is stored that way, so none is embedded there. If one were found,
  `md.bold`, which does not exist, would raise.
* A histogram or a system plot of an earlier analysis stays listed when an interrupted
  execution has emptied the files it was drawn from: the exception in `PlotsCurrent`.
* A tool that fails leaves its monitors running, and the next run empties the file with
  their process ids.

## 4. Proofs

Every theorem holds for all values of the constants that the `ASSUME` of its module and the
hypotheses named here allow; no bound of a run is left in it. Fairness plays no part in
any of them.

### Lifecycle

For every set of clients (finite), callers and reloaders, and every `MaxGen` and `Probers`:

| Theorem | Environment | Argument |
|---|---|---|
| `TypeCorrect`, `RequestsAreCounted` | any | proved together: a release keeps `requestWG` a natural number only because the releasing handler is counted |
| `StateMovesForward` | any | only the store of RUNNING in `Start` looks at nothing |
| `ShutdownHasOneOwner`, `ShutdownIsABoundary` | no early shutdown | `ServerInv` |
| `RequestKeepsRuntimeAlive`, `NoLateAcquire` | no early shutdown, Serve does not fail | `FullInv` |
| `ServerImplementsGenerations` | no early shutdown, Serve does not fail | `RefInv` |
| `RuntimesAreOwned`, `ServerUsesWorkers` | any | `OwnershipInv` |
| `ShutdownResultsAgree` | no early shutdown | `ResultInv` on top of `ServerInv` |
| `ShutdownIsClean` | no early shutdown, Serve does not fail | `CompleteInv` on top of `FullInv` |

The assumptions on the environment describe what the code does not exclude: `early_ready`
shows what happens without "no early shutdown", `serve_fail_held` without "Serve does not
fail". The constants' own assumptions (`ClientsAssumption` and the others in
`Lifecycle`) say that clients are finite, the three kinds of goroutines are disjoint and
the bounds are natural numbers.

`ServerInv` says when a caller can own the shutdown: never while `Start` is in its
start-up states, only in state SHUTTING_DOWN, at most one of them, and none after
`shutdownDone`; and `ready` implies RUNNING or the moment before it. It is what makes the
safety properties inductive, since none of them mentions where `Start` is.

`FullInv` adds `RuntimeInv`, in four parts.

* `ServeInv`: what `net/http` can be doing given where `Start` is.
* `OwnerInv`: an owner works on the active runtime (no reload crosses the boundary), and
  once it is inside `Stop` the server is `Quiet`.
* `ReloaderInv`: a built runtime is not active, not cancelled, has no request and no other
  reloader has it.
* `StopInv`: handlers in the read-locked section have loaded the *active* runtime, and the
  active runtime is cancelled only when the server is `Quiet`.

`Quiet` - no connection, no listener, none to come - is the heart of it. A reload may
cancel a runtime because the swap has already hidden it from handlers; a shutdown cancels
the runtime handlers would still load, so it is safe only because no handler can run any
more. `QuietStable` proves that this stays so, and `CountsFall` then gives that the count of a cancelled
runtime never grows and a count that reached zero stays zero.

`RefInv` adds that a cancelled active runtime means SHUTTING_DOWN or STOPPED, so that a
swap always replaces a generation that is active in the abstract sense. There is one
lemma for each abstract action, and `FrameStep` for the steps that change nothing abstract.

`OwnershipInv` makes "owned until cancelled" inductive: a generation in use is one that was
built (`RangeInv`); the runtimes that reloaders hold differ from each other and from the active one (`HandsInv`);
and who waits in `Stop` has cancelled first, and a retired runtime has no worker (`WaitInv`). It needs nothing of the shutdown protocol,
which is why it holds in every environment.
`CompleteInv` carries `Quiet` and the retirement of the active runtime from the last `Wait`
of `Stop` to the return of `Shutdown`.

### Prober

For every number of generations, backends per generation and incarnations, and every set of
failing backends: `ProberTypeCorrect`, `WorkersAreCounted`, `RestartIsSafe`
and `ProbersImplementWorkers`. The invariant `ProberInv` adds to them:

* `ChainInv`: the incarnations of a prober follow one another; once one exists, those before
  it have handed over. This is what excludes two probers on one backend.
* `BornInv`: a worker belongs to a backend that is built, and one that recovers has a
  successor.
* `Attended`: every backend built in a runtime that is not cancelled has a worker that runs
  or is about to be restarted. The refinement needs it: the number of backends attended to
  then falls only after the cancellation.
* `WorkersCounted`: `workerWG` is the number of workers alive. The finite-set facts behind it
  (one worker more or less) are lemmas of their own.

Together with `ServerUsesWorkers` this closes the argument about `Stop`: Lifecycle treats the
workers as a number that obeys `Workers`, and the probers do obey it.

### Routing, RoundRobin, Handler

`RoutingTypeCorrect` and, when no route ends in a slash, `RouteIsLongest`. Three parts:

* *The text of a path.* `Text` is a fold over the segments. `TextShape` says where every
  segment starts, that a slash stands before it, that it has no slash inside and that these
  are all the bytes. It is an induction on the number of segments. An induction theorem that
  takes a predicate cannot be instantiated by the provers here, so the principle is used as
  `InductionUpTo` of `FoldLemmas`, on a *set* of numbers, which rests on a least counterexample.
* *Bytes decide about segments.* `CoverMatches` and `MatchCovers`: for a route without a last
  slash, `HasPrefix` with the boundary test is the same as being a prefix segment by segment.
  One direction is layout; in the other the first place where the segments differ would put a
  slash of one text inside a segment of the other. `LongerText`: of two routes over a path
  the one with more segments is the longer string.
* *The loop.* `RouteInv` says of the routes visited what the result says of all.

The hypothesis is needed: run `routing_root`.

`RoundRobinTypeCorrect` holds for any number of concurrent callers. `NilIsHonest` assumes
`OneCaller` (run `rr_shared` shows one caller hiding a healthy backend from another) and
`RingFits`, that the number of backends divides the size of the counter: in the code, where
that is 2^64, a power of two, or any number as long as the counter does not wrap during the
scan. `ScanInv` says which backends have been seen unhealthy: the last `tries` of them, counted
back around the ring from where the counter points. `RingStep` is the arithmetic: one `Add`
moves one place on, also across the wrap.

`Handler` adds `RequestInv`: a scan runs only for a request that is routed and has a service,
and an answer stands on a scan that has ended. Every step of the handler is a step of
Routing, of RoundRobin or of neither (`HandlerSplits`), so their invariants carry over.
`HandlerTypeCorrect` needs no hypothesis, `HandlerRoutesLongest` that no route ends in a
slash, `AnswersAreJustified` all three.

### Torus

For every bound: `TorusTypeCorrect`, `NoChangeIsLost`, `ExitCodeIsEarned`, and `NoRollback`,
an action property that only the proof states. `DueInv` is the core: a version that is due is
what the file holds, and as long as the server runs it is loaded or *on its way*: announced by
an event in the queue, behind the debounce timer, or being built. `VersionInv` orders what is
loaded, built and in the file; `FailureInv` says that whatever leads to exit code 1 began
with a failure.

### Pipeline

For every set of scenarios, iterations, executions and analyses: `PipelineTypeCorrect`,
`ReportIsTrue`, `PlotsAreCurrent`, `AnalysisIsReproducible`, and, when vmstat prints 18
columns, `AbortsHaveCauses` (it is false with 17: section 3, notes). The idea of
`PipelineInv` is `Expected`: what an analysis of `raw/` *as it is now* would say. The parts
follow the scripts: `MeasuredInv` (benchmark.sh has measured every iteration it has passed),
`FreshInv` (a `parsed.json` this analysis has written agrees with its run directory),
`SummaryInv` (the draft, then `summary.json`, then the report, are `Expected`), `PlotOrigin`
and `DrawnInv` (a plot of wrk's or vegeta's figures exists only where a run has what it shows,
none is drawn from vmstat, and every plot that is due, the histogram and the system plots
included, is drawn anew), and `UntouchedInv` (while raw data is untouched, what was published is
`Expected`, also with an analysis half way).

### Statistics

For every number of runs, length of a series and size of a sample: `StatisticsTypeCorrect`,
`FiguresAreConsistent`, `BandIsWithinDistribution`, `HistogramIsComplete`, and
`SortedKeepsSamples`, which says that `Sorted` is a rearrangement of its input in order. The
type invariant is inductive and the properties follow from it: they are facts about the
operators, whose difficulty is in sums and extremes over sets of any size. `FoldLemmas` gives
those:

* `RemovalInduction`, induction over the subsets of a finite set, from `InductionUpTo` on
  their cardinality. Sums are defined by a recursive function on all subsets and a choice of
  the next element; `SumExists` and `SumsAgree` show that this function exists and that its
  value does not depend on the set it was defined for, and `SumAny` that any element may be
  taken first. The rest follows from `SumAny`: `SumUnion`, `SumBounds`, `SumQuadratic`,
  `SumOfClasses`.
* `FiniteExtremes`: `Min` and `Max` of a finite set of integers are in it and bound it.

*Figures.* `PercentileForm` splits the rank into whole places and hundredths; two
percentiles are then compared within one interval (`InterpolateMonotone`) or across two
(`InterpolateBounds`). For the deviation, n times its numerator is the sum of the squares of
n x - total (`NumeratorIsSquares`), so it is zero only if all samples are equal; and the sum
of (x - lo)(hi - x) is not negative, which bounds it by the range (`NumeratorBound`).

*Bands.* `IsBand` is what padding leaves: every padded sample is a sample, and every sample
stands at its own tick. The mean is then between the extremes of its tick, and the extremes
of all ticks are those of the samples.

*Histograms.* The buckets share out the entries (`SumOfClasses`); the entries hold the
requests of the concatenated files, by induction over the lines of a file and over the files
(`RequestsOfRow`, `RequestsOfEntries`). The lemmas hold for files of any length; the bucket
names and the two counts a line can have are those of the model.

### Model-checked only

* Liveness (`ShutdownReturns`, `ReplacedRuntimeRetired`, `RequestAnswered`, `WorkersLeave`,
  `KeepsProbing`, `GaugeCatchesUp`, `ChangeIsLoaded`, `ProcessEnds`): fairness and ENABLED are
  beyond the prover.
* What a violation run refutes.

## 5. What is not modelled

* The content of requests and responses; header rewriting, TLS, logging, forwarding. None of
  it feeds back into the lifecycle.
* Configuration checks that look at one field at a time. Of `Validate` only what it lets
  through and `BuildRuntime` does not bind is modelled (`bound`).
* Write-only metrics: the reload and request counters and the histograms.
* The secondary recovery of the prober: nothing in the recovery can panic.
* Errors fsnotify reports while it runs, which are only logged.
* The wording and layout of the report and of the plots; floating-point rounding; monitors
  left behind by a failed run.
* The Node prototype, which the Go program replaced. Its hazards are listed.
* Middleware, metric registration and exposition, the mock backend: output only. The
  installer: planned.

## 6. Plan

Done: the modules of section 2 and the proofs of section 4. Next, in order:

1. Routing for tables with the root route, once the code matches it: `TextShape` already
   covers texts with a last slash.
2. `NodePool` and `NodeCluster`, if the prototype is kept.
3. The installer's back-up and rollback steps, as a state machine with a failure at any step.
