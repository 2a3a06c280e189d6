--------------------------- MODULE PipelineProofs ---------------------------
(***************************************************************************)
(* Theorems about Pipeline, for every set of scenarios and every bound on  *)
(* iterations, executions and analyses.                                    *)
(***************************************************************************)
EXTENDS Pipeline, TLAPS

(***************************************************************************)
(* What an analysis of raw/ as it is now would say.                        *)
(***************************************************************************)
WithOutput(t) == {d \in Dirs : d[1] = t /\ raw[d].out # "none"}

RawSection(t) ==
    [shown   |-> \E d \in Dirs : d[1] = t /\ raw[d].made,
     samples |-> {<<d[2], raw[d].by>> : d \in WithOutput(t)}]

Expected ==
    [meta |-> metadata.by, plots |-> CollectPlotPaths,
     sections |-> [t \in Tools |-> RawSection(t)]]

\* The figures it would draw.
WrkPrimary    == Named(WrkBoxplots \cup WrkErrorbar)
VegetaPrimary == Named(VegetaBoxplot \cup VegetaPercentiles)

RawWrkDue ==
    IF RawSection("wrk").shown
    THEN Named(WrkErrorbar)
           \cup (IF WithOutput("wrk") # {} THEN Named(WrkBoxplots) ELSE {})
    ELSE {}

RawVegetaDue ==
    IF RawSection("vegeta").shown
    THEN Named(VegetaPercentiles)
           \cup (IF WithOutput("vegeta") # {} THEN Named(VegetaBoxplot) ELSE {})
           \cup (IF HistogramDue THEN {VegetaHistogram} ELSE {})
    ELSE {}

RawSystemDue(t) ==
    LET rows == \E d \in Dirs : d[1] = t /\ raw[d].made /\ raw[d].rows
    IN  (IF rows THEN Named(CpuPlots(t) \cup MemoryPlots(t)) ELSE {})
          \cup (IF ParseVmstat.rows
                THEN Named(SchedulerPlots(t) \cup CpuTimePlots(t) \cup DiskPlots(t))
                ELSE {})

-----------------------------------------------------------------------------
(***************************************************************************)
(* The inductive invariant.                                                *)
(***************************************************************************)
Drawing == {"drawWrk", "drawVegeta", "drawSystem", "save"}

\* A report that ends an analysis is being written, or has just been.
Reporting == phase = "report" /\ script # "report"

\* The type invariant, with the type of everything that is summarised.
TypeInv ==
    /\ script \in {"none", "benchmark", "analyze", "report"}
    /\ phase \in Phases
    /\ exit \in {"none", "ok", "killed", "exception"}
    /\ todo \subseteq Dirs
    /\ exec \in 0 .. MaxExecutions /\ round \in 0 .. MaxRounds
    /\ iterations \in 0 .. MaxIterations /\ tools \subseteq Tools
    /\ metadata \in [state: Contents, by: 0 .. MaxExecutions]
    /\ raw \in [Dirs -> RunDir] /\ parsed \in [Dirs -> Parsed]
    /\ plots \in [PlotFiles -> 0 .. MaxRounds]
    /\ touched \in BOOLEAN
    /\ draft \in Content
    /\ summary \in [state: Contents, round: 0 .. MaxRounds, content: Content]
    /\ report \in [state: Contents, content: Content]
    /\ published \in Content

\* Which script is in which phase; the counters are below their bounds
\* where they are increased.
PhaseInv ==
    /\ exit # "none" => phase = "idle"
    /\ phase \in {"collect", "measure", "load", "analyze"} =>
         script = "benchmark" /\ round < MaxRounds
    /\ script \in {"none", "report"} => phase \in {"idle", "report"}
    /\ script = "none" => phase = "idle" /\ exit = "none"
    /\ phase # "idle" => exec > 0
    /\ script = "benchmark" => iterations > 0
    /\ phase \in Drawing \cup {"parse"} => round > 0
    /\ Reporting => round > 0
    /\ phase \in Drawing \cup {"analyze"} => todo = {}

\* Files come from a run: an output from an execution, in a directory that
\* exists; a parsed.json from a directory that exists.
OriginInv ==
    /\ \A d \in Dirs :
         /\ raw[d].out # "none" => raw[d].by > 0 /\ raw[d].made
         /\ raw[d].hist \/ raw[d].rows => raw[d].made
         /\ parsed[d].state # "none" => raw[d].made
         /\ parsed[d].out # "none" => parsed[d].by > 0
    /\ phase = "parse" => \A d \in todo : raw[d].made

\* The directory that is being measured exists.
LoadInv ==
    phase = "load" => \A d \in Dirs : Next1(d, "wrk") => raw[d].made

\* benchmark.sh has measured every iteration it has passed: the run directory
\* d has the output of this execution and what the monitors wrote beside it.
Measured(d) ==
    /\ raw[d].out # "none" /\ raw[d].by = exec /\ raw[d].rows
    /\ d[1] = "vegeta" => raw[d].hist

MeasuredInv ==
    script = "benchmark" /\ (phase \notin {"idle", "collect"} \/ exit = "ok") =>
        \A t \in tools, r \in 1 .. iterations :
            \/ phase \in {"measure", "load"} /\ <<t, r>> \in todo
            \/ Measured(<<t, r>>)

\* parsed.json says what is in the run directory.
Fresh(d) ==
    parsed[d] = [state |-> "full", round |-> round, out |-> raw[d].out,
                 by |-> raw[d].by, rows |-> raw[d].rows]

FreshInv ==
    /\ phase = "parse" => \A d \in Dirs : raw[d].made => d \in todo \/ Fresh(d)
    /\ phase \in Drawing => \A d \in Dirs : raw[d].made => Fresh(d)

\* The summary in memory, in summary.json and in the report.
SummaryInv ==
    /\ phase \in Drawing => /\ draft.meta = metadata.by
                            /\ draft.sections = [t \in Tools |-> RawSection(t)]
    /\ Reporting \/ Analysed =>
         summary = [state |-> "full", round |-> round, content |-> Expected]
    /\ Analysed => report = [state |-> "full", content |-> Expected]

\* A figure exists only where a run has what it shows; vmstat has no rows ...
VmstatNames ==
    {"cpu-idle-timeseries", "run-queue-timeseries", "context-switch-timeseries",
     "interrupts-timeseries", "cpu-user-timeseries", "cpu-system-timeseries",
     "cpu-wait-timeseries", "disk-read-timeseries", "disk-write-timeseries"}

PlotOrigin ==
    /\ \A f \in WrkPrimary \cap CollectPlotPaths : f \in RawWrkDue
    /\ \A f \in VegetaPrimary \cap CollectPlotPaths : f \in RawVegetaDue
    /\ \A f \in CollectPlotPaths : f[2] \notin VmstatNames

\* ... and those that are due are drawn, one script after the other.
Current(files) == \A f \in files : plots[f] \in {0, round}
Drawn(files)   == \A f \in files : plots[f] = round

DrawnInv ==
    /\ phase \in {"drawVegeta", "drawSystem", "save"} \/ Reporting \/ Analysed =>
         RawWrkDue \subseteq CollectPlotPaths /\ Current(WrkPrimary)
    /\ phase \in {"drawSystem", "save"} \/ Reporting \/ Analysed =>
         /\ RawVegetaDue \subseteq CollectPlotPaths /\ Current(VegetaPrimary)
         /\ Drawn(RawVegetaDue)
    /\ phase = "save" \/ Reporting \/ Analysed =>
         \A t \in Tools : /\ RawSystemDue(t) \subseteq CollectPlotPaths
                         /\ Drawn(RawSystemDue(t))

\* While raw data is untouched, analysing it again gives what was published.
UntouchedInv ==
    ~touched =>
        /\ phase \notin {"measure", "load", "analyze"}
        /\ published = Expected
        /\ RawWrkDue \subseteq CollectPlotPaths
        /\ RawVegetaDue \subseteq CollectPlotPaths
        /\ \A t \in Tools : RawSystemDue(t) \subseteq CollectPlotPaths

PipelineInv ==
    /\ TypeInv /\ PhaseInv /\ OriginInv /\ LoadInv /\ MeasuredInv /\ FreshInv
    /\ SummaryInv /\ PlotOrigin /\ DrawnInv /\ UntouchedInv

-----------------------------------------------------------------------------
(***************************************************************************)
(* Facts about what the programs read and write.                           *)
(***************************************************************************)
\* Every figure has a name of one of three groups.
LEMMA FigureNames ==
    /\ \A f \in WrkPrimary :
         f[2] \in {"wrk-throughput-boxplot", "wrk-latency-boxplot",
                   "wrk-transfer-boxplot", "wrk-throughput-errorbar"}
    /\ \A f \in VegetaPrimary : f[2] \in {"latency-boxplot", "latency-percentiles"}
    /\ VegetaHistogram[2] = "latency-histogram"
    /\ \A t \in Tools : \A f \in Named(SystemPlots(t)) :
         f[2] \in {"cpu-timeseries", "cpu-distribution", "memory-timeseries",
                   "memory-distribution", "cpu-idle-timeseries",
                   "run-queue-timeseries", "context-switch-timeseries",
                   "interrupts-timeseries", "cpu-user-timeseries",
                   "cpu-system-timeseries", "cpu-wait-timeseries",
                   "disk-read-timeseries", "disk-write-timeseries"}
<1>1. \A f \in WrkPrimary :
         f[2] \in {"wrk-throughput-boxplot", "wrk-latency-boxplot",
                   "wrk-transfer-boxplot", "wrk-throughput-errorbar"}
  BY DEF WrkPrimary, Named, WrkBoxplots, WrkErrorbar, Plot
<1>2. \A f \in VegetaPrimary : f[2] \in {"latency-boxplot", "latency-percentiles"}
  BY DEF VegetaPrimary, Named, VegetaBoxplot, VegetaPercentiles, Plot
<1>3. VegetaHistogram[2] = "latency-histogram"
  BY DEF VegetaHistogram
<1>4. ASSUME NEW t \in Tools, NEW f \in Named(SystemPlots(t))
      PROVE  f[2] \in {"cpu-timeseries", "cpu-distribution", "memory-timeseries",
                   "memory-distribution", "cpu-idle-timeseries",
                   "run-queue-timeseries", "context-switch-timeseries",
                   "interrupts-timeseries", "cpu-user-timeseries",
                   "cpu-system-timeseries", "cpu-wait-timeseries",
                   "disk-read-timeseries", "disk-write-timeseries"}
  BY DEF Named, SystemPlots, CpuPlots, MemoryPlots, SchedulerPlots,
         CpuTimePlots, DiskPlots, Plot
<1>. QED
  BY <1>1, <1>2, <1>3, <1>4

\* The figures of vmstat, and the others.
LEMMA VmstatFigures ==
    /\ \A t \in Tools : \A f \in Named(SystemPlots(t)) :
         f[2] \notin VmstatNames => f \in Named(CpuPlots(t) \cup MemoryPlots(t))
    /\ \A f \in WrkPrimary \cup VegetaPrimary \cup {VegetaHistogram} :
         f[2] \notin VmstatNames
    /\ \A t \in Tools : \A f \in RawSystemDue(t) : f[2] \notin VmstatNames
<1>1. ASSUME NEW t \in Tools, NEW f \in Named(SystemPlots(t)), f[2] \notin VmstatNames
      PROVE  f \in Named(CpuPlots(t) \cup MemoryPlots(t))
  <2>1. PICK p \in SystemPlots(t) : f = p.file
    BY DEF Named
  <2>2. p \notin SchedulerPlots(t) \cup CpuTimePlots(t) \cup DiskPlots(t)
    BY <1>1, <2>1 DEF SchedulerPlots, CpuTimePlots, DiskPlots, Plot, VmstatNames
  <2>. QED
    BY <2>1, <2>2 DEF SystemPlots, Named
<1>2. ASSUME NEW f \in WrkPrimary \cup VegetaPrimary \cup {VegetaHistogram}
      PROVE  f[2] \notin VmstatNames
  BY FigureNames DEF VmstatNames
<1>3. ASSUME NEW t \in Tools, NEW f \in RawSystemDue(t) PROVE f[2] \notin VmstatNames
  <2>1. f \in Named(CpuPlots(t) \cup MemoryPlots(t))
    BY DEF RawSystemDue, ParseVmstat
  <2>. QED
    BY <2>1 DEF Named, CpuPlots, MemoryPlots, Plot, VmstatNames
<1>. QED
  BY <1>1, <1>2, <1>3

\* The figures of wrk, of vegeta and of the monitors do not overlap.
LEMMA FiguresApart ==
    /\ WrkPrimary \cap (VegetaPrimary \cup {VegetaHistogram}) = {}
    /\ \A t \in Tools : (WrkPrimary \cup VegetaPrimary) \cap Named(SystemPlots(t)) = {}
    /\ VegetaHistogram \notin VegetaPrimary
  BY FigureNames

LEMMA FiguresDue ==
    /\ RawWrkDue \subseteq WrkPrimary
    /\ RawVegetaDue \subseteq VegetaPrimary \cup {VegetaHistogram}
    /\ \A t \in Tools : RawSystemDue(t) \subseteq Named(SystemPlots(t))
<1>1. RawWrkDue \subseteq WrkPrimary
  BY DEF RawWrkDue, WrkPrimary, Named
<1>2. RawVegetaDue \subseteq VegetaPrimary \cup {VegetaHistogram}
  BY DEF RawVegetaDue, VegetaPrimary, Named
<1>3. ASSUME NEW t \in Tools PROVE RawSystemDue(t) \subseteq Named(SystemPlots(t))
  BY DEF RawSystemDue, Named, SystemPlots
<1>. QED
  BY <1>1, <1>2, <1>3

LEMMA FiguresExist ==
    /\ WrkPrimary \subseteq PlotFiles
    /\ VegetaPrimary \cup {VegetaHistogram} \subseteq PlotFiles
    /\ \A t \in Tools : Named(SystemPlots(t)) \subseteq PlotFiles
<1>1. Named(WrkBoxplots \cup WrkErrorbar \cup VegetaBoxplot \cup VegetaPercentiles)
        = WrkPrimary \cup VegetaPrimary
  BY DEF WrkPrimary, VegetaPrimary, Named
<1>. QED
  BY <1>1 DEF PlotFiles

\* None of them is a file that primary_metrics looks for.
LEMMA NothingEmbedded == PlotFiles \cap PrimaryMetrics = {}
<1>1. Named(WrkBoxplots \cup WrkErrorbar \cup VegetaBoxplot \cup VegetaPercentiles)
        = WrkPrimary \cup VegetaPrimary
  BY DEF WrkPrimary, VegetaPrimary, Named
<1>2. ASSUME NEW f \in PrimaryMetrics
      PROVE  f[2] \in {"throughput_boxplot", "throughput_errorbar",
                       "latency_boxplot", "transfer_boxplot",
                       "latency_histogram", "latency_percentiles"}
  BY DEF PrimaryMetrics
<1>. QED
  BY <1>1, <1>2, FigureNames DEF PlotFiles

\* Every key that is asked for is one that is written.
LEMMA KeysExist ==
    /\ Keys(WrkBoxplots \cup WrkErrorbar) \subseteq SummarizeWrk
    /\ Keys(VegetaBoxplot \cup VegetaPercentiles) \subseteq SummarizeVegeta
    /\ UNION {Keys(SystemPlots(t)) : t \in Tools}
         \subseteq ParsePidstat \cup ParseVmstat.columns
    /\ SummarizeWrk \subseteq ParseWrk("full")
    /\ SummarizeVegeta \subseteq ParseVegeta
<1>1. Keys(WrkBoxplots \cup WrkErrorbar) \subseteq SummarizeWrk
  BY DEF Keys, WrkBoxplots, WrkErrorbar, SummarizeWrk, Plot
<1>2. Keys(VegetaBoxplot \cup VegetaPercentiles) \subseteq SummarizeVegeta
  BY DEF Keys, VegetaBoxplot, VegetaPercentiles, SummarizeVegeta, Plot
<1>3. ASSUME NEW t \in Tools
      PROVE  Keys(SystemPlots(t)) \subseteq ParsePidstat \cup ParseVmstat.columns
  BY DEF Keys, SystemPlots, CpuPlots, MemoryPlots, SchedulerPlots, CpuTimePlots,
         DiskPlots, Plot, ParsePidstat, ParseVmstat
<1>4. SummarizeWrk \subseteq ParseWrk("full") /\ SummarizeVegeta \subseteq ParseVegeta
  BY DEF SummarizeWrk, ParseWrk, SummarizeVegeta, ParseVegeta
<1>. QED
  BY <1>1, <1>2, <1>3, <1>4

\* The report asks for nothing that metrics.py does not write.
LEMMA ReportKeysExist ==
    /\ ReportFields \subseteq SummaryFields
    /\ StatisticsTable \subseteq Summarize
    /\ WrkTables \subseteq SummarizeWrk
    /\ VegetaTables \subseteq SummarizeVegeta
<1>1. ReportFields \subseteq SummaryFields
  BY DEF ReportFields, BenchmarkInformation, Objective, ExperimentalVariables,
         SystemConfiguration, BenchmarkConfiguration, Reproducibility, SummaryFields
<1>. QED
  BY <1>1 DEF StatisticsTable, Summarize, WrkTables, SummarizeWrk, VegetaTables,
              SummarizeVegeta

-----------------------------------------------------------------------------
(***************************************************************************)
(* Types.                                                                  *)
(***************************************************************************)
LEMMA DirsAreRuns ==
    /\ \A d \in Dirs : d[1] \in Tools /\ d[2] \in 1 .. MaxIterations /\ d = <<d[1], d[2]>>
    /\ \A t \in Tools, r \in 1 .. MaxIterations : <<t, r>> \in Dirs
  BY DEF Dirs

LEMMA NoContentType == NoContent \in Content
  BY PipelineBounds DEF NoContent, Content, NoSection, Section

LEMMA TypeInit == PipelineInit => TypeInv
<1>. SUFFICES ASSUME PipelineInit PROVE TypeInv
  OBVIOUS
<1>1. 0 \in 0 .. MaxExecutions /\ 0 \in 0 .. MaxRounds /\ 0 \in 0 .. MaxIterations
  BY PipelineBounds
<1>2. draft \in Content /\ summary.content \in Content /\ report.content \in Content
      /\ published \in Content
  BY NoContentType DEF PipelineInit
<1>3. raw \in [Dirs -> RunDir]
  BY <1>1 DEF PipelineInit, RunDir, Contents
<1>4. parsed \in [Dirs -> Parsed]
  BY <1>1 DEF PipelineInit, Parsed, Contents
<1>5. metadata \in [state: Contents, by: 0 .. MaxExecutions]
  BY <1>1 DEF PipelineInit, Contents
<1>6. /\ summary \in [state: Contents, round: 0 .. MaxRounds, content: Content]
      /\ report \in [state: Contents, content: Content]
  BY <1>1, <1>2 DEF PipelineInit, Contents
<1>. QED
  BY <1>1, <1>2, <1>3, <1>4, <1>5, <1>6
  DEF TypeInv, PipelineInit, Phases, Contents

LEMMA TypesAreOK == TypeInv => PipelineTypeOK
  BY DEF TypeInv, PipelineTypeOK, Content, Section

LEMMA ScenarioTypes ==
    ASSUME NEW s \in Scenarios
    PROVE  /\ s.iterations \in 0 .. MaxIterations /\ s.iterations > 0
           /\ s.tools \subseteq Tools
<1>1. s.iterations \in 1 .. MaxIterations /\ s.tools \subseteq Tools
  BY ScenarioAssumption DEF Tools
<1>. QED
  BY <1>1, PipelineBounds

LEMMA MeasureTypes ==
    ASSUME TypeInv, NEW d \in Dirs, Measure(d)
    PROVE  raw' \in [Dirs -> RunDir]
<1>. USE DEF TypeInv
<1>1. raw \in [Dirs -> RunDir] /\ raw[d] \in RunDir
  OBVIOUS
<1>2. CASE StartMonitors(d)
  BY <1>1, <1>2 DEF StartMonitors, RunDir
<1>3. CASE RunTool(d)
  <2>1. PICK out \in {"cut", "full"} :
           raw' = [raw EXCEPT ![d].out = out, ![d].by = exec,
                              ![d].hist = (d[1] = "vegeta"), ![d].rows = TRUE]
    BY <1>3 DEF RunTool
  <2>2. PICK hist \in BOOLEAN : hist = (d[1] = "vegeta")
    OBVIOUS
  <2>. QED
    BY <1>1, <2>1, <2>2 DEF RunDir, Contents
<1>4. CASE ToolFails(d)
  <2>1. PICK rows \in BOOLEAN, hist \in BOOLEAN :
         \/ raw' = [raw EXCEPT ![d].rows = rows]
         \/ raw' = [raw EXCEPT ![d].out = "cut", ![d].by = exec, ![d].rows = rows]
         \/ raw' = [raw EXCEPT ![d].out = "full", ![d].by = exec,
                               ![d].hist = hist, ![d].rows = rows]
    BY <1>4, Zenon DEF ToolFails
  <2>. QED
    BY <1>1, <2>1 DEF RunDir, Contents
<1>. QED
  BY <1>2, <1>3, <1>4 DEF Measure

LEMMA ParseTypes ==
    ASSUME TypeInv, NEW d \in Dirs, Parse(d)
    PROVE  parsed' \in [Dirs -> Parsed]
<1>. USE DEF TypeInv
<1>1. raw[d] \in RunDir /\ parsed \in [Dirs -> Parsed]
  OBVIOUS
<1>2. CASE ParseRun(d)
  BY <1>1, <1>2 DEF ParseRun, RunDir, Parsed, Contents
<1>3. CASE ParseAborts(d)
  BY <1>1, <1>3 DEF ParseAborts, fileVars
<1>. QED
  BY <1>2, <1>3 DEF Parse

LEMMA DraftTypes ==
    ASSUME TypeInv, OriginInv, BuildSummary
    PROVE  draft' \in Content
<1>. USE DEF TypeInv
<1>1. ASSUME NEW t \in Tools PROVE SectionOf(t) \in Section
  <2>1. ASSUME NEW d \in ValidRuns(t)
        PROVE  <<d[2], parsed[d].by>> \in Sample
    <3>1. d \in Dirs /\ parsed[d] \in Parsed /\ parsed[d].out # "none"
      BY <2>1 DEF ValidRuns
    <3>2. parsed[d].by \in 1 .. MaxExecutions
      BY <3>1, PipelineBounds DEF Parsed, OriginInv
    <3>. QED
      BY <3>1, <3>2, DirsAreRuns DEF Sample
  <2>2. {<<d[2], parsed[d].by>> : d \in ValidRuns(t)} \subseteq Sample
    BY <2>1
  <2>. QED
    BY <2>2 DEF SectionOf, Section
<1>2. [t \in Tools |-> SectionOf(t)] \in [Tools -> Section]
  BY <1>1
<1>3. metadata.by \in 0 .. MaxExecutions
  OBVIOUS
<1>. QED
  BY <1>2, <1>3 DEF BuildSummary, Content

\* A type that an action leaves alone is kept; the rest is listed above.
LEMMA TypeNext ==
    ASSUME TypeInv, PhaseInv, OriginInv, [PipelineNext]_vars
    PROVE  TypeInv'
<1>. USE DEF fileVars, histVars, procVars, Phases
<1>0. /\ phase \in Phases /\ todo \subseteq Dirs /\ touched \in BOOLEAN
      /\ exec \in 0 .. MaxExecutions /\ round \in 0 .. MaxRounds
      /\ MaxExecutions \in Nat /\ MaxRounds \in Nat /\ MaxIterations \in Nat
      /\ NoContent \in Content
  BY PipelineBounds, NoContentType DEF TypeInv
<1>1. CASE StartBenchmark
  <2>1. PICK s \in Scenarios : iterations' = s.iterations /\ tools' = s.tools
    BY <1>1 DEF StartBenchmark
  <2>2. exec' \in 0 .. MaxExecutions
    BY <1>0, <1>1 DEF StartBenchmark
  <2>. QED
    BY <1>1, <2>1, <2>2, ScenarioTypes DEF StartBenchmark, TypeInv
<1>2. CASE Collect
  <2>1. tools \X (1 .. iterations) \subseteq Dirs
    BY <1>0 DEF TypeInv, Dirs
  <2>2. metadata' \in [state: Contents, by: 0 .. MaxExecutions]
    BY <1>0, <1>2 DEF Collect, Contents
  <2>. QED
    BY <1>2, <2>1, <2>2 DEF Collect, TypeInv
<1>3. ASSUME NEW d \in Dirs, Measure(d) PROVE TypeInv'
  <2>1. raw' \in [Dirs -> RunDir]
    BY <1>3, MeasureTypes
  <2>2. phase' \in Phases /\ todo' \subseteq Dirs /\ draft' \in Content
        /\ exit' \in {"none", "ok", "killed", "exception"}
    BY <1>0, <1>3 DEF Measure, StartMonitors, RunTool, ToolFails, Ends, TypeInv
  <2>. QED
    BY <1>3, <2>1, <2>2 DEF Measure, StartMonitors, RunTool, ToolFails, TypeInv
<1>4. ASSUME NEW d \in Dirs, Parse(d) PROVE TypeInv'
  <2>1. parsed' \in [Dirs -> Parsed]
    BY <1>4, ParseTypes
  <2>2. phase' \in Phases /\ todo' \subseteq Dirs /\ draft' \in Content
        /\ exit' \in {"none", "ok", "killed", "exception"}
    BY <1>0, <1>4 DEF Parse, ParseRun, ParseAborts, Ends, TypeInv
  <2>. QED
    BY <1>4, <2>1, <2>2 DEF Parse, ParseRun, ParseAborts, TypeInv
<1>5. CASE AnalyzeBenchmark \/ AnalyzeByHand
  <2>1. round' \in 0 .. MaxRounds
    BY <1>0, <1>5 DEF AnalyzeBenchmark, AnalyzeByHand, BeginAnalysis, PhaseInv
  <2>. QED
    BY <1>5, <2>1 DEF AnalyzeBenchmark, AnalyzeByHand, BeginAnalysis, TypeInv
<1>6. CASE BuildSummary
  BY <1>6, DraftTypes DEF BuildSummary, TypeInv
<1>7. CASE DrawWrk \/ DrawVegeta \/ DrawSystem
  <2>1. plots' \in [PlotFiles -> 0 .. MaxRounds]
    BY <1>0, <1>7 DEF DrawWrk, DrawVegeta, DrawSystem, Draw, TypeInv
  <2>2. phase' \in Phases /\ draft' \in Content
        /\ exit' \in {"none", "ok", "killed", "exception"}
    BY <1>0, <1>7 DEF DrawWrk, DrawVegeta, DrawSystem, Proceed, TypeInv
  <2>. QED
    BY <1>7, <2>1, <2>2 DEF DrawWrk, DrawVegeta, DrawSystem, Proceed, TypeInv
<1>8. CASE SaveSummary
  <2>1. CollectPlotPaths \subseteq PlotFiles
    BY DEF CollectPlotPaths
  <2>2. [draft EXCEPT !.plots = CollectPlotPaths] \in Content
    BY <2>1 DEF TypeInv, Content
  <2>3. summary' \in [state: Contents, round: 0 .. MaxRounds, content: Content]
    BY <1>0, <1>8, <2>2 DEF SaveSummary, Contents
  <2>. QED
    BY <1>8, <2>3 DEF SaveSummary, TypeInv
<1>9. CASE ReportByHand
  BY <1>9 DEF ReportByHand, TypeInv
<1>10. CASE WriteReport
  <2>1. summary.content \in Content
    BY DEF TypeInv
  <2>2. report' \in [state: Contents, content: Content]
    BY <1>10, <2>1 DEF WriteReport, Contents
  <2>3. published' \in Content /\ touched' \in BOOLEAN
    BY <1>0, <1>10, <2>1 DEF WriteReport, TypeInv
  <2>. QED
    BY <1>0, <1>10, <2>2, <2>3 DEF WriteReport, Ends, TypeInv
<1>14. CASE InterruptDraw
  <2>1. plots' \in [PlotFiles -> 0 .. MaxRounds]
    BY <1>0, <1>14 DEF InterruptDraw, Draw, TypeInv
  <2>. QED
    BY <1>0, <1>14, <2>1 DEF InterruptDraw, Ends, TypeInv
<1>11. CASE BuildAborts \/ ReportAborts \/ Interrupt
  BY <1>0, <1>11 DEF BuildAborts, ReportAborts, Interrupt, Ends, TypeInv
<1>12. CASE InterruptWrite
  <2>1. metadata' \in [state: Contents, by: 0 .. MaxExecutions]
    BY <1>0, <1>12 DEF InterruptWrite, Contents, TypeInv
  <2>2. parsed' \in [Dirs -> Parsed]
    BY <1>0, <1>12 DEF InterruptWrite, Contents, Parsed, TypeInv
  <2>3. /\ summary' \in [state: Contents, round: 0 .. MaxRounds, content: Content]
        /\ report' \in [state: Contents, content: Content]
    BY <1>12 DEF InterruptWrite, Contents, TypeInv
  <2>4. touched' \in BOOLEAN
    BY <1>0, <1>12 DEF InterruptWrite
  <2>. QED
    BY <1>0, <1>12, <2>1, <2>2, <2>3, <2>4 DEF InterruptWrite, Ends, TypeInv
<1>13. CASE UNCHANGED vars
  BY <1>13 DEF vars, TypeInv
<1>. QED
  BY <1>1, <1>2, <1>3, <1>4, <1>5, <1>6, <1>7, <1>8, <1>9, <1>10, <1>11,
     <1>12, <1>13, <1>14
  DEF PipelineNext

-----------------------------------------------------------------------------
(***************************************************************************)
(* The scripts and their phases.                                           *)
(***************************************************************************)
LEMMA PhaseInit == PipelineInit => PhaseInv
  BY DEF PipelineInit, PhaseInv, Drawing, Reporting

LEMMA PhaseNext ==
    ASSUME TypeInv, PhaseInv, [PipelineNext]_vars
    PROVE  PhaseInv'
<1>. USE DEF fileVars, histVars, procVars, Drawing, Reporting, PhaseInv
<1>0. /\ exec \in Nat /\ round \in Nat /\ MaxRounds \in Nat /\ phase \in Phases
  BY PipelineBounds DEF TypeInv
<1>1. CASE StartBenchmark \/ Collect
  <2>1. StartBenchmark => iterations' > 0
    BY ScenarioTypes DEF StartBenchmark
  <2>. QED
    BY <1>0, <1>1, <2>1 DEF StartBenchmark, Collect
<1>2. ASSUME NEW d \in Dirs, Measure(d) PROVE PhaseInv'
  BY <1>0, <1>2 DEF Measure, StartMonitors, RunTool, ToolFails, Ends
<1>3. ASSUME NEW d \in Dirs, Parse(d) PROVE PhaseInv'
  BY <1>0, <1>3 DEF Parse, ParseRun, ParseAborts, Ends
<1>4. CASE AnalyzeBenchmark \/ AnalyzeByHand
  BY <1>0, <1>4 DEF AnalyzeBenchmark, AnalyzeByHand, BeginAnalysis
<1>5. CASE BuildSummary \/ BuildAborts
  BY <1>0, <1>5 DEF BuildSummary, BuildAborts, Ends
<1>6. CASE DrawWrk \/ DrawVegeta \/ DrawSystem
  BY <1>0, <1>6 DEF DrawWrk, DrawVegeta, DrawSystem, Proceed
<1>7. CASE SaveSummary \/ ReportByHand
  BY <1>0, <1>7 DEF SaveSummary, ReportByHand
<1>8. CASE WriteReport \/ ReportAborts
  BY <1>0, <1>8 DEF WriteReport, ReportAborts, Ends
<1>9. CASE Interrupt \/ InterruptDraw \/ InterruptWrite
  BY <1>0, <1>9 DEF Interrupt, InterruptDraw, InterruptWrite, Ends
<1>10. CASE UNCHANGED vars
  BY <1>10 DEF vars
<1>. QED
  BY <1>1, <1>2, <1>3, <1>4, <1>5, <1>6, <1>7, <1>8, <1>9, <1>10 DEF PipelineNext

-----------------------------------------------------------------------------
(***************************************************************************)
(* The run directories.                                                    *)
(***************************************************************************)
\* The loops take one directory at a time.
LEMMA OneAtATime ==
    ASSUME TypeInv, NEW lead, NEW d \in Dirs, NEW e \in Dirs,
           Next1(d, lead), Next1(e, lead)
    PROVE  d = e
<1>. SUFFICES ASSUME d # e PROVE FALSE
  OBVIOUS
<1>1. d[2] \in Nat /\ e[2] \in Nat
  BY PipelineBounds, DirsAreRuns
<1>2. /\ IF e[1] = d[1] THEN d[2] < e[2] ELSE d[1] = lead
      /\ IF d[1] = e[1] THEN e[2] < d[2] ELSE e[1] = lead
  BY DEF Next1
<1>. QED
  BY <1>1, <1>2

\* What a step of benchmark.sh does to the run directories.
LEMMA MeasureRaw ==
    ASSUME TypeInv, NEW d \in Dirs, Measure(d)
    PROVE  /\ \A e \in Dirs : e # d => raw'[e] = raw[e]
           /\ StartMonitors(d) =>
                /\ raw'[d].made
                /\ raw'[d].out = raw[d].out /\ raw'[d].by = raw[d].by
           /\ RunTool(d) =>
                /\ raw'[d].made = raw[d].made
                /\ raw'[d].out # "none" /\ raw'[d].by = exec
                /\ raw'[d].rows /\ (d[1] = "vegeta" => raw'[d].hist)
           /\ ToolFails(d) =>
                /\ raw'[d].made = raw[d].made
                /\ \/ raw'[d].out = raw[d].out /\ raw'[d].by = raw[d].by
                   \/ raw'[d].out # "none" /\ raw'[d].by = exec
<1>1. raw \in [Dirs -> RunDir] /\ raw[d] \in RunDir
  BY DEF TypeInv
<1>2. ~(StartMonitors(d) /\ RunTool(d)) /\ ~(StartMonitors(d) /\ ToolFails(d))
  BY DEF StartMonitors, RunTool, ToolFails
<1>3. ~(RunTool(d) /\ ToolFails(d))
  BY DEF RunTool, ToolFails, Ends
<1>4. CASE StartMonitors(d)
  BY <1>1, <1>2, <1>3, <1>4 DEF StartMonitors, RunDir
<1>5. CASE RunTool(d)
  <2>1. PICK out \in {"cut", "full"} :
           raw' = [raw EXCEPT ![d].out = out, ![d].by = exec,
                              ![d].hist = (d[1] = "vegeta"), ![d].rows = TRUE]
    BY <1>5 DEF RunTool
  <2>. QED
    BY <1>1, <1>2, <1>3, <1>5, <2>1 DEF RunDir
<1>6. CASE ToolFails(d)
  <2>1. PICK rows \in BOOLEAN, hist \in BOOLEAN :
         \/ raw' = [raw EXCEPT ![d].rows = rows]
         \/ raw' = [raw EXCEPT ![d].out = "cut", ![d].by = exec, ![d].rows = rows]
         \/ raw' = [raw EXCEPT ![d].out = "full", ![d].by = exec,
                               ![d].hist = hist, ![d].rows = rows]
    BY <1>6, Zenon DEF ToolFails
  <2>. QED
    BY <1>1, <1>2, <1>3, <1>6, <2>1 DEF RunDir
<1>. QED
  BY <1>4, <1>5, <1>6 DEF Measure

\* All other steps leave raw/ alone.
LEMMA RawKept ==
    ASSUME [PipelineNext]_vars, \A d \in Dirs : ~Measure(d)
    PROVE  raw' = raw
  BY DEF PipelineNext, StartBenchmark, Collect, Parse, ParseRun, ParseAborts,
         AnalyzeBenchmark, AnalyzeByHand, BeginAnalysis, BuildSummary, BuildAborts,
         DrawWrk, DrawVegeta, DrawSystem, Proceed, SaveSummary, ReportByHand,
         WriteReport, ReportAborts, Interrupt, InterruptDraw, InterruptWrite, vars, fileVars

\* Only the parsers write parsed.json.
LEMMA ParsedKept ==
    ASSUME [PipelineNext]_vars, \A d \in Dirs : ~ParseRun(d), ~InterruptWrite
    PROVE  parsed' = parsed
  BY DEF PipelineNext, StartBenchmark, Collect, Measure, StartMonitors, RunTool,
         ToolFails, Parse, ParseAborts,
         AnalyzeBenchmark, AnalyzeByHand, BeginAnalysis, BuildSummary, BuildAborts,
         DrawWrk, DrawVegeta, DrawSystem, Proceed, SaveSummary, ReportByHand,
         WriteReport, ReportAborts, Interrupt, InterruptDraw, vars, fileVars

\* A parser that is interrupted cuts the parsed.json of the run it is at.
LEMMA InterruptParsed ==
    ASSUME TypeInv, InterruptWrite
    PROVE  \/ parsed' = parsed
           \/ \E d \in todo :
                /\ \A e \in Dirs : e # d => parsed'[e] = parsed[e]
                /\ parsed'[d].state = "cut"
                /\ parsed'[d].out = parsed[d].out /\ parsed'[d].by = parsed[d].by
<1>1. CASE phase = "parse"
  <2>1. PICK d \in todo : parsed' = [parsed EXCEPT ![d].state = "cut"]
    BY <1>1 DEF InterruptWrite
  <2>2. parsed \in [Dirs -> Parsed] /\ parsed[d] \in Parsed /\ d \in Dirs
    BY DEF TypeInv
  <2>3. /\ \A e \in Dirs : e # d => parsed'[e] = parsed[e]
        /\ parsed'[d].state = "cut"
        /\ parsed'[d].out = parsed[d].out /\ parsed'[d].by = parsed[d].by
    BY <2>1, <2>2 DEF Parsed
  <2>. QED
    BY <2>3
<1>2. CASE phase # "parse"
  BY <1>2 DEF InterruptWrite
<1>. QED
  BY <1>1, <1>2

LEMMA OriginInit == PipelineInit => OriginInv
  BY DEF PipelineInit, OriginInv

LEMMA OriginNext ==
    ASSUME TypeInv, PhaseInv, OriginInv, LoadInv, [PipelineNext]_vars
    PROVE  OriginInv'
<1>. USE DEF OriginInv
<1>0. exec \in Nat
  BY PipelineBounds DEF TypeInv
<1>1. ASSUME NEW d \in Dirs, Measure(d) PROVE OriginInv'
  <2>1. parsed' = parsed /\ phase' # "parse"
    BY <1>1 DEF Measure, StartMonitors, RunTool, ToolFails, Ends
  <2>2. ~StartMonitors(d) => raw[d].made /\ exec > 0
    BY <1>1 DEF Measure, RunTool, ToolFails, LoadInv, PhaseInv
  <2>3. raw'[d].made /\ (raw'[d].out # "none" => raw'[d].by > 0)
    BY <1>1, <2>2, MeasureRaw DEF Measure
  <2>. QED
    BY <1>1, <2>1, <2>3, MeasureRaw
<1>2. ASSUME NEW d \in Dirs, ParseRun(d) PROVE OriginInv'
  <2>1. raw' = raw /\ phase' = "parse" /\ todo' = todo \ {d} /\ raw[d].made
    BY <1>2 DEF ParseRun, Next1
  <2>2. parsed'[d].out = raw[d].out /\ parsed'[d].by = raw[d].by
        /\ \A e \in Dirs : e # d => parsed'[e] = parsed[e]
    BY <1>2 DEF ParseRun, TypeInv
  <2>. QED
    BY <1>2, <2>1, <2>2 DEF ParseRun
<1>3. CASE InterruptWrite
  <2>1. raw' = raw /\ phase' = "idle"
    BY <1>3 DEF InterruptWrite, Ends
  <2>2. parsed' # parsed => phase = "parse"
    BY <1>3 DEF InterruptWrite
  <2>. QED
    BY <1>3, <2>1, <2>2, InterruptParsed DEF TypeInv
<1>4. CASE AnalyzeBenchmark \/ AnalyzeByHand
  BY <1>4 DEF AnalyzeBenchmark, AnalyzeByHand, BeginAnalysis, fileVars
<1>5. ASSUME \A d \in Dirs : ~Measure(d), \A d \in Dirs : ~ParseRun(d),
             ~InterruptWrite, ~AnalyzeBenchmark, ~AnalyzeByHand
      PROVE  OriginInv'
  <2>1. raw' = raw /\ parsed' = parsed
    BY <1>5, RawKept, ParsedKept
  <2>2. phase' = "parse" => phase = "parse" /\ todo' = todo
    BY <1>5 DEF PipelineNext, StartBenchmark, Collect, Parse, ParseAborts,
         BuildSummary, BuildAborts, DrawWrk, DrawVegeta, DrawSystem, Proceed,
         SaveSummary, ReportByHand, WriteReport, ReportAborts, Interrupt, InterruptDraw, Ends,
         vars, procVars
  <2>. QED
    BY <2>1, <2>2
<1>. QED
  BY <1>1, <1>2, <1>3, <1>4, <1>5

LEMMA LoadInit == PipelineInit => LoadInv
  BY DEF PipelineInit, LoadInv

\* Only StartMonitors begins a load, of the directory that is next.
LEMMA LoadNext ==
    ASSUME TypeInv, LoadInv, [PipelineNext]_vars
    PROVE  LoadInv'
<1>1. ASSUME NEW d \in Dirs, StartMonitors(d) PROVE LoadInv'
  <2>1. raw'[d].made /\ todo' = todo
    BY <1>1, MeasureRaw DEF StartMonitors, Measure
  <2>2. ASSUME NEW e \in Dirs, Next1(e, "wrk")' PROVE e = d
    <3>1. Next1(e, "wrk")
      BY <2>1, <2>2 DEF Next1
    <3>. QED
      BY <1>1, <3>1, OneAtATime DEF StartMonitors
  <2>. QED
    BY <2>1, <2>2 DEF LoadInv
<1>2. ASSUME \A d \in Dirs : ~StartMonitors(d) PROVE LoadInv'
  <2>1. phase' = "load" => UNCHANGED vars
    BY <1>2 DEF PipelineNext, StartBenchmark, Collect, Measure, RunTool, ToolFails,
         Parse, ParseRun, ParseAborts, AnalyzeBenchmark, AnalyzeByHand,
         BeginAnalysis, BuildSummary, BuildAborts, DrawWrk, DrawVegeta, DrawSystem,
         Proceed, SaveSummary, ReportByHand, WriteReport, ReportAborts, Interrupt, InterruptDraw,
         InterruptWrite, Ends
  <2>. QED
    BY <2>1 DEF LoadInv, Next1, vars, procVars, fileVars
<1>. QED
  BY <1>1, <1>2

-----------------------------------------------------------------------------
(***************************************************************************)
(* What benchmark.sh has measured.                                         *)
(***************************************************************************)
LEMMA MeasuredInit == PipelineInit => MeasuredInv
  BY DEF PipelineInit, MeasuredInv

LEMMA MeasuredNext ==
    ASSUME TypeInv, PhaseInv, MeasuredInv, [PipelineNext]_vars
    PROVE  MeasuredInv'
<1>0. ASSUME NEW t \in tools, NEW r \in 1 .. iterations PROVE <<t, r>> \in Dirs
  BY PipelineBounds DEF TypeInv, Dirs
<1>1. CASE StartBenchmark
  BY <1>1 DEF StartBenchmark, MeasuredInv
<1>2. CASE Collect
  <2>1. ASSUME NEW t \in tools', NEW r \in (1 .. iterations)' PROVE <<t, r>> \in todo'
    BY <1>2 DEF Collect
  <2>2. todo' # {} => phase' = "measure"
    BY <1>2 DEF Collect
  <2>. QED
    BY <2>1, <2>2 DEF MeasuredInv
<1>3. ASSUME NEW d \in Dirs, Measure(d) PROVE MeasuredInv'
  <2>1. UNCHANGED <<script, exec, iterations, tools>> /\ script = "benchmark"
    BY <1>3 DEF Measure, StartMonitors, RunTool, ToolFails, PhaseInv
  <2>2. CASE ToolFails(d)
    BY <2>2 DEF ToolFails, Ends, MeasuredInv
  <2>3. CASE StartMonitors(d) \/ RunTool(d)
    <3>1. /\ phase \in {"measure", "load"} /\ d \in todo
          /\ \/ todo' = todo /\ phase' = "load"
             \/ /\ todo' = todo \ {d} /\ phase' \in {"measure", "analyze"}
                /\ phase' = "analyze" => todo' = {}
                /\ Measured(d)'
      <4>1. CASE StartMonitors(d)
        BY <4>1 DEF StartMonitors, Next1
      <4>2. CASE RunTool(d)
        <5>1. Measured(d)'
          BY <4>2, <1>3, <2>1, MeasureRaw DEF Measured
        <5>. QED
          BY <4>2, <5>1 DEF RunTool, Next1
      <4>. QED
        BY <2>3, <4>1, <4>2
    <3>2. ASSUME NEW t \in tools, NEW r \in 1 .. iterations
          PROVE  \/ phase' \in {"measure", "load"} /\ <<t, r>> \in todo'
                 \/ Measured(<<t, r>>)'
      <4>1. <<t, r>> \in todo \/ Measured(<<t, r>>)
        BY <2>1, <3>1 DEF MeasuredInv
      <4>2. CASE <<t, r>> = d
        BY <4>1, <4>2, <3>1, <1>3, MeasureRaw
      <4>3. CASE <<t, r>> # d
        <5>1. raw'[<<t, r>>] = raw[<<t, r>>]
          BY <4>3, <1>0, <1>3, MeasureRaw
        <5>2. Measured(<<t, r>>) => Measured(<<t, r>>)'
          BY <2>1, <5>1 DEF Measured
        <5>. QED
          BY <4>1, <4>3, <3>1, <5>2
      <4>. QED
        BY <4>2, <4>3
    <3>. QED
      BY <2>1, <3>2 DEF MeasuredInv
  <2>. QED
    BY <1>3, <2>2, <2>3 DEF Measure
<1>4. CASE AnalyzeBenchmark
  BY <1>4
  DEF AnalyzeBenchmark, BeginAnalysis, MeasuredInv, Measured, PhaseInv, fileVars
<1>5. ASSUME \A d \in Dirs : ~Measure(d), ~StartBenchmark, ~Collect, ~AnalyzeBenchmark
      PROVE  MeasuredInv'
  <2>1. raw' = raw
    BY <1>5, RawKept
  <2>2. UNCHANGED <<exec, iterations, tools>>
    BY <1>5 DEF PipelineNext, Parse, ParseRun, ParseAborts, AnalyzeByHand,
         BeginAnalysis, BuildSummary, BuildAborts, DrawWrk, DrawVegeta, DrawSystem,
         Proceed, SaveSummary, ReportByHand, WriteReport, ReportAborts, Interrupt, InterruptDraw,
         InterruptWrite, vars, procVars
  <2>3. script' = "benchmark" /\ (phase' \notin {"idle", "collect"} \/ exit' = "ok") =>
          /\ script = "benchmark" /\ (phase \notin {"idle", "collect"} \/ exit = "ok")
          /\ \/ phase \notin {"measure", "load"}
             \/ phase' = phase /\ todo' = todo
    BY <1>5 DEF PipelineNext, Parse, ParseRun, ParseAborts, AnalyzeByHand,
         BeginAnalysis, BuildSummary, BuildAborts, DrawWrk, DrawVegeta, DrawSystem,
         Proceed, SaveSummary, ReportByHand, WriteReport, ReportAborts, Interrupt, InterruptDraw,
         InterruptWrite, Ends, vars, procVars, PhaseInv
  <2>. QED
    BY <2>1, <2>2, <2>3 DEF MeasuredInv, Measured
<1>. QED
  BY <1>1, <1>2, <1>3, <1>4, <1>5

-----------------------------------------------------------------------------
(***************************************************************************)
(* An analysis that has parsed every run sees what is in raw/.             *)
(***************************************************************************)
LEMMA FreshInit == PipelineInit => FreshInv
  BY DEF PipelineInit, FreshInv, Drawing

LEMMA FreshNext ==
    ASSUME TypeInv, PhaseInv, FreshInv, [PipelineNext]_vars
    PROVE  FreshInv'
<1>. USE DEF Drawing
<1>1. CASE AnalyzeBenchmark \/ AnalyzeByHand
  BY <1>1 DEF AnalyzeBenchmark, AnalyzeByHand, BeginAnalysis, FreshInv, fileVars
<1>2. ASSUME NEW d \in Dirs, ParseRun(d) PROVE FreshInv'
  <2>1. raw' = raw /\ round' = round /\ phase' = "parse" /\ phase = "parse"
        /\ todo' = todo \ {d}
    BY <1>2 DEF ParseRun
  <2>2. \A e \in Dirs : e # d => parsed'[e] = parsed[e]
    BY <1>2 DEF ParseRun, TypeInv
  <2>3. Fresh(d)'
    BY <1>2, <2>1 DEF ParseRun, TypeInv, Fresh
  <2>4. ASSUME NEW e \in Dirs, raw[e].made, e # d PROVE e \in todo' \/ Fresh(e)'
    <3>1. e \in todo \/ Fresh(e)
      BY <2>1, <2>4 DEF FreshInv
    <3>. QED
      BY <2>1, <2>2, <2>4, <3>1 DEF Fresh
  <2>. QED
    BY <2>1, <2>3, <2>4 DEF FreshInv
<1>3. CASE BuildSummary
  BY <1>3 DEF BuildSummary, FreshInv, Fresh, fileVars
<1>4. CASE DrawWrk \/ DrawVegeta \/ DrawSystem
  BY <1>4 DEF DrawWrk, DrawVegeta, DrawSystem, Proceed, FreshInv, Fresh
<1>5. ASSUME ~AnalyzeBenchmark, ~AnalyzeByHand, \A d \in Dirs : ~ParseRun(d),
             ~BuildSummary, ~DrawWrk, ~DrawVegeta, ~DrawSystem
      PROVE  FreshInv'
  <2>1. phase' \in Drawing \cup {"parse"} => UNCHANGED vars
    BY <1>5 DEF PipelineNext, StartBenchmark, Collect, Measure, StartMonitors,
         RunTool, ToolFails, Parse, ParseAborts, BuildAborts, SaveSummary,
         ReportByHand, WriteReport, ReportAborts, Interrupt, InterruptDraw, InterruptWrite, Ends
  <2>. QED
    BY <2>1 DEF FreshInv, Fresh, vars, procVars, fileVars
<1>. QED
  BY <1>1, <1>2, <1>3, <1>4, <1>5

\* The runs metrics.py finds valid are the runs that have an output.
LEMMA ValidAreMeasured ==
    ASSUME TypeInv, OriginInv, \A d \in Dirs : raw[d].made => Fresh(d), NEW t \in Tools
    PROVE  /\ ValidRuns(t) = WithOutput(t)
           /\ \A d \in ValidRuns(t) : parsed[d].by = raw[d].by /\ parsed[d].out = raw[d].out
<1>1. ASSUME NEW d \in Dirs
      PROVE  /\ parsed[d].state = "full" /\ parsed[d].out # "none"
                  => /\ raw[d].out # "none"
                     /\ parsed[d].by = raw[d].by /\ parsed[d].out = raw[d].out
             /\ raw[d].out # "none" => parsed[d].state = "full" /\ parsed[d].out # "none"
  BY DEF OriginInv, Fresh, TypeInv, RunDir, Parsed
<1>2. ValidRuns(t) = WithOutput(t)
  BY <1>1 DEF ValidRuns, WithOutput
<1>3. \A d \in ValidRuns(t) : parsed[d].by = raw[d].by /\ parsed[d].out = raw[d].out
  BY <1>1 DEF ValidRuns
<1>. QED
  BY <1>2, <1>3

LEMMA SectionsAreRaw ==
    ASSUME TypeInv, OriginInv, \A d \in Dirs : raw[d].made => Fresh(d), NEW t \in Tools
    PROVE  SectionOf(t) = RawSection(t)
<1>1. (\E d \in Dirs : d[1] = t /\ parsed[d].state # "none")
        <=> (\E d \in Dirs : d[1] = t /\ raw[d].made)
  <2>1. ASSUME NEW d \in Dirs PROVE parsed[d].state # "none" <=> raw[d].made
    BY DEF OriginInv, Fresh, TypeInv, RunDir, Parsed
  <2>. QED
    BY <2>1
<1>2. {<<d[2], parsed[d].by>> : d \in ValidRuns(t)}
        = {<<d[2], raw[d].by>> : d \in WithOutput(t)}
  BY ValidAreMeasured
<1>. QED
  BY <1>1, <1>2 DEF SectionOf, RawSection

LEMMA DueIsRaw ==
    ASSUME TypeInv, OriginInv, \A d \in Dirs : raw[d].made => Fresh(d),
           draft.sections = [t \in Tools |-> RawSection(t)]
    PROVE  /\ WrkDue = RawWrkDue /\ VegetaDue = RawVegetaDue
           /\ \A t \in Tools : SystemDue(t) = RawSystemDue(t)
<1>1. /\ draft.sections["wrk"] = RawSection("wrk")
      /\ draft.sections["vegeta"] = RawSection("vegeta")
      /\ ValidRuns("wrk") = WithOutput("wrk")
      /\ ValidRuns("vegeta") = WithOutput("vegeta")
  BY ValidAreMeasured DEF Tools
<1>2. WrkDue = RawWrkDue
  BY <1>1 DEF WrkDue, RawWrkDue
<1>3. VegetaDue = RawVegetaDue
  BY <1>1 DEF VegetaDue, RawVegetaDue
<1>4. ASSUME NEW t \in Tools PROVE SystemDue(t) = RawSystemDue(t)
  <2>1. (\E d \in Dirs : d[1] = t /\ parsed[d].state = "full" /\ parsed[d].rows)
          <=> (\E d \in Dirs : d[1] = t /\ raw[d].made /\ raw[d].rows)
    <3>1. ASSUME NEW d \in Dirs
          PROVE  (parsed[d].state = "full" /\ parsed[d].rows)
                   <=> (raw[d].made /\ raw[d].rows)
      BY DEF OriginInv, Fresh, TypeInv, RunDir, Parsed
    <3>. QED
      BY <3>1
  <2>. QED
    BY <2>1 DEF SystemDue, RawSystemDue
<1>. QED
  BY <1>2, <1>3, <1>4

\* What the figures and the summary should be depends on raw/ alone.
LEMMA RawViewKept ==
    ASSUME raw' = raw
    PROVE  /\ \A t \in Tools : RawSection(t)' = RawSection(t)
           /\ RawWrkDue' = RawWrkDue /\ RawVegetaDue' = RawVegetaDue
           /\ \A t \in Tools : RawSystemDue(t)' = RawSystemDue(t)
<1>1. ASSUME NEW t PROVE WithOutput(t)' = WithOutput(t)
  BY DEF WithOutput
<1>2. ASSUME NEW t PROVE RawSection(t)' = RawSection(t)
  BY <1>1 DEF RawSection
<1>3. HistogramDue' <=> HistogramDue
  BY DEF HistogramDue
<1>4. RawWrkDue' = RawWrkDue
  BY <1>1, <1>2 DEF RawWrkDue
<1>5. RawVegetaDue' = RawVegetaDue
  BY <1>1, <1>2, <1>3 DEF RawVegetaDue
<1>6. ASSUME NEW t PROVE RawSystemDue(t)' = RawSystemDue(t)
  BY DEF RawSystemDue
<1>. QED
  BY <1>2, <1>4, <1>5, <1>6

LEMMA ExpectedKept ==
    ASSUME raw' = raw, metadata' = metadata, CollectPlotPaths' = CollectPlotPaths
    PROVE  Expected' = Expected
  BY RawViewKept DEF Expected

\* The figures that are drawn are added to those that were there.
LEMMA DrawAdds ==
    ASSUME TypeInv, round > 0, NEW files \in SUBSET PlotFiles, Draw(files)
    PROVE  /\ CollectPlotPaths' = CollectPlotPaths \cup files
           /\ \A f \in PlotFiles : plots'[f] = IF f \in files THEN round ELSE plots[f]
  BY DEF Draw, CollectPlotPaths, TypeInv

\* Every draw finds its keys, draws what raw/ calls for and goes on.
LEMMA DrawStep ==
    ASSUME TypeInv, PhaseInv, OriginInv, FreshInv, SummaryInv,
           DrawWrk \/ DrawVegeta \/ DrawSystem
    PROVE  /\ round > 0 /\ phase \in Drawing
           /\ UNCHANGED <<script, exit, round, draft, metadata, raw, parsed, summary,
                          report, published, touched>>
           /\ DrawWrk => Draw(RawWrkDue) /\ phase' = "drawVegeta"
           /\ DrawVegeta => Draw(RawVegetaDue) /\ phase' = "drawSystem"
           /\ DrawSystem => /\ Draw(UNION {RawSystemDue(t) : t \in Tools})
                            /\ phase' = "save"
<1>1. phase \in Drawing /\ round > 0
  BY DEF DrawWrk, DrawVegeta, DrawSystem, Drawing, PhaseInv
<1>2. /\ WrkDue = RawWrkDue /\ VegetaDue = RawVegetaDue
      /\ \A t \in Tools : SystemDue(t) = RawSystemDue(t)
  BY <1>1, DueIsRaw DEF FreshInv, SummaryInv
<1>3. UNION {SystemDue(t) : t \in Tools} = UNION {RawSystemDue(t) : t \in Tools}
  BY <1>2
<1>. QED
  BY <1>1, <1>2, <1>3, KeysExist
  DEF DrawWrk, DrawVegeta, DrawSystem, Proceed, histVars

-----------------------------------------------------------------------------
(***************************************************************************)
(* The summary and the report.                                             *)
(***************************************************************************)
LEMMA SummaryInit == PipelineInit => SummaryInv
  BY DEF PipelineInit, SummaryInv, Reporting, Analysed, Drawing

LEMMA SummaryNext ==
    ASSUME TypeInv, PhaseInv, OriginInv, FreshInv, SummaryInv, [PipelineNext]_vars
    PROVE  SummaryInv'
<1>. USE DEF Drawing, Reporting, Analysed
<1>1. CASE BuildSummary
  <2>1. /\ raw' = raw /\ metadata' = metadata /\ phase' = "drawWrk"
        /\ draft' = [meta |-> metadata.by, plots |-> {},
                     sections |-> [t \in Tools |-> SectionOf(t)]]
        /\ \A d \in Dirs : raw[d].made => Fresh(d)
    BY <1>1 DEF BuildSummary, fileVars, FreshInv
  <2>2. \A t \in Tools : SectionOf(t) = RawSection(t)'
    BY <2>1, SectionsAreRaw, RawViewKept
  <2>3. draft'.sections = [t \in Tools |-> RawSection(t)']
    BY <2>1, <2>2
  <2>. QED
    BY <2>1, <2>3 DEF SummaryInv
<1>2. CASE DrawWrk \/ DrawVegeta \/ DrawSystem
  <2>1. /\ phase \in Drawing /\ phase' \in Drawing
        /\ raw' = raw /\ metadata' = metadata /\ draft' = draft
    BY <1>2, DrawStep
  <2>2. [t \in Tools |-> RawSection(t)'] = [t \in Tools |-> RawSection(t)]
    BY <2>1, RawViewKept
  <2>. QED
    BY <2>1, <2>2 DEF SummaryInv
<1>3. CASE SaveSummary
  <2>1. /\ phase = "save" /\ phase' = "report" /\ raw' = raw /\ metadata' = metadata
        /\ plots' = plots /\ round' = round
        /\ summary' = [state |-> "full", round |-> round,
                       content |-> [draft EXCEPT !.plots = CollectPlotPaths]]
    BY <1>3 DEF SaveSummary
  <2>2. [draft EXCEPT !.plots = CollectPlotPaths] = Expected
    BY <2>1 DEF SummaryInv, Expected, TypeInv, Content
  <2>3. CollectPlotPaths' = CollectPlotPaths
    BY <2>1 DEF CollectPlotPaths
  <2>. QED
    BY <2>1, <2>2, <2>3, ExpectedKept DEF SummaryInv
<1>4. CASE WriteReport
  <2>1. /\ phase = "report" /\ phase' = "idle" /\ script' = script /\ round' = round
        /\ raw' = raw /\ metadata' = metadata /\ plots' = plots /\ summary' = summary
        /\ report' = [state |-> "full", content |-> summary.content]
    BY <1>4 DEF WriteReport, Ends
  <2>2. CollectPlotPaths' = CollectPlotPaths
    BY <2>1 DEF CollectPlotPaths
  <2>3. Analysed' => Reporting
    BY <2>1
  <2>4. Expected' = Expected
    BY <2>1, <2>2, ExpectedKept
  <2>. QED
    BY <2>1, <2>3, <2>4 DEF SummaryInv
<1>5. ASSUME ~BuildSummary, ~DrawWrk, ~DrawVegeta, ~DrawSystem, ~SaveSummary,
             ~WriteReport
      PROVE  SummaryInv'
  <2>1. phase' \in Drawing \/ Reporting' \/ Analysed' => UNCHANGED vars
    BY <1>5 DEF PipelineNext, StartBenchmark, Collect, Measure, StartMonitors,
         RunTool, ToolFails, Parse, ParseRun, ParseAborts, AnalyzeBenchmark,
         AnalyzeByHand, BeginAnalysis, BuildAborts,
         ReportByHand, ReportAborts, Interrupt, InterruptDraw, InterruptWrite, Ends, PhaseInv
  <2>2. ASSUME UNCHANGED vars PROVE SummaryInv'
    <3>1. CollectPlotPaths' = CollectPlotPaths /\ raw' = raw /\ metadata' = metadata
      BY <2>2 DEF CollectPlotPaths, vars, fileVars
    <3>2. Expected' = Expected
      BY <3>1, ExpectedKept
    <3>3. [t \in Tools |-> RawSection(t)'] = [t \in Tools |-> RawSection(t)]
      BY <3>1, RawViewKept
    <3>. QED
      BY <2>2, <3>2, <3>3 DEF SummaryInv, vars, procVars, fileVars
  <2>. QED
    BY <2>1, <2>2 DEF SummaryInv
<1>. QED
  BY <1>1, <1>2, <1>3, <1>4, <1>5

-----------------------------------------------------------------------------
(***************************************************************************)
(* The figures.                                                            *)
(***************************************************************************)
\* Measuring never takes a reason for a figure away: an output is replaced,
\* and a directory stays.
LEMMA MeasureKeepsReasons ==
    ASSUME TypeInv, NEW d \in Dirs, Measure(d)
    PROVE  /\ RawWrkDue \subseteq RawWrkDue'
           /\ RawVegetaDue \cap VegetaPrimary \subseteq RawVegetaDue'
<1>1. ASSUME NEW e \in Dirs
      PROVE  /\ raw[e].made => raw'[e].made
             /\ raw[e].out # "none" => raw'[e].out # "none"
  BY MeasureRaw DEF Measure
<1>2. ASSUME NEW t PROVE WithOutput(t) \subseteq WithOutput(t)'
  BY <1>1 DEF WithOutput
<1>3. ASSUME NEW t PROVE RawSection(t).shown => RawSection(t)'.shown
  BY <1>1 DEF RawSection
<1>4. RawWrkDue \subseteq RawWrkDue'
  <2>1. RawSection("wrk").shown => RawSection("wrk")'.shown
    BY <1>3
  <2>2. WithOutput("wrk") # {} => WithOutput("wrk")' # {}
    BY <1>2
  <2>. QED
    BY <2>1, <2>2 DEF RawWrkDue
<1>5. RawVegetaDue \cap VegetaPrimary \subseteq RawVegetaDue'
  <2>1. RawSection("vegeta").shown => RawSection("vegeta")'.shown
    BY <1>3
  <2>2. WithOutput("vegeta") # {} => WithOutput("vegeta")' # {}
    BY <1>2
  <2>. QED
    BY <2>1, <2>2, FiguresApart DEF RawVegetaDue
<1>. QED
  BY <1>4, <1>5

\* Only the three plot modules write under plots/.
LEMMA PlotsKept ==
    ASSUME [PipelineNext]_vars, ~DrawWrk, ~DrawVegeta, ~DrawSystem, ~InterruptDraw
    PROVE  plots' = plots
  BY DEF PipelineNext, StartBenchmark, Collect, Measure, StartMonitors, RunTool,
         ToolFails, Parse, ParseRun, ParseAborts, AnalyzeBenchmark, AnalyzeByHand,
         BeginAnalysis, BuildSummary, BuildAborts, SaveSummary, ReportByHand,
         WriteReport, ReportAborts, Interrupt, InterruptWrite, vars, fileVars

LEMMA DueFiles ==
    /\ RawWrkDue \in SUBSET PlotFiles /\ RawVegetaDue \in SUBSET PlotFiles
    /\ UNION {RawSystemDue(t) : t \in Tools} \in SUBSET PlotFiles
    /\ RawWrkDue \cap VegetaPrimary = {} /\ RawVegetaDue \cap WrkPrimary = {}
    /\ (UNION {RawSystemDue(t) : t \in Tools}) \cap (WrkPrimary \cup VegetaPrimary) = {}
<1>1. RawWrkDue \in SUBSET PlotFiles /\ RawVegetaDue \in SUBSET PlotFiles
  BY FiguresDue, FiguresExist
<1>2. \A t \in Tools : RawSystemDue(t) \subseteq PlotFiles
  BY FiguresDue, FiguresExist
<1>3. RawWrkDue \cap VegetaPrimary = {} /\ RawVegetaDue \cap WrkPrimary = {}
  BY FiguresDue, FiguresApart
<1>4. \A t \in Tools : RawSystemDue(t) \cap (WrkPrimary \cup VegetaPrimary) = {}
  BY FiguresDue, FiguresApart
<1>. QED
  BY <1>1, <1>2, <1>3, <1>4

\* Whether it is interrupted or not, drawing writes figures that are due.
LEMMA DrawsDue ==
    ASSUME TypeInv, PhaseInv, OriginInv, FreshInv, SummaryInv,
           DrawWrk \/ DrawVegeta \/ DrawSystem \/ InterruptDraw
    PROVE  /\ round > 0 /\ phase' \notin {"measure", "load", "analyze"}
           /\ UNCHANGED <<round, metadata, raw, published, touched>>
           /\ \E files \in SUBSET PlotFiles :
                /\ Draw(files)
                /\ \/ files \subseteq RawWrkDue \/ files \subseteq RawVegetaDue
                   \/ files \subseteq UNION {RawSystemDue(t) : t \in Tools}
<1>1. CASE DrawWrk \/ DrawVegeta \/ DrawSystem
  BY <1>1, DrawStep, DueFiles
<1>2. CASE InterruptDraw
  <2>1. phase \in {"drawWrk", "drawVegeta", "drawSystem"} /\ round > 0
    BY <1>2 DEF InterruptDraw, PhaseInv, Drawing
  <2>2. /\ WrkDue = RawWrkDue /\ VegetaDue = RawVegetaDue
        /\ \A t \in Tools : SystemDue(t) = RawSystemDue(t)
    BY <2>1, DueIsRaw DEF FreshInv, SummaryInv, Drawing
  <2>3. UNION {SystemDue(t) : t \in Tools} = UNION {RawSystemDue(t) : t \in Tools}
    BY <2>2
  <2>4. Due \in {RawWrkDue, RawVegetaDue, UNION {RawSystemDue(t) : t \in Tools}}
    BY <2>1, <2>2, <2>3 DEF Due
  <2>5. PICK n \in {0} \cup DOMAIN DrawOrder : Draw(DrawnFirst(n))
    BY <1>2 DEF InterruptDraw
  <2>6. DrawnFirst(n) \subseteq Due
    BY DEF DrawnFirst
  <2>7. DrawnFirst(n) \in SUBSET PlotFiles
    BY <2>4, <2>6, DueFiles
  <2>. QED
    BY <1>2, <2>1, <2>4, <2>5, <2>6, <2>7 DEF InterruptDraw, Ends, histVars
<1>. QED
  BY <1>1, <1>2

LEMMA PlotOriginInit == PipelineInit => PlotOrigin
<1>1. PipelineInit => CollectPlotPaths = {}
  BY DEF PipelineInit, CollectPlotPaths
<1>. QED
  BY <1>1 DEF PlotOrigin

LEMMA PlotOriginNext ==
    ASSUME TypeInv, PhaseInv, OriginInv, FreshInv, SummaryInv, PlotOrigin,
           [PipelineNext]_vars
    PROVE  PlotOrigin'
<1>1. ASSUME NEW d \in Dirs, Measure(d) PROVE PlotOrigin'
  <2>1. plots' = plots
    BY <1>1 DEF Measure, StartMonitors, RunTool, ToolFails
  <2>2. CollectPlotPaths' = CollectPlotPaths
    BY <2>1 DEF CollectPlotPaths
  <2>. QED
    BY <1>1, <2>2, MeasureKeepsReasons DEF PlotOrigin, WrkPrimary, VegetaPrimary
<1>2. CASE DrawWrk \/ DrawVegeta \/ DrawSystem \/ InterruptDraw
  <2>1. PICK files \in SUBSET PlotFiles :
          /\ Draw(files)
          /\ \/ files \subseteq RawWrkDue \/ files \subseteq RawVegetaDue
             \/ files \subseteq UNION {RawSystemDue(t) : t \in Tools}
    BY <1>2, DrawsDue
  <2>2. /\ files \cap WrkPrimary \subseteq RawWrkDue
        /\ files \cap VegetaPrimary \subseteq RawVegetaDue
    BY <2>1, DueFiles
  <2>3. \A f \in files : f[2] \notin VmstatNames
    BY <2>1, FiguresDue, VmstatFigures
  <2>4. raw' = raw /\ round > 0
    BY <1>2, DrawsDue
  <2>5. CollectPlotPaths' = CollectPlotPaths \cup files
    BY <2>1, <2>4, DrawAdds
  <2>6. RawWrkDue' = RawWrkDue /\ RawVegetaDue' = RawVegetaDue
    BY <2>4, RawViewKept
  <2>. QED
    BY <2>2, <2>3, <2>5, <2>6 DEF PlotOrigin, WrkPrimary, VegetaPrimary
<1>3. ASSUME \A d \in Dirs : ~Measure(d), ~DrawWrk, ~DrawVegeta, ~DrawSystem,
             ~InterruptDraw
      PROVE  PlotOrigin'
  <2>1. raw' = raw /\ plots' = plots
    BY <1>3, RawKept, PlotsKept
  <2>2. CollectPlotPaths' = CollectPlotPaths
    BY <2>1 DEF CollectPlotPaths
  <2>3. RawWrkDue' = RawWrkDue /\ RawVegetaDue' = RawVegetaDue
    BY <2>1, RawViewKept
  <2>. QED
    BY <2>2, <2>3 DEF PlotOrigin, WrkPrimary, VegetaPrimary
<1>. QED
  BY <1>1, <1>2, <1>3

LEMMA DrawnInit == PipelineInit => DrawnInv
  BY DEF PipelineInit, DrawnInv, Reporting, Analysed

LEMMA DrawnNext ==
    ASSUME TypeInv, PhaseInv, OriginInv, FreshInv, SummaryInv, PlotOrigin, DrawnInv,
           [PipelineNext]_vars
    PROVE  DrawnInv'
<1>. USE DEF Reporting, Analysed
<1>0. WrkPrimary \subseteq PlotFiles /\ VegetaPrimary \subseteq PlotFiles
      /\ plots \in [PlotFiles -> 0 .. MaxRounds]
  BY FiguresExist DEF TypeInv
<1>1. CASE DrawWrk \/ DrawVegeta \/ DrawSystem
  <2>1. PICK files \in SUBSET PlotFiles :
          /\ Draw(files)
          /\ DrawWrk => files = RawWrkDue
          /\ DrawVegeta => files = RawVegetaDue
          /\ DrawSystem => \A t \in Tools : RawSystemDue(t) \subseteq files
    <3>1. CASE DrawWrk
      BY <3>1, DrawStep, DueFiles DEF DrawWrk, DrawVegeta, DrawSystem
    <3>2. CASE DrawVegeta
      BY <3>2, DrawStep, DueFiles DEF DrawWrk, DrawVegeta, DrawSystem
    <3>3. CASE DrawSystem
      <4>1. \A t \in Tools : RawSystemDue(t) \subseteq UNION {RawSystemDue(u) : u \in Tools}
        OBVIOUS
      <4>. QED
        BY <3>3, <4>1, DrawStep, DueFiles DEF DrawWrk, DrawVegeta, DrawSystem
    <3>. QED
      BY <1>1, <3>1, <3>2, <3>3
  <2>2. /\ raw' = raw /\ round > 0 /\ round' = round /\ exit' = exit
        /\ exit = "none"
        /\ DrawWrk => phase = "drawWrk" /\ phase' = "drawVegeta"
        /\ DrawVegeta => phase = "drawVegeta" /\ phase' = "drawSystem"
        /\ DrawSystem => phase = "drawSystem" /\ phase' = "save"
    BY <1>1, DrawStep DEF DrawWrk, DrawVegeta, DrawSystem, PhaseInv
  <2>3. /\ CollectPlotPaths' = CollectPlotPaths \cup files
        /\ \A f \in PlotFiles : plots'[f] = IF f \in files THEN round ELSE plots[f]
    BY <2>1, <2>2, DrawAdds
  <2>4. /\ RawWrkDue' = RawWrkDue /\ RawVegetaDue' = RawVegetaDue
        /\ \A t \in Tools : RawSystemDue(t)' = RawSystemDue(t)
    BY <2>2, RawViewKept
  <2>5. /\ Current(WrkPrimary) => Current(WrkPrimary)'
        /\ Current(VegetaPrimary) => Current(VegetaPrimary)'
    BY <1>0, <2>2, <2>3 DEF Current, WrkPrimary, VegetaPrimary
  <2>a. \A X \in SUBSET PlotFiles : (\A f \in X : plots[f] = round)
                                      => (\A f \in X : plots'[f] = round')
    BY <2>2, <2>3
  <2>b. /\ RawVegetaDue \subseteq PlotFiles
        /\ \A t \in Tools : RawSystemDue(t) \subseteq PlotFiles
    BY FiguresDue, FiguresExist
  <2>c. /\ Drawn(RawVegetaDue) => Drawn(RawVegetaDue)'
        /\ \A t \in Tools : Drawn(RawSystemDue(t)) => Drawn(RawSystemDue(t))'
    BY <2>4, <2>a, <2>b DEF Drawn
  <2>d. DrawVegeta => Drawn(RawVegetaDue)'
    BY <2>1, <2>2, <2>3, <2>4 DEF Drawn
  <2>e. DrawSystem => \A t \in Tools : Drawn(RawSystemDue(t))'
    BY <2>1, <2>2, <2>3, <2>4, <2>b DEF Drawn
  <2>6. CASE DrawWrk
    <3>1. ASSUME NEW f \in WrkPrimary PROVE plots'[f] \in {0, round}
      <4>1. f \in CollectPlotPaths => f \in files
        BY <2>1, <2>6 DEF PlotOrigin
      <4>2. plots[f] # 0 => f \in CollectPlotPaths
        BY <1>0 DEF CollectPlotPaths
      <4>. QED
        BY <1>0, <2>3, <4>1, <4>2
    <3>2. Current(WrkPrimary)'
      BY <2>2, <3>1 DEF Current, WrkPrimary
    <3>. QED
      BY <2>1, <2>2, <2>3, <2>4, <2>6, <3>2 DEF DrawnInv
  <2>7. CASE DrawVegeta
    <3>1. ASSUME NEW f \in VegetaPrimary PROVE plots'[f] \in {0, round}
      <4>1. f \in CollectPlotPaths => f \in files
        BY <2>1, <2>7 DEF PlotOrigin
      <4>2. plots[f] # 0 => f \in CollectPlotPaths
        BY <1>0 DEF CollectPlotPaths
      <4>. QED
        BY <1>0, <2>3, <4>1, <4>2
    <3>2. Current(VegetaPrimary)'
      BY <2>2, <3>1 DEF Current, VegetaPrimary
    <3>. QED
      BY <2>1, <2>2, <2>3, <2>4, <2>5, <2>7, <2>d, <3>2 DEF DrawnInv
  <2>8. CASE DrawSystem
    BY <2>1, <2>2, <2>3, <2>4, <2>5, <2>8, <2>c, <2>e DEF DrawnInv
  <2>. QED
    BY <1>1, <2>6, <2>7, <2>8
<1>3. CASE InterruptDraw
  BY <1>3 DEF InterruptDraw, Ends, DrawnInv
<1>2. ASSUME ~DrawWrk, ~DrawVegeta, ~DrawSystem, ~InterruptDraw PROVE DrawnInv'
  <2>1. plots' = plots
    BY <1>2, PlotsKept
  <2>2. phase' \in {"drawVegeta", "drawSystem", "save"} \/ Reporting' \/ Analysed' =>
          /\ raw' = raw /\ round' = round
          /\ \/ phase' = phase /\ Reporting' = Reporting /\ Analysed' = Analysed
             \/ phase = "save" /\ Reporting'
             \/ Reporting /\ Analysed'
    <3>1. CASE SaveSummary
      BY <3>1 DEF SaveSummary
    <3>2. CASE WriteReport
      BY <3>2 DEF WriteReport, Ends
    <3>3. ASSUME ~SaveSummary, ~WriteReport,
                 phase' \in {"drawVegeta", "drawSystem", "save"} \/ Reporting' \/ Analysed'
          PROVE  UNCHANGED vars
      BY <1>2, <3>3 DEF PipelineNext, StartBenchmark, Collect, Measure,
         StartMonitors, RunTool, ToolFails, Parse, ParseRun, ParseAborts,
         AnalyzeBenchmark, AnalyzeByHand, BeginAnalysis, BuildSummary, BuildAborts,
         ReportByHand, ReportAborts, Interrupt, InterruptDraw, InterruptWrite, Ends, PhaseInv
    <3>. QED
      BY <3>1, <3>2, <3>3 DEF vars, procVars, fileVars
  <2>3. CollectPlotPaths' = CollectPlotPaths
    BY <2>1 DEF CollectPlotPaths
  <2>4. ASSUME raw' = raw, round' = round
        PROVE  /\ RawWrkDue' = RawWrkDue /\ RawVegetaDue' = RawVegetaDue
               /\ \A t \in Tools : RawSystemDue(t)' = RawSystemDue(t)
               /\ Current(WrkPrimary)' = Current(WrkPrimary)
               /\ Current(VegetaPrimary)' = Current(VegetaPrimary)
               /\ Drawn(RawVegetaDue)' = Drawn(RawVegetaDue)
               /\ \A t \in Tools : Drawn(RawSystemDue(t))' = Drawn(RawSystemDue(t))
    BY <2>1, <2>4, RawViewKept DEF Current, Drawn, WrkPrimary, VegetaPrimary
  <2>. QED
    BY <2>2, <2>3, <2>4 DEF DrawnInv
<1>. QED
  BY <1>1, <1>2, <1>3

-----------------------------------------------------------------------------
(***************************************************************************)
(* Untouched data.                                                         *)
(***************************************************************************)
LEMMA UntouchedInit == PipelineInit => UntouchedInv
  BY DEF PipelineInit, UntouchedInv

LEMMA UntouchedNext ==
    ASSUME TypeInv, PhaseInv, OriginInv, FreshInv, SummaryInv, DrawnInv,
           UntouchedInv, [PipelineNext]_vars
    PROVE  UntouchedInv'
<1>. SUFFICES ASSUME ~touched' PROVE UntouchedInv'
  BY DEF UntouchedInv
<1>1. CASE DrawWrk \/ DrawVegeta \/ DrawSystem \/ InterruptDraw
  <2>1. /\ raw' = raw /\ metadata' = metadata /\ published' = published
        /\ ~touched /\ round > 0 /\ phase' \notin {"measure", "load", "analyze"}
    BY <1>1, DrawsDue
  <2>2. PICK files \in SUBSET PlotFiles : Draw(files) /\ files \subseteq CollectPlotPaths
    <3>1. UNION {RawSystemDue(t) : t \in Tools} \subseteq CollectPlotPaths
      BY <2>1 DEF UntouchedInv
    <3>. QED
      BY <1>1, <2>1, <3>1, DrawsDue DEF UntouchedInv
  <2>3. CollectPlotPaths' = CollectPlotPaths
    BY <2>1, <2>2, DrawAdds
  <2>. QED
    BY <2>1, <2>3, RawViewKept, ExpectedKept DEF UntouchedInv
<1>2. CASE WriteReport /\ script # "report"
  <2>1. /\ raw' = raw /\ metadata' = metadata /\ plots' = plots /\ phase' = "idle"
        /\ published' = summary.content /\ Reporting
    BY <1>2 DEF WriteReport, Ends, Reporting
  <2>2. CollectPlotPaths' = CollectPlotPaths
    BY <2>1 DEF CollectPlotPaths
  <2>3. published' = Expected
    BY <2>1 DEF SummaryInv
  <2>. QED
    BY <2>1, <2>2, <2>3, RawViewKept, ExpectedKept DEF UntouchedInv, DrawnInv
<1>3. ASSUME ~DrawWrk, ~DrawVegeta, ~DrawSystem, ~InterruptDraw,
             ~(WriteReport /\ script # "report")
      PROVE  UntouchedInv'
  <2>1. ~touched /\ published' = published
    <3>1. CASE WriteReport
      BY <1>3, <3>1 DEF WriteReport, histVars
    <3>2. CASE InterruptWrite
      BY <3>2 DEF InterruptWrite
    <3>3. ASSUME NEW d \in Dirs, Measure(d) \/ Parse(d)
          PROVE  ~touched /\ published' = published
      <4>1. histVars' = histVars
        BY <3>3 DEF Measure, StartMonitors, RunTool, ToolFails, Parse, ParseRun,
                    ParseAborts
      <4>. QED
        BY <4>1 DEF histVars
    <3>4. CASE Collect
      BY <3>4 DEF Collect
    <3>5. CASE \/ StartBenchmark \/ AnalyzeBenchmark \/ AnalyzeByHand
               \/ BuildSummary \/ BuildAborts \/ SaveSummary
               \/ ReportByHand \/ ReportAborts \/ Interrupt
      BY <3>5 DEF StartBenchmark, AnalyzeBenchmark, AnalyzeByHand, BeginAnalysis,
         BuildSummary, BuildAborts, SaveSummary, ReportByHand, ReportAborts,
         Interrupt, InterruptDraw, histVars
    <3>6. CASE UNCHANGED vars
      BY <3>6 DEF vars, histVars
    <3>. QED
      BY <1>3, <3>1, <3>2, <3>3, <3>4, <3>5, <3>6 DEF PipelineNext
  <2>2. ASSUME NEW d \in Dirs PROVE ~Measure(d)
    BY <2>1 DEF UntouchedInv, Measure, StartMonitors, RunTool, ToolFails
  <2>3. ~Collect
    BY DEF Collect
  <2>4. /\ metadata' = metadata
        /\ phase' \in {"measure", "load", "analyze"} => phase' = phase
    BY <1>3, <2>2, <2>3 DEF PipelineNext, StartBenchmark, Parse, ParseRun, ParseAborts,
         AnalyzeBenchmark, AnalyzeByHand, BeginAnalysis, BuildSummary, BuildAborts,
         SaveSummary, ReportByHand, WriteReport, ReportAborts, Interrupt, InterruptDraw,
         InterruptWrite, Ends, vars, procVars, fileVars
  <2>5. raw' = raw /\ plots' = plots
    BY <1>3, <2>2, RawKept, PlotsKept
  <2>6. CollectPlotPaths' = CollectPlotPaths
    BY <2>5 DEF CollectPlotPaths
  <2>. QED
    BY <2>1, <2>4, <2>5, <2>6, RawViewKept, ExpectedKept DEF UntouchedInv
<1>. QED
  BY <1>1, <1>2, <1>3

-----------------------------------------------------------------------------
(***************************************************************************)
(* The theorems.                                                           *)
(***************************************************************************)
LEMMA PipelineInvariant == PipelineSpec => []PipelineInv
<1>1. PipelineInit => PipelineInv
  BY TypeInit, PhaseInit, OriginInit, LoadInit, MeasuredInit, FreshInit,
     SummaryInit, PlotOriginInit, DrawnInit, UntouchedInit DEF PipelineInv
<1>2. PipelineInv /\ [PipelineNext]_vars => PipelineInv'
  BY TypeNext, PhaseNext, OriginNext, LoadNext, MeasuredNext, FreshNext,
     SummaryNext, PlotOriginNext, DrawnNext, UntouchedNext DEF PipelineInv
<1>. QED
  BY <1>1, <1>2, PTL DEF PipelineSpec

\* Every script leaves the files and its own state with their types.
THEOREM PipelineTypeCorrect == PipelineSpec => []PipelineTypeOK
<1>1. PipelineInv => PipelineTypeOK
  BY TypesAreOK DEF PipelineInv
<1>. QED
  BY <1>1, PipelineInvariant, PTL

\* However benchmark.sh, analyze.py and report_generator.py are repeated and
\* interrupted, a run that ends with exit code 0 has summarised and reported
\* exactly the outputs in raw/, every iteration of its own among them.
THEOREM ReportIsTrue == PipelineSpec => []ReportMatchesDataset
<1>1. PipelineInv => ReportMatchesDataset
  <2>. SUFFICES ASSUME PipelineInv, Analysed PROVE ReportMatchesDataset
    BY DEF ReportMatchesDataset
  <2>. USE DEF PipelineInv
  <2>1. /\ summary = [state |-> "full", round |-> round, content |-> Expected]
        /\ report = [state |-> "full", content |-> Expected]
    BY DEF SummaryInv
  <2>2. /\ summary.state = "full" /\ summary.round = round /\ summary.content = Expected
        /\ Expected.meta = metadata.by
        /\ \A t \in Tools : Expected.sections[t].samples =
                              {<<d[2], raw[d].by>> : d \in WithOutput(t)}
    BY <2>1 DEF Expected, RawSection
  <2>3. ASSUME script = "benchmark", NEW t \in tools, NEW r \in 1 .. iterations
        PROVE  <<r, exec>> \in summary.content.sections[t].samples
    <3>1. raw[<<t, r>>].out # "none" /\ raw[<<t, r>>].by = exec
      BY <2>3 DEF MeasuredInv, Measured, Analysed
    <3>2. t \in Tools /\ <<t, r>> \in Dirs
      BY PipelineBounds DEF TypeInv, Dirs
    <3>3. <<t, r>> \in WithOutput(t)
      BY <3>1, <3>2 DEF WithOutput
    <3>4. <<r, exec>> = <<<<t, r>>[2], raw[<<t, r>>].by>>
      BY <3>1
    <3>. QED
      BY <2>2, <3>2, <3>3, <3>4
  <2>. QED
    BY <2>1, <2>2, <2>3 DEF ReportMatchesDataset, WithOutput
<1>. QED
  BY <1>1, PipelineInvariant, PTL

\* Every plot that a successful analysis lists is its own, although no script
\* removes the plots of an earlier one: wrk's, vegeta's with the histogram, and
\* those of the monitors.  Only a plot whose source an interrupted execution
\* emptied may be an older one, and none of the tools benchmark.sh just ran.
THEOREM PlotsAreCurrent == PipelineSpec => []PlotsCurrent
<1>1. PipelineInv => PlotsCurrent
  <2>. SUFFICES ASSUME PipelineInv, Analysed, NEW t \in Tools, NEW f \in FilesOf(t),
                       f \in summary.content.plots
                PROVE  \/ plots[f] = round
                       \/ SourceGone(f, t) /\ ~(script = "benchmark" /\ t \in tools)
    BY DEF PlotsCurrent
  <2>1. f \in CollectPlotPaths
    BY DEF PipelineInv, SummaryInv, Expected
  <2>2. CASE f \in WrkPrimary \cup VegetaPrimary
    <3>1. plots[f] \in {0, round}
      BY <2>2 DEF PipelineInv, DrawnInv, Current
    <3>. QED
      BY <2>1, <3>1 DEF CollectPlotPaths
  <2>3. ASSUME script = "benchmark", t \in tools
        PROVE  <<t, 1>> \in Dirs /\ Measured(<<t, 1>>)
    <3>1. 1 \in 1 .. iterations
      BY <2>3, PipelineBounds DEF PipelineInv, TypeInv, PhaseInv
    <3>2. <<t, 1>> \in Dirs
      BY <3>1, PipelineBounds DEF PipelineInv, TypeInv, Dirs
    <3>. QED
      BY <2>3, <3>1, <3>2 DEF PipelineInv, MeasuredInv, Analysed
  <2>4. CASE f = VegetaHistogram /\ t = "vegeta"
    <3>1. CASE \E d \in Dirs : d[1] = t /\ raw[d].hist
      <4>1. HistogramDue /\ RawSection("vegeta").shown
        BY <2>4, <3>1 DEF PipelineInv, OriginInv, HistogramDue, RawSection
      <4>2. f \in RawVegetaDue
        BY <2>4, <4>1 DEF RawVegetaDue
      <4>. QED
        BY <4>2 DEF PipelineInv, DrawnInv, Drawn
    <3>2. CASE \A d \in Dirs : d[1] = t => ~raw[d].hist
      BY <2>3, <2>4, <3>2 DEF SourceGone, Measured
    <3>. QED
      BY <3>1, <3>2
  <2>5. CASE f \in Named(SystemPlots(t))
    <3>1. f \in Named(CpuPlots(t) \cup MemoryPlots(t))
      BY <2>1, <2>5, VmstatFigures DEF PipelineInv, PlotOrigin
    <3>2. CASE \E d \in Dirs : d[1] = t /\ raw[d].rows
      <4>1. \E d \in Dirs : d[1] = t /\ raw[d].made /\ raw[d].rows
        BY <3>2 DEF PipelineInv, OriginInv
      <4>2. f \in RawSystemDue(t)
        BY <3>1, <4>1 DEF RawSystemDue
      <4>. QED
        BY <4>2 DEF PipelineInv, DrawnInv, Drawn
    <3>3. CASE \A d \in Dirs : d[1] = t => ~raw[d].rows
      BY <2>3, <3>1, <3>3 DEF SourceGone, Measured
    <3>. QED
      BY <3>2, <3>3
  <2>. QED
    BY <2>2, <2>4, <2>5 DEF FilesOf, WrkPrimary, VegetaPrimary, Tools
<1>. QED
  BY <1>1, PipelineInvariant, PTL

\* A dataset whose raw data is untouched reproduces the published summary,
\* also after analyses that were interrupted or failed half way.
THEOREM AnalysisIsReproducible == PipelineSpec => Reproducible
<1>1. PipelineInv /\ [PipelineNext]_vars => [published' # published => touched]_vars
  <2>. SUFFICES ASSUME PipelineInv, PipelineNext, ~touched PROVE published' = published
    BY DEF vars, histVars
  <2>1. CASE WriteReport /\ script # "report"
    BY <2>1 DEF WriteReport, PipelineInv, SummaryInv, UntouchedInv, Reporting
  <2>2. CASE ~(WriteReport /\ script # "report")
    BY <2>2 DEF PipelineNext, StartBenchmark, Collect, Measure, StartMonitors,
         RunTool, ToolFails, Parse, ParseRun, ParseAborts, AnalyzeBenchmark,
         AnalyzeByHand, BeginAnalysis, BuildSummary, BuildAborts, DrawWrk,
         DrawVegeta, DrawSystem, Proceed, SaveSummary,
         ReportByHand, WriteReport, ReportAborts, Interrupt, InterruptDraw, InterruptWrite, histVars
  <2>. QED
    BY <2>1, <2>2
<1>. QED
  BY <1>1, PipelineInvariant, PTL DEF PipelineSpec, Reproducible

\* With a vmstat whose rows the parser skips, a script raises only over what
\* an interrupted script or a failed tool left: no program asks for a key
\* that the one before it does not write.
THEOREM AbortsHaveCauses ==
    ASSUME VmstatColumns = 18
    PROVE  PipelineSpec => []AbortHasCause
<1>. USE DEF fileVars, histVars, procVars
<1>1. PipelineInit => AbortHasCause
  BY DEF PipelineInit, AbortHasCause
<1>2. PipelineInv /\ AbortHasCause /\ [PipelineNext]_vars => AbortHasCause'
  <2>. SUFFICES ASSUME PipelineInv, AbortHasCause, [PipelineNext]_vars
                PROVE  AbortHasCause'
    OBVIOUS
  <2>. USE DEF PipelineInv
  <2>1. ASSUME NEW d \in Dirs, ParseAborts(d) PROVE AbortHasCause'
    <3>1. ~ParseVmstat.raises
      <4>1. (VmstatColumns = 17) = FALSE
        OBVIOUS
      <4>2. ParseVmstat.raises = FALSE
        BY <4>1 DEF ParseVmstat
      <4>. QED
        BY <4>2
    <3>2. raw[d].out = "cut" /\ raw' = raw
      BY <2>1, <3>1 DEF ParseAborts, ParserRaises
    <3>. QED
      BY <3>2 DEF AbortHasCause
  <2>2. CASE BuildAborts
    <3>1. /\ UNCHANGED <<raw, metadata>> /\ SummaryRaises
          /\ \A d \in Dirs : raw[d].made => Fresh(d)
      BY <2>2 DEF BuildAborts, FreshInv
    <3>2. ASSUME NEW d \in Dirs PROVE parsed[d].state # "cut"
      BY <3>1 DEF OriginInv, Fresh, TypeInv, RunDir, Parsed
    <3>3. ASSUME NEW t \in Tools, NEW d \in ValidRuns(t),
                 ~(Summarized(t) \subseteq KeysOf(d))
          PROVE  raw[d].out = "cut"
      <4>1. d \in Dirs /\ d[1] = t /\ parsed[d].out = raw[d].out /\ parsed[d].out # "none"
        BY <3>1, ValidAreMeasured DEF ValidRuns
      <4>2. raw[d].out \in Contents
        BY <4>1 DEF TypeInv, RunDir
      <4>3. parsed[d].out # "full" /\ t = "wrk"
        BY <3>3, <4>1, KeysExist DEF Summarized, KeysOf, Tools
      <4>. QED
        BY <4>1, <4>2, <4>3 DEF Contents
    <3>. QED
      BY <3>1, <3>2, <3>3 DEF SummaryRaises, AbortHasCause, ValidRuns
  <2>3. CASE ReportAborts
    <3>1. summary.content.plots \subseteq PlotFiles
      BY DEF TypeInv, Content
    <3>2. ~(\E t \in Tools : TablesMissing(t)) /\ Embedded = {}
      BY <3>1, ReportKeysExist, NothingEmbedded
      DEF TablesMissing, Summarized, Embedded, Tools
    <3>3. summary.state # "full"
      BY <2>3, <3>2, ReportKeysExist DEF ReportAborts, ReportRaises
    <3>4. script = "report"
      BY <2>3, <3>3 DEF ReportAborts, SummaryInv, Reporting
    <3>. QED
      BY <2>3, <3>3, <3>4 DEF ReportAborts, AbortHasCause
  <2>4. CASE DrawWrk \/ DrawVegeta \/ DrawSystem
    BY <2>4, DrawStep DEF PhaseInv, Drawing, AbortHasCause
  <2>5. ASSUME \A d \in Dirs : ~ParseAborts(d), ~BuildAborts, ~ReportAborts,
               ~DrawWrk, ~DrawVegeta, ~DrawSystem
        PROVE  AbortHasCause'
    <3>1. exit' = "exception" => UNCHANGED vars
      BY <2>5 DEF PipelineNext, StartBenchmark, Collect, Measure, StartMonitors,
         RunTool, ToolFails, Parse, ParseRun, AnalyzeBenchmark, AnalyzeByHand,
         BeginAnalysis, BuildSummary, SaveSummary, ReportByHand, WriteReport,
         Interrupt, InterruptDraw, InterruptWrite, Ends, PhaseInv
    <3>. QED
      BY <3>1 DEF AbortHasCause, vars
  <2>. QED
    BY <2>1, <2>2, <2>3, <2>4, <2>5
<1>. QED
  BY <1>1, <1>2, PipelineInvariant, PTL DEF PipelineSpec
=============================================================================
