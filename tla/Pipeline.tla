------------------------------ MODULE Pipeline ------------------------------
(***************************************************************************)
(* One benchmark dataset and the scripts that work on it: benchmark.sh     *)
(* measures into raw/, analyze.py parses every run, computes summary.json  *)
(* and draws the plots, report_generator.py writes report-auto.md.         *)
(*                                                                         *)
(* The directory belongs to the benchmark's id: it survives every script,  *)
(* no script cleans it, and a script may end at any point (an exception, a *)
(* tool that fails, an interrupt), also in the middle of writing a file.   *)
(* Measured numbers are abstracted to where they come from: a sample is    *)
(* the run and the execution that measured it.  Statistics has the         *)
(* arithmetic.                                                             *)
(***************************************************************************)
EXTENDS Naturals, FiniteSets

CONSTANTS
    MaxIterations,   \* bound on a scenario's iterations
    Scenarios,       \* what the scenario file of the id may say
    MaxExecutions,   \* bound on the executions of benchmark.sh
    MaxRounds,       \* bound on the analyses
    VmstatColumns    \* columns vmstat prints: 17, or 18 since procps-ng 4.0.4

ASSUME PipelineBounds ==
    {MaxIterations, MaxExecutions, MaxRounds} \subseteq Nat \ {0}
ASSUME ScenarioAssumption ==
    Scenarios \subseteq [tools: SUBSET {"wrk", "vegeta"}, iterations: 1 .. MaxIterations]
ASSUME VmstatAssumption == VmstatColumns \in {17, 18}

VARIABLES
    script, phase, exit, todo,      \* the running script
    exec, iterations, tools,        \* benchmark.sh and its scenario
    round, draft,                   \* analyze.py and its summary dict
    metadata, raw, parsed,          \* files: metadata.json, raw/*/run-*/...
    plots, summary, report,         \* plots/, summary.json, report-auto.md
    published, touched              \* for Reproducible: the last summary that
                                    \* was reported; raw data changed since

procVars == <<script, phase, exit, todo, exec, iterations, tools, round>>
fileVars == <<metadata, raw, parsed, plots, summary, report>>
histVars == <<published, touched>>
vars == <<procVars, draft, fileVars, histVars>>

Tools == {"wrk", "vegeta"}
Dirs  == Tools \X (1 .. MaxIterations)

-----------------------------------------------------------------------------
(***************************************************************************)
(* What each program reads and writes, by key.  A key that is asked for    *)
(* and not there is a KeyError.                                            *)
(***************************************************************************)
\* parser.py: what each parser puts into parsed.json.  A wrk.txt that was
\* cut short, or holds a unit the patterns do not know (0.00B), loses keys.
ParseWrk(content) ==
    {"requests_per_sec", "latency_avg_ms"} \cup
      (IF content = "full" THEN {"transfer_mb_per_sec"} ELSE {})

ParseVegeta ==
    {"requests", "rate", "throughput", "success_ratio", "latency_mean_ms",
     "latency_p50_ms", "latency_p95_ms", "latency_p99_ms", "latency_max_ms"}

ParsePidstat == {"time", "pid", "cpu", "rss", "mem", "command"}

\* Every vmstat prints a header that starts with a blank.  With 17 columns it
\* passes for a row and int("r") raises; with 18 no row has the 17 expected.
ParseVmstat ==
    [raises |-> VmstatColumns = 17, rows |-> FALSE,
     columns |-> {"r", "b", "free", "cache", "bi", "bo", "interrupts",
                  "context_switches", "cpu_user", "cpu_system", "cpu_idle",
                  "cpu_wait"}]

\* metrics.py: what is summarised, and the statistics of each.
Summarize == {"count", "mean", "median", "min", "max", "stddev",
              "coefficient_of_variation", "p50", "p90", "p95", "p99"}

\* Fault: summarize_wrk asks for a key the parser does not write.
SummarizeWrkOtherKey == {"requests_per_sec", "latency_avg_ms", "transfer_bytes"}

SummarizeWrk == {"requests_per_sec", "latency_avg_ms", "transfer_mb_per_sec"}

SummarizeVegeta ==
    {"rate", "latency_mean_ms", "latency_p50_ms", "latency_p95_ms",
     "latency_p99_ms", "latency_max_ms", "success_ratio", "throughput"}

\* report_generator.py: the tables of the statistical summary.
StatisticsTable == {"count", "mean", "median", "min", "max", "stddev",
                    "coefficient_of_variation", "p50", "p90", "p95", "p99"}

WrkTables == {"requests_per_sec", "latency_avg_ms", "transfer_mb_per_sec"}

VegetaTables ==
    {"rate", "throughput", "success_ratio", "latency_mean_ms",
     "latency_p50_ms", "latency_p95_ms", "latency_p99_ms", "latency_max_ms"}

\* build_summary copies these out of metadata.json ...
SummaryFields ==
    {"id", "title", "timestamp", "hostname", "git_branch", "git_commit",
     "protocol", "url", "threads", "connections", "duration", "warmup",
     "iterations", "cpu", "logical_cpus", "memory", "os", "kernel"}

\* ... and these sections of the report print them.
BenchmarkInformation ==
    {"id", "title", "timestamp", "git_branch", "git_commit", "protocol",
     "url", "threads", "connections", "duration", "iterations", "cpu",
     "logical_cpus", "memory", "os", "kernel"}

Objective == {"protocol"}

ExperimentalVariables ==
    {"protocol", "threads", "connections", "duration", "iterations"}

SystemConfiguration == {"cpu", "logical_cpus", "memory", "os", "kernel"}

BenchmarkConfiguration ==
    {"protocol", "url", "threads", "connections", "duration", "warmup",
     "iterations"}

Reproducibility ==
    {"id", "git_commit", "git_branch", "protocol", "threads", "connections",
     "duration", "iterations"}

ReportFields ==
    UNION {BenchmarkInformation, Objective, ExperimentalVariables,
           SystemConfiguration, BenchmarkConfiguration, Reproducibility}

-----------------------------------------------------------------------------
(***************************************************************************)
(* The plots: the file, as its directory under plots/ and its name, and    *)
(* the key it is drawn from.                                               *)
(***************************************************************************)
Plot(dir, name, key) == [file |-> <<dir, name>>, key |-> key]

WrkBoxplots ==
    {Plot(<<>>, "wrk-throughput-boxplot", "requests_per_sec"),
     Plot(<<>>, "wrk-latency-boxplot", "latency_avg_ms"),
     Plot(<<>>, "wrk-transfer-boxplot", "transfer_mb_per_sec")}

WrkErrorbar == {Plot(<<>>, "wrk-throughput-errorbar", "requests_per_sec")}

VegetaBoxplot == {Plot(<<"vegeta">>, "latency-boxplot", "latency_mean_ms")}

VegetaPercentiles ==
    {Plot(<<"vegeta">>, "latency-percentiles", k) :
       k \in {"latency_p50_ms", "latency_p95_ms", "latency_p99_ms", "latency_max_ms"}}

VegetaHistogram == <<<<"vegeta">>, "latency-histogram">>

\* pidstat: one value per line of pidstat.txt.
CpuPlots(t) ==
    {Plot(<<"system", t>>, "cpu-timeseries", "cpu"),
     Plot(<<"system", t>>, "cpu-distribution", "cpu")}

MemoryPlots(t) ==
    {Plot(<<"system", t>>, "memory-timeseries", "rss"),
     Plot(<<"system", t>>, "memory-distribution", "rss")}

\* vmstat, one column each.
SchedulerPlots(t) ==
    {Plot(<<"system", t>>, "cpu-idle-timeseries", "cpu_idle"),
     Plot(<<"system", t>>, "run-queue-timeseries", "r"),
     Plot(<<"system", t>>, "context-switch-timeseries", "context_switches"),
     Plot(<<"system", t>>, "interrupts-timeseries", "interrupts")}

CpuTimePlots(t) ==
    {Plot(<<"system", t>>, "cpu-user-timeseries", "cpu_user"),
     Plot(<<"system", t>>, "cpu-system-timeseries", "cpu_system"),
     Plot(<<"system", t>>, "cpu-wait-timeseries", "cpu_wait")}

DiskPlots(t) ==
    {Plot(<<"system", t>>, "disk-read-timeseries", "bi"),
     Plot(<<"system", t>>, "disk-write-timeseries", "bo")}

SystemPlots(t) ==
    CpuPlots(t) \cup MemoryPlots(t) \cup SchedulerPlots(t)
      \cup CpuTimePlots(t) \cup DiskPlots(t)

Named(set) == {p.file : p \in set}
Keys(set)  == {p.key : p \in set}

PlotFiles ==
    Named(WrkBoxplots \cup WrkErrorbar \cup VegetaBoxplot \cup VegetaPercentiles)
      \cup {VegetaHistogram} \cup UNION {Named(SystemPlots(t)) : t \in Tools}

\* The figures of a tool.
FilesOf(t) ==
    Named(SystemPlots(t))
      \cup (IF t = "wrk" THEN Named(WrkBoxplots \cup WrkErrorbar)
            ELSE Named(VegetaBoxplot \cup VegetaPercentiles) \cup {VegetaHistogram})

\* The order in which the three modules draw.  The system figures of a tool,
\* all drawn from the same files, are taken together.
DrawOrder ==
    <<{<<<<>>, "wrk-throughput-boxplot">>}, {<<<<>>, "wrk-throughput-errorbar">>},
      {<<<<>>, "wrk-latency-boxplot">>}, {<<<<>>, "wrk-transfer-boxplot">>},
      Named(VegetaBoxplot), Named(VegetaPercentiles), {VegetaHistogram},
      Named(SystemPlots("vegeta")), Named(SystemPlots("wrk"))>>

\* What primary_metrics looks for: a directory plots/wrk, which nothing
\* writes, and names spelt with underscores, while files have hyphens.
PrimaryMetrics ==
    ({<<"wrk">>} \X {"throughput_boxplot", "throughput_errorbar",
                     "latency_boxplot", "transfer_boxplot"})
      \cup ({<<"vegeta">>} \X {"latency_boxplot", "latency_histogram",
                               "latency_percentiles"})

-----------------------------------------------------------------------------
(***************************************************************************)
(* State.  by and round say which execution or analysis wrote a file; 0 is *)
(* none.                                                                   *)
(***************************************************************************)
Contents == {"none", "cut", "full"}

RunDir == [made: BOOLEAN,          \* the run directory exists
           out: Contents,          \* wrk.txt or vegeta.json
           by: 0 .. MaxExecutions, \* the execution that wrote it
           hist: BOOLEAN,          \* histogram.txt has lines
           rows: BOOLEAN]          \* pidstat.txt has rows

Parsed == [state: Contents, round: 0 .. MaxRounds, out: Contents,
           by: 0 .. MaxExecutions, rows: BOOLEAN]

Sample == (1 .. MaxIterations) \X (1 .. MaxExecutions)

\* What summary.json says of a tool: a section, and the samples behind it.
Section == [shown: BOOLEAN, samples: SUBSET Sample]

NoSection == [shown |-> FALSE, samples |-> {}]
NoContent == [meta |-> 0, sections |-> [t \in Tools |-> NoSection], plots |-> {}]

Content == [meta: 0 .. MaxExecutions, sections: [Tools -> Section],
            plots: SUBSET PlotFiles]

Phases == {"idle", "collect", "measure", "load", "analyze", "parse", "drawWrk",
           "drawVegeta", "drawSystem", "save", "report"}

\* The types of the scripts and of the files of the dataset.
PipelineTypeOK ==
    /\ script \in {"none", "benchmark", "analyze", "report"}
    /\ phase \in Phases
    /\ exit \in {"none", "ok", "killed", "exception"}
    /\ todo \subseteq Dirs
    /\ exec \in 0 .. MaxExecutions /\ round \in 0 .. MaxRounds
    /\ iterations \in 0 .. MaxIterations /\ tools \subseteq Tools
    /\ draft.meta \in 0 .. MaxExecutions
    /\ \A t \in Tools : draft.sections[t].samples \subseteq Sample
    /\ metadata \in [state: Contents, by: 0 .. MaxExecutions]
    /\ raw \in [Dirs -> RunDir] /\ parsed \in [Dirs -> Parsed]
    /\ plots \in [PlotFiles -> 0 .. MaxRounds]
    /\ summary.state \in Contents /\ report.state \in Contents
    /\ touched \in BOOLEAN

PipelineInit ==
    /\ script = "none" /\ phase = "idle" /\ exit = "none" /\ todo = {}
    /\ exec = 0 /\ iterations = 0 /\ tools = {} /\ round = 0
    /\ draft = NoContent
    /\ metadata = [state |-> "none", by |-> 0]
    /\ raw = [d \in Dirs |-> [made |-> FALSE, out |-> "none", by |-> 0,
                              hist |-> FALSE, rows |-> FALSE]]
    /\ parsed = [d \in Dirs |-> [state |-> "none", round |-> 0, out |-> "none",
                                 by |-> 0, rows |-> FALSE]]
    /\ plots = [f \in PlotFiles |-> 0]
    /\ summary = [state |-> "none", round |-> 0, content |-> NoContent]
    /\ report = [state |-> "none", content |-> NoContent]
    /\ published = NoContent /\ touched = TRUE

\* The next directory: run by run, the tool called lead before the other.
Next1(d, lead) ==
    /\ d \in todo
    /\ \A e \in todo \ {d} : IF e[1] = d[1] THEN d[2] < e[2] ELSE d[1] = lead

\* The process ends, and with it what it had in memory.
Ends(how) ==
    phase' = "idle" /\ exit' = how /\ todo' = {} /\ draft' = NoContent

-----------------------------------------------------------------------------
(***************************************************************************)
(* benchmark.sh.  The scenario of an id may change between executions.     *)
(***************************************************************************)
StartBenchmark ==
    /\ phase = "idle" /\ exec < MaxExecutions /\ round < MaxRounds
    /\ script' = "benchmark" /\ phase' = "collect" /\ exit' = "none"
    /\ exec' = exec + 1
    /\ \E s \in Scenarios : iterations' = s.iterations /\ tools' = s.tools
    /\ UNCHANGED <<todo, round, draft, fileVars, histVars>>

\* Fault: the loop over the iterations starts at 0.
CollectFromZero ==
    /\ phase = "collect"
    /\ metadata' = [state |-> "full", by |-> exec]
    /\ todo' = tools \X (0 .. iterations)
    /\ phase' = IF todo' = {} THEN "analyze" ELSE "measure"
    /\ touched' = TRUE
    /\ UNCHANGED <<script, exit, exec, iterations, tools, round, draft, raw,
                   parsed, plots, summary, report, published>>

\* collect.sh
Collect ==
    /\ phase = "collect"
    /\ metadata' = [state |-> "full", by |-> exec]
    /\ todo' = tools \X (1 .. iterations)
    /\ phase' = IF todo' = {} THEN "analyze" ELSE "measure"
    /\ touched' = TRUE
    /\ UNCHANGED <<script, exit, exec, iterations, tools, round, draft, raw,
                   parsed, plots, summary, report, published>>

\* mkdir -p of the run directory; monitor.sh truncates its files.
StartMonitors(d) ==
    /\ phase = "measure" /\ Next1(d, "wrk") /\ phase' = "load"
    /\ raw' = [raw EXCEPT ![d].made = TRUE, ![d].rows = FALSE]
    /\ UNCHANGED <<script, exit, todo, exec, iterations, tools, round, draft,
                   metadata, parsed, plots, summary, report, histVars>>

\* The tool and its reports succeed, then monitor.sh stop.  wrk exits with 0
\* also when it prints figures the parser does not recognise.
RunTool(d) ==
    /\ phase = "load" /\ Next1(d, "wrk")
    /\ \E out \in (IF d[1] = "wrk" THEN {"cut", "full"} ELSE {"full"}) :
         raw' = [raw EXCEPT ![d].out = out, ![d].by = exec,
                            ![d].hist = (d[1] = "vegeta"), ![d].rows = TRUE]
    /\ todo' = todo \ {d}
    /\ phase' = IF todo' = {} THEN "analyze" ELSE "measure"
    /\ UNCHANGED <<script, exit, exec, iterations, tools, round, draft,
                   metadata, parsed, plots, summary, report, histVars>>

\* A tool fails, or the script is killed before monitor.sh stop has ended: the
\* output is still the one that was there, is cut, or is complete.  vegeta.json
\* is complete before histogram.txt has a line.
ToolFails(d) ==
    /\ phase = "load" /\ Next1(d, "wrk") /\ Ends("killed")
    /\ \E rows \in BOOLEAN :
         \/ raw' = [raw EXCEPT ![d].rows = rows]
         \/ raw' = [raw EXCEPT ![d].out = "cut", ![d].by = exec, ![d].rows = rows]
         \/ \E hist \in {FALSE, d[1] = "vegeta"} :
              raw' = [raw EXCEPT ![d].out = "full", ![d].by = exec,
                                 ![d].hist = hist, ![d].rows = rows]
    /\ UNCHANGED <<script, exec, iterations, tools, round,
                   metadata, parsed, plots, summary, report, histVars>>

-----------------------------------------------------------------------------
(***************************************************************************)
(* analyze.py, started by benchmark.sh or by hand through analyze.sh.      *)
(***************************************************************************)
BeginAnalysis ==
    /\ phase' = "parse" /\ round' = round + 1 /\ exit' = "none"
    /\ todo' = {d \in Dirs : raw[d].made}
    /\ UNCHANGED <<exec, iterations, tools, draft, fileVars, histVars>>

AnalyzeBenchmark == phase = "analyze" /\ BeginAnalysis /\ UNCHANGED script

AnalyzeByHand ==
    /\ phase = "idle" /\ exec > 0 /\ round < MaxRounds
    /\ BeginAnalysis /\ script' = "analyze"

\* parser.py raises: json of a cut vegeta.json, or the header of vmstat.
ParserRaises(d) ==
    (d[1] = "vegeta" /\ raw[d].out = "cut") \/ ParseVmstat.raises

\* parse_runs, one subprocess per run directory.
ParseRun(d) ==
    /\ phase = "parse" /\ Next1(d, "vegeta") /\ ~ParserRaises(d)
    /\ parsed' = [parsed EXCEPT ![d] =
                    [state |-> "full", round |-> round, out |-> raw[d].out,
                     by |-> raw[d].by, rows |-> raw[d].rows]]
    /\ todo' = todo \ {d}
    /\ UNCHANGED <<script, phase, exit, exec, iterations, tools, round, draft,
                   metadata, raw, plots, summary, report, histVars>>

\* Fault: subprocess.run without check: the old parsed.json is used.
ParseIgnored(d) ==
    /\ phase = "parse" /\ Next1(d, "vegeta") /\ ParserRaises(d)
    /\ todo' = todo \ {d}
    /\ UNCHANGED <<script, phase, exit, exec, iterations, tools, round, draft,
                   fileVars, histVars>>

\* check=True: the parser's exception ends the analysis.
ParseAborts(d) ==
    /\ phase = "parse" /\ Next1(d, "vegeta") /\ ParserRaises(d)
    /\ Ends("exception")
    /\ UNCHANGED <<script, exec, iterations, tools, round,
                   fileVars, histVars>>

\* The runs metrics.py calls valid: parsed.json has the tool's key.
ValidRuns(t) == {d \in Dirs : d[1] = t /\ parsed[d].state = "full"
                             /\ parsed[d].out # "none"}

KeysOf(d) == IF d[1] = "wrk" THEN ParseWrk(parsed[d].out) ELSE ParseVegeta

Summarized(t) == IF t = "wrk" THEN SummarizeWrk ELSE SummarizeVegeta

\* json.load of a truncated file raises, and so does a missing figure.
SummaryRaises ==
    \/ metadata.state # "full"
    \/ \E d \in Dirs : parsed[d].state = "cut"
    \/ \E t \in Tools, d \in Dirs : d \in ValidRuns(t) /\ ~(Summarized(t) \subseteq KeysOf(d))

\* A tool is summarised as soon as it has a parsed run, valid or not.
SectionOf(t) ==
    [shown   |-> \E d \in Dirs : d[1] = t /\ parsed[d].state # "none",
     samples |-> {<<d[2], parsed[d].by>> : d \in ValidRuns(t)}]

\* Fault: the summary is stamped with the analysis, not with the metadata.
BuildSummaryStamped ==
    /\ phase = "parse" /\ todo = {} /\ ~SummaryRaises
    /\ phase' = "drawWrk"
    /\ draft' = [meta |-> round, plots |-> {},
                 sections |-> [t \in Tools |-> SectionOf(t)]]
    /\ UNCHANGED <<script, exit, todo, exec, iterations, tools, round,
                   fileVars, histVars>>

BuildSummary ==
    /\ phase = "parse" /\ todo = {} /\ ~SummaryRaises
    /\ phase' = "drawWrk"
    /\ draft' = [meta |-> metadata.by, plots |-> {},
                 sections |-> [t \in Tools |-> SectionOf(t)]]
    /\ UNCHANGED <<script, exit, todo, exec, iterations, tools, round,
                   fileVars, histVars>>

BuildAborts ==
    /\ phase = "parse" /\ todo = {} /\ SummaryRaises
    /\ Ends("exception")
    /\ UNCHANGED <<script, exec, iterations, tools, round,
                   fileVars, histVars>>

\* Fault: a figure that exists is not drawn again.
DrawOnce(files) ==
    plots' = [f \in PlotFiles |-> IF f \in files /\ plots[f] = 0 THEN round ELSE plots[f]]

\* The figures are written; those drawn before stay.
Draw(files) == plots' = [f \in PlotFiles |-> IF f \in files THEN round ELSE plots[f]]

\* The script goes on, or a figure asked for a key that is not there.
Proceed(next, found) ==
    /\ phase' = IF found THEN next ELSE "idle"
    /\ exit' = IF found THEN exit ELSE "exception"
    /\ draft' = IF found THEN draft ELSE NoContent
    /\ UNCHANGED <<script, todo, exec, iterations, tools, round, metadata, raw,
                   parsed, summary, report, histVars>>

\* wrk_plots.generate: the box plots need a run, the error bar does not.
WrkDue ==
    IF draft.sections["wrk"].shown
    THEN Named(WrkErrorbar)
           \cup (IF ValidRuns("wrk") # {} THEN Named(WrkBoxplots) ELSE {})
    ELSE {}

DrawWrk ==
    /\ phase = "drawWrk" /\ Draw(WrkDue)
    /\ Proceed("drawVegeta", Keys(WrkBoxplots \cup WrkErrorbar) \subseteq SummarizeWrk)

\* latency_histogram reads histogram.txt of every run directory.
HistogramDue == \E d \in Dirs : d[1] = "vegeta" /\ raw[d].made /\ raw[d].hist

VegetaDue ==
    IF draft.sections["vegeta"].shown
    THEN Named(VegetaPercentiles)
           \cup (IF ValidRuns("vegeta") # {} THEN Named(VegetaBoxplot) ELSE {})
           \cup (IF HistogramDue THEN {VegetaHistogram} ELSE {})
    ELSE {}

DrawVegeta ==
    /\ phase = "drawVegeta" /\ Draw(VegetaDue)
    /\ Proceed("drawSystem",
               Keys(VegetaBoxplot \cup VegetaPercentiles) \subseteq SummarizeVegeta)

\* _generate_for_tool: a series needs a run that has a row.
SystemDue(t) ==
    LET rows == \E d \in Dirs : d[1] = t /\ parsed[d].state = "full" /\ parsed[d].rows
    IN  (IF rows THEN Named(CpuPlots(t) \cup MemoryPlots(t)) ELSE {})
          \cup (IF ParseVmstat.rows
                THEN Named(SchedulerPlots(t) \cup CpuTimePlots(t) \cup DiskPlots(t))
                ELSE {})

DrawSystem ==
    /\ phase = "drawSystem" /\ Draw(UNION {SystemDue(t) : t \in Tools})
    /\ Proceed("save", UNION {Keys(SystemPlots(t)) : t \in Tools}
                         \subseteq ParsePidstat \cup ParseVmstat.columns)

\* collect_plot_paths: every png under plots/, whoever drew it.
CollectPlotPaths == {f \in PlotFiles : plots[f] > 0}

SaveSummary ==
    /\ phase = "save" /\ phase' = "report"
    /\ summary' = [state |-> "full", round |-> round,
                   content |-> [draft EXCEPT !.plots = CollectPlotPaths]]
    /\ UNCHANGED <<script, exit, todo, exec, iterations, tools, round, draft,
                   metadata, raw, parsed, plots, report, histVars>>

-----------------------------------------------------------------------------
(***************************************************************************)
(* report_generator.py, after analyze.py or on its own.                    *)
(***************************************************************************)
ReportByHand ==
    /\ phase = "idle" /\ exec > 0 /\ script # "report"
    /\ script' = "report" /\ phase' = "report" /\ exit' = "none"
    /\ UNCHANGED <<todo, exec, iterations, tools, round, draft, fileVars, histVars>>

\* A primary plot that is found would be written with md.bold, which the
\* Markdown class does not have.
Embedded == summary.content.plots \cap PrimaryMetrics

TablesMissing(t) ==
    /\ summary.content.sections[t].shown
    /\ ~((IF t = "wrk" THEN WrkTables ELSE VegetaTables) \subseteq Summarized(t))

ReportRaises ==
    \/ summary.state # "full"
    \/ ~(ReportFields \subseteq SummaryFields)
    \/ ~(StatisticsTable \subseteq Summarize)
    \/ \E t \in Tools : TablesMissing(t)
    \/ Embedded # {}

\* The tables, the supporting plots and the index of all plots.
WriteReport ==
    /\ phase = "report" /\ ~ReportRaises /\ Ends("ok")
    /\ report' = [state |-> "full", content |-> summary.content]
    /\ IF script = "report" THEN UNCHANGED histVars
       ELSE published' = summary.content /\ touched' = FALSE
    /\ UNCHANGED <<script, exec, iterations, tools, round,
                   metadata, raw, parsed, plots, summary>>

ReportAborts ==
    /\ phase = "report" /\ ReportRaises /\ Ends("exception")
    /\ UNCHANGED <<script, exec, iterations, tools, round,
                   fileVars, histVars>>

-----------------------------------------------------------------------------
(***************************************************************************)
(* The running script is interrupted between two writes, or while a file   *)
(* it has just truncated is being written.                                 *)
(***************************************************************************)
Interrupt ==
    /\ phase \notin {"idle", "load", "drawWrk", "drawVegeta", "drawSystem"}
    /\ Ends("killed")
    /\ UNCHANGED <<script, exec, iterations, tools, round,
                   fileVars, histVars>>

\* Of the figures that are due the first ones are drawn.
Due == CASE phase = "drawWrk"    -> WrkDue
         [] phase = "drawVegeta" -> VegetaDue
         [] phase = "drawSystem" -> UNION {SystemDue(t) : t \in Tools}

DrawnFirst(n) == Due \cap UNION {DrawOrder[i] : i \in 1 .. n}

InterruptDraw ==
    /\ phase \in {"drawWrk", "drawVegeta", "drawSystem"} /\ Ends("killed")
    /\ \E n \in {0} \cup DOMAIN DrawOrder : Draw(DrawnFirst(n))
    /\ UNCHANGED <<script, exec, iterations, tools, round, metadata, raw, parsed,
                   summary, report, histVars>>

InterruptWrite ==
    /\ Ends("killed")
    /\ \/ /\ phase = "collect" /\ touched' = TRUE
          /\ metadata' = [state |-> "cut", by |-> exec]
          /\ UNCHANGED <<parsed, summary, report>>
       \/ /\ phase = "parse"
          /\ \E d \in todo : /\ Next1(d, "vegeta") /\ ~ParserRaises(d)
                            /\ parsed' = [parsed EXCEPT ![d].state = "cut"]
          /\ UNCHANGED <<metadata, summary, report, touched>>
       \/ /\ phase = "save" /\ summary' = [summary EXCEPT !.state = "cut"]
          /\ UNCHANGED <<metadata, parsed, report, touched>>
       \/ /\ phase = "report" /\ ~ReportRaises
          /\ report' = [report EXCEPT !.state = "cut"]
          /\ UNCHANGED <<metadata, parsed, summary, touched>>
    /\ UNCHANGED <<script, exec, iterations, tools, round, raw,
                   plots, published>>

Measure(d) == StartMonitors(d) \/ RunTool(d) \/ ToolFails(d)
Parse(d)   == ParseRun(d) \/ ParseAborts(d)

PipelineNext ==
    \/ StartBenchmark \/ Collect
    \/ \E d \in Dirs : Measure(d) \/ Parse(d)
    \/ AnalyzeBenchmark \/ AnalyzeByHand
    \/ BuildSummary \/ BuildAborts
    \/ DrawWrk \/ DrawVegeta \/ DrawSystem \/ SaveSummary
    \/ ReportByHand \/ WriteReport \/ ReportAborts
    \/ Interrupt \/ InterruptDraw \/ InterruptWrite

PipelineSpec == PipelineInit /\ [][PipelineNext]_vars

-----------------------------------------------------------------------------
(***************************************************************************)
(* Properties.                                                             *)
(***************************************************************************)
\* A script that analysed the dataset has just ended with exit code 0.
Analysed == phase = "idle" /\ exit = "ok" /\ script \in {"benchmark", "analyze"}

\* Success means that summary and report tell what is on disk: they are of
\* this analysis, and the samples of each tool are exactly the outputs in
\* raw/, of the execution that wrote them.  A parsed.json or summary.json
\* that an earlier script left, whole or cut, is never used.  After
\* benchmark.sh every iteration it ran is among the samples.
ReportMatchesDataset ==
    Analysed =>
        /\ summary.state = "full" /\ summary.round = round
        /\ report = [state |-> "full", content |-> summary.content]
        /\ summary.content.meta = metadata.by
        /\ \A t \in Tools :
             summary.content.sections[t].samples =
               {<<d[2], raw[d].by>> : d \in {e \in Dirs : e[1] = t /\ raw[e].out # "none"}}
        /\ script = "benchmark" =>
             \A t \in tools, r \in 1 .. iterations :
                 <<r, exec>> \in summary.content.sections[t].samples

\* Nothing in raw/ is left to draw the figure f of tool t from: an interrupted
\* execution emptied histogram.txt, or pidstat.txt, of every run.
SourceGone(f, t) ==
    \/ /\ f = VegetaHistogram
       /\ \A d \in Dirs : d[1] = t => ~raw[d].hist
    \/ /\ f \in Named(CpuPlots(t) \cup MemoryPlots(t))
       /\ \A d \in Dirs : d[1] = t => ~raw[d].rows

\* Every plot that a successful analysis lists was drawn by it and so shows the
\* samples of its tables, although no script removes the plots of an earlier
\* one.  The exception is a plot whose source is gone, and after benchmark.sh
\* there is none for the tools that it ran.
PlotsCurrent ==
    Analysed =>
        \A t \in Tools : \A f \in FilesOf(t) \cap summary.content.plots :
            \/ plots[f] = round
            \/ SourceGone(f, t) /\ ~(script = "benchmark" /\ t \in tools)

\* A script raises only over what an interrupted or failed script, or a tool
\* that printed an unknown unit, left cut or did not write.
AbortHasCause ==
    exit = "exception" =>
        \/ \E d \in Dirs : raw[d].out = "cut"
        \/ metadata.state # "full"
        \/ script = "report" /\ summary.state # "full"

\* Analysing a dataset again, its raw data untouched, reproduces the summary
\* that was published, whatever was interrupted in between.
Reproducible ==
    [][published' # published => touched]_vars

\* A benchmark reports its own execution only.
OwnSamplesOnly ==
    Analysed /\ script = "benchmark" =>
        \A t \in Tools : summary.content.sections[t].samples \subseteq
                           (1 .. iterations) \X {exec}
=============================================================================
