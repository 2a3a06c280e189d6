----------------------------- MODULE Statistics -----------------------------
(***************************************************************************)
(* The arithmetic of the benchmark analysis (docs/benchmarking/analysis):  *)
(* metrics.py, the unit conversions of parser.py, the time series of       *)
(* system_plots.py and the histogram of vegeta_plots.py.                   *)
(*                                                                         *)
(* Samples are naturals.  A computed number is an exact fraction           *)
(* <<numerator, denominator>> with a positive denominator; the rounding    *)
(* of Python's floats is left out, and so is the square root of the        *)
(* standard deviation: StdDev is its square.                               *)
(***************************************************************************)
EXTENDS Integers, Sequences, FiniteSets, SequencesExt

CONSTANTS
    MaxSample,     \* largest sample of the bounded inputs
    MaxRuns,       \* most runs of which one figure is read
    MaxFiles,      \* most runs of which a series or a histogram is read
    MaxTicks       \* longest series of one run

ASSUME StatisticsBounds ==
    MaxSample \in Nat /\ {MaxRuns, MaxFiles, MaxTicks} \subseteq Nat \ {0}

VARIABLES
    kind,          \* what is read from each run directory
    runs           \* what was read so far

statVars == <<kind, runs>>

Zero == <<0, 1>>
Whole(n) == <<n, 1>>
Leq(a, b) == a[1] * b[2] <= b[1] * a[2]
Same(a, b) == Leq(a, b) /\ Leq(b, a)

\* The samples in order: the i-th is the least that i samples do not exceed.
AtMost(values, v) == Cardinality({j \in DOMAIN values : values[j] <= v})

Sorted(values) ==
    [i \in 1 .. Len(values) |-> Min({v \in Range(values) : i <= AtMost(values, v)})]

-----------------------------------------------------------------------------
(***************************************************************************)
(* metrics.py.  Every statistic of no samples is 0.                        *)
(***************************************************************************)
Mean(values) ==
    IF values = <<>> THEN Zero ELSE <<SumFunction(values), Len(values)>>

\* statistics.median: the middle sample, or the mean of the middle two.
Median(values) ==
    LET s == Sorted(values)
        n == Len(values)
    IN  IF n = 0 THEN Zero
        ELSE IF n % 2 = 1 THEN Whole(s[(n + 1) \div 2])
        ELSE <<s[n \div 2] + s[n \div 2 + 1], 2>>

Minimum(values) == IF values = <<>> THEN Zero ELSE Whole(Min(Range(values)))

Maximum(values) == IF values = <<>> THEN Zero ELSE Whole(Max(Range(values)))

\* The square of statistics.stdev, the deviation of a sample.
StdDev(values) ==
    LET n == Len(values)
        squares == SumFunction([i \in 1 .. n |-> values[i] * values[i]])
        total == SumFunction(values)
    IN  IF n < 2 THEN Zero ELSE <<n * squares - total * total, n * (n - 1)>>

\* The square of the coefficient of variation, in percent.
CoefficientOfVariation(values) ==
    LET avg == Mean(values)
        dev == StdDev(values)
    IN  IF avg[1] = 0 THEN Zero
        ELSE <<10000 * dev[1] * avg[2] * avg[2], dev[2] * avg[1] * avg[1]>>

\* Fault: the rank is taken among n samples instead of n - 1 intervals.
PercentileOfCount(values, p) ==
    LET s == Sorted(values)
        rank == Len(s) * p
        lower == Min({rank \div 100, Len(s) - 1})
        upper == Min({lower + 1, Len(s) - 1})
        weight == rank % 100
    IN  IF s = <<>> THEN Zero
        ELSE <<s[lower + 1] * (100 - weight) + s[upper + 1] * weight, 100>>

\* Linear interpolation; rank and weight are in hundredths.
Percentile(values, p) ==
    LET s == Sorted(values)
        rank == (Len(s) - 1) * p
        lower == rank \div 100
        upper == Min({lower + 1, Len(s) - 1})
        weight == rank % 100
    IN  IF s = <<>> THEN Zero
        ELSE IF Len(s) = 1 THEN Whole(s[1])
        ELSE <<s[lower + 1] * (100 - weight) + s[upper + 1] * weight, 100>>

Summarize(values) ==
    [count |-> Len(values), mean |-> Mean(values), median |-> Median(values),
     min |-> Minimum(values), max |-> Maximum(values), stddev |-> StdDev(values),
     coefficient_of_variation |-> CoefficientOfVariation(values),
     p50 |-> Percentile(values, 50), p90 |-> Percentile(values, 90),
     p95 |-> Percentile(values, 95), p99 |-> Percentile(values, 99)]

-----------------------------------------------------------------------------
(***************************************************************************)
(* parser.py: wrk chooses the unit of each figure it prints.               *)
(***************************************************************************)
LatencyMs(value, unit) ==
    CASE unit = "us" -> <<value, 1000>>
      [] unit = "ms" -> <<value, 1>>
      [] unit = "s"  -> <<value * 1000, 1>>

TransferMb(value, unit) ==
    CASE unit = "KB" -> <<value, 1024>>
      [] unit = "MB" -> <<value, 1>>
      [] unit = "GB" -> <<value * 1024, 1>>

-----------------------------------------------------------------------------
(***************************************************************************)
(* system_plots.py: one series per run, a run that has no sample left out. *)
(***************************************************************************)
\* A shorter run is held at its last value.
Pad(series, length) ==
    IF series = <<>> THEN [i \in 1 .. length |-> 0]
    ELSE [i \in 1 .. length |-> series[Min({i, Len(series)})]]

\* Fault: runs without a sample are kept, and padded with zeros.
SeriesWithEmpty(list) == list

Series(list) == RestrictValues(list, LAMBDA samples : samples # <<>>)

\* Mean, minimum and maximum over the runs, tick by tick.
Aggregate(list) ==
    LET length == Max({Len(list[r]) : r \in DOMAIN list})
        At(i) == [r \in DOMAIN list |-> Pad(list[r], length)[i]]
        count == Cardinality(DOMAIN list)
    IN  IF DOMAIN list = {} THEN [mean |-> <<>>, min |-> <<>>, max |-> <<>>]
        ELSE [mean |-> [i \in 1 .. length |-> <<SumFunction(At(i)), count>>],
              min  |-> [i \in 1 .. length |-> Min(Range(At(i)))],
              max  |-> [i \in 1 .. length |-> Max(Range(At(i)))]]

\* What _plot_band marks: the first tick of the highest and lowest mean.
Peak(mean) == Min({i \in DOMAIN mean : \A j \in DOMAIN mean : Leq(mean[j], mean[i])})
Low(mean)  == Min({i \in DOMAIN mean : \A j \in DOMAIN mean : Leq(mean[i], mean[j])})

\* The box plot of every sample of every run, with what it annotates.
Distribution(list) == Summarize(FlattenSeq(list))

-----------------------------------------------------------------------------
(***************************************************************************)
(* vegeta_plots.py: histogram.txt, a sequence of <<bucket, count>> lines.  *)
(* The header, and a line that is cut short or whose count is no integer,  *)
(* are Skipped: their bucket is "", and the second kind stood for requests.*)
(***************************************************************************)
Buckets == {"0-2ms", "2-4ms"}
Skipped(line) == line[1] = ""

LoadHistogram(lines) == RestrictValues(lines, LAMBDA line : ~Skipped(line))

\* The lines that count, each by its run and its place.
Entries(files) ==
    UNION {{r} \X DOMAIN LoadHistogram(files[r]) : r \in DOMAIN files}

BucketOf(files, e) == files[e[1]][e[2]][1]
CountOf(files, e)  == files[e[1]][e[2]][2]

\* Fault: the last line's count replaces the sum.
LatencyHistogramLast(files) ==
    [b \in {BucketOf(files, e) : e \in Entries(files)} |->
       CountOf(files, CHOOSE e \in Entries(files) :
         /\ BucketOf(files, e) = b
         /\ \A d \in Entries(files) : BucketOf(files, d) = b =>
              d[1] < e[1] \/ (d[1] = e[1] /\ d[2] <= e[2]))]

LatencyHistogram(files) ==
    LET count == [e \in Entries(files) |-> CountOf(files, e)]
    IN  [b \in {BucketOf(files, e) : e \in Entries(files)} |->
           SumFunctionOnSet(count, {e \in Entries(files) : BucketOf(files, e) = b})]

-----------------------------------------------------------------------------
(***************************************************************************)
(* The runs of one dataset are read one by one, in the order of their      *)
(* directories: every finite input is reached.  kind says what the runs    *)
(* give: one figure of the load generator each, one monitored series each, *)
(* or one histogram each.                                                  *)
(***************************************************************************)
Inputs(k) ==
    CASE k = "figure"    -> 0 .. MaxSample
      [] k = "series"    -> BoundedSeq(0 .. MaxSample, MaxTicks)
      [] k = "histogram" -> BoundedSeq(({""} \X (0 .. 1)) \cup (Buckets \X (1 .. 2)), 2)

StatInit == kind \in {"figure", "series", "histogram"} /\ runs = <<>>

ReadRun ==
    /\ Len(runs) < (IF kind = "figure" THEN MaxRuns ELSE MaxFiles)
    /\ \E input \in Inputs(kind) : runs' = Append(runs, input)
    /\ UNCHANGED kind

StatSpec == StatInit /\ [][ReadRun]_statVars

-----------------------------------------------------------------------------
(***************************************************************************)
(* Properties.                                                             *)
(***************************************************************************)
\* The report prints both: the interpolated p50 of percentile() is the
\* median of statistics.median.
P50IsMedian ==
    kind = "figure" => Same(Summarize(runs).p50, Summarize(runs).median)

\* No percentile of the report lies outside the samples or below a lower
\* percentile, whatever the order in which the runs are read.
PercentilesOrdered ==
    kind = "figure" =>
        LET s == Summarize(runs)
        IN  /\ Leq(s.min, s.p50) /\ Leq(s.p50, s.p90) /\ Leq(s.p90, s.p95)
            /\ Leq(s.p95, s.p99) /\ Leq(s.p99, s.max)

\* The deviation agrees with the range: zero exactly when all runs agree,
\* and at most what samples between min and max can have.
SpreadMatchesRange ==
    kind = "figure" =>
        LET s == Summarize(runs)
            range == s.max[1] - s.min[1]
        IN  /\ (s.stddev[1] = 0) <=> (range = 0)
            /\ s.count > 1 =>
                 Leq(s.stddev, <<s.count * range * range, 4 * (s.count - 1)>>)
            /\ s.stddev[1] = 0 => s.coefficient_of_variation[1] = 0

UsPer(unit) == CASE unit = "us" -> 1 [] unit = "ms" -> 1000 [] unit = "s" -> 1000000
KbPer(unit) == CASE unit = "KB" -> 1 [] unit = "MB" -> 1024 [] unit = "GB" -> 1048576

\* Two runs whose figures wrk printed in different units compare as the
\* durations and rates that were measured.
UnitsComparable ==
    kind = "figure" =>
        \A i, j \in DOMAIN runs :
            /\ \A a, b \in {"us", "ms", "s"} :
                 Leq(LatencyMs(runs[i], a), LatencyMs(runs[j], b))
                   <=> (runs[i] * UsPer(a) <= runs[j] * UsPer(b))
            /\ \A a, b \in {"KB", "MB", "GB"} :
                 Leq(TransferMb(runs[i], a), TransferMb(runs[j], b))
                   <=> (runs[i] * KbPer(a) <= runs[j] * KbPer(b))

\* The figures of a dataset are consistent: units, percentiles and spread.
FiguresConsistent ==
    P50IsMedian /\ PercentilesOrdered /\ SpreadMatchesRange /\ UnitsComparable

\* Padding invents nothing: the mean curve stays inside the envelope, its
\* marked peak and low stay inside the distribution of the same samples, and
\* the envelope reaches exactly that distribution's extremes.
BandWithinDistribution ==
    kind = "series" =>
        LET band == Aggregate(Series(runs))
            dist == Distribution(runs)
        IN  band.mean # <<>> =>
              /\ \A i \in DOMAIN band.mean :
                   /\ Leq(Whole(band.min[i]), band.mean[i])
                   /\ Leq(band.mean[i], Whole(band.max[i]))
              /\ Leq(dist.min, band.mean[Low(band.mean)])
              /\ Leq(band.mean[Peak(band.mean)], dist.max)
              /\ Same(dist.min, Whole(Min(Range(band.min))))
              /\ Same(dist.max, Whole(Max(Range(band.max))))

\* The requests of a line that the parser can read.
Counted(line) == IF Skipped(line) THEN 0 ELSE line[2]

\* The aggregate histogram counts every request of every run once; the
\* requests of a line that cannot be read are lost, and only those: such a
\* line costs neither the lines around it nor another run theirs.
HistogramKeepsRequests ==
    kind = "histogram" =>
        LET lines == FlattenSeq(runs)
        IN  SumFunction(LatencyHistogram(runs)) =
              SumFunction([i \in DOMAIN lines |-> Counted(lines[i])])
=============================================================================
