----------------------------- MODULE PhaseStats -----------------------------
(***************************************************************************)
(* What the experiment scripts compute from the CSV file of one phase, as  *)
(* pure operators.  Each of common.py, experiment1.py, experiment2.py and  *)
(* postprocess_deadline.py holds its own parser; they count responses      *)
(* alike and differ in the latencies they keep.                            *)
(*                                                                         *)
(* A line of the file is a record with the three columns that are read:    *)
(* lat (0, the latency), code (6, the status) and off (7, the second of    *)
(* the phase the request was sent in).  A column that is missing or is no  *)
(* number is NoNumber.                                                     *)
(***************************************************************************)
EXTENDS FiniteSetsExt, Bags, Sorting

CONSTANTS NoNumber,    \* what float() refuses, and None
          Quantiles,   \* the quantiles reported, per mille; 500, 900, 990, 999 in the code
          Deadline     \* --deadline-us of postprocess_deadline.py

ASSUME NoNumberAssumption == NoNumber \notin Int
ASSUME QuantilesAssumption == Quantiles \subseteq 1 .. 1000
ASSUME DeadlineAssumption == Deadline \in Nat

-----------------------------------------------------------------------------
(* Percentiles.                                                            *)

\* The position percentile() reads in a sorted list of n > 0 values: the ceiling
\* of q n, within the list.
Rank(q, n) == Min({Max({1, (q * n + 999) \div 1000}), n})

\* Mutant: the rank is truncated.
FlooredPercentile(sorted, q) ==
    IF sorted = <<>> THEN NoNumber
    ELSE sorted[Max({1, (q * Len(sorted)) \div 1000})]

Percentile(sorted, q) ==
    IF sorted = <<>> THEN NoNumber ELSE sorted[Rank(q, Len(sorted))]

-----------------------------------------------------------------------------
(* One line of the file.                                                   *)

Code(line) == IF line.code = NoNumber THEN 0 ELSE line.code
Offset(line) == IF line.off = NoNumber THEN 0 ELSE line.off
Success(line) == Code(line) \in 200 .. 299
BinIndex(line, binSeconds) == Max({0, Offset(line) \div binSeconds})

-----------------------------------------------------------------------------
(* What a parser has read so far: the whole phase, and its bins.           *)

EmptyTally == [lats |-> <<>>, total |-> 0, ok |-> 0, err |-> 0, dist |-> EmptyBag]

Nothing == [whole |-> EmptyTally, bins |-> [i \in {} |-> EmptyTally]]

\* A bin no line fell into is not in bins.
BinAt(acc, i) == IF i \in DOMAIN acc.bins THEN acc.bins[i] ELSE EmptyTally

\* Mutant: a line without a status is no error.
CountKnownStatus(tally, line, latencies) ==
    [lats  |-> tally.lats \o latencies,
     total |-> tally.total + 1,
     ok    |-> tally.ok + (IF Success(line) THEN 1 ELSE 0),
     err   |-> tally.err + (IF Success(line) \/ line.code = NoNumber THEN 0 ELSE 1),
     dist  |-> tally.dist (+) SetToBag({Code(line)})]

\* A line counts in total, in ok or err, and under its status; latencies are
\* those it adds.
Count(tally, line, latencies) ==
    [lats  |-> tally.lats \o latencies,
     total |-> tally.total + 1,
     ok    |-> tally.ok + (IF Success(line) THEN 1 ELSE 0),
     err   |-> tally.err + (IF Success(line) THEN 0 ELSE 1),
     dist  |-> tally.dist (+) SetToBag({Code(line)})]

\* A line without a latency, such as the header, is skipped.
Read(acc, line, binSeconds, latencies) ==
    IF line.lat = NoNumber THEN acc
    ELSE LET i == BinIndex(line, binSeconds)
         IN  [whole |-> Count(acc.whole, line, latencies),
              bins  |-> [j \in DOMAIN acc.bins \cup {i} |->
                            IF j = i THEN Count(BinAt(acc, i), line, latencies)
                                     ELSE acc.bins[j]]]

Line(tally) ==
    LET sorted == SortInts(tally.lats)
    IN  [pct   |-> [q \in Quantiles |-> Percentile(sorted, q)],
         total |-> tally.total, ok |-> tally.ok, err |-> tally.err, dist |-> tally.dist]

NumBins(duration, binSeconds) == (duration + binSeconds - 1) \div binSeconds

\* One row for each bin of the phase, whether or not anything fell into it, and
\* the summary, which is about every line.  row[1] is bin 0.
Report(acc, duration, binSeconds) ==
    [rows    |-> [b \in 1 .. NumBins(duration, binSeconds) |-> Line(BinAt(acc, b - 1))],
     summary |-> Line(acc.whole)]

-----------------------------------------------------------------------------
(* The parsers.                                                            *)

\* What the loop over the lines makes of a file; latencies[k] is what line k adds.
ReadFile(file, binSeconds, latencies) ==
    LET acc[k \in 0 .. Len(file)] ==
            IF k = 0 THEN Nothing
            ELSE Read(acc[k - 1], file[k], binSeconds, latencies[k])
    IN  acc[Len(file)]

\* common.py: the latencies of all responses.
ParsePhase(file, duration, binSeconds) ==
    Report(ReadFile(file, binSeconds, [k \in DOMAIN file |-> <<file[k].lat>>]),
           duration, binSeconds)

SuccessfulLatency(line) == IF Success(line) THEN <<line.lat>> ELSE <<>>

\* experiment1.py: "latency percentiles are computed from successful 2xx responses only".
ParsePhase2xx(file, duration, binSeconds) ==
    Report(ReadFile(file, binSeconds, [k \in DOMAIN file |-> SuccessfulLatency(file[k])]),
           duration, binSeconds)

\* experiment2.py: the same, written once more.
ParseProbePhase(file, duration, binSeconds) ==
    Report(ReadFile(file, binSeconds,
                    [k \in DOMAIN file |->
                        IF Success(file[k]) THEN <<file[k].lat>> ELSE <<>>]),
           duration, binSeconds)

\* Mutant: a failed response took as long as it took to fail.
FailureAsMeasured(line) == <<line.lat>>

\* postprocess_deadline.py: a failed response took as long as the deadline.
DeadlineLatency(line) == IF Success(line) THEN <<line.lat>> ELSE <<Deadline>>

BuildDeadlinePhase(file, duration, binSeconds) ==
    Report(ReadFile(file, binSeconds, [k \in DOMAIN file |-> DeadlineLatency(file[k])]),
           duration, binSeconds)

-----------------------------------------------------------------------------
(* Rolling averages of a series of rows, each with the fields phase, algo, *)
(* load and bin.  An operator gives the rows averaged into row i.          *)

\* The rows of a group whose place in it is within half of the place of i, when it
\* is sorted so that earlier[j] come before j.
Around(group, earlier, i, half) ==
    LET place == [j \in group |-> Cardinality(group \cap earlier[j])]
    IN  {j \in group : place[j] \in place[i] - half .. place[i] + half}

Half(window) == window \div 2

\* The rows of a phase, which stay in the order of the series.
PhaseGroup(series, i) == {j \in DOMAIN series : series[j].phase = series[i].phase}

ByIndex(series) == [j \in DOMAIN series |-> {k \in DOMAIN series : k < j}]

\* smooth_by_phase of experiment2.py.
SmoothByPhase(series, i, window) ==
    IF window <= 1 THEN {i}
    ELSE Around(PhaseGroup(series, i), ByIndex(series), i, Half(window))

\* smooth_rows of postprocess_deadline.py, which has dropped no row so far.
SmoothDeadlineRows(series, i, window) ==
    IF window <= 1 THEN {i}
    ELSE Around(PhaseGroup(series, i), ByIndex(series), i, Half(window))

\* smooth_rows of postprocess_smooth.py: timeseries.csv does not say which phase a
\* row is of, so rows are grouped by policy and load, and sorted by bin.
PhaseKey(row) == <<row.algo, row.load>>

\* Mutant: rows are grouped by the load alone.
LoadGroup(series, i) == {j \in DOMAIN series : series[j].load = series[i].load}

KeyGroup(series, i) == {j \in DOMAIN series : PhaseKey(series[j]) = PhaseKey(series[i])}

\* The sort leaves rows of one bin in their order.
ByBin(series) ==
    [j \in DOMAIN series |->
        {k \in DOMAIN series : \/ series[k].bin < series[j].bin
                               \/ series[k].bin = series[j].bin /\ k < j}]

SmoothRows(series, i, window) ==
    IF window <= 1 THEN {i}
    ELSE Around(KeyGroup(series, i), ByBin(series), i, Half(window))

-----------------------------------------------------------------------------
(* experiment1_scaling_plot.py: totals over the phases of one policy.      *)

\* The sum of the values at the places counted in.
Total(values, places) ==
    LET sum[k \in 0 .. Len(values)] ==
            IF k = 0 THEN 0
            ELSE IF k \in places THEN sum[k - 1] + values[k] ELSE sum[k - 1]
    IN  sum[Len(values)]

\* Mutant: the responses of a policy are those of its last phase.
AggregateLast(phases, algo) ==
    LET mine == {k \in DOMAIN phases : phases[k].algo = algo}
        last == phases[Max(mine)].summary
    IN  [total |-> last.total, ok |-> last.ok,
         err   |-> Total([k \in DOMAIN phases |-> phases[k].summary.err], mine)]

AggregateErrors(phases, algo) ==
    LET mine == {k \in DOMAIN phases : phases[k].algo = algo}
    IN  [total |-> Total([k \in DOMAIN phases |-> phases[k].summary.total], mine),
         ok    |-> Total([k \in DOMAIN phases |-> phases[k].summary.ok], mine),
         err   |-> Total([k \in DOMAIN phases |-> phases[k].summary.err], mine)]
=============================================================================
