---------------------------- MODULE PhaseReport ----------------------------
(***************************************************************************)
(* How the results of an experiment come about: hey writes the CSV file of *)
(* a phase line by line; when the phase is over, the experiment parses the *)
(* file and appends its rows to the time series and its summary to the     *)
(* list of phases; afterwards the post-processors work on the files.  They *)
(* change nothing the experiment wrote, so that what they compute is a     *)
(* function of the state: the deadline report of a phase from its file,    *)
(* the rolling averages from the series, the totals of a policy from the   *)
(* list of phases.                                                         *)
(*                                                                         *)
(* Every state with an unfinished file is also one in which hey was        *)
(* stopped there: the file is parsed as far as it goes.                    *)
(***************************************************************************)
EXTENDS PhaseStats

CONSTANTS FileLine,    \* the lines hey may write
          Plans,       \* sequences of phases: an algo and a load each
          Duration,    \* --step-seconds
          BinSeconds,  \* --bin-seconds
          Windows      \* --smooth-bins

\* What the parsers may read in a column: a number, or something else.
Column == Int \cup {NoNumber}

ASSUME LineAssumption == FileLine \subseteq [lat : Column, code : Column, off : Column]
ASSUME PlansAssumption ==
    \A p \in Plans : p \in Seq({[algo |-> p[n].algo, load |-> p[n].load] : n \in DOMAIN p})
ASSUME WindowsAssumption == Windows \subseteq Nat
ASSUME BinAssumption == Duration \in Nat /\ BinSeconds \in Nat \ {0}

VARIABLES plan,    \* the phases of this run: args.loads x order
          file,    \* the raw file of the phase that is running
          files,   \* the raw files of the phases that are over
          series,  \* timeseries.csv
          phases   \* phases.csv

reportVars == <<plan, file, files, series, phases>>

ReportInit ==
    /\ plan \in Plans
    /\ file = <<>> /\ files = <<>>
    /\ series = <<>> /\ phases = <<>>

-----------------------------------------------------------------------------

WriteLine(line) ==
    /\ Len(files) < Len(plan)
    /\ file' = Append(file, line)
    /\ UNCHANGED <<plan, files, series, phases>>

\* The rows of the phase that just ended, tagged with what timeseries.csv says of
\* them, and with the phase itself.
PhaseRows(report) ==
    LET n == Len(files) + 1
    IN  [b \in DOMAIN report.rows |->
            [phase |-> n, algo |-> plan[n].algo, load |-> plan[n].load,
             bin |-> b - 1, line |-> report.rows[b]]]

\* The phase is over: run_hey_csv returned, whatever its return code.
EndPhase ==
    /\ Len(files) < Len(plan)
    /\ LET n == Len(files) + 1
           report == ParsePhase2xx(file, Duration, BinSeconds)
       IN  /\ series' = series \o PhaseRows(report)
           /\ phases' = Append(phases, [phase |-> n, algo |-> plan[n].algo,
                                        load |-> plan[n].load,
                                        summary |-> report.summary])
    /\ files' = Append(files, file)
    /\ file' = <<>>
    /\ UNCHANGED plan

ReportNext == EndPhase \/ \E line \in FileLine : WriteLine(line)

ReportSpec == ReportInit /\ [][ReportNext]_reportVars

-----------------------------------------------------------------------------
(* The properties of the parsers are about the file that is being written: *)
(* as far as it goes, it is one they may have to read.                     *)

\* The lines that are responses; those of a bin, the successful ones of some, and
\* those sent when the phase should have been over.
Responses(f) == {k \in DOMAIN f : f[k].lat # NoNumber}
InBin(f, b) == {k \in Responses(f) : BinIndex(f[k], BinSeconds) = b}
Succeeded(f, R) == {k \in R : Success(f[k])}
Late(f) == {k \in Responses(f) :
               BinIndex(f[k], BinSeconds) >= NumBins(Duration, BinSeconds)}

Latencies(f) == [k \in DOMAIN f |-> f[k].lat]

\* v is the q-quantile of the latencies lat[k] of the lines k in R: the least of them
\* that a share q of them does not exceed.
IsQuantile(v, q, lat, R) ==
    IF R = {} THEN v = NoNumber
    ELSE /\ v \in {lat[k] : k \in R}
         /\ 1000 * Cardinality({k \in R : lat[k] <= v}) >= q * Cardinality(R)
         /\ 1000 * Cardinality({k \in R : lat[k] < v}) < q * Cardinality(R)

\* Every percentile experiment1.py and experiment2.py report of a phase, and of each of
\* its bins, is the quantile of the latencies of the successful responses in it.
PercentilesExact ==
    \A report \in {ParsePhase2xx(file, Duration, BinSeconds),
                   ParseProbePhase(file, Duration, BinSeconds)} :
        \A q \in Quantiles :
            /\ IsQuantile(report.summary.pct[q], q, Latencies(file),
                          Succeeded(file, Responses(file)))
            /\ \A b \in DOMAIN report.rows :
                  IsQuantile(report.rows[b].pct[q], q, Latencies(file),
                             Succeeded(file, InBin(file, b - 1)))

\* A line of a report counts the responses in R: what is not ok is an error, and the
\* status distribution, from which postprocess_deadline.py prints the number of errors,
\* has every response under its status.
CountsExactly(l, f, R) ==
    /\ l.total = Cardinality(R)
    /\ l.ok = Cardinality(Succeeded(f, R))
    /\ l.err = Cardinality(R \ Succeeded(f, R))
    /\ l.dist = [c \in {Code(f[k]) : k \in R} |-> Cardinality({k \in R : Code(f[k]) = c})]

\* Whichever program parses the file, no response is lost or counted twice.  The
\* summary counts every response, each row those of its bin, and all rows together
\* all responses but the late ones.
EveryResponseCounted ==
    \A report \in {ParsePhase(file, Duration, BinSeconds),
                   ParsePhase2xx(file, Duration, BinSeconds),
                   ParseProbePhase(file, Duration, BinSeconds),
                   BuildDeadlinePhase(file, Duration, BinSeconds)} :
        /\ CountsExactly(report.summary, file, Responses(file))
        /\ \A b \in DOMAIN report.rows : CountsExactly(report.rows[b], file, InBin(file, b - 1))
        /\ Total([b \in DOMAIN report.rows |-> report.rows[b].total], DOMAIN report.rows)
               + Cardinality(Late(file)) = report.summary.total

\* Mapping failures to the deadline never makes a phase look faster, as long as no
\* successful response took longer than the deadline.
DeadlineNeverFlatters ==
    (\A k \in Succeeded(file, Responses(file)) : file[k].lat <= Deadline) =>
        LET measured == ParsePhase2xx(file, Duration, BinSeconds).summary.pct
            mapped   == BuildDeadlinePhase(file, Duration, BinSeconds).summary.pct
        IN  \A q \in Quantiles :
                measured[q] # NoNumber =>
                    mapped[q] # NoNumber /\ mapped[q] >= measured[q]

\* The rows of the same phase that are no more bins away than half of the window.
Neighbours(i, window) ==
    {j \in DOMAIN series :
        /\ series[j].phase = series[i].phase
        /\ series[j].bin - series[i].bin \in -Half(window) .. Half(window)}

\* A rolling average takes a row and its neighbours of the same phase, and nothing
\* of the phase before or after; also in timeseries.csv, which does not say where
\* a phase ends, provided that no policy runs twice under the same load.
SmoothingStaysInPhase ==
    \A i \in DOMAIN series : \A window \in Windows :
        /\ SmoothByPhase(series, i, window) = Neighbours(i, window)
        /\ SmoothDeadlineRows(series, i, window) = Neighbours(i, window)
        /\ (\A m, n \in DOMAIN plan : plan[m] = plan[n] => m = n) =>
               SmoothRows(series, i, window) = Neighbours(i, window)

\* The totals of the policies are those of the phases, in whatever order the policies
\* are listed, and the overall error rate of a policy is no higher than that of its
\* worst phase and no lower than that of its best.
AggregateFaithful ==
    LET algos == {phases[k].algo : k \in DOMAIN phases}
        n     == Cardinality(algos)
    IN  /\ \A order \in Bijection(1 .. n, algos) :
              Total([m \in 1 .. n |-> AggregateErrors(phases, order[m]).total], 1 .. n)
                  = Total([k \in DOMAIN phases |-> phases[k].summary.total], DOMAIN phases)
        /\ \A a \in algos :
               LET sum  == AggregateErrors(phases, a)
                   mine == {k \in DOMAIN phases : phases[k].algo = a}
               IN  /\ \E k \in mine : sum.err * phases[k].summary.total
                                          <= phases[k].summary.err * sum.total
                   /\ \E k \in mine : sum.err * phases[k].summary.total
                                          >= phases[k].summary.err * sum.total
=============================================================================
