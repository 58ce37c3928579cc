------------------------------ MODULE HotCold ------------------------------
(***************************************************************************)
(* The decisions Prequal takes on a collection of probe observations, as   *)
(* pure operators: the RIF quantile, the hot/cold split, the entry a       *)
(* request is routed by, the entry a full pool evicts, and the reuse       *)
(* budget of a new entry.                                                  *)
(*                                                                         *)
(* An operator takes the SET S of entries it looks at and the function h   *)
(* that gives each of them its record.  The code keeps a slice and, on a   *)
(* tie, the earliest entry wins; these operators return the set of all the *)
(* entries that tie, and whoever uses them picks any one.  Module          *)
(* PoolSlice checks the code's loops, written over sequences, against      *)
(* them.                                                                   *)
(***************************************************************************)
EXTENDS Integers, FiniteSets

CONSTANTS QRIF,        \* Config.QRIF, in percent
          ProbeRate,   \* Config.ProbeRatePerQuery, in percent
          RemoveRate,  \* Config.ProbeRemoveRate, in percent
          DriftRate,   \* Config.DriftRate, in percent
          MaxSize      \* Config.ProbePoolSize, and maxSize of the pool

\* applyDefaults clamps QRIF to [0, 1] and NewProbePool replaces a size <= 0.
ASSUME QRIFAssumption == QRIF \in 0 .. 100
ASSUME RatesAssumption == /\ ProbeRate \in Nat
                          /\ RemoveRate \in Nat
                          /\ DriftRate \in Nat
ASSUME MaxSizeAssumption == MaxSize \in Nat \ {0}

-----------------------------------------------------------------------------

\* The index rifQuantile reads in the sorted slice of n values: n - 1 scaled by
\* q and truncated; q <= 0 gives the first, q >= 1 the last.
QuantileIndex(n) == ((n - 1) * QRIF) \div 100

\* The value at that index: some of the values are below it or equal to it, and
\* exactly the first QuantileIndex of them may precede it.
RifQuantile(S, h) ==
    IF S = {} THEN 0
    ELSE CHOOSE v \in {h[i].rif : i \in S} :
            LET k == QuantileIndex(Cardinality(S))
            IN  /\ Cardinality({i \in S : h[i].rif < v}) <= k
                /\ k < Cardinality({i \in S : h[i].rif <= v})

Hot(S, h, threshold)  == {i \in S : h[i].rif > threshold}
Cold(S, h, threshold) == {i \in S : h[i].rif <= threshold}

Fastest(S, h)  == {i \in S : \A j \in S : h[i].lat <= h[j].lat}
Slowest(S, h)  == {i \in S : \A j \in S : h[i].lat >= h[j].lat}
Calmest(S, h)  == {i \in S : \A j \in S : h[i].rif <= h[j].rif}
Busiest(S, h)  == {i \in S : \A j \in S : h[i].rif >= h[j].rif}
Oldest(S, h)   == {i \in S : \A j \in S : h[i].age >= h[j].age}

\* The hot-cold lexicographic rule.  The threshold comes from every fresh entry,
\* the choice from those whose server was seen healthy.
HCL(S, h, threshold) ==
    IF Cold(S, h, threshold) # {}
    THEN Fastest(Cold(S, h, threshold), h)
    ELSE Calmest(Hot(S, h, threshold), h)

\* The entry RemoveWorst drops: the hottest hot one, else the slowest cold one.
Worst(S, h, threshold) ==
    IF Hot(S, h, threshold) # {}
    THEN Busiest(Hot(S, h, threshold), h)
    ELSE Slowest(S, h)

-----------------------------------------------------------------------------

\* computeBreuse with n servers.  The quotient (1 + drift) / ((1 - m/n) * rprobe
\* - rremove) is multiplied through by 100 * n so that it stays in the integers.
Denominator(n) == (n - MaxSize) * ProbeRate - n * RemoveRate

Breuse(n) ==
    IF n = 0 THEN 1
    ELSE IF Denominator(n) <= 0 THEN (MaxSize \div n) + 1
    ELSE IF (100 + DriftRate) * n < Denominator(n) THEN 1
    ELSE ((100 + DriftRate) * n) \div Denominator(n)
=============================================================================
