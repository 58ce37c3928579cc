--------------------------- MODULE LatencyBuckets ---------------------------
(***************************************************************************)
(* The latency estimate of a backend replica (latencyBuckets): recent      *)
(* latencies filed by the RIF a request met on arrival, and the median of  *)
(* the samples filed nearest to a given RIF.  Both methods hold the mutex  *)
(* throughout, so they are operators on the contents b of the buckets.     *)
(***************************************************************************)
EXTENDS Integers, Sequences, FiniteSets

CONSTANTS NumBuckets,   \* 32 in the code
          KeepSamples,  \* 50 in the code
          Latency       \* latencies a request can take, in milliseconds

ASSUME NumBucketsAssumption == NumBuckets \in Nat \ {0}
ASSUME KeepSamplesAssumption == KeepSamples \in Nat \ {0}
ASSUME LatencyAssumption == Latency \subseteq Nat

Bucket == 0 .. NumBuckets - 1

Contents == {b \in [Bucket -> Seq(Latency)] : \A i \in Bucket : Len(b[i]) <= KeepSamples}

\* newLatencyBuckets.
NoSamples == [i \in Bucket |-> <<>>]

BucketIndex(rif) ==
    IF rif >= NumBuckets THEN NumBuckets - 1 ELSE IF rif < 0 THEN 0 ELSE rif

\* Mutant: the bucket is trimmed one sample too late.
TrimLate(samples) ==
    IF Len(samples) > KeepSamples + 1 THEN SubSeq(samples, 2, Len(samples)) ELSE samples

\* The last KeepSamples samples.
Trim(samples) ==
    IF Len(samples) > KeepSamples
    THEN SubSeq(samples, Len(samples) - KeepSamples + 1, Len(samples))
    ELSE samples

Record(b, rif, lat) == [b EXCEPT ![BucketIndex(rif)] = Trim(Append(@, lat))]

-----------------------------------------------------------------------------
(* medianAtRIF.                                                            *)

\* Mutant: the search stops at the first distance that leaves the array.
SamplesInside(b, rif) ==
    LET i == BucketIndex(rif)
        search[distance \in 0 .. NumBuckets] ==
            CASE i - distance \notin Bucket \/ i + distance \notin Bucket -> <<>>
              [] b[i - distance] # <<>> -> b[i - distance]
              [] b[i + distance] # <<>> -> b[i + distance]
              [] OTHER -> search[distance + 1]
    IN  search[0]

\* The samples of the bucket itself, or else of the first bucket with any, going
\* outwards and looking below before above.
Samples(b, rif) ==
    LET i == BucketIndex(rif)
        Filled(j) == j \in Bucket /\ b[j] # <<>>
        search[distance \in 0 .. NumBuckets] ==
            IF distance = NumBuckets THEN <<>>
            ELSE IF Filled(i - distance) THEN b[i - distance]
            ELSE IF Filled(i + distance) THEN b[i + distance]
            ELSE search[distance + 1]
    IN  search[0]

\* One round of the insertion sort: lat moves down past the greater samples.
Insert(sorted, lat) ==
    LET place == CHOOSE j \in 1 .. Len(sorted) + 1 :
                    /\ \A p \in j .. Len(sorted) : lat < sorted[p]
                    /\ j > 1 => sorted[j - 1] <= lat
    IN  [p \in 1 .. Len(sorted) + 1 |-> IF p < place THEN sorted[p]
                                       ELSE IF p = place THEN lat ELSE sorted[p - 1]]

InsertionSort(samples) ==
    LET rounds[n \in 0 .. Len(samples)] ==
            IF n = 0 THEN <<>> ELSE Insert(rounds[n - 1], samples[n])
    IN  rounds[Len(samples)]

MedianAtRIF(b, rif) ==
    LET sorted == InsertionSort(Samples(b, rif))
    IN  IF sorted = <<>> THEN 0 ELSE sorted[Len(sorted) \div 2 + 1]

-----------------------------------------------------------------------------
(* What the estimate should be.                                            *)

Distance(i, j) == IF i < j THEN j - i ELSE i - j

\* The filled buckets nearest to i, at most one on either side.
NearestFilled(b, i) ==
    LET filled == {j \in Bucket : b[j] # <<>>}
    IN  {j \in filled : \A k \in filled : Distance(i, j) <= Distance(i, k)}

\* v is the median of a sequence: the upper one, if there are two.
IsMedian(v, samples) ==
    LET Below(test) == Cardinality({p \in test : samples[p] < v})
        UpTo(test)  == Cardinality({p \in test : samples[p] <= v})
        middle      == Len(samples) \div 2
    IN  Below(DOMAIN samples) <= middle /\ middle < UpTo(DOMAIN samples)

\* A lower bucket is preferred to an upper one as near: it was met under less load.
IsEstimate(v, b, rif) ==
    LET nearest == NearestFilled(b, BucketIndex(rif))
    IN  IF nearest = {} THEN v = 0
        ELSE \E j \in nearest : (\A k \in nearest : j <= k) /\ IsMedian(v, b[j])
=============================================================================
