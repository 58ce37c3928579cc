----------------------------- MODULE MCBackend -----------------------------
(* A replica with one slot, two places and one request too many.           *)
EXTENDS Backend, FiniteSetsExt, TLC

CONSTANT MaxSamples  \* samples in all the buckets together (a bound)

Symmetry == Permutations(Handler)

\* No step is taken from a state with more samples than that.
FewSamples == MapThenSumSet(LAMBDA i : Len(buckets[i]), Bucket) <= MaxSamples
=============================================================================
