------------------------------ MODULE Signals ------------------------------
(***************************************************************************)
(* What a probe can report about a backend replica, and how old the report *)
(* can be.  Shared by the probe pool, the prober and Prequal.              *)
(***************************************************************************)
EXTENDS Integers

CONSTANTS Server,     \* backend replicas
          RIFs,       \* RIF values an answered probe may carry
          Latencies,  \* latencies in milliseconds
          AgeLimit,   \* ProbePool.ageLimit, in ticks
          MaxAge      \* the age at which observations stop ageing (a bound)

ASSUME SignalAssumption == RIFs \subseteq Int /\ Latencies \subseteq Nat
ASSUME AgeAssumption    == AgeLimit \in Nat /\ MaxAge \in Nat /\ AgeLimit <= MaxAge

\* The RIF of a probe that failed, or whose answer had no X-RIF header.
NoRIF == -1

ReportedRIFs == RIFs \cup {NoRIF}

Ages == 0 .. MaxAge

Older(age) == IF age < MaxAge THEN age + 1 ELSE age
=============================================================================
