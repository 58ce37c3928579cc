----------------------------- MODULE PoolSlice -----------------------------
(***************************************************************************)
(* The probe pool as it is written: entries is a slice in the order of the *)
(* deposits, a copy of it keeps that order, and every decision is a loop   *)
(* over a slice that keeps the first of the candidates it cannot tell      *)
(* apart.  ProbePool, which knows sets and leaves ties open, is what it    *)
(* implements.                                                             *)
(***************************************************************************)
EXTENDS HotCold, Signals, SequencesExt, Sorting

CONSTANTS Entry, Client, Budgets

VARIABLES entries,  \* pp.entries
          heap,     \* the record of every entry that can be reached
          copy,     \* copy[c]: the slice Fresh returned to c
          chosen    \* chosen[c]: the entry c marked used, until c is done with it

sliceVars == <<entries, heap, copy, chosen>>

\* The set ProbePool knows of a slice.
Abs == INSTANCE ProbePool WITH pool <- ToSet(entries),
                               snap <- [c \in Client |-> ToSet(copy[c])]

-----------------------------------------------------------------------------
(* The loops.                                                              *)

\* The position a loop over some of the positions of s ends with when it starts at
\* the first of them and moves on to each later one that beats the best so far;
\* 0 when there is none.
Scan(s, candidates, beats) ==
    LET best[p \in 0 .. Len(s)] ==
            IF p = 0 THEN 0
            ELSE LET sofar == best[p - 1]
                 IN  IF p \in candidates /\ (sofar = 0 \/ sofar \in beats[p])
                     THEN p ELSE sofar
    IN  best[Len(s)]

\* Mutant: the comparison is the wrong way round.
YoungestLoop(s, h) ==
    Scan(s, DOMAIN s,
         [p \in DOMAIN s |-> {best \in DOMAIN s : h[s[p]].age < h[s[best]].age}])

\* removeOldestLocked: the first of the earliest timestamps.
OldestLoop(s, h) ==
    Scan(s, DOMAIN s,
         [p \in DOMAIN s |-> {best \in DOMAIN s : h[s[p]].age > h[s[best]].age}])

\* RemoveWorst: prefer hot entries; otherwise the slowest cold one.
WorstLoop(s, h, threshold) ==
    Scan(s, DOMAIN s,
         [p \in DOMAIN s |->
            {worst \in DOMAIN s :
                IF h[s[p]].rif > threshold
                THEN h[s[worst]].rif <= threshold \/ h[s[p]].rif > h[s[worst]].rif
                ELSE h[s[worst]].rif <= threshold /\ h[s[p]].lat > h[s[worst]].lat}])

\* Mutant: the index is scaled by the length, not by the length less one.
QuantileLoopShifted(s, h) ==
    LET sorted == SortInts([p \in 1 .. Len(s) |-> h[s[p]].rif])
    IN  IF s = <<>> THEN 0 ELSE sorted[1 + (Len(s) * QRIF) \div 100]

\* rifQuantile: sort the values and index the result.
QuantileLoop(s, h) ==
    LET sorted == SortInts([p \in 1 .. Len(s) |-> h[s[p]].rif])
    IN  IF s = <<>> THEN 0
        ELSE IF QRIF = 0   THEN sorted[1]
        ELSE IF QRIF = 100 THEN sorted[Len(s)]
        ELSE sorted[1 + ((Len(s) - 1) * QRIF) \div 100]

\* What selectPrequal splits a copy into: where the healthy cold entries and the
\* healthy hot ones are, in the order of the copy.  And the loop over each.
ColdPositions(s, h, seen, threshold) ==
    {p \in DOMAIN s : s[p] \in seen /\ h[s[p]].rif <= threshold}

HotPositions(s, h, seen, threshold) ==
    {p \in DOMAIN s : s[p] \in seen /\ h[s[p]].rif > threshold}

\* Mutant: the slowest is kept.
SlowestLoop(candidates, s, h) ==
    Scan(s, candidates,
         [p \in DOMAIN s |-> {best \in DOMAIN s : h[s[p]].lat > h[s[best]].lat}])

FastestLoop(candidates, s, h) ==
    Scan(s, candidates,
         [p \in DOMAIN s |-> {best \in DOMAIN s : h[s[p]].lat < h[s[best]].lat}])

CalmestLoop(candidates, s, h) ==
    Scan(s, candidates,
         [p \in DOMAIN s |-> {best \in DOMAIN s : h[s[p]].rif < h[s[best]].rif}])

\* selectPrequal over the entries whose server was seen healthy: the positions
\* of its choice, at most one.
ChooseLoop(s, h, seen, threshold) ==
    LET cold == ColdPositions(s, h, seen, threshold)
        hot  == HotPositions(s, h, seen, threshold)
    IN  IF cold # {} THEN {FastestLoop(cold, s, h)}
        ELSE IF hot # {} THEN {CalmestLoop(hot, s, h)}
        ELSE {}

\* Fresh: kept[p] is freshEntries after the first p entries.
FreshLoop(s, h) ==
    LET kept[p \in 0 .. Len(s)] ==
            IF p = 0 THEN <<>>
            ELSE IF h[s[p]].age <= AgeLimit THEN Append(kept[p - 1], s[p])
            ELSE kept[p - 1]
    IN  kept[Len(s)]

\* removeEntryLocked: the entry found to be the target, by its pointer, is cut out,
\* and nothing happens when there is none.
RemoveEntry(s, target) ==
    LET found == {p \in DOMAIN s : s[p] = target}
    IN  IF found = {} THEN s
        ELSE RemoveAt(s, CHOOSE p \in found : \A q \in found : p <= q)

-----------------------------------------------------------------------------

SliceInit ==
    /\ entries = <<>>
    /\ heap = [i \in {} |-> {}]
    /\ copy = [c \in Client |-> <<>>]
    /\ chosen = [c \in Client |-> {}]

FreshSlice == FreshLoop(entries, heap)

\* Whatever can no longer be reached is garbage.
Keep(h) == heap' = [i \in Abs!Reachable' |-> h[i]]

Add(i, o) ==
    /\ i \in Entry \ Abs!Reachable
    /\ entries' = Append(IF Len(entries) >= MaxSize
                         THEN RemoveAt(entries, OldestLoop(entries, heap))
                         ELSE entries, i)
    /\ UNCHANGED <<copy, chosen>>
    /\ Keep([j \in DOMAIN heap \cup {i} |-> IF j = i THEN Abs!NewEntry(o) ELSE heap[j]])

Fresh(c) ==
    /\ copy[c] = <<>> /\ chosen[c] = {}
    /\ copy' = [copy EXCEPT ![c] = FreshSlice]
    /\ UNCHANGED <<entries, heap, chosen>>

MarkUsed(c, i) ==
    /\ i \in ToSet(copy[c])
    /\ LET used == [heap EXCEPT ![i].uses = @ + 1]
       IN  /\ entries' = IF used[i].uses >= used[i].maxUses
                         THEN RemoveEntry(entries, i) ELSE entries
           /\ copy' = [copy EXCEPT ![c] = <<>>]
           /\ chosen' = [chosen EXCEPT ![c] = {i}]
           /\ Keep(used)

\* selectPrequal chooses in its copy, with any set of healthy servers.
Use(c) ==
    \E seen \in SUBSET ToSet(copy[c]) :
        \E p \in ChooseLoop(copy[c], heap, seen, QuantileLoop(copy[c], heap)) :
            MarkUsed(c, copy[c][p])

Release(c) ==
    /\ copy[c] # <<>> \/ chosen[c] # {}
    /\ copy' = [copy EXCEPT ![c] = <<>>]
    /\ chosen' = [chosen EXCEPT ![c] = {}]
    /\ entries' = entries
    /\ Keep(heap)

\* Mutant: the toggle has no effect.
RemoveWorstOnly(threshold, removeOldest) ==
    /\ entries # <<>>
    /\ entries' = RemoveEntry(entries, entries[WorstLoop(entries, heap, threshold)])
    /\ UNCHANGED <<copy, chosen>>
    /\ Keep(heap)

RemoveWorst(threshold, removeOldest) ==
    /\ entries # <<>>
    /\ entries' = IF removeOldest THEN RemoveAt(entries, OldestLoop(entries, heap))
                  ELSE RemoveEntry(entries, entries[WorstLoop(entries, heap, threshold)])
    /\ UNCHANGED <<copy, chosen>>
    /\ Keep(heap)

Tick ==
    /\ heap' = [i \in DOMAIN heap |-> [heap[i] EXCEPT !.age = Older(@)]]
    /\ UNCHANGED <<entries, copy, chosen>>

SliceNext ==
    \/ \E i \in Entry, o \in Abs!Observation : Add(i, o)
    \/ \E c \in Client : Fresh(c) \/ Use(c) \/ Release(c)
    \/ \E removeOldest \in BOOLEAN :
          RemoveWorst(QuantileLoop(FreshSlice, heap), removeOldest)
    \/ Tick

SliceSpec == SliceInit /\ [][SliceNext]_sliceVars

\* The ticker of runProbeRemover never stops, and every other tick removes the
\* oldest entry.  Nothing is assumed of deposits, callers or time.
SliceFairSpec ==
    SliceSpec /\ WF_sliceVars(RemoveWorst(QuantileLoop(FreshSlice, heap), TRUE))

-----------------------------------------------------------------------------

\* The slice and its loops implement the pool of sets: whatever order the entries
\* are in, an eviction takes an oldest one, a removal a worst one, and a removal
\* by pointer takes the one entry it is meant to take.
ImplementsPool == Abs!PoolSpec

\* The sorted slice rifQuantile indexes holds, there, the value defined by rank.
QuantileAgrees ==
    \A s \in {entries} \cup {copy[c] : c \in Client} :
        QuantileLoop(s, heap) = RifQuantile(ToSet(s), heap)

\* The decision loop of selectPrequal finds an entry the hot-cold rule prefers,
\* for every set of healthy servers, and finds one whenever there is one.
ChoiceAgrees ==
    \A c \in Client : \A seen \in SUBSET ToSet(copy[c]) :
        LET threshold == QuantileLoop(copy[c], heap)
            choice    == {copy[c][p] : p \in ChooseLoop(copy[c], heap, seen, threshold)}
        IN  /\ choice \subseteq HCL(seen, heap, threshold)
            /\ choice = {} => seen = {}

\* An entry as old as entries get does not stay in the pool, although deposits go
\* on for ever and half of the removals are after hot entries: no younger entry
\* keeps being removed in its stead.
StaleLeaves ==
    \A i \in Entry :
        (i \in ToSet(entries) /\ heap[i].age = MaxAge) ~> i \notin ToSet(entries)
=============================================================================
