----------------------------- MODULE ProbePool -----------------------------
(***************************************************************************)
(* The probe pool: every method of ProbePool runs under pp.mu, so each is  *)
(* one action, and what interleaves is the calls.  Fresh hands out POINTERS*)
(* to the entries; a caller works on its copy of the slice after the lock  *)
(* is released, while others use up, evict or age the same entries, and    *)
(* then calls MarkUsed.                                                    *)
(*                                                                         *)
(* heap is the Go heap restricted to the entries somebody can still reach: *)
(* those in the pool and those in a caller's copy.  An entry nobody        *)
(* reaches is garbage and its identifier may be allocated again.           *)
(*                                                                         *)
(* Time is the age of an entry.  Ages stop at MaxAge, past which the code  *)
(* could still tell two expired entries apart and the model cannot.        *)
(***************************************************************************)
EXTENDS HotCold, Signals

CONSTANTS Entry,      \* identities of ProbeEntry objects
          Client,     \* goroutines that hold a copy of the fresh entries
          Budgets     \* values of MaxUses

ASSUME ClientAssumption == IsFiniteSet(Client)
ASSUME BudgetAssumption == Budgets \subseteq Nat \ {0}

VARIABLES pool,  \* pp.entries: the entries in the pool
          heap,  \* the record of every entry that can be reached
          snap,  \* snap[c]: what Fresh returned to c, while c still looks at it
          chosen \* chosen[c]: the entry c marked used, until c is done with it

poolVars == <<pool, heap, snap, chosen>>

\* What a probe observed; UseCount of a new entry is zero.
Observation == [server : Server, rif : ReportedRIFs, lat : Latencies,
                age : Ages, maxUses : Budgets]

ProbeEntry == [server : Server, rif : ReportedRIFs, lat : Latencies,
               age : Ages, uses : Nat, maxUses : Budgets]

\* The entries somebody can reach.
Reachable == pool \cup UNION {snap[c] \cup chosen[c] : c \in Client}

\* The callers that may still mark i used.
Holders(i) == {c \in Client : i \in snap[c]}

PoolTypeOK ==
    /\ pool \subseteq Entry /\ IsFiniteSet(pool)
    /\ snap \in [Client -> SUBSET Entry]
    /\ chosen \in [Client -> SUBSET Entry]
    /\ \A c \in Client : snap[c] = {} \/ chosen[c] = {}
    /\ heap \in [Reachable -> ProbeEntry]

-----------------------------------------------------------------------------

PoolInit ==
    /\ pool = {}
    /\ heap = [i \in {} |-> {}]
    /\ snap = [c \in Client |-> {}]
    /\ chosen = [c \in Client |-> {}]

NewEntry(o) == [server |-> o.server, rif |-> o.rif, lat |-> o.lat, age |-> o.age,
                uses |-> 0, maxUses |-> o.maxUses]

FreshEntries == {i \in pool : heap[i].age <= AgeLimit}

\* Mutant: the pool makes room only once it is over its size.
EvictionsLate ==
    IF Cardinality(pool) > MaxSize THEN {{i} : i \in Oldest(pool, heap)} ELSE {{}}

\* What Add removes first: nothing, or one oldest entry of a full pool.
Evictions ==
    IF Cardinality(pool) >= MaxSize THEN {{i} : i \in Oldest(pool, heap)} ELSE {{}}

Add(i, o) ==
    /\ i \in Entry \ Reachable
    /\ \E evicted \in Evictions : pool' = (pool \ evicted) \cup {i}
    /\ UNCHANGED <<snap, chosen>>
    /\ heap' = [j \in Reachable' |-> IF j = i THEN NewEntry(o) ELSE heap[j]]

Fresh(c) ==
    /\ snap[c] = {} /\ chosen[c] = {}
    /\ snap' = [snap EXCEPT ![c] = FreshEntries]
    /\ UNCHANGED <<pool, heap, chosen>>

\* Mutants: the budget is compared one use late, or never, and an entry with a use
\* left is put in the pool wherever it was.
AfterUseLate(i) == IF heap[i].uses + 1 > heap[i].maxUses THEN pool \ {i} ELSE pool
AfterUseForever(i) == pool
AfterUseReturned(i) ==
    IF heap[i].uses + 1 >= heap[i].maxUses THEN pool \ {i} ELSE pool \cup {i}

\* The pool once i is used once more: a spent entry is removed, if it is there.
AfterUse(i) == IF heap[i].uses + 1 >= heap[i].maxUses THEN pool \ {i} ELSE pool

\* The caller has no more use for the rest of its copy.  Whether the entry is
\* still in the pool does not matter to its UseCount.
MarkUsed(c, i) ==
    /\ i \in snap[c]
    /\ pool' = AfterUse(i)
    /\ snap' = [snap EXCEPT ![c] = {}]
    /\ chosen' = [chosen EXCEPT ![c] = {i}]
    /\ heap' = [j \in Reachable' |->
                  IF j = i THEN [heap[i] EXCEPT !.uses = @ + 1] ELSE heap[j]]

\* The caller drops what it holds: it returned the server of the entry it chose,
\* or found nothing to choose in its copy.
Release(c) ==
    /\ snap[c] # {} \/ chosen[c] # {}
    /\ snap' = [snap EXCEPT ![c] = {}]
    /\ chosen' = [chosen EXCEPT ![c] = {}]
    /\ pool' = pool
    /\ heap' = [j \in Reachable' |-> heap[j]]

\* An empty pool is left alone.
RemoveWorst(threshold, removeOldest) ==
    /\ \E worst \in IF removeOldest THEN Oldest(pool, heap)
                                    ELSE Worst(pool, heap, threshold) :
          pool' = pool \ {worst}
    /\ UNCHANGED <<snap, chosen>>
    /\ heap' = [j \in Reachable' |-> heap[j]]

\* Time passes for every entry.
Tick ==
    /\ heap' = [i \in Reachable |-> [heap[i] EXCEPT !.age = Older(@)]]
    /\ UNCHANGED <<pool, snap, chosen>>

PoolNext ==
    \/ \E i \in Entry, o \in Observation : Add(i, o)
    \/ \E c \in Client : Fresh(c) \/ Release(c)
    \/ \E c \in Client, i \in Entry : MarkUsed(c, i)
    \/ \E threshold \in ReportedRIFs \cup {0}, removeOldest \in BOOLEAN :
          RemoveWorst(threshold, removeOldest)
    \/ Tick

PoolSpec == PoolInit /\ [][PoolNext]_poolVars

-----------------------------------------------------------------------------

\* The pool never holds more entries than it was configured for, whatever order
\* the deposits, evictions and removals of its callers take.
SizeBound == Cardinality(pool) <= MaxSize

\* An entry in the pool still has a use left: no order of concurrent MarkUsed
\* calls leaves a spent entry behind for a later Fresh to hand out.
LiveBudget == \A i \in pool : heap[i].uses < heap[i].maxUses

\* "MarkUsed consumes one reuse slot and removes entries that reach their
\* budget" (types.go:111), but a budget can be overrun.  Every caller that copied the entry before
\* its last use may still use it once: the uses made and those still to come stay
\* below the budget plus the number of callers, however long the run.
OveruseBound ==
    \A i \in Reachable :
        heap[i].uses + Cardinality(Holders(i))
            < heap[i].maxUses + Cardinality(Client)

\* An entry that left the pool while a caller still holds it stays out, although
\* the caller goes on to mark it used.
NeverReturns ==
    [][\A i \in Reachable \ pool : i \in Reachable' => i \notin pool']_poolVars
=============================================================================
