--------------------------- MODULE PrequalProofs ---------------------------
(***************************************************************************)
(* What holds of Prequal and of the two parts it is made of, the probe     *)
(* pool and the prober, for any number of servers, entries, requests and   *)
(* probes: the decisions on the pool are possible, the pool keeps its      *)
(* bounds, a server that answers its probes stays in rotation, Prequal     *)
(* uses the pool as the pool's specification says, so that what is proved  *)
(* of the pool holds inside the balancer, and it keeps the promise of      *)
(* Selection.                                                              *)
(***************************************************************************)
EXTENDS Prequal, HealthCheck, OrderLemmas

-----------------------------------------------------------------------------
(***************************************************************************)
(* The decisions on the probe pool, the operators of HotCold: they are     *)
(* always possible, for collections of any size.                           *)
(***************************************************************************)

(* The index rifQuantile reads lies within the slice, for every quantile in
   [0, 1].                                                                  *)
LEMMA IndexInRange ==
    ASSUME NEW n \in Nat \ {0}
    PROVE  QuantileIndex(n) \in 0 .. n - 1
BY ScaledIndex, QRIFAssumption DEF QuantileIndex

-----------------------------------------------------------------------------

\* The entries at or below a value, and those strictly below it.
UpTo(S, h, v)  == {i \in S : h[i].rif <= v}
Below(S, h, v) == {i \in S : h[i].rif < v}

(* The value rifQuantile returns is the RIF of some entry, and its rank is the
   index that was read.                                                     *)
THEOREM QuantileRank ==
    ASSUME NEW S, IsFiniteSet(S), S # {}, NEW h, \A i \in S : h[i].rif \in Int
    PROVE  LET k == QuantileIndex(Cardinality(S))
               v == RifQuantile(S, h)
           IN  /\ v \in {h[i].rif : i \in S}
               /\ Cardinality(Below(S, h, v)) <= k
               /\ k < Cardinality(UpTo(S, h, v))
<1> DEFINE n == Cardinality(S)
<1> DEFINE k == QuantileIndex(n)
<1> DEFINE r == [i \in S |-> h[i].rif]
<1>1. r \in [S -> Int] /\ \A i \in S : r[i] = h[i].rif
  OBVIOUS
<1>2. n \in Nat \ {0} /\ k \in Int /\ 0 <= k /\ k < n
  <2>1. n \in Nat \ {0}
    BY FS_CardinalityType, FS_EmptySet
  <2>2. k \in 0 .. n - 1
    BY <2>1, IndexInRange
  <2>3. QED
    BY <2>1, <2>2
<1> DEFINE C == {i \in S : k < Cardinality(UpTo(S, h, r[i]))}
<1> HIDE DEF k, n
<1>3. IsFiniteSet(C)
  BY FS_Subset
<1>4. C # {}
  <2>1. PICK m \in S : \A j \in S : r[m] >= r[j]
    BY <1>1, LargestExists
  <2>2. UpTo(S, h, r[m]) = S
    BY <1>1, <2>1 DEF UpTo
  <2>3. QED
    BY <1>2, <2>2 DEF n
<1>5. PICK i \in C : \A j \in C : r[i] <= r[j]
  <2> DEFINE rC == [j \in C |-> r[j]]
  <2>1. rC \in [C -> Int]
    BY <1>1
  <2>2. \E i \in C : \A j \in C : rC[i] <= rC[j]
    <3> HIDE DEF rC, C
    <3>1. QED
      BY <2>1, <1>3, <1>4, SmallestExists
  <2>3. QED
    BY <2>2
<1>6. i \in S /\ r[i] \in Int /\ k < Cardinality(UpTo(S, h, r[i]))
  BY <1>1
<1> DEFINE D == Below(S, h, r[i])
<1>7. IsFiniteSet(D) /\ D \subseteq S /\ Cardinality(D) \in Nat
  BY FS_Subset, FS_CardinalityType DEF Below
<1>8. Cardinality(D) <= k
  <2>1. CASE D = {}
    BY <2>1, <1>2, FS_EmptySet
  <2>2. CASE D # {}
    <3> DEFINE rD == [j \in D |-> r[j]]
    <3>1. rD \in [D -> Int]
      BY <1>1, <1>7
    <3>2. \E m \in D : \A j \in D : rD[m] >= rD[j]
      <4> HIDE DEF rD, D
      <4>1. QED
        BY <3>1, <2>2, <1>7, LargestExists
    <3>3. PICK m \in D : \A j \in D : r[m] >= r[j]
      BY <3>2
    <3>4. m \in S /\ r[m] < r[i]
      BY <1>1, <3>3 DEF Below
    <3>5. UpTo(S, h, r[m]) = D
      BY <1>1, <1>6, <3>3, <3>4 DEF UpTo, Below
    <3>6. m \notin C
      BY <1>1, <1>5, <1>6, <3>4
    <3>7. ~(k < Cardinality(D))
      BY <3>4, <3>5, <3>6
    <3>8. QED
      BY <1>2, <1>7, <3>7
  <2>3. QED
    BY <2>1, <2>2
<1>9. \E v \in {h[j].rif : j \in S} :
         /\ Cardinality(Below(S, h, v)) <= k
         /\ k < Cardinality(UpTo(S, h, v))
  <2>1. r[i] \in {h[j].rif : j \in S}
    BY <1>1, <1>6
  <2>2. QED
    BY <2>1, <1>6, <1>8
<1>10. RifQuantile(S, h) =
         CHOOSE v \in {h[j].rif : j \in S} :
            /\ Cardinality(Below(S, h, v)) <= k
            /\ k < Cardinality(UpTo(S, h, v))
  BY DEF RifQuantile, Below, UpTo, k, n
<1>11. QED
  BY <1>9, <1>10 DEF k, n

(* The threshold leaves at least one entry cold.  While every server is healthy
   a request is therefore routed by a cold entry, whatever QRIF is: the branch
   of selectPrequal for hot entries (balancer.go:422) needs unhealthy servers. *)
THEOREM SomethingIsCold ==
    ASSUME NEW S, IsFiniteSet(S), S # {}, NEW h, \A i \in S : h[i].rif \in Int
    PROVE  Cold(S, h, RifQuantile(S, h)) # {}
<1>1. PICK i \in S : RifQuantile(S, h) = h[i].rif
  BY QuantileRank
<1>2. i \in Cold(S, h, RifQuantile(S, h))
  BY <1>1 DEF Cold
<1>3. QED
  BY <1>2

(* The hot-cold rule chooses among what it is given, and chooses something
   whenever some server was seen healthy: selectPrequal falls back on a random
   server only when every server of its copy was seen unhealthy.            *)
THEOREM RuleChooses ==
    ASSUME NEW S, IsFiniteSet(S), NEW h, NEW limit \in Int,
           \A i \in S : h[i].rif \in Int /\ h[i].lat \in Int
    PROVE  HCL(S, h, limit) \subseteq S /\ (S # {} => HCL(S, h, limit) # {})
<1>1. HCL(S, h, limit) \subseteq S
  BY DEF HCL, Cold, Hot, Fastest, Calmest
<1>2. CASE Cold(S, h, limit) # {}
  <2> DEFINE C == Cold(S, h, limit)
  <2> DEFINE f == [i \in C |-> h[i].lat]
  <2>1. IsFiniteSet(C) /\ f \in [C -> Int]
    BY FS_Subset DEF Cold
  <2>2. \E i \in C : \A j \in C : f[i] <= f[j]
    <3> HIDE DEF f, C
    <3>1. QED
      BY <1>2, <2>1, SmallestExists DEF C
  <2>3. Fastest(C, h) # {}
    BY <2>2 DEF Fastest
  <2>4. QED
    BY <1>1, <1>2, <2>3 DEF HCL
<1>3. CASE Cold(S, h, limit) = {} /\ S # {}
  <2>1. Hot(S, h, limit) = S
    BY <1>3 DEF Cold, Hot
  <2> DEFINE f == [i \in S |-> h[i].rif]
  <2>2. f \in [S -> Int]
    OBVIOUS
  <2>3. \E i \in S : \A j \in S : f[i] <= f[j]
    <3> HIDE DEF f
    <3>1. QED
      BY <1>3, <2>2, SmallestExists
  <2>4. Calmest(S, h) # {}
    BY <2>3 DEF Calmest
  <2>5. QED
    BY <1>1, <1>3, <2>1, <2>4 DEF HCL
<1>4. QED
  BY <1>1, <1>2, <1>3

(* computeBreuse never returns less than one, so no entry enters the pool already
   spent: for any rates, any pool size and any number of servers.           *)
THEOREM BreuseAtLeastOne ==
    ASSUME NEW n \in Nat
    PROVE  Breuse(n) \in Nat \ {0}
<1>1. CASE n = 0
  BY <1>1 DEF Breuse
<1>2. CASE n # 0
  <2> DEFINE d == Denominator(n)
  <2> DEFINE u == (100 + DriftRate) * n
  <2>1. d \in Int /\ u \in Nat
    BY RatesAssumption, MaxSizeAssumption DEF Denominator
  <2>2. MaxSize \div n \in Nat
    BY <1>2, MaxSizeAssumption
  <2> HIDE DEF d, u
  <2>3. CASE d <= 0
    BY <1>2, <2>2, <2>3 DEF Breuse, d
  <2>4. CASE d > 0 /\ u < d
    BY <1>2, <2>1, <2>4 DEF Breuse, d, u
  <2>5. CASE d > 0 /\ ~(u < d)
    <3>1. u \div d \in Nat \ {0}
      BY <2>1, <2>5
    <3>2. QED
      BY <1>2, <2>1, <2>5, <3>1 DEF Breuse, d, u
  <2>6. QED
    BY <2>1, <2>3, <2>4, <2>5
<1>3. QED
  BY <1>1, <1>2

-----------------------------------------------------------------------------
(***************************************************************************)
(* The pool, for every size of it, every number of concurrent callers and  *)
(* every length of run.  The overuse bound is inductive only together with *)
(* the live budget: a caller may join the holders of an entry at any time, *)
(* and what keeps the sum of the uses made and the uses to come below the  *)
(* bound is that Fresh hands out entries of the pool only, and those have  *)
(* a use left.                                                             *)
(***************************************************************************)

PoolInv == PoolTypeOK /\ SizeBound /\ LiveBudget /\ OveruseBound

(* The callers that hold an entry are some of the clients: finitely many, and
   no more than there are.                                                  *)
LEMMA HoldersBounded ==
    ASSUME NEW i
    PROVE  /\ IsFiniteSet(Holders(i))
           /\ Cardinality(Holders(i)) \in Nat
           /\ Cardinality(Client) \in Nat
           /\ Cardinality(Holders(i)) <= Cardinality(Client)
<1>1. Holders(i) \subseteq Client
  BY DEF Holders
<1>2. QED
  BY <1>1, ClientAssumption, FS_Subset, FS_CardinalityType

(* When the callers holding an entry can only become fewer, so does their
   number.                                                                  *)
LEMMA FewerHolders ==
    ASSUME NEW i, Holders(i)' \subseteq Holders(i)
    PROVE  /\ Cardinality(Holders(i)') \in Nat
           /\ Cardinality(Holders(i)') <= Cardinality(Holders(i))
BY HoldersBounded, FS_Subset, FS_CardinalityType

(* Eviction makes room: what is left of the pool together with the new entry is
   no larger than MaxSize (Add, types.go:86).                               *)
LEMMA AddKeepsSize ==
    ASSUME PoolTypeOK, SizeBound, NEW i \in Entry \ Reachable, NEW o \in Observation,
           Add(i, o)
    PROVE  IsFiniteSet(pool') /\ Cardinality(pool') <= MaxSize
<1>1. PICK evicted \in Evictions : pool' = (pool \ evicted) \cup {i}
  BY DEF Add
<1>2. i \notin pool /\ IsFiniteSet(pool) /\ Cardinality(pool) \in Nat
  BY FS_CardinalityType DEF PoolTypeOK, Reachable
<1>3. IsFiniteSet(pool \ evicted) /\ Cardinality(pool \ evicted) \in Nat
      /\ Cardinality(pool \ evicted) <= MaxSize - 1
  <2>1. CASE Cardinality(pool) >= MaxSize
    <3>1. PICK v \in Oldest(pool, heap) : evicted = {v}
      BY <2>1, <1>1 DEF Evictions
    <3>2. v \in pool
      BY <3>1 DEF Oldest
    <3>3. IsFiniteSet(pool \ {v}) /\ Cardinality(pool \ {v}) = Cardinality(pool) - 1
      BY <3>2, <1>2, FS_RemoveElement
    <3>4. Cardinality(pool \ {v}) \in Nat
      BY <3>3, FS_CardinalityType
    <3>5. QED
      BY <3>1, <3>3, <3>4, <1>2, MaxSizeAssumption DEF SizeBound
  <2>2. CASE ~(Cardinality(pool) >= MaxSize)
    <3>1. evicted = {}
      BY <2>2, <1>1 DEF Evictions
    <3>2. pool \ evicted = pool
      BY <3>1
    <3>3. QED
      BY <3>2, <2>2, <1>2, MaxSizeAssumption
  <2>3. QED
    BY <2>1, <2>2
<1>4. i \notin pool \ evicted
  BY <1>2
<1>5. /\ IsFiniteSet((pool \ evicted) \cup {i})
      /\ Cardinality((pool \ evicted) \cup {i}) = Cardinality(pool \ evicted) + 1
  BY <1>3, <1>4, FS_AddElement
<1>6. QED
  BY <1>1, <1>3, <1>5, MaxSizeAssumption

-----------------------------------------------------------------------------

(* The initial pool is empty and nobody holds anything. *)
LEMMA InitInv == PoolInit => PoolInv
<1>1. SUFFICES ASSUME PoolInit PROVE PoolInv
  OBVIOUS
<1>2. Reachable = {}
  BY <1>1 DEF PoolInit, Reachable
<1>3. PoolTypeOK
  BY <1>1, <1>2, FS_EmptySet DEF PoolInit, PoolTypeOK
<1>4. SizeBound
  BY <1>1, FS_EmptySet, MaxSizeAssumption DEF PoolInit, SizeBound
<1>5. LiveBudget /\ OveruseBound
  BY <1>1, <1>2 DEF PoolInit, LiveBudget, OveruseBound
<1>6. QED
  BY <1>3, <1>4, <1>5 DEF PoolInv

(* Add: the new entry is unused and held by nobody, the others keep their
   record and their holders.                                                *)
LEMMA AddInv ==
    ASSUME PoolInv, NEW i \in Entry, NEW o \in Observation, Add(i, o)
    PROVE  PoolInv'
<1>1. i \in Entry \ Reachable /\ snap' = snap /\ chosen' = chosen
  BY DEF Add
<1>2. IsFiniteSet(pool') /\ Cardinality(pool') <= MaxSize
  BY <1>1, AddKeepsSize DEF PoolInv
<1>3. pool' \subseteq pool \cup {i}
  BY DEF Add
<1>4. Reachable' \subseteq Reachable \cup {i}
  BY <1>1, <1>3 DEF Reachable
<1>5. NewEntry(o) \in ProbeEntry /\ NewEntry(o).uses = 0
      /\ NewEntry(o).maxUses \in Nat \ {0}
  <2>1. /\ o.server \in Server /\ o.rif \in ReportedRIFs /\ o.lat \in Latencies
        /\ o.age \in Ages /\ o.maxUses \in Budgets
    BY DEF Observation
  <2>2. o.maxUses \in Nat \ {0}
    BY <2>1, BudgetAssumption
  <2>3. QED
    BY <2>1, <2>2 DEF NewEntry, ProbeEntry
<1>6. /\ heap' \in [Reachable' -> ProbeEntry]
      /\ \A j \in Reachable' : j # i => j \in Reachable /\ heap'[j] = heap[j]
      /\ i \in Reachable' => heap'[i] = NewEntry(o)
  <2>1. heap' = [j \in Reachable' |-> IF j = i THEN NewEntry(o) ELSE heap[j]]
    BY DEF Add
  <2>2. heap \in [Reachable -> ProbeEntry]
    BY DEF PoolInv, PoolTypeOK
  <2>3. \A j \in Reachable' : j # i => j \in Reachable /\ heap[j] \in ProbeEntry
    BY <1>4, <2>2
  <2>4. QED
    BY <2>1, <2>3, <1>5
<1>7. PoolTypeOK'
  BY <1>1, <1>2, <1>3, <1>6 DEF PoolInv, PoolTypeOK
<1>8. LiveBudget'
  <2>1. SUFFICES ASSUME NEW j \in pool' PROVE heap'[j].uses < heap'[j].maxUses
    BY DEF LiveBudget
  <2>2. j \in Reachable'
    BY DEF Reachable
  <2>3. CASE j = i
    BY <2>2, <2>3, <1>5, <1>6
  <2>4. CASE j # i
    BY <2>2, <2>4, <1>3, <1>6 DEF PoolInv, LiveBudget
  <2>5. QED
    BY <2>3, <2>4
<1>9. OveruseBound'
  <2>1. SUFFICES ASSUME NEW j \in Reachable'
                 PROVE  heap'[j].uses + Cardinality(Holders(j)')
                            < heap'[j].maxUses + Cardinality(Client)
    BY DEF OveruseBound
  <2>2. Holders(j)' = Holders(j)
    BY <1>1 DEF Holders
  <2>3. CASE j = i
    <3>1. Holders(i) = {}
      BY <1>1 DEF Holders, Reachable
    <3>2. Cardinality(Holders(j)') = 0
      BY <3>1, <2>2, <2>3, FS_EmptySet
    <3>3. heap'[j].uses = 0 /\ heap'[j].maxUses \in Nat \ {0}
      BY <2>3, <1>5, <1>6
    <3>4. QED
      BY <3>2, <3>3, HoldersBounded
  <2>4. CASE j # i
    BY <2>2, <2>4, <1>6 DEF PoolInv, OveruseBound
  <2>5. QED
    BY <2>3, <2>4
<1>10. QED
  BY <1>2, <1>7, <1>8, <1>9 DEF PoolInv, SizeBound

(* Fresh: the caller joins the holders of entries that have a use left. *)
LEMMA FreshInv ==
    ASSUME PoolInv, NEW c \in Client, Fresh(c)
    PROVE  PoolInv'
<1>1. /\ snap[c] = {} /\ chosen[c] = {} /\ pool' = pool /\ heap' = heap
      /\ chosen' = chosen /\ snap' = [snap EXCEPT ![c] = FreshEntries]
  BY DEF Fresh
<1>2. FreshEntries \subseteq pool
  BY DEF FreshEntries
<1>3. \A d \in Client : snap'[d] = IF d = c THEN FreshEntries ELSE snap[d]
  BY <1>1 DEF PoolInv, PoolTypeOK
<1>4. Reachable' = Reachable
  BY <1>1, <1>2, <1>3 DEF Reachable
<1>5. PoolTypeOK'
  BY <1>1, <1>2, <1>4 DEF PoolInv, PoolTypeOK
<1>6. LiveBudget' /\ SizeBound'
  BY <1>1 DEF PoolInv, LiveBudget, SizeBound
<1>7. OveruseBound'
  <2>1. SUFFICES ASSUME NEW j \in Reachable
                 PROVE  heap[j].uses + Cardinality(Holders(j)')
                            < heap[j].maxUses + Cardinality(Client)
    BY <1>1, <1>4 DEF OveruseBound
  <2>2. CASE j \in FreshEntries
    <3>1. heap[j].uses \in Nat /\ heap[j].maxUses \in Nat
      BY BudgetAssumption DEF PoolInv, PoolTypeOK, ProbeEntry
    <3>2. heap[j].uses < heap[j].maxUses
      BY <2>2, <1>2 DEF PoolInv, LiveBudget
    <3>3. /\ Cardinality(Holders(j)') \in Nat /\ Cardinality(Client) \in Nat
          /\ Cardinality(Holders(j)') <= Cardinality(Client)
      <4>1. Holders(j)' \subseteq Client
        BY DEF Holders
      <4>2. QED
        BY <4>1, ClientAssumption, FS_Subset, FS_CardinalityType
    <3>4. QED
      BY <3>1, <3>2, <3>3
  <2>3. CASE j \notin FreshEntries
    <3>1. Holders(j)' = Holders(j)
      BY <2>3, <1>1, <1>3 DEF Holders
    <3>2. QED
      BY <3>1 DEF PoolInv, OveruseBound
  <2>4. QED
    BY <2>2, <2>3
<1>8. QED
  BY <1>5, <1>6, <1>7 DEF PoolInv

(* MarkUsed: the use just made is one fewer use to come. *)
LEMMA MarkUsedInv ==
    ASSUME PoolInv, NEW c \in Client, NEW i \in Entry, MarkUsed(c, i)
    PROVE  PoolInv'
<1>1. /\ i \in snap[c]
      /\ pool' = IF heap[i].uses + 1 >= heap[i].maxUses THEN pool \ {i} ELSE pool
      /\ snap' = [snap EXCEPT ![c] = {}]
      /\ chosen' = [chosen EXCEPT ![c] = {i}]
  BY DEF MarkUsed, AfterUse
<1>2. \A d \in Client : /\ snap'[d] = IF d = c THEN {} ELSE snap[d]
                        /\ chosen'[d] = IF d = c THEN {i} ELSE chosen[d]
  BY <1>1 DEF PoolInv, PoolTypeOK
<1>3. i \in Reachable /\ pool' \subseteq pool /\ Reachable' \subseteq Reachable
  BY <1>1, <1>2 DEF Reachable
<1>4. heap[i] \in ProbeEntry /\ heap[i].uses \in Nat /\ heap[i].maxUses \in Nat \ {0}
  BY <1>3, BudgetAssumption DEF PoolInv, PoolTypeOK, ProbeEntry
<1>5. [heap[i] EXCEPT !.uses = @ + 1] \in ProbeEntry
  BY <1>4 DEF ProbeEntry
<1>6. /\ heap' \in [Reachable' -> ProbeEntry]
      /\ \A j \in Reachable' : j # i => j \in Reachable /\ heap'[j] = heap[j]
      /\ i \in Reachable' => /\ heap'[i].uses = heap[i].uses + 1
                             /\ heap'[i].maxUses = heap[i].maxUses
  <2>1. heap' = [j \in Reachable' |->
                   IF j = i THEN [heap[i] EXCEPT !.uses = @ + 1] ELSE heap[j]]
    BY DEF MarkUsed, AfterUse
  <2>2. \A j \in Reachable' : j \in Reachable /\ heap[j] \in ProbeEntry
    BY <1>3 DEF PoolInv, PoolTypeOK
  <2>3. /\ [heap[i] EXCEPT !.uses = @ + 1].uses = heap[i].uses + 1
        /\ [heap[i] EXCEPT !.uses = @ + 1].maxUses = heap[i].maxUses
    BY <1>4 DEF ProbeEntry
  <2>4. QED
    BY <2>1, <2>2, <2>3, <1>5
<1>7. IsFiniteSet(pool') /\ SizeBound'
  <2>1. IsFiniteSet(pool) /\ Cardinality(pool) \in Nat /\ Cardinality(pool) <= MaxSize
    BY FS_CardinalityType DEF PoolInv, PoolTypeOK, SizeBound
  <2>2. /\ IsFiniteSet(pool') /\ Cardinality(pool') \in Nat
        /\ Cardinality(pool') <= Cardinality(pool)
    BY <1>3, <2>1, FS_Subset, FS_CardinalityType
  <2>3. QED
    BY <2>1, <2>2, MaxSizeAssumption DEF SizeBound
<1>8. PoolTypeOK'
  BY <1>1, <1>2, <1>3, <1>6, <1>7 DEF PoolInv, PoolTypeOK
<1>9. LiveBudget'
  <2>1. SUFFICES ASSUME NEW j \in pool' PROVE heap'[j].uses < heap'[j].maxUses
    BY DEF LiveBudget
  <2>2. j \in Reachable' /\ j \in pool
    BY <1>3 DEF Reachable
  <2>3. CASE j = i
    BY <2>2, <2>3, <1>1, <1>4, <1>6
  <2>4. CASE j # i
    BY <2>2, <2>4, <1>6 DEF PoolInv, LiveBudget
  <2>5. QED
    BY <2>3, <2>4
<1>10. OveruseBound'
  <2>1. SUFFICES ASSUME NEW j \in Reachable'
                 PROVE  heap'[j].uses + Cardinality(Holders(j)')
                            < heap'[j].maxUses + Cardinality(Client)
    BY DEF OveruseBound
  <2>2. j \in Reachable
    BY <1>3
  <2>3. /\ heap[j].uses \in Nat /\ heap[j].maxUses \in Nat
        /\ heap[j].uses + Cardinality(Holders(j))
               < heap[j].maxUses + Cardinality(Client)
    BY <2>2, BudgetAssumption DEF PoolInv, PoolTypeOK, ProbeEntry, OveruseBound
  <2>4. Holders(j)' = Holders(j) \ {c}
    BY <1>2 DEF Holders
  <2>5. CASE j = i
    <3>1. c \in Holders(i)
      BY <1>1 DEF Holders
    <3>2. Cardinality(Holders(i) \ {c}) = Cardinality(Holders(i)) - 1
      BY <3>1, HoldersBounded, FS_RemoveElement
    <3>3. QED
      BY <2>3, <2>4, <2>5, <3>2, <1>6, HoldersBounded
  <2>6. CASE j # i
    <3>1. /\ Cardinality(Holders(j)') \in Nat
          /\ Cardinality(Holders(j)') <= Cardinality(Holders(j))
      BY <2>4, FewerHolders
    <3>2. heap'[j] = heap[j]
      BY <2>6, <1>6
    <3>3. QED
      BY <2>3, <3>1, <3>2, HoldersBounded
  <2>7. QED
    BY <2>5, <2>6
<1>11. QED
  BY <1>7, <1>8, <1>9, <1>10 DEF PoolInv

(* A step that only drops references -- entries leave the pool, callers let go
   of what they hold -- keeps the invariant.                                *)
LEMMA DropInv ==
    ASSUME PoolInv, pool' \subseteq pool,
           snap' \in [Client -> SUBSET Entry], chosen' \in [Client -> SUBSET Entry],
           \A c \in Client : snap'[c] \subseteq snap[c] /\ chosen'[c] \subseteq chosen[c],
           heap' = [j \in Reachable' |-> heap[j]]
    PROVE  PoolInv'
<1>1. Reachable' \subseteq Reachable
  BY DEF Reachable
<1>2. /\ heap' \in [Reachable' -> ProbeEntry]
      /\ \A j \in Reachable' : heap'[j] = heap[j]
  BY <1>1 DEF PoolInv, PoolTypeOK
<1>3. IsFiniteSet(pool') /\ SizeBound'
  <2>1. IsFiniteSet(pool) /\ Cardinality(pool) \in Nat /\ Cardinality(pool) <= MaxSize
    BY FS_CardinalityType DEF PoolInv, PoolTypeOK, SizeBound
  <2>2. /\ IsFiniteSet(pool') /\ Cardinality(pool') \in Nat
        /\ Cardinality(pool') <= Cardinality(pool)
    BY <2>1, FS_Subset, FS_CardinalityType
  <2>3. QED
    BY <2>1, <2>2, MaxSizeAssumption DEF SizeBound
<1>4. PoolTypeOK'
  BY <1>2, <1>3 DEF PoolInv, PoolTypeOK
<1>5. LiveBudget'
  BY <1>2 DEF PoolInv, LiveBudget, Reachable
<1>6. OveruseBound'
  <2>1. SUFFICES ASSUME NEW j \in Reachable'
                 PROVE  heap[j].uses + Cardinality(Holders(j)')
                            < heap[j].maxUses + Cardinality(Client)
    BY <1>2 DEF OveruseBound
  <2>2. /\ heap[j].uses \in Nat /\ heap[j].maxUses \in Nat
        /\ heap[j].uses + Cardinality(Holders(j))
               < heap[j].maxUses + Cardinality(Client)
    BY <1>1, BudgetAssumption DEF PoolInv, PoolTypeOK, ProbeEntry, OveruseBound
  <2>3. Holders(j)' \subseteq Holders(j)
    BY DEF Holders
  <2>4. QED
    BY <2>2, <2>3, FewerHolders, HoldersBounded
<1>7. QED
  BY <1>3, <1>4, <1>5, <1>6 DEF PoolInv

(* Tick: records keep everything but their age. *)
LEMMA TickInv ==
    ASSUME PoolInv, Tick
    PROVE  PoolInv'
<1>1. pool' = pool /\ snap' = snap /\ chosen' = chosen
  BY DEF Tick
<1>2. Reachable' = Reachable /\ \A j : Holders(j)' = Holders(j)
  BY <1>1 DEF Reachable, Holders
<1>3. /\ heap' \in [Reachable -> ProbeEntry]
      /\ \A j \in Reachable : /\ heap'[j].uses = heap[j].uses
                              /\ heap'[j].maxUses = heap[j].maxUses
  <2>1. heap' = [j \in Reachable |-> [heap[j] EXCEPT !.age = Older(@)]]
    BY DEF Tick
  <2>2. SUFFICES ASSUME NEW j \in Reachable
                 PROVE  /\ [heap[j] EXCEPT !.age = Older(@)] \in ProbeEntry
                        /\ [heap[j] EXCEPT !.age = Older(@)].uses = heap[j].uses
                        /\ [heap[j] EXCEPT !.age = Older(@)].maxUses = heap[j].maxUses
    BY <2>1
  <2>3. heap[j] \in ProbeEntry /\ heap[j].age \in Ages
    BY DEF PoolInv, PoolTypeOK, ProbeEntry
  <2>4. Older(heap[j].age) \in Ages
    BY <2>3, AgeAssumption DEF Older, Ages
  <2>5. QED
    BY <2>3, <2>4 DEF ProbeEntry
<1>4. PoolTypeOK'
  BY <1>1, <1>2, <1>3 DEF PoolInv, PoolTypeOK
<1>5. SizeBound' /\ LiveBudget'
  BY <1>1, <1>3 DEF PoolInv, SizeBound, LiveBudget, Reachable
<1>6. OveruseBound'
  BY <1>2, <1>3 DEF PoolInv, OveruseBound
<1>7. QED
  BY <1>4, <1>5, <1>6 DEF PoolInv

(* Every step of the pool keeps the invariant, and so does a stutter. *)
LEMMA NextInv == PoolInv /\ [PoolNext]_poolVars => PoolInv'
<1>1. SUFFICES ASSUME PoolInv, [PoolNext]_poolVars PROVE PoolInv'
  OBVIOUS
<1>2. ASSUME NEW i \in Entry, NEW o \in Observation, Add(i, o) PROVE PoolInv'
  BY <1>1, <1>2, AddInv
<1>3. ASSUME NEW c \in Client, Fresh(c) PROVE PoolInv'
  BY <1>1, <1>3, FreshInv
<1>4. ASSUME NEW c \in Client, NEW i \in Entry, MarkUsed(c, i) PROVE PoolInv'
  BY <1>1, <1>4, MarkUsedInv
<1>5. ASSUME NEW c \in Client, Release(c) PROVE PoolInv'
  <2>1. /\ snap' = [snap EXCEPT ![c] = {}] /\ chosen' = [chosen EXCEPT ![c] = {}]
        /\ pool' = pool /\ heap' = [j \in Reachable' |-> heap[j]]
    BY <1>5 DEF Release
  <2>2. /\ snap' \in [Client -> SUBSET Entry] /\ chosen' \in [Client -> SUBSET Entry]
        /\ \A d \in Client : snap'[d] \subseteq snap[d] /\ chosen'[d] \subseteq chosen[d]
    BY <1>1, <2>1 DEF PoolInv, PoolTypeOK
  <2>3. QED
    BY <1>1, <2>1, <2>2, DropInv
<1>6. ASSUME NEW limit, NEW removeOldest \in BOOLEAN,
             RemoveWorst(limit, removeOldest)
      PROVE  PoolInv'
  <2>1. /\ pool' \subseteq pool /\ snap' = snap /\ chosen' = chosen
        /\ heap' = [j \in Reachable' |-> heap[j]]
    BY <1>6 DEF RemoveWorst
  <2>2. QED
    BY <1>1, <2>1, DropInv DEF PoolInv, PoolTypeOK
<1>7. CASE Tick
  BY <1>1, <1>7, TickInv
<1>8. CASE UNCHANGED poolVars
  <2>1. /\ pool' = pool /\ heap' = heap /\ snap' = snap /\ chosen' = chosen
        /\ Reachable' = Reachable /\ \A j : Holders(j)' = Holders(j)
    BY <1>8 DEF poolVars, Reachable, Holders
  <2>2. QED
    BY <1>1, <2>1 DEF PoolInv, PoolTypeOK, SizeBound, LiveBudget, OveruseBound
<1>9. QED
  BY <1>1, <1>2, <1>3, <1>4, <1>5, <1>6, <1>7, <1>8 DEF PoolNext

(* The invariant holds throughout. *)
THEOREM PoolInvariant == PoolSpec => []PoolInv
BY InitInv, NextInv, PTL DEF PoolSpec

(* Type correctness of the pool, its entries and the copies its callers hold. *)
THEOREM PoolTypeCorrect == PoolSpec => []PoolTypeOK
BY PoolInvariant, PTL DEF PoolInv

(* ProbePool never outgrows maxSize (Add, types.go:86), for any number of
   concurrent depositors, selectors and removals.                           *)
THEOREM PoolSizeBounded == PoolSpec => []SizeBound
BY PoolInvariant, PTL DEF PoolInv

(* No entry of the pool is spent (MarkUsed, types.go:112), whatever order its
   concurrent users mark it in.                                             *)
THEOREM PoolEntriesLive == PoolSpec => []LiveBudget
BY PoolInvariant, PTL DEF PoolInv

(* A budget is overrun by less than the number of concurrent callers: the exact
   price of letting go of pp.mu between Fresh and MarkUsed.                 *)
THEOREM PoolOveruseBounded == PoolSpec => []OveruseBound
BY PoolInvariant, PTL DEF PoolInv

(* An entry that was used up or evicted while a caller held it is never put
   back (MarkUsed and Add, types.go:86-120).                                *)
THEOREM PoolNeverReturns == PoolSpec => NeverReturns
<1>1. ASSUME [PoolNext]_poolVars
      PROVE  [\A i \in Reachable \ pool : i \in Reachable' => i \notin pool']_poolVars
  <2>1. SUFFICES ASSUME NEW i \in Reachable \ pool, i \in Reachable', PoolNext
                 PROVE  i \notin pool'
    BY <1>1
  <2>2. ASSUME NEW j \in Entry, NEW o \in Observation, Add(j, o) PROVE i \notin pool'
    <3>1. j # i /\ pool' \subseteq pool \cup {j}
      BY <2>1, <2>2 DEF Add
    <3>2. QED
      BY <2>1, <3>1
  <2>3. ASSUME pool' \subseteq pool PROVE i \notin pool'
    BY <2>1, <2>3
  <2>4. ASSUME NEW c \in Client, NEW j \in Entry, MarkUsed(c, j) PROVE pool' \subseteq pool
    BY <2>4 DEF MarkUsed, AfterUse
  <2>5. ASSUME NEW t, NEW b \in BOOLEAN, RemoveWorst(t, b) PROVE pool' \subseteq pool
    BY <2>5 DEF RemoveWorst
  <2>6. QED
    BY <2>1, <2>2, <2>3, <2>4, <2>5 DEF PoolNext, Fresh, Release, Tick
<1>2. QED
  BY <1>1, PTL DEF PoolSpec, NeverReturns

-----------------------------------------------------------------------------
(***************************************************************************)
(* Health probing.  That a server that answers its probes is in rotation   *)
(* is not inductive: the next result to be applied might be a failure of   *)
(* it.  It is once the results on their way are part of the invariant:     *)
(* none of those of s is a failure.                                        *)
(***************************************************************************)

NoBadNews(s) ==
    \A k \in Probe : probes[k].st = "back" /\ probes[k].server = s => probes[k].ok

Unharmed(s) == ProberTypeOK /\ healthy[s] /\ NoBadNews(s)

-----------------------------------------------------------------------------

(* Every server starts in rotation and nothing is in flight. *)
LEMMA UnharmedInit ==
    ASSUME NEW s \in Server, HealthInit
    PROVE  Unharmed(s)
BY DEF HealthInit, ProberInit, Unharmed, ProberTypeOK, NoBadNews, Idle

(* The steps of the prober that answer no probe, in the types of its variables and
   in the news on its way.                                                    *)
LEMMA FireStep ==
    ASSUME NEW s \in Server, Unharmed(s), NEW k \in Probe, NEW t \in Server,
           FirePeriodic(k, t)
    PROVE  Unharmed(s)'
<1>1. NewProbe("periodic", t) \in Flying
  BY AgeAssumption DEF NewProbe, Flying, Ages
<1>2. probes' = [probes EXCEPT ![k] = NewProbe("periodic", t)] /\ healthy' = healthy
  BY DEF FirePeriodic
<1>3. ProberTypeOK'
  BY <1>1, <1>2 DEF Unharmed, ProberTypeOK
<1>4. NoBadNews(s)'
  BY <1>2 DEF Unharmed, ProberTypeOK, NoBadNews, NewProbe
<1>5. QED
  BY <1>2, <1>3, <1>4 DEF Unharmed

LEMMA FireAsyncStep ==
    ASSUME NEW s \in Server, Unharmed(s), NEW targets \in SUBSET Server,
           FireAsync(targets)
    PROVE  Unharmed(s)'
<1>1. PICK slot \in [targets -> Free] :
         probes' = [k \in Probe |->
                      IF \E t \in targets : slot[t] = k
                      THEN NewProbe("async", CHOOSE t \in targets : slot[t] = k)
                      ELSE probes[k]]
  BY DEF FireAsync
<1>2. \A t \in Server : NewProbe("async", t) \in Flying /\ NewProbe("async", t).st = "flying"
  BY AgeAssumption DEF NewProbe, Flying, Ages
<1>3. ASSUME NEW k \in Probe
      PROVE  probes'[k] = probes[k] \/ (probes'[k] \in Flying /\ probes'[k].st = "flying")
  <2>1. CASE \E t \in targets : slot[t] = k
    <3>1. (CHOOSE t \in targets : slot[t] = k) \in Server
      BY <2>1
    <3>2. probes'[k] = NewProbe("async", CHOOSE t \in targets : slot[t] = k)
      BY <1>1, <2>1
    <3>3. QED
      BY <3>1, <3>2, <1>2
  <2>2. CASE ~ \E t \in targets : slot[t] = k
    BY <1>1, <2>2
  <2>3. QED
    BY <2>1, <2>2
<1>4. healthy' = healthy /\ probes' = [k \in Probe |-> probes'[k]]
  BY <1>1 DEF FireAsync
<1>5. \A k \in Probe : probes'[k] \in {Idle} \cup Flying \cup Answered
  BY <1>3 DEF Unharmed, ProberTypeOK
<1>6. ProberTypeOK'
  BY <1>4, <1>5 DEF Unharmed, ProberTypeOK
<1>7. NoBadNews(s)'
  BY <1>3 DEF Unharmed, NoBadNews
<1>8. QED
  BY <1>4, <1>6, <1>7 DEF Unharmed

(* While s is responsive its probes succeed (probeServer, balancer.go:218). *)
LEMMA AnswerStep ==
    ASSUME NEW s \in Server, Unharmed(s), responsive[s], NEW k \in Probe,
           AnswerAsServed(k), responsive \in [Server -> BOOLEAN]
    PROVE  Unharmed(s)'
<1>1. PICK t \in Server : /\ probes[k].st = "flying" /\ probes[k].server = t
                          /\ Answer(k, responsive[t])
  BY DEF AnswerAsServed
<1>2. PICK r \in ProbeResults(probes[k], responsive[t]) :
         probes' = [probes EXCEPT ![k] = r]
  BY <1>1 DEF Answer
<1>3. probes[k] \in Flying
  BY <1>1 DEF Unharmed, ProberTypeOK, Idle, Answered
<1>4. r \in Answered /\ r.server = t /\ r.ok = responsive[t]
  BY <1>1, <1>2, <1>3 DEF ProbeResults, Answered, Flying, ReportedRIFs
<1>5. healthy' = healthy
  BY <1>1 DEF Answer
<1>6. ProberTypeOK'
  BY <1>2, <1>4, <1>5 DEF Unharmed, ProberTypeOK
<1>7. NoBadNews(s)'
  <2>1. \A j \in Probe \ {k} : probes'[j] = probes[j]
    BY <1>2 DEF Unharmed, ProberTypeOK
  <2>2. probes'[k] = r
    BY <1>2 DEF Unharmed, ProberTypeOK
  <2>3. QED
    BY <2>1, <2>2, <1>4 DEF Unharmed, NoBadNews
<1>8. QED
  BY <1>5, <1>6, <1>7 DEF Unharmed

(* A result that is applied is a success, if it is one of s (balancer.go:151). *)
LEMMA ApplyStep ==
    ASSUME NEW s \in Server, Unharmed(s), NEW k \in Probe, Apply(k)
    PROVE  Unharmed(s)'
<1>1. probes[k] \in Answered /\ probes[k].st = "back"
  BY DEF Apply, Dropped, Unharmed, ProberTypeOK, Idle, Flying
<1>2. CASE probes' = [probes EXCEPT ![k] = Idle] /\ healthy' = healthy
  BY <1>2 DEF Unharmed, ProberTypeOK, NoBadNews, Idle
<1>3. CASE /\ probes' = [probes EXCEPT ![k].st = "applied"]
           /\ healthy' = [healthy EXCEPT ![probes[k].server] = probes[k].ok]
  <2>1. [probes[k] EXCEPT !.st = "applied"] \in Answered
    BY <1>1 DEF Answered
  <2>2. probes' = [probes EXCEPT ![k] = [probes[k] EXCEPT !.st = "applied"]]
    BY <1>3
  <2>3. probes[k].server \in Server /\ probes[k].ok \in BOOLEAN
    BY <1>1 DEF Answered
  <2>4. ProberTypeOK'
    BY <1>3, <2>1, <2>2, <2>3 DEF Unharmed, ProberTypeOK
  <2>5. healthy'[s]
    BY <1>1, <1>3, <2>3 DEF Unharmed, ProberTypeOK, NoBadNews
  <2>6. NoBadNews(s)'
    <3>1. \A j \in Probe \ {k} : probes'[j] = probes[j]
      BY <2>2 DEF Unharmed, ProberTypeOK
    <3>2. probes'[k].st = "applied"
      BY <2>2, <1>1 DEF Unharmed, ProberTypeOK, Answered
    <3>3. QED
      BY <3>1, <3>2 DEF Unharmed, NoBadNews
  <2>7. QED
    BY <2>4, <2>5, <2>6 DEF Unharmed
<1>4. QED
  BY <1>2, <1>3 DEF Apply, Dropped

LEMMA FinishStep ==
    ASSUME NEW s \in Server, Unharmed(s), NEW k \in Probe, Finish(k)
    PROVE  Unharmed(s)'
BY DEF Finish, Unharmed, ProberTypeOK, NoBadNews, Idle

(* Age is all that time changes. *)
LEMMA TickStep ==
    ASSUME NEW s \in Server, Unharmed(s), ProberTick
    PROVE  Unharmed(s)'
<1>1. \A a \in Ages : Older(a) \in Ages
  BY AgeAssumption DEF Ages, Older
<1>2. ASSUME NEW k \in Probe
      PROVE  /\ probes'[k] \in {Idle} \cup Flying \cup Answered
             /\ probes'[k].st = "back" /\ probes'[k].server = s => probes'[k].ok
  <2>1. CASE k \in Free
    BY <2>1 DEF ProberTick, Idle
  <2>2. CASE k \notin Free
    <3>1. probes'[k] = [probes[k] EXCEPT !.age = Older(probes[k].age)]
      BY <2>2 DEF ProberTick
    <3>2. probes[k] \in Flying \cup Answered
      BY <2>2 DEF Free, Unharmed, ProberTypeOK, Idle
    <3>3. CASE probes[k] \in Flying
      BY <3>1, <3>3, <1>1 DEF Flying
    <3>4. CASE probes[k] \in Answered
      BY <3>1, <3>4, <1>1 DEF Answered, Unharmed, NoBadNews
    <3>5. QED
      BY <3>2, <3>3, <3>4
  <2>3. QED
    BY <2>1, <2>2
<1>3. healthy' = healthy /\ probes' = [k \in Probe |-> probes'[k]]
  BY DEF ProberTick
<1>4. ProberTypeOK'
  BY <1>2, <1>3 DEF Unharmed, ProberTypeOK
<1>5. QED
  BY <1>2, <1>3, <1>4 DEF Unharmed, NoBadNews

(* Every step of the system, while s answers. *)
LEMMA UnharmedStep ==
    ASSUME NEW s \in Server, Unharmed(s), responsive \in [Server -> BOOLEAN],
           responsive[s], [HealthNext]_healthVars
    PROVE  Unharmed(s)' /\ (responsive \in [Server -> BOOLEAN])'
<1>1. ASSUME NEW k \in Probe, ProbeGoesOn(k) PROVE Unharmed(s)' /\ responsive' = responsive
  BY <1>1, AnswerStep, ApplyStep, FinishStep DEF ProbeGoesOn
<1>2. ASSUME NEW t \in Server, PeriodicProbe(t) PROVE Unharmed(s)' /\ responsive' = responsive
  BY <1>2, FireStep DEF PeriodicProbe
<1>3. ASSUME NEW t \in Server, Turn(t)
      PROVE  Unharmed(s)' /\ responsive' \in [Server -> BOOLEAN]
  BY <1>3 DEF Turn, proberVars, Unharmed, ProberTypeOK, NoBadNews
<1>4. CASE RequestProbes
  BY <1>4, FireAsyncStep DEF RequestProbes
<1>5. CASE ProberTick /\ responsive' = responsive
  BY <1>5, TickStep
<1>6. CASE UNCHANGED healthVars
  BY <1>6 DEF healthVars, proberVars, Unharmed, ProberTypeOK, NoBadNews
<1>7. QED
  BY <1>1, <1>2, <1>3, <1>4, <1>5, <1>6 DEF HealthNext

-----------------------------------------------------------------------------

(* The probes of other servers, the order in which results land, and the number of
   them in flight never take a responsive server out of rotation.             *)
THEOREM HealthNoFalseAlarm == HealthSafety => NoFalseAlarm
<1>1. SUFFICES ASSUME NEW s \in Server
               PROVE  HealthSafety => ([]responsive[s] => []healthy[s])
  BY DEF NoFalseAlarm
<1> DEFINE I == Unharmed(s) /\ responsive \in [Server -> BOOLEAN]
<1>2. HealthInit => I
  BY UnharmedInit DEF HealthInit
<1>3. I /\ responsive[s] /\ [HealthNext]_healthVars => I'
  BY UnharmedStep
<1>4. I => healthy[s]
  BY DEF Unharmed
<1>5. QED
  <2> HIDE DEF I
  <2>1. QED
    BY <1>2, <1>3, <1>4, PTL DEF HealthSafety

-----------------------------------------------------------------------------
(***************************************************************************)
(* Selection.  What makes its promise inductive: while a selection runs,   *)
(* every server in rotation is eligible (so that falling back on any of    *)
(* them is right), and the server of every entry the scan kept is          *)
(* eligible, although it may have left the rotation since the scan read    *)
(* its health.                                                             *)
(***************************************************************************)

SelectionInv ==
    \A c \in Client :
        /\ Selecting(c) => HealthyServers \subseteq eligible[c]
        /\ \A i \in seen[c] : heap[i].server \in eligible[c]

PrequalInv == PoolInv /\ PrequalTypeOK /\ SelectionInv

-----------------------------------------------------------------------------
(* Steps of Prequal are steps of the pool.                                  *)

(* What an applied probe deposits is an observation of the pool. *)
LEMMA DepositObserves ==
    ASSUME ProberTypeOK, NEW k \in Probe, probes[k].st = "applied"
    PROVE  [server |-> probes[k].server, rif |-> probes[k].rif,
            lat |-> probes[k].lat, age |-> probes[k].age,
            maxUses |-> Breuse(Cardinality(Server))] \in Observation
<1>1. probes[k] \in Answered
  BY DEF ProberTypeOK, Idle, Flying
<1>2. /\ probes[k].server \in Server /\ probes[k].rif \in ReportedRIFs
      /\ probes[k].lat \in Latencies /\ probes[k].age \in Ages
  BY <1>1 DEF Answered
<1>3. QED
  BY <1>2, BreuseAssumption DEF Observation

LEMMA PoolStep ==
    ASSUME PrequalInv, [PrequalNext]_prequalVars
    PROVE  [PoolNext]_poolVars
<1>1. ASSUME NEW c \in Client, Serve(c) \/ TooFewFresh(c) \/ Fallback(c)
      PROVE  UNCHANGED poolVars
  BY <1>1 DEF Serve, TooFewFresh, Fallback
<1>2. ASSUME NEW c \in Client, CopyFresh(c) PROVE PoolNext
  BY <1>2 DEF CopyFresh, PoolNext
<1>3. ASSUME NEW c \in Client, NEW i \in Entry, Look(c, i) PROVE UNCHANGED poolVars
  BY <1>3 DEF Look
<1>4. ASSUME NEW c \in Client, NEW i \in Entry, Choose(c, i) PROVE PoolNext
  BY <1>4 DEF Choose, PoolNext
<1>5. ASSUME NEW c \in Client, NothingToChoose(c) \/ Leave(c)
      PROVE  PoolNext \/ UNCHANGED poolVars
  BY <1>5 DEF NothingToChoose, Leave, PoolNext
<1>6. CASE StartBatch \/ \E s \in Server : StartPeriodic(s)
  BY <1>6 DEF StartBatch, StartPeriodic
<1>7. ASSUME NEW k \in Probe, ProbeAnswered(k) \/ ProbeApplied(k)
      PROVE  UNCHANGED poolVars
  BY <1>7 DEF ProbeAnswered, ProbeApplied
<1>8. ASSUME NEW k \in Probe, NEW i \in Entry, Deposit(k, i) PROVE PoolNext
  <2>1. probes[k].st = "applied"
    BY <1>8 DEF Deposit, Finish
  <2>2. PICK o \in Observation : Add(i, o)
    BY <1>8, <2>1, DepositObserves DEF Deposit, PrequalInv, PrequalTypeOK
  <2>3. QED
    BY <2>2 DEF PoolNext
<1>9. CASE RemoverReads
  BY <1>9 DEF RemoverReads
<1>10. CASE RemoverRemoves
  <2>1. threshold \in ReportedRIFs \cup {0} /\ toggle \in BOOLEAN
    BY DEF PrequalInv, PrequalTypeOK
  <2>2. QED
    BY <1>10, <2>1 DEF RemoverRemoves, PoolNext
<1>11. CASE TimePasses
  BY <1>11 DEF TimePasses, PoolNext
<1>12. CASE UNCHANGED prequalVars
  BY <1>12 DEF prequalVars
<1>13. QED
  BY <1>1, <1>2, <1>3, <1>4, <1>5, <1>6, <1>7, <1>8, <1>9, <1>10, <1>11, <1>12
     DEF PrequalNext, SelectStep, ProbeStep, RemoverStep

(* An entry keeps its server for as long as it can be reached. *)
LEMMA ServerKept ==
    ASSUME PoolInv, [PoolNext]_poolVars, NEW j \in Reachable, j \in Reachable'
    PROVE  heap'[j].server = heap[j].server
<1>1. heap[j] \in ProbeEntry
  BY DEF PoolInv, PoolTypeOK
<1>2. ASSUME NEW i \in Entry, NEW o \in Observation, Add(i, o)
      PROVE  heap'[j].server = heap[j].server
  BY <1>2 DEF Add
<1>3. ASSUME NEW c \in Client, Fresh(c) \/ Release(c)
      PROVE  heap'[j].server = heap[j].server
  BY <1>3 DEF Fresh, Release
<1>4. ASSUME NEW c \in Client, NEW i \in Entry, MarkUsed(c, i)
      PROVE  heap'[j].server = heap[j].server
  <2>1. heap'[j] = IF j = i THEN [heap[i] EXCEPT !.uses = @ + 1] ELSE heap[j]
    BY <1>4 DEF MarkUsed, AfterUse
  <2>2. [heap[j] EXCEPT !.uses = @ + 1].server = heap[j].server
    BY <1>1 DEF ProbeEntry
  <2>3. QED
    BY <2>1, <2>2
<1>5. ASSUME NEW t, NEW b \in BOOLEAN, RemoveWorst(t, b)
      PROVE  heap'[j].server = heap[j].server
  BY <1>5 DEF RemoveWorst
<1>6. CASE Tick
  <2>1. heap'[j] = [heap[j] EXCEPT !.age = Older(@)]
    BY <1>6 DEF Tick
  <2>2. [heap[j] EXCEPT !.age = Older(@)].server = heap[j].server
    BY <1>1 DEF ProbeEntry
  <2>3. QED
    BY <2>1, <2>2
<1>7. CASE UNCHANGED poolVars
  BY <1>7 DEF poolVars
<1>8. QED
  BY <1>2, <1>3, <1>4, <1>5, <1>6, <1>7 DEF PoolNext

-----------------------------------------------------------------------------
(* Steps of Prequal are steps of the prober.                                *)

LEMMA ProberStep ==
    ASSUME [PrequalNext]_prequalVars
    PROVE  [ProberNext]_proberVars
<1>1. ASSUME NEW c \in Client, Serve(c) \/ SelectStep(c) \/ Leave(c)
      PROVE  UNCHANGED proberVars
  BY <1>1 DEF Serve, SelectStep, Leave, TooFewFresh, CopyFresh, NothingToChoose,
              Fallback, Look, Choose
<1>2. CASE StartBatch
  BY <1>2 DEF StartBatch, ProberNext
<1>3. ASSUME NEW s \in Server, StartPeriodic(s) PROVE ProberNext
  BY <1>3 DEF StartPeriodic, ProberNext
<1>4. ASSUME NEW k \in Probe, ProbeStep(k) PROVE ProberNext
  BY <1>4 DEF ProbeStep, ProbeAnswered, ProbeApplied, Deposit, ProberNext
<1>5. CASE RemoverStep
  BY <1>5 DEF RemoverStep, RemoverReads, RemoverRemoves
<1>6. CASE TimePasses
  BY <1>6 DEF TimePasses, ProberNext
<1>7. CASE UNCHANGED prequalVars
  BY <1>7 DEF prequalVars
<1>8. QED
  BY <1>1, <1>2, <1>3, <1>4, <1>5, <1>6, <1>7 DEF PrequalNext

(* A probe goroutine is always in one of its states. *)
LEMMA ProberTypeInv ==
    ASSUME ProberTypeOK, [ProberNext]_proberVars
    PROVE  ProberTypeOK'
<1> DEFINE States == {Idle} \cup Flying \cup Answered
<1>1. /\ healthy \in [Server -> BOOLEAN]
      /\ probes \in [Probe -> States]
      /\ Idle \in States
  BY DEF ProberTypeOK
<1>2. \A kind \in {"periodic", "async"}, s \in Server : NewProbe(kind, s) \in States
  BY AgeAssumption DEF NewProbe, Flying, Ages
<1>3. ASSUME NEW k \in Probe, NEW s \in Server, FirePeriodic(k, s) PROVE ProberTypeOK'
  <2>1. probes' = [probes EXCEPT ![k] = NewProbe("periodic", s)] /\ healthy' = healthy
    BY <1>3 DEF FirePeriodic
  <2>2. NewProbe("periodic", s) \in States
    BY <1>2
  <2> HIDE DEF States
  <2>3. probes' \in [Probe -> States]
    BY <1>1, <2>1, <2>2
  <2>4. QED
    BY <1>1, <2>1, <2>3 DEF ProberTypeOK, States
<1>4. ASSUME NEW targets \in SUBSET Server, FireAsync(targets) PROVE ProberTypeOK'
  <2>1. PICK slot \in [targets -> Free] :
           probes' = [k \in Probe |->
                        IF \E s \in targets : slot[s] = k
                        THEN NewProbe("async", CHOOSE s \in targets : slot[s] = k)
                        ELSE probes[k]]
    BY <1>4 DEF FireAsync
  <2>2. ASSUME NEW k \in Probe PROVE probes'[k] \in States
    <3>1. CASE \E s \in targets : slot[s] = k
      <4>1. (CHOOSE s \in targets : slot[s] = k) \in Server
        BY <3>1
      <4>2. NewProbe("async", CHOOSE s \in targets : slot[s] = k) \in States
        BY <1>2, <4>1
      <4>3. QED
        BY <2>1, <3>1, <4>2
    <3>2. CASE ~ \E s \in targets : slot[s] = k
      BY <1>1, <2>1, <3>2
    <3>3. QED
      BY <3>1, <3>2
  <2>3. healthy' = healthy
    BY <1>4 DEF FireAsync
  <2> HIDE DEF States
  <2>4. probes' \in [Probe -> States]
    BY <2>1, <2>2
  <2>5. QED
    BY <1>1, <2>3, <2>4 DEF ProberTypeOK, States
<1>5. ASSUME NEW k \in Probe, NEW ok \in BOOLEAN, Answer(k, ok) PROVE ProberTypeOK'
  <2>1. PICK r \in ProbeResults(probes[k], ok) : probes' = [probes EXCEPT ![k] = r]
    BY <1>5 DEF Answer
  <2>2. probes[k] \in Flying
    BY <1>1, <1>5 DEF Answer, Idle, Answered
  <2>3. r \in Answered
    BY <2>1, <2>2 DEF ProbeResults, Flying, Answered, ReportedRIFs
  <2>4. healthy' = healthy
    BY <1>5 DEF Answer
  <2>5. r \in States
    BY <2>3
  <2> HIDE DEF States
  <2>6. probes' \in [Probe -> States]
    BY <1>1, <2>1, <2>5
  <2>7. QED
    BY <1>1, <2>4, <2>6 DEF ProberTypeOK, States
<1>6. ASSUME NEW k \in Probe, Apply(k) PROVE ProberTypeOK'
  <2>1. probes[k] \in Answered
    BY <1>1, <1>6 DEF Apply, Dropped, Idle, Flying
  <2>2. /\ [probes[k] EXCEPT !.st = "applied"] \in Answered
        /\ probes[k].server \in Server /\ probes[k].ok \in BOOLEAN
    BY <2>1 DEF Answered
  <2>3. CASE probes[k].kind = "async" /\ ~probes[k].ok
    <3>1. probes' = [probes EXCEPT ![k] = Idle] /\ healthy' = healthy
      BY <1>6, <2>3 DEF Apply, Dropped
    <3> HIDE DEF States
    <3>2. QED
      BY <1>1, <3>1 DEF ProberTypeOK, States
  <2>4. CASE ~(probes[k].kind = "async" /\ ~probes[k].ok)
    <3>1. /\ probes' = [probes EXCEPT ![k] = [probes[k] EXCEPT !.st = "applied"]]
          /\ healthy' = [healthy EXCEPT ![probes[k].server] = probes[k].ok]
      BY <1>6, <2>4 DEF Apply, Dropped
    <3>2. [probes[k] EXCEPT !.st = "applied"] \in States
      BY <2>2
    <3> HIDE DEF States
    <3>3. probes' \in [Probe -> States]
      BY <1>1, <3>1, <3>2
    <3>4. healthy' \in [Server -> BOOLEAN]
      BY <1>1, <2>2, <3>1
    <3>5. QED
      BY <3>3, <3>4 DEF ProberTypeOK, States
  <2>5. QED
    BY <2>3, <2>4
<1>7. ASSUME NEW k \in Probe, Finish(k) PROVE ProberTypeOK'
  <2>1. probes' = [probes EXCEPT ![k] = Idle] /\ healthy' = healthy
    BY <1>7 DEF Finish
  <2> HIDE DEF States
  <2>2. QED
    BY <1>1, <2>1 DEF ProberTypeOK, States
<1>8. CASE ProberTick
  <2>1. ASSUME NEW k \in Probe, k \notin Free
        PROVE  [probes[k] EXCEPT !.age = Older(@)] \in States
    <3>1. probes[k] \in Flying \/ probes[k] \in Answered
      BY <1>1, <2>1 DEF Free, Idle
    <3>2. probes[k].age \in Ages
      BY <3>1 DEF Flying, Answered
    <3>3. Older(probes[k].age) \in Ages
      BY <3>2, AgeAssumption DEF Older, Ages
    <3>4. QED
      BY <3>1, <3>3 DEF Flying, Answered
  <2>2. /\ probes' = [k \in Probe |-> IF k \in Free THEN Idle
                                      ELSE [probes[k] EXCEPT !.age = Older(@)]]
        /\ healthy' = healthy
    BY <1>8 DEF ProberTick
  <2> HIDE DEF States
  <2>3. probes' \in [Probe -> States]
    BY <1>1, <2>1, <2>2
  <2>4. QED
    BY <1>1, <2>2, <2>3 DEF ProberTypeOK, States
<1>9. CASE UNCHANGED proberVars
  BY <1>9 DEF proberVars, ProberTypeOK
<1>10. QED
  BY <1>3, <1>4, <1>5, <1>6, <1>7, <1>8, <1>9 DEF ProberNext

-----------------------------------------------------------------------------
(* Types of what Prequal adds to the pool and the prober.                   *)

ClientTypeOK ==
    /\ pc \in [Client -> {"idle", "copying", "scanning", "random", "decided"}]
    /\ todo \in [Client -> SUBSET Entry]
    /\ seen \in [Client -> SUBSET Entry]
    /\ \A c \in Client : /\ todo[c] \cup seen[c] \subseteq snap[c]
                         /\ pc[c] # "scanning" => todo[c] = {} /\ seen[c] = {}
    /\ answer \in [Client -> SUBSET Server]
    /\ eligible \in [Client -> SUBSET Server]

RemoverTypeOK ==
    /\ owed \in Nat
    /\ remover \in {"idle", "removing"}
    /\ threshold \in ReportedRIFs \cup {0}
    /\ toggle \in BOOLEAN

LEMMA ClientTypeInv ==
    ASSUME PrequalInv, [PrequalNext]_prequalVars
    PROVE  ClientTypeOK'
<1>1. ClientTypeOK /\ HealthyServers \subseteq Server /\ HealthyServers' \subseteq Server
  BY DEF PrequalInv, PrequalTypeOK, ClientTypeOK, HealthyServers
<1>2. /\ snap \in [Client -> SUBSET Entry] /\ chosen \in [Client -> SUBSET Entry]
      /\ FreshEntries \subseteq Entry
      /\ \A i \in Reachable : heap[i] \in ProbeEntry /\ heap[i].server \in Server
  BY DEF PrequalInv, PoolInv, PoolTypeOK, FreshEntries, ProbeEntry
<1>3. ASSUME NEW c \in Client, Serve(c) PROVE ClientTypeOK'
  BY <1>1, <1>3 DEF Serve, ClientTypeOK, poolVars
<1>4. ASSUME NEW c \in Client, TooFewFresh(c) PROVE ClientTypeOK'
  BY <1>1, <1>4 DEF TooFewFresh, ClientTypeOK, poolVars
<1>5. ASSUME NEW c \in Client, CopyFresh(c) PROVE ClientTypeOK'
  BY <1>1, <1>2, <1>5 DEF CopyFresh, Fresh, ClientTypeOK
<1>6. ASSUME NEW c \in Client, NEW i \in Entry, Look(c, i) PROVE ClientTypeOK'
  <2>1. /\ i \in todo[c] /\ todo' = [todo EXCEPT ![c] = @ \ {i}]
        /\ seen' = seen \/ seen' = [seen EXCEPT ![c] = @ \cup {i}]
        /\ snap' = snap /\ pc' = pc /\ answer' = answer /\ eligible' = eligible
    BY <1>6 DEF Look, poolVars
  <2>2. pc[c] = "scanning"
    BY <1>1, <2>1 DEF ClientTypeOK
  <2>3. QED
    BY <1>1, <2>1, <2>2 DEF ClientTypeOK
<1>7. ASSUME NEW c \in Client, NEW i \in Entry, Choose(c, i) PROVE ClientTypeOK'
  <2>1. heap[i].server \in Server
    BY <1>2, <1>7 DEF Choose, MarkUsed, AfterUse, Reachable
  <2>2. /\ snap' = [snap EXCEPT ![c] = {}] /\ seen' = [seen EXCEPT ![c] = {}]
        /\ answer' = [answer EXCEPT ![c] = {heap[i].server}]
        /\ eligible' = [eligible EXCEPT ![c] = {}]
        /\ pc' = [pc EXCEPT ![c] = "decided"] /\ todo' = todo /\ todo[c] = {}
    BY <1>7 DEF Choose, MarkUsed, AfterUse
  <2>3. QED
    BY <1>1, <1>2, <2>1, <2>2 DEF ClientTypeOK
<1>8. ASSUME NEW c \in Client, NothingToChoose(c) PROVE ClientTypeOK'
  BY <1>1, <1>2, <1>8 DEF NothingToChoose, Release, ClientTypeOK
<1>9. ASSUME NEW c \in Client, Fallback(c) PROVE ClientTypeOK'
  <2>1. \E A \in SUBSET Server : answer' = [answer EXCEPT ![c] = A]
    BY <1>1, <1>9 DEF Fallback
  <2>2. QED
    BY <1>1, <1>9, <2>1 DEF Fallback, ClientTypeOK, poolVars
<1>10. ASSUME NEW c \in Client, Leave(c) PROVE ClientTypeOK'
  <2>1. todo[c] = {} /\ seen[c] = {}
    BY <1>1, <1>10 DEF Leave, ClientTypeOK
  <2>2. snap' = snap \/ snap' = [snap EXCEPT ![c] = {}]
    BY <1>10 DEF Leave, Release, poolVars
  <2>3. QED
    BY <1>1, <1>2, <1>10, <2>1, <2>2 DEF Leave, ClientTypeOK
<1>11. ASSUME snap' = snap, pc' = pc, todo' = todo, seen' = seen, answer' = answer,
              eligible' \in [Client -> SUBSET Server]
       PROVE  ClientTypeOK'
  BY <1>1, <1>11 DEF ClientTypeOK
<1>12. ASSUME NEW k \in Probe, ProbeApplied(k) PROVE ClientTypeOK'
  <2>1. eligible' \in [Client -> SUBSET Server]
    BY <1>1, <1>12 DEF ProbeApplied, ClientTypeOK
  <2>2. QED
    BY <1>11, <1>12, <2>1 DEF ProbeApplied, poolVars
<1>13. ASSUME NEW k \in Probe, ProbeAnswered(k) \/ \E i \in Entry : Deposit(k, i)
       PROVE  ClientTypeOK'
  BY <1>1, <1>11, <1>13 DEF ProbeAnswered, Deposit, Add, clientVars, poolVars, ClientTypeOK
<1>14. CASE StartBatch \/ \E s \in Server : StartPeriodic(s)
  BY <1>1, <1>11, <1>14 DEF StartBatch, StartPeriodic, clientVars, poolVars, ClientTypeOK
<1>15. CASE RemoverStep \/ TimePasses
  BY <1>1, <1>11, <1>15 DEF RemoverStep, RemoverReads, RemoverRemoves, RemoveWorst,
                            TimePasses, Tick, clientVars, poolVars, ClientTypeOK
<1>16. CASE UNCHANGED prequalVars
  BY <1>1, <1>11, <1>16 DEF prequalVars, clientVars, poolVars, ClientTypeOK
<1>17. ASSUME NEW c \in Client, SelectStep(c) PROVE ClientTypeOK'
  BY <1>4, <1>5, <1>6, <1>7, <1>8, <1>9, <1>17 DEF SelectStep
<1>18. ASSUME NEW k \in Probe, ProbeStep(k) PROVE ClientTypeOK'
  BY <1>12, <1>13, <1>18 DEF ProbeStep
<1>19. QED
  BY <1>3, <1>10, <1>14, <1>15, <1>16, <1>17, <1>18 DEF PrequalNext

(* The threshold the remover computes is 0 or the RIF of some fresh entry. *)
LEMMA RemoverTypeInv ==
    ASSUME PrequalInv, [PrequalNext]_prequalVars
    PROVE  RemoverTypeOK'
<1>1. RemoverTypeOK
  BY DEF PrequalInv, PrequalTypeOK, RemoverTypeOK
<1>2. CASE RemoverReads
  <2>1. RifQuantile(FreshEntries, heap) \in ReportedRIFs \cup {0}
    <3>1. FreshEntries \subseteq pool /\ IsFiniteSet(FreshEntries)
      BY FS_Subset DEF FreshEntries, PrequalInv, PoolInv, PoolTypeOK
    <3>2. \A i \in FreshEntries : heap[i].rif \in ReportedRIFs
      BY <3>1 DEF PrequalInv, PoolInv, PoolTypeOK, ProbeEntry, Reachable
    <3>3. ReportedRIFs \subseteq Int
      BY SignalAssumption DEF ReportedRIFs, NoRIF
    <3>4. CASE FreshEntries = {}
      BY <3>4 DEF RifQuantile
    <3>5. CASE FreshEntries # {}
      <4>1. \A i \in FreshEntries : heap[i].rif \in Int
        BY <3>2, <3>3
      <4>2. RifQuantile(FreshEntries, heap) \in {heap[i].rif : i \in FreshEntries}
        BY <3>1, <3>5, <4>1, QuantileRank
      <4>3. QED
        BY <3>2, <4>2
    <3>6. QED
      BY <3>4, <3>5
  <2>2. QED
    BY <1>1, <1>2, <2>1 DEF RemoverReads, RemoverTypeOK
<1>3. CASE RemoverRemoves
  BY <1>1, <1>3 DEF RemoverRemoves, RemoverTypeOK
<1>4. CASE StartBatch
  BY <1>1, <1>4 DEF StartBatch, RemoverTypeOK, removerVars
<1>5. ASSUME NEW c \in Client, Serve(c) PROVE RemoverTypeOK'
  BY <1>1, <1>5 DEF Serve, RemoverTypeOK, removerVars
<1>6. ASSUME UNCHANGED <<removerVars, owed>> PROVE RemoverTypeOK'
  BY <1>1, <1>6 DEF RemoverTypeOK, removerVars
<1>7. ASSUME NEW c \in Client, SelectStep(c) \/ Leave(c)
      PROVE  UNCHANGED <<removerVars, owed>>
  BY <1>7 DEF SelectStep, Leave, TooFewFresh, CopyFresh, NothingToChoose, Fallback,
              Look, Choose
<1>8. ASSUME NEW k \in Probe, ProbeStep(k) PROVE UNCHANGED <<removerVars, owed>>
  BY <1>8 DEF ProbeStep, ProbeAnswered, ProbeApplied, Deposit
<1>9. ASSUME NEW s \in Server, StartPeriodic(s) \/ TimePasses
      PROVE  UNCHANGED <<removerVars, owed>>
  BY <1>9 DEF StartPeriodic, TimePasses
<1>10. CASE TimePasses
  BY <1>6, <1>10 DEF TimePasses
<1>11. CASE UNCHANGED prequalVars
  BY <1>6, <1>11 DEF prequalVars
<1>12. QED
  BY <1>2, <1>3, <1>4, <1>5, <1>6, <1>7, <1>8, <1>9, <1>10, <1>11
     DEF PrequalNext, RemoverStep

-----------------------------------------------------------------------------
(* The eligible servers.                                                    *)

(* A step that leaves the selections and the health of the servers alone keeps
   the eligible servers what they are.                                      *)
LEMMA SelectionFramed ==
    ASSUME PrequalInv, [PoolNext]_poolVars, UNCHANGED clientVars, healthy' = healthy,
           snap' = snap
    PROVE  SelectionInv'
<1>1. SUFFICES ASSUME NEW c \in Client
               PROVE  /\ Selecting(c)' => HealthyServers' \subseteq eligible'[c]
                      /\ \A i \in seen'[c] : heap'[i].server \in eligible'[c]
  BY DEF SelectionInv
<1>2. /\ pc' = pc /\ seen' = seen /\ eligible' = eligible
      /\ HealthyServers' = HealthyServers /\ (Selecting(c)' <=> Selecting(c))
  BY DEF clientVars, HealthyServers, Selecting
<1>3. /\ Selecting(c) => HealthyServers \subseteq eligible[c]
      /\ \A i \in seen[c] : heap[i].server \in eligible[c]
  BY DEF PrequalInv, SelectionInv
<1>4. ASSUME NEW i \in seen[c] PROVE heap'[i].server = heap[i].server
  <2>1. i \in snap[c]
    BY DEF PrequalInv, PrequalTypeOK
  <2>2. i \in Reachable /\ i \in Reachable'
    BY <2>1 DEF Reachable
  <2>3. QED
    BY <2>2, ServerKept DEF PrequalInv
<1>5. QED
  BY <1>2, <1>3, <1>4

LEMMA SelectionInvStep ==
    ASSUME PrequalInv, [PrequalNext]_prequalVars
    PROVE  SelectionInv'
<1>1. /\ SelectionInv /\ ClientTypeOK
      /\ \A c \in Client : seen[c] \subseteq snap[c]
  BY DEF PrequalInv, PrequalTypeOK, ClientTypeOK
<1>2. [PoolNext]_poolVars
  BY PoolStep
<1>3. ASSUME NEW d \in Client, NEW i \in seen[d], snap'[d] = snap[d]
      PROVE  heap'[i].server = heap[i].server
  <2>1. i \in Reachable /\ i \in Reachable'
    BY <1>1, <1>3 DEF Reachable
  <2>2. QED
    BY <1>2, <2>1, ServerKept DEF PrequalInv
<1>4. ASSUME NEW c \in Client, Serve(c) PROVE SelectionInv'
  BY <1>1, <1>4 DEF Serve, SelectionInv, ClientTypeOK, Selecting, HealthyServers,
                    poolVars, proberVars
<1>5. ASSUME NEW c \in Client, TooFewFresh(c) PROVE SelectionInv'
  BY <1>1, <1>5 DEF TooFewFresh, SelectionInv, ClientTypeOK, Selecting, HealthyServers,
                    poolVars, proberVars
<1>6. ASSUME NEW c \in Client, CopyFresh(c) PROVE SelectionInv'
  BY <1>1, <1>6 DEF CopyFresh, Fresh, SelectionInv, ClientTypeOK, Selecting,
                    HealthyServers, proberVars
<1>7. ASSUME NEW c \in Client, NEW i \in Entry, Look(c, i) PROVE SelectionInv'
  <2>1. pc[c] = "scanning"
    BY <1>1, <1>7 DEF Look, ClientTypeOK
  <2>2. heap[i].server \in Server
    BY <1>7 DEF Look, PrequalInv, PrequalTypeOK, PoolInv, PoolTypeOK, Reachable, ProbeEntry
  <2>3. healthy[heap[i].server] => heap[i].server \in eligible[c]
    BY <1>1, <2>1, <2>2 DEF SelectionInv, Selecting, HealthyServers
  <2>4. \A d \in Client : \A j \in seen'[d] :
           j \in seen[d] \/ (d = c /\ j = i /\ healthy[heap[i].server])
    BY <1>1, <1>7 DEF Look, ClientTypeOK
  <2>5. QED
    BY <1>1, <1>7, <2>3, <2>4 DEF Look, SelectionInv, Selecting, HealthyServers,
                                  poolVars, proberVars
<1>8. ASSUME NEW c \in Client, pc' = [pc EXCEPT ![c] = "decided"],
             seen'[c] = {}, \A d \in Client \ {c} : /\ seen'[d] = seen[d]
                                                    /\ eligible'[d] = eligible[d]
                                                    /\ snap'[d] = snap[d],
             healthy' = healthy
      PROVE  SelectionInv'
  <2>1. SUFFICES ASSUME NEW d \in Client
                 PROVE  /\ Selecting(d)' => HealthyServers' \subseteq eligible'[d]
                        /\ \A j \in seen'[d] : heap'[j].server \in eligible'[d]
    BY DEF SelectionInv
  <2>2. CASE d = c
    BY <1>1, <1>8, <2>2 DEF Selecting, ClientTypeOK
  <2>3. CASE d # c
    <3>1. Selecting(d)' => Selecting(d)
      BY <1>1, <1>8, <2>3 DEF Selecting, ClientTypeOK
    <3>2. HealthyServers' = HealthyServers
      BY <1>8 DEF HealthyServers
    <3>3. /\ Selecting(d) => HealthyServers \subseteq eligible[d]
          /\ \A j \in seen[d] : heap[j].server \in eligible[d]
      BY <1>1 DEF SelectionInv
    <3>4. \A j \in seen[d] : heap'[j].server = heap[j].server
      BY <1>3, <1>8, <2>3
    <3>5. QED
      BY <1>8, <2>3, <3>1, <3>2, <3>3, <3>4
  <2>4. QED
    BY <2>2, <2>3
<1>9. ASSUME NEW c \in Client, NEW i \in Entry, Choose(c, i) PROVE SelectionInv'
  <2>1. /\ snap' = [snap EXCEPT ![c] = {}] /\ seen' = [seen EXCEPT ![c] = {}]
        /\ eligible' = [eligible EXCEPT ![c] = {}]
        /\ pc' = [pc EXCEPT ![c] = "decided"] /\ healthy' = healthy
    BY <1>9 DEF Choose, MarkUsed, AfterUse, proberVars
  <2>2. QED
    BY <1>1, <1>8, <2>1 DEF ClientTypeOK, PrequalInv, PoolInv, PoolTypeOK
<1>10. ASSUME NEW c \in Client, Fallback(c) PROVE SelectionInv'
  <2>1. /\ snap' = snap /\ seen' = seen /\ seen[c] = {}
        /\ eligible' = [eligible EXCEPT ![c] = {}]
        /\ pc' = [pc EXCEPT ![c] = "decided"] /\ healthy' = healthy
    BY <1>1, <1>10 DEF Fallback, poolVars, proberVars, ClientTypeOK
  <2>2. QED
    BY <1>1, <1>8, <2>1 DEF ClientTypeOK
<1>11. ASSUME NEW c \in Client, NothingToChoose(c) \/ Leave(c) PROVE SelectionInv'
  <2>1. /\ seen' = seen /\ eligible' = eligible /\ healthy' = healthy
        /\ pc' = [pc EXCEPT ![c] = "random"] \/ pc' = [pc EXCEPT ![c] = "idle"]
        /\ pc' = [pc EXCEPT ![c] = "random"] => Selecting(c)
    BY <1>1, <1>11 DEF NothingToChoose, Leave, Selecting, proberVars, ClientTypeOK
  <2>2. seen[c] = {}
    BY <1>1, <1>11 DEF NothingToChoose, Leave, ClientTypeOK
  <2>3. \A d \in Client : d # c => snap'[d] = snap[d]
    BY <1>11 DEF NothingToChoose, Leave, Release, poolVars, PrequalInv, PoolInv, PoolTypeOK
  <2>4. \A d \in Client : \A j \in seen[d] : heap'[j].server = heap[j].server
    BY <1>3, <2>2, <2>3
  <2>5. \A d \in Client : Selecting(d)' => Selecting(d)
    BY <1>1, <2>1 DEF Selecting, ClientTypeOK
  <2>6. HealthyServers' = HealthyServers
    BY <2>1 DEF HealthyServers
  <2>7. QED
    BY <1>1, <2>1, <2>4, <2>5, <2>6 DEF SelectionInv
<1>12. ASSUME NEW k \in Probe, ProbeApplied(k) PROVE SelectionInv'
  <2>1. /\ pc' = pc /\ seen' = seen /\ heap' = heap
        /\ eligible' = [c \in Client |->
                          IF Selecting(c) THEN eligible[c] \cup HealthyServers'
                                          ELSE eligible[c]]
    BY <1>12 DEF ProbeApplied, poolVars
  <2>2. QED
    BY <1>1, <2>1 DEF SelectionInv, Selecting
<1>13. ASSUME NEW k \in Probe, ProbeAnswered(k) \/ \E i \in Entry : Deposit(k, i)
       PROVE  SelectionInv'
  <2>1. UNCHANGED clientVars /\ healthy' = healthy /\ snap' = snap
    BY <1>13 DEF ProbeAnswered, Answer, Deposit, Finish, Add, poolVars
  <2>2. QED
    BY <1>2, <2>1, SelectionFramed
<1>14. CASE StartBatch \/ \E s \in Server : StartPeriodic(s)
  <2>1. UNCHANGED clientVars /\ healthy' = healthy /\ snap' = snap
    BY <1>14 DEF StartBatch, StartPeriodic, FireAsync, FirePeriodic, poolVars
  <2>2. QED
    BY <1>2, <2>1, SelectionFramed
<1>15. CASE RemoverStep \/ TimePasses
  <2>1. UNCHANGED clientVars /\ healthy' = healthy /\ snap' = snap
    BY <1>15 DEF RemoverStep, RemoverReads, RemoverRemoves, RemoveWorst, TimePasses,
                 Tick, ProberTick, proberVars, poolVars
  <2>2. QED
    BY <1>2, <2>1, SelectionFramed
<1>16. CASE UNCHANGED prequalVars
  <2>1. UNCHANGED clientVars /\ healthy' = healthy /\ snap' = snap
    BY <1>16 DEF prequalVars, proberVars, poolVars
  <2>2. QED
    BY <1>2, <2>1, SelectionFramed
<1>17. ASSUME NEW c \in Client, SelectStep(c) PROVE SelectionInv'
  BY <1>5, <1>6, <1>7, <1>9, <1>10, <1>11, <1>17 DEF SelectStep
<1>18. ASSUME NEW k \in Probe, ProbeStep(k) PROVE SelectionInv'
  BY <1>12, <1>13, <1>18 DEF ProbeStep
<1>19. QED
  BY <1>4, <1>11, <1>14, <1>15, <1>16, <1>17, <1>18 DEF PrequalNext

-----------------------------------------------------------------------------
(* The invariant and the theorems.                                          *)

LEMMA PrequalInitInv == PrequalInit => PrequalInv
<1>1. SUFFICES ASSUME PrequalInit PROVE PrequalInv
  OBVIOUS
<1>2. PoolInv
  BY <1>1, InitInv DEF PrequalInit
<1>3. ProberTypeOK
  BY <1>1 DEF PrequalInit, ProberInit, ProberTypeOK
<1>4. PrequalTypeOK
  BY <1>1, <1>2, <1>3 DEF PrequalInit, PrequalTypeOK, PoolInv
<1>5. SelectionInv
  BY <1>1 DEF PrequalInit, SelectionInv, Selecting
<1>6. QED
  BY <1>2, <1>4, <1>5 DEF PrequalInv

LEMMA PrequalNextInv == PrequalInv /\ [PrequalNext]_prequalVars => PrequalInv'
<1>1. SUFFICES ASSUME PrequalInv, [PrequalNext]_prequalVars PROVE PrequalInv'
  OBVIOUS
<1>2. PoolInv'
  BY <1>1, PoolStep, NextInv DEF PrequalInv
<1>3. ProberTypeOK'
  BY <1>1, ProberStep, ProberTypeInv DEF PrequalInv, PrequalTypeOK
<1>4. ClientTypeOK' /\ RemoverTypeOK'
  BY <1>1, ClientTypeInv, RemoverTypeInv
<1>5. PrequalTypeOK'
  BY <1>2, <1>3, <1>4 DEF PrequalTypeOK, PoolInv, ClientTypeOK, RemoverTypeOK
<1>6. QED
  BY <1>1, <1>2, <1>5, SelectionInvStep DEF PrequalInv

(* The invariant holds throughout. *)
THEOREM PrequalInvariant == PrequalSafety => []PrequalInv
BY PrequalInitInv, PrequalNextInv, PTL DEF PrequalSafety

(* Type correctness of the composition. *)
THEOREM PrequalTypeCorrect == PrequalSafety => []PrequalTypeOK
BY PrequalInvariant, PTL DEF PrequalInv

(* The balancer uses the pool as ProbePool says.  The deposits of any number of
   probes, the selections of any number of requests and the remover are calls of
   the pool's methods, made in states in which the pool allows them.        *)
THEOREM PrequalUsesPool == PrequalSafety => UsesPool
<1>1. PrequalInit => PoolInit
  BY DEF PrequalInit
<1>2. PrequalInv /\ [PrequalNext]_prequalVars => [PoolNext]_poolVars
  BY PoolStep
<1>3. QED
  BY <1>1, <1>2, PrequalInvariant, PTL DEF PrequalSafety, PoolSpec, UsesPool

(* Hence the bounds of the pool hold in the balancer (types.go:86-120). *)
THEOREM PrequalPoolBounds == PrequalSafety => [](SizeBound /\ LiveBudget /\ OveruseBound)
BY PrequalInvariant, PTL DEF PrequalInv, PoolInv

(* A step of Prequal is a step of Selection or changes nothing its caller sees. *)
LEMMA PromiseStep ==
    ASSUME PrequalInv, [PrequalNext]_prequalVars
    PROVE  [Caller!SelectionNext]_(Caller!selectionVars)
<1> DEFINE phase == [c \in Client |-> Phase(c)]
<1>1. /\ SelectionInv /\ ClientTypeOK /\ healthy \in [Server -> BOOLEAN]
      /\ Caller!HealthyServers = HealthyServers
      /\ Caller!HealthyServers' = HealthyServers'
  BY DEF PrequalInv, PrequalTypeOK, ClientTypeOK, ProberTypeOK,
         Caller!HealthyServers, HealthyServers
<1>2. ASSUME UNCHANGED <<pc, healthy, eligible, answer>>
      PROVE  UNCHANGED Caller!selectionVars
  BY <1>2 DEF Caller!selectionVars, Phase, Selecting
<1>3. ASSUME NEW c \in Client, Serve(c) PROVE Caller!Call(c)
  <2>1. phase[c] = "idle" /\ phase' = [phase EXCEPT ![c] = "selecting"]
    BY <1>1, <1>3 DEF Serve, Phase, Selecting, ClientTypeOK
  <2>2. QED
    BY <1>1, <1>3, <2>1 DEF Serve, Caller!Call, proberVars
<1>4. ASSUME NEW c \in Client, TooFewFresh(c) \/ CopyFresh(c) \/ NothingToChoose(c)
      PROVE  UNCHANGED Caller!selectionVars
  <2>1. phase' = phase
    BY <1>1, <1>4 DEF TooFewFresh, CopyFresh, NothingToChoose, Phase, Selecting, ClientTypeOK
  <2>2. UNCHANGED <<healthy, eligible, answer>>
    BY <1>4 DEF TooFewFresh, CopyFresh, NothingToChoose, proberVars
  <2>3. QED
    BY <2>1, <2>2 DEF Caller!selectionVars
<1>5. ASSUME NEW c \in Client, NEW i \in Entry, Look(c, i)
      PROVE  UNCHANGED Caller!selectionVars
  BY <1>2, <1>5 DEF Look, proberVars
<1>6. ASSUME NEW c \in Client, NEW i \in Entry, Choose(c, i) PROVE Caller!Decide(c)
  <2>1. phase[c] = "selecting" /\ phase' = [phase EXCEPT ![c] = "decided"]
    BY <1>1, <1>6 DEF Choose, Phase, Selecting, ClientTypeOK
  <2>2. i \in seen[c]
    BY <1>6 DEF Choose, HCL, Cold, Hot, Fastest, Calmest
  <2>3. heap[i].server \in eligible[c]
    BY <1>1, <2>2 DEF SelectionInv
  <2>4. QED
    BY <1>6, <2>1, <2>3 DEF Choose, Caller!Decide, proberVars
<1>7. ASSUME NEW c \in Client, Fallback(c) PROVE Caller!Decide(c)
  <2>1. phase[c] = "selecting" /\ phase' = [phase EXCEPT ![c] = "decided"]
    BY <1>1, <1>7 DEF Fallback, Phase, Selecting, ClientTypeOK
  <2>2. HealthyServers \subseteq eligible[c]
    BY <1>1, <1>7 DEF Fallback, SelectionInv, Selecting
  <2>3. QED
    BY <1>1, <1>7, <2>1, <2>2 DEF Fallback, Caller!Decide, proberVars
<1>8. ASSUME NEW c \in Client, Leave(c) PROVE Caller!Return(c)
  <2>1. phase[c] = "decided" /\ phase' = [phase EXCEPT ![c] = "idle"]
    BY <1>1, <1>8 DEF Leave, Phase, Selecting, ClientTypeOK
  <2>2. QED
    BY <1>8, <2>1 DEF Leave, Caller!Return, proberVars
<1>9. ASSUME NEW k \in Probe, ProbeApplied(k)
      PROVE  [Caller!SelectionNext]_(Caller!selectionVars)
  <2>1. phase' = phase
    BY <1>9 DEF ProbeApplied, Phase, Selecting
  <2>2. \A c \in Client : Selecting(c) <=> phase[c] = "selecting"
    BY <1>1 DEF Phase, Selecting, ClientTypeOK
  <2>3. eligible' = [c \in Client |->
                       IF phase[c] = "selecting" THEN eligible[c] \cup HealthyServers'
                                                 ELSE eligible[c]]
    BY <1>9, <2>2 DEF ProbeApplied
  <2>4. answer' = answer
    BY <1>9 DEF ProbeApplied
  <2>5. \E s \in Server, ok \in BOOLEAN : healthy' = [healthy EXCEPT ![s] = ok]
    <3>1. probes[k] \in Answered
      BY <1>9 DEF ProbeApplied, Apply, Dropped, PrequalInv, PrequalTypeOK, ProberTypeOK, Idle, Flying
    <3>2. probes[k].server \in Server /\ probes[k].ok \in BOOLEAN
      BY <3>1 DEF Answered
    <3>3. CASE probes[k].kind = "async" /\ ~probes[k].ok
      <4>1. healthy' = healthy
        BY <1>9, <3>3 DEF ProbeApplied, Apply, Dropped
      <4>2. healthy' = [healthy EXCEPT ![probes[k].server] = healthy[probes[k].server]]
        BY <1>1, <4>1
      <4>3. QED
        BY <1>1, <3>2, <4>2
    <3>4. CASE ~(probes[k].kind = "async" /\ ~probes[k].ok)
      BY <1>9, <3>2, <3>4 DEF ProbeApplied, Apply, Dropped
    <3>5. QED
      BY <3>3, <3>4
  <2>6. PICK s \in Server, ok \in BOOLEAN : Caller!Observe(s, ok)
    BY <1>1, <2>1, <2>3, <2>4, <2>5 DEF Caller!Observe
  <2>7. QED
    BY <2>6 DEF Caller!SelectionNext
<1>10. ASSUME NEW k \in Probe, ProbeAnswered(k) \/ \E i \in Entry : Deposit(k, i)
       PROVE  UNCHANGED Caller!selectionVars
  BY <1>2, <1>10 DEF ProbeAnswered, Answer, Deposit, Finish, clientVars
<1>11. CASE StartBatch \/ \E s \in Server : StartPeriodic(s)
  BY <1>2, <1>11 DEF StartBatch, StartPeriodic, FireAsync, FirePeriodic, clientVars
<1>12. CASE RemoverStep \/ TimePasses
  BY <1>2, <1>12 DEF RemoverStep, RemoverReads, RemoverRemoves, TimePasses, ProberTick,
                     proberVars, clientVars
<1>13. CASE UNCHANGED prequalVars
  BY <1>2, <1>13 DEF prequalVars, proberVars, clientVars
<1>14. ASSUME NEW c \in Client, Serve(c) \/ SelectStep(c) \/ Leave(c)
       PROVE  [Caller!SelectionNext]_(Caller!selectionVars)
  BY <1>3, <1>4, <1>5, <1>6, <1>7, <1>8, <1>14 DEF SelectStep, Caller!SelectionNext
<1>15. ASSUME NEW k \in Probe, ProbeStep(k)
       PROVE  [Caller!SelectionNext]_(Caller!selectionVars)
  BY <1>9, <1>10, <1>15 DEF ProbeStep
<1>16. QED
  BY <1>11, <1>12, <1>13, <1>14, <1>15 DEF PrequalNext

(* Prequal keeps the promise of Selection: it returns only servers that were
   healthy at some moment of the call, and refuses a request only while no server
   is healthy (selectPrequal and selectRandom, balancer.go:391-504).        *)
THEOREM PrequalKeepsPromise == PrequalSafety => KeepsPromise
<1>1. PrequalInit => Caller!SelectionInit
  BY DEF PrequalInit, ProberInit, Caller!SelectionInit, Phase, Selecting
<1>2. PrequalInv /\ [PrequalNext]_prequalVars
         => [Caller!SelectionNext]_(Caller!selectionVars)
  BY PromiseStep
<1>3. QED
  BY <1>1, <1>2, PrequalInvariant, PTL
     DEF PrequalSafety, KeepsPromise, Caller!SelectionSafety
=============================================================================
