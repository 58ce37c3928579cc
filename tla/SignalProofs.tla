---------------------------- MODULE SignalProofs ----------------------------
(***************************************************************************)
(* The signals Prequal decides by are right where they are made and where  *)
(* they are kept: in a replica (Backend), whatever its numbers of          *)
(* handlers, slots and places, and in the slice behind the probe pool      *)
(* (PoolSlice), whatever its capacity.  The two parts share no state.      *)
(***************************************************************************)
EXTENDS Backend, PoolSlice, OrderLemmas

-----------------------------------------------------------------------------
(* A replica.  Its buckets never hold more than KeepSamples.               *)
(*                                                                         *)
(* The type of the counters rests on SlotsExact and not the other way      *)
(* round: a token is only given back by a handler that is counted for it,  *)
(* so the count it is taken from is positive.                              *)
(*                                                                         *)
(* The estimate a replica sends with a probe is the median it is meant to  *)
(* be, whatever the buckets hold: the insertion sort of medianAtRIF sorts, *)
(* what stands at an index of a sorted sequence has that rank, and the     *)
(* search outwards stops at the nearest bucket with samples.               *)

\* The variables without the counters.
Local ==
    /\ pc \in [Handler -> States]
    /\ arrival \in [Handler -> Nat]
    /\ recordSuccessfulLatency \subseteq
           At({"releasing", "dequeuing", "leaving", "recording"})
    /\ concSem <= MaxConc /\ concQueue <= QueueSize
    /\ buckets \in Contents

BackendInv == Local /\ SlotsExact

-----------------------------------------------------------------------------

(* The index of a RIF is a bucket, below zero and beyond the last included. *)
LEMMA IndexIsBucket == \A rif \in Int : BucketIndex(rif) \in Bucket
BY NumBucketsAssumption DEF BucketIndex, Bucket

(* Recording a latency keeps every bucket within KeepSamples. *)
LEMMA RecordKeepsContents ==
    ASSUME NEW b \in Contents, NEW rif \in Int, NEW lat \in Latency
    PROVE  Record(b, rif, lat) \in Contents
<1> DEFINE i == BucketIndex(rif)
           longer == Append(b[i], lat)
<1>1. i \in Bucket
  BY IndexIsBucket
<1>2. b \in [Bucket -> Seq(Latency)] /\ \A j \in Bucket : Len(b[j]) <= KeepSamples
  BY DEF Contents
<1>3. longer \in Seq(Latency) /\ Len(longer) = Len(b[i]) + 1 /\ Len(b[i]) \in Nat
  BY <1>1, <1>2
<1>4. Trim(longer) \in Seq(Latency) /\ Len(Trim(longer)) <= KeepSamples
  <2>1. CASE Len(longer) <= KeepSamples
    BY <2>1, <1>3, KeepSamplesAssumption DEF Trim
  <2>2. CASE Len(longer) > KeepSamples
    <3>1. Len(longer) = KeepSamples + 1
      BY <2>2, <1>1, <1>2, <1>3, KeepSamplesAssumption
    <3>2. Trim(longer) = SubSeq(longer, 2, Len(longer))
      BY <3>1, <2>2, KeepSamplesAssumption DEF Trim
    <3>3. QED
      BY <3>1, <3>2, <1>3, KeepSamplesAssumption
  <2>3. QED
    BY <2>1, <2>2, <1>3, KeepSamplesAssumption
<1>5. Record(b, rif, lat) = [b EXCEPT ![i] = Trim(longer)]
  BY DEF Record
<1>6. QED
  BY <1>1, <1>2, <1>4, <1>5 DEF Contents

(* The sets of handlers the counters count are finite. *)
LEMMA AtFinite == \A P : IsFiniteSet(At(P)) /\ Cardinality(At(P)) \in Nat
BY HandlerAssumption, FS_Subset, FS_CardinalityType DEF At

\* What a move from one place to another does to the number of those in P.
Change(P, from, to) ==
    IF from \notin P /\ to \in P THEN 1 ELSE IF from \in P /\ to \notin P THEN -1 ELSE 0

(* A handler that moves changes the number of those at some places by at most
   one, and a handler that is there is counted.                             *)
LEMMA Moves ==
    ASSUME pc \in [Handler -> States], NEW h \in Handler, NEW from, NEW to,
           Go(h, from, to), NEW P
    PROVE  /\ Cardinality(At(P)') = Cardinality(At(P)) + Change(P, from, to)
           /\ from \in P => Cardinality(At(P)) > 0
<1> DEFINE n == Cardinality(At(P))
<1>1. pc[h] = from /\ pc'[h] = to /\ \A g \in Handler \ {h} : pc'[g] = pc[g]
  BY DEF Go
<1>2. n \in Nat /\ IsFiniteSet(At(P))
  BY AtFinite
<1>3. from \in P => n > 0
  <2>1. from \in P => At(P) # {}
    BY <1>1 DEF At
  <2>2. QED
    BY <2>1, <1>2, FS_EmptySet
<1>4. CASE from \notin P /\ to \in P
  <2>1. At(P)' = At(P) \cup {h} /\ h \notin At(P)
    BY <1>1, <1>4 DEF At
  <2>2. Cardinality(At(P) \cup {h}) = n + 1
    BY <2>1, <1>2, FS_AddElement
  <2>3. QED
    BY <2>1, <2>2, <1>3, <1>4 DEF Change
<1>5. CASE from \in P /\ to \notin P
  <2>1. At(P)' = At(P) \ {h} /\ h \in At(P)
    BY <1>1, <1>5 DEF At
  <2>2. Cardinality(At(P) \ {h}) = n - 1
    BY <2>1, <1>2, FS_RemoveElement
  <2>3. QED
    BY <2>1, <2>2, <1>2, <1>3, <1>5 DEF Change
<1>6. CASE from \in P <=> to \in P
  <2>1. At(P)' = At(P)
    BY <1>1, <1>6 DEF At
  <2>2. QED
    BY <2>1, <1>2, <1>3, <1>6 DEF Change
<1>7. QED
  BY <1>4, <1>5, <1>6

(* What a move does to the handlers the three counters count. *)
LEMMA CountsMove ==
    ASSUME pc \in [Handler -> States], NEW h \in Handler, NEW from, NEW to,
           Go(h, from, to)
    PROVE  /\ Cardinality(Slotted') = Cardinality(Slotted)
                  + Change({"working", "releasing"}, from, to)
           /\ Cardinality(Placed') = Cardinality(Placed)
                  + Change({"queued", "working", "releasing", "dequeuing"}, from, to)
           /\ Cardinality(Counted') = Cardinality(Counted)
                  + Change(States \ {"idle", "recording"}, from, to)
BY Moves DEF Slotted, Placed, Counted

(* Tokens and RIF are counted from nothing. *)
LEMMA BackendInitInv == BackendInit => BackendInv
<1>1. SUFFICES ASSUME BackendInit PROVE BackendInv
  OBVIOUS
<1>2. NoSamples \in Contents
  BY KeepSamplesAssumption DEF NoSamples, Contents
<1>3. MaxConc \in Nat /\ QueueSize \in Nat
  BY MaxConcAssumption, BacklogAssumption DEF QueueSize
<1>4. Local
  BY <1>1, <1>2, <1>3 DEF BackendInit, Local, States
<1>5. Slotted = {} /\ Placed = {} /\ Counted = {}
  BY <1>1 DEF BackendInit, Slotted, Placed, Counted, At
<1>6. SlotsExact
  BY <1>1, <1>5, FS_EmptySet DEF BackendInit, SlotsExact
<1>7. QED
  BY <1>4, <1>6 DEF BackendInv

-----------------------------------------------------------------------------

\* The type of the counters.
CountersNat == serverRIF \in Nat /\ concSem \in Nat /\ concQueue \in Nat

(* The counters are numbers, since they count. *)
LEMMA CountersAreNat == SlotsExact => CountersNat
BY AtFinite DEF SlotsExact, Slotted, Placed, Counted, CountersNat

(* Every step keeps the places, the flags and the buckets in their types. *)
LEMMA LocalStep ==
    ASSUME BackendInv, [BackendNext]_backendVars
    PROVE  Local'
<1>1. Local
  BY DEF BackendInv
<1>2. CountersNat /\ MaxConc \in Nat /\ QueueSize \in Nat
  BY CountersAreNat, MaxConcAssumption, BacklogAssumption DEF BackendInv, QueueSize
<1> USE DEF Local, States, At, Go, CountersNat
<1>3. ASSUME NEW h \in Handler, Arrive(h) PROVE Local'
  BY <1>1, <1>2, <1>3 DEF Arrive
<1>4. ASSUME NEW h \in Handler, Enqueue(h) PROVE Local'
  BY <1>1, <1>2, <1>4 DEF Enqueue
<1>5. ASSUME NEW h \in Handler, Overloaded(h) PROVE Local'
  BY <1>1, <1>2, <1>5 DEF Overloaded
<1>6. ASSUME NEW h \in Handler, Acquire(h) PROVE Local'
  BY <1>1, <1>2, <1>6 DEF Acquire
<1>7. ASSUME NEW h \in Handler, TimeOut(h) PROVE Local'
  BY <1>1, <1>2, <1>7 DEF TimeOut
<1>8. ASSUME NEW h \in Handler, Respond(h) PROVE Local'
  BY <1>1, <1>2, <1>8 DEF Respond
<1>9. ASSUME NEW h \in Handler, ReleaseSlot(h) PROVE Local'
  BY <1>1, <1>2, <1>9 DEF ReleaseSlot
<1>10. ASSUME NEW h \in Handler, ReleasePlace(h) PROVE Local'
  BY <1>1, <1>2, <1>10 DEF ReleasePlace
<1>11. ASSUME NEW h \in Handler, Leave(h) PROVE Local'
  BY <1>1, <1>2, <1>11 DEF Leave
<1>12. ASSUME NEW h \in Handler, NEW lat \in Latency, RecordLatency(h, lat) PROVE Local'
  <2>1. buckets' \in Contents
    BY <1>1, <1>12, RecordKeepsContents DEF RecordLatency
  <2>2. QED
    BY <1>1, <1>12, <2>1 DEF RecordLatency
<1>13. CASE UNCHANGED backendVars
  BY <1>1, <1>13 DEF backendVars
<1>14. QED
  BY <1>3, <1>4, <1>5, <1>6, <1>7, <1>8, <1>9, <1>10, <1>11, <1>12, <1>13 DEF BackendNext, Handle

(* Every step moves a handler the way it changes the counters. *)
LEMMA SlotsStep ==
    ASSUME BackendInv, [BackendNext]_backendVars
    PROVE  SlotsExact'
<1> USE DEF SlotsExact, Change, States
<1>1. pc \in [Handler -> States] /\ SlotsExact
  BY DEF BackendInv, Local
<1>2. /\ Cardinality(Slotted) \in Nat /\ Cardinality(Placed) \in Nat
      /\ Cardinality(Counted) \in Nat
  BY AtFinite DEF Slotted, Placed, Counted
<1>3. ASSUME NEW h \in Handler, Arrive(h) PROVE SlotsExact'
  <2>1. Go(h, "idle", "arrived")
    BY <1>3 DEF Arrive
  <2>2. QED
    BY <1>1, <1>2, <1>3, <2>1, CountsMove DEF Arrive
<1>4. ASSUME NEW h \in Handler, Enqueue(h) PROVE SlotsExact'
  <2>1. Go(h, "arrived", "queued")
    BY <1>4 DEF Enqueue
  <2>2. QED
    BY <1>1, <1>2, <1>4, <2>1, CountsMove DEF Enqueue
<1>5. ASSUME NEW h \in Handler, Overloaded(h) PROVE SlotsExact'
  <2>1. Go(h, "arrived", "leaving")
    BY <1>5 DEF Overloaded
  <2>2. QED
    BY <1>1, <1>2, <1>5, <2>1, CountsMove DEF Overloaded
<1>6. ASSUME NEW h \in Handler, Acquire(h) PROVE SlotsExact'
  <2>1. Go(h, "queued", "working")
    BY <1>6 DEF Acquire
  <2>2. QED
    BY <1>1, <1>2, <1>6, <2>1, CountsMove DEF Acquire
<1>7. ASSUME NEW h \in Handler, TimeOut(h) PROVE SlotsExact'
  <2>1. Go(h, "queued", "dequeuing")
    BY <1>7 DEF TimeOut
  <2>2. QED
    BY <1>1, <1>2, <1>7, <2>1, CountsMove DEF TimeOut
<1>8. ASSUME NEW h \in Handler, Respond(h) PROVE SlotsExact'
  <2>1. Go(h, "working", "releasing")
    BY <1>8 DEF Respond
  <2>2. QED
    BY <1>1, <1>2, <1>8, <2>1, CountsMove DEF Respond
<1>9. ASSUME NEW h \in Handler, ReleaseSlot(h) PROVE SlotsExact'
  <2>1. Go(h, "releasing", "dequeuing")
    BY <1>9 DEF ReleaseSlot
  <2>2. QED
    BY <1>1, <1>2, <1>9, <2>1, CountsMove DEF ReleaseSlot
<1>10. ASSUME NEW h \in Handler, ReleasePlace(h) PROVE SlotsExact'
  <2>1. Go(h, "dequeuing", "leaving")
    BY <1>10 DEF ReleasePlace
  <2>2. QED
    BY <1>1, <1>2, <1>10, <2>1, CountsMove DEF ReleasePlace
<1>11. ASSUME NEW h \in Handler, Leave(h) PROVE SlotsExact'
  <2>1. Go(h, "leaving", IF h \in recordSuccessfulLatency THEN "recording" ELSE "idle")
    BY <1>11 DEF Leave
  <2>2. QED
    BY <1>1, <1>2, <1>11, <2>1, CountsMove DEF Leave
<1>12. ASSUME NEW h \in Handler, NEW lat \in Latency, RecordLatency(h, lat) PROVE SlotsExact'
  <2>1. Go(h, "recording", "idle")
    BY <1>12 DEF RecordLatency
  <2>2. QED
    BY <1>1, <1>2, <1>12, <2>1, CountsMove DEF RecordLatency
<1>13. CASE UNCHANGED backendVars
  BY <1>1, <1>13 DEF backendVars, Slotted, Placed, Counted, At
<1>14. QED
  BY <1>3, <1>4, <1>5, <1>6, <1>7, <1>8, <1>9, <1>10, <1>11, <1>12, <1>13 DEF BackendNext, Handle

LEMMA BackendStep ==
    ASSUME BackendInv, [BackendNext]_backendVars
    PROVE  BackendInv'
BY LocalStep, SlotsStep DEF BackendInv

(* The inductive invariant of a replica holds throughout. *)
THEOREM BackendInvariant == BackendSpec => []BackendInv
<1>1. BackendInit => BackendInv
  BY BackendInitInv
<1>2. BackendInv /\ [BackendNext]_backendVars => BackendInv'
  BY BackendStep
<1>3. QED
  BY <1>1, <1>2, PTL DEF BackendSpec

(* The channels never hold more tokens than they have room for, nor fewer than
   none, and the buckets keep their bound, for any number of concurrent requests. *)
THEOREM BackendTypeCorrect == BackendSpec => []BackendTypeOK
<1>1. ASSUME BackendInv PROVE BackendTypeOK
  <2>1. concSem \in Nat /\ concQueue \in Nat /\ serverRIF \in Nat
    BY <1>1, CountersAreNat DEF BackendInv, CountersNat
  <2>2. concSem \in 0 .. MaxConc /\ concQueue \in 0 .. QueueSize
    BY <1>1, <2>1, MaxConcAssumption, BacklogAssumption DEF BackendInv, Local, QueueSize
  <2>3. QED
    BY <1>1, <2>1, <2>2 DEF BackendInv, Local, BackendTypeOK, At
<1>2. QED
  BY <1>1, BackendInvariant, PTL

(* No way out of the "/" handler (main.go:183) leaks a token or gives back
   another's, whatever the number of handlers, slots and places.            *)
THEOREM BackendSlotsExact == BackendSpec => []SlotsExact
BY BackendInvariant, PTL DEF BackendInv

(* A replica refuses a request only while RIF exceeds its whole backlog. *)
THEOREM BackendRefusesUnderPressure == BackendSpec => RefusedUnderPressure
<1> DEFINE Pressed == \A h \in Handler :
               pc[h] = "arrived" /\ pc'[h] = "leaving" => serverRIF > QueueSize
<1>1. ASSUME BackendInv, [BackendNext]_backendVars PROVE [Pressed]_backendVars
  <2>1. SUFFICES ASSUME NEW h \in Handler, pc[h] = "arrived", pc'[h] = "leaving"
                 PROVE  serverRIF > QueueSize
    OBVIOUS
  <2>2. concQueue = QueueSize
    BY <1>1, <2>1
    DEF BackendInv, Local, BackendNext, Handle, Go, backendVars, Arrive, Enqueue,
        Overloaded, Acquire, TimeOut, Respond, ReleaseSlot, ReleasePlace, Leave, RecordLatency
  <2>3. h \notin Placed /\ Placed \cup {h} \subseteq Counted
    BY <1>1, <2>1 DEF BackendInv, Local, States, Placed, Counted, At
  <2>4. Cardinality(Placed \cup {h}) = Cardinality(Placed) + 1
    BY <2>3, AtFinite, FS_AddElement DEF Placed
  <2>5. Cardinality(Placed \cup {h}) <= Cardinality(Counted)
    BY <2>3, AtFinite, FS_Subset DEF Counted
  <2>6. concQueue \in Nat /\ serverRIF \in Nat /\ concQueue + 1 <= serverRIF
    BY <1>1, <2>4, <2>5, CountersAreNat DEF BackendInv, SlotsExact, CountersNat
  <2>7. QED
    BY <2>2, <2>6
<1>2. QED
  BY <1>1, BackendInvariant, PTL DEF BackendSpec, RefusedUnderPressure
-----------------------------------------------------------------------------
(* The estimate.                                                           *)

(* One round of the insertion sort adds the sample at the place where it belongs. *)
LEMMA InsertAdds ==
    ASSUME NEW g \in Seq(Int), NEW v \in Int
    PROVE  /\ Insert(g, v) \in Seq(Int) /\ Len(Insert(g, v)) = Len(g) + 1
           /\ \E j : IsPlace(j, v, g, Len(g)) /\ Inserts(Insert(g, v), v, j, g, Len(g))
<1> DEFINE n == Len(g)
           Fits(j) == (\A p \in j .. n : v < g[p]) /\ (j > 1 => g[j - 1] <= v)
           place == CHOOSE j \in 1 .. n + 1 : Fits(j)
           h == [p \in 1 .. n + 1 |-> IF p < place THEN g[p]
                                      ELSE IF p = place THEN v ELSE g[p - 1]]
<1>1. n \in Nat /\ \A p \in 1 .. n : g[p] \in Int
  OBVIOUS
<1>2. Insert(g, v) = h
  BY DEF Insert
<1>3. \E j \in 1 .. n + 1 : Fits(j)
  <2> HIDE DEF n
  <2>1. PICK j : IsPlace(j, v, g, n)
    BY <1>1, PlaceExists DEF AreInts
  <2>2. QED
    BY <2>1 DEF IsPlace
<1>4. place \in 1 .. n + 1 /\ Fits(place)
  <2> HIDE DEF Fits, n
  <2>1. QED
    BY <1>3
<1> HIDE DEF place, n
<1>5. \A p \in 1 .. n + 1 : h[p] \in Int
  <2>1. SUFFICES ASSUME NEW p \in 1 .. n + 1 PROVE h[p] \in Int
    BY Zenon
  <2>2. CASE p < place
    <3>1. p \in 1 .. n
      BY <1>1, <1>4, <2>2
    <3>2. QED
      BY <1>1, <2>2, <3>1
  <2>3. CASE p = place
    BY <2>3, <1>1, <1>4
  <2>4. CASE p > place
    <3>1. p - 1 \in 1 .. n /\ ~(p < place) /\ p # place
      BY <1>1, <1>4, <2>4
    <3>2. QED
      BY <1>1, <3>1
  <2>5. QED
    BY <1>1, <1>4, <2>2, <2>3, <2>4
<1>6. DOMAIN h = 1 .. n + 1 /\ h = [p \in 1 .. n + 1 |-> h[p]]
  OBVIOUS
<1>7. Inserts(h, v, place, g, n)
  BY DEF Inserts
<1> HIDE DEF h
<1>8. h \in [1 .. n + 1 -> Int]
  BY <1>5, <1>6
<1>9. h \in Seq(Int) /\ Len(h) = n + 1
  <2>1. n + 1 \in Nat
    BY <1>1
  <2>2. QED
    BY <1>8, <2>1
<1>10. IsPlace(place, v, g, n)
  BY <1>4 DEF IsPlace
<1>11. QED
  BY <1>2, <1>7, <1>9, <1>10 DEF n

(* The insertion sort of medianAtRIF (main.go:87) sorts, whatever the number of
   samples.                                                                  *)
LEMMA InsertionSorts ==
    ASSUME NEW s \in Seq(Int)
    PROVE  /\ InsertionSort(s) \in Seq(Int) /\ Len(InsertionSort(s)) = Len(s)
           /\ Sorts(InsertionSort(s), s, Len(s))
<1> DEFINE m == Len(s)
           Round(f, n) == IF n = 0 THEN <<>> ELSE Insert(f[n - 1], s[n])
           IsRounds(f) == f = [n \in 0 .. m |-> Round(f, n)]
           rounds == CHOOSE f : IsRounds(f)
<1>1. m \in Nat /\ \A n \in 1 .. m : s[n] \in Int
  OBVIOUS
<1>2. InsertionSort(s) = rounds[m]
  BY DEF InsertionSort
<1> HIDE DEF m
<1>3. \E f : IsRounds(f)
  <2> DEFINE X == Seq(Int)
             none == <<>>
             step == [n \in 1 .. m |-> [g \in X |-> Insert(g, s[n])]]
  <2>1. none \in X
    OBVIOUS
  <2>2. \A n \in 1 .. m : [g \in X |-> Insert(g, s[n])] \in [X -> X]
    BY <1>1, InsertAdds
  <2>3. IsStep(step, X, m)
    BY <2>2 DEF IsStep
  <2>4. \A n \in 1 .. m, g \in X : step[n][g] = Insert(g, s[n])
    OBVIOUS
  <2> HIDE DEF step, X, none
  <2>5. PICK f : Follows(f, step, X, none, m)
    BY <1>1, <2>1, <2>3, Iteration
  <2>6. ASSUME NEW n \in 0 .. m PROVE f[n] = Round(f, n)
    <3>1. CASE n = 0
      BY <2>5, <3>1 DEF Follows, none
    <3>2. CASE n # 0
      <4>1. n \in 1 .. m /\ n - 1 \in 0 .. m
        BY <1>1, <3>2
      <4>2. f[n - 1] \in X
        BY <2>5, <4>1 DEF Follows
      <4>3. QED
        BY <2>4, <2>5, <3>2, <4>1, <4>2 DEF Follows
    <3>3. QED
      BY <3>1, <3>2
  <2>7. f = [n \in 0 .. m |-> f[n]]
    BY <2>5 DEF Follows
  <2> HIDE DEF Round
  <2>8. IsRounds(f)
    BY <2>6, <2>7
  <2> HIDE DEF IsRounds
  <2>9. QED
    BY <2>8
<1>4. IsRounds(rounds)
  <2> HIDE DEF IsRounds
  <2>1. QED
    BY <1>3
<1>5. \A n \in 0 .. m : rounds[n] = Round(rounds, n)
  <2> HIDE DEF Round, rounds
  <2>1. QED
    BY <1>4
<1> HIDE DEF rounds
<1> DEFINE Done == {n \in 0 .. m : /\ rounds[n] \in Seq(Int) /\ Len(rounds[n]) = n
                                   /\ Sorts(rounds[n], s, n)}
<1>6. 0 \in Done
  <2>1. rounds[0] = <<>>
    BY <1>1, <1>5
  <2>2. Ascends(rounds[0], 0)
    BY DEF Ascends
  <2>3. Permutes(<<>>, 0) /\ \A p \in 1 .. 0 : rounds[0][p] = s[p]
    BY DEF Permutes
  <2>4. Sorts(rounds[0], s, 0)
    BY <2>1, <2>2, <2>3 DEF Sorts
  <2>5. rounds[0] \in Seq(Int) /\ Len(rounds[0]) = 0 /\ 0 \in 0 .. m
    BY <1>1, <2>1
  <2>6. QED
    BY <2>4, <2>5
<1>7. ASSUME NEW n \in 0 .. m - 1, n \in Done PROVE n + 1 \in Done
  <2> DEFINE g == rounds[n]
             v == s[n + 1]
             h == rounds[n + 1]
  <2>1. n \in Nat /\ n + 1 \in 1 .. m /\ n + 1 \in 0 .. m /\ n + 1 # 0 /\ (n + 1) - 1 = n
    BY <1>1
  <2>2. g \in Seq(Int) /\ Len(g) = n /\ Sorts(g, s, n)
    BY <1>7
  <2>3. v \in Int /\ AreInts(s, n + 1)
    BY <1>1, <2>1 DEF AreInts
  <2>4. h = Insert(g, v)
    BY <1>5, <2>1
  <2> HIDE DEF g, h, v
  <2>5. PICK j : IsPlace(j, v, g, n) /\ Inserts(h, v, j, g, n)
    <3>1. v \in Int
      BY <2>3
    <3>2. QED
      BY <2>2, <2>4, <3>1, InsertAdds
  <2>6. Sorts(h, s, n + 1)
    BY <2>1, <2>2, <2>3, <2>5, InsertSorts DEF v
  <2>7. h \in Seq(Int) /\ Len(h) = n + 1
    BY <2>2, <2>3, <2>4, InsertAdds
  <2>8. QED
    BY <2>1, <2>6, <2>7 DEF h
<1>8. m \in Done
  <2> HIDE DEF Done
  <2>1. \A n \in 0 .. m : n \in Done
    BY <1>1, <1>6, <1>7, CountingUp, Zenon
  <2>2. QED
    BY <1>1, <2>1
<1>9. QED
  BY <1>2, <1>8 DEF m

(* The value the sort leaves in the middle is a median. *)
LEMMA MiddleIsMedian ==
    ASSUME NEW s \in Seq(Latency), s # <<>>
    PROVE  LET sorted == InsertionSort(s)
           IN  sorted # <<>> /\ IsMedian(sorted[Len(sorted) \div 2 + 1], s)
<1> DEFINE n == Len(s)
           g == InsertionSort(s)
           k == n \div 2
<1>1. s \in Seq(Int) /\ AreInts(s, n)
  <2>1. ASSUME NEW p \in 1 .. n PROVE s[p] \in Int
    <3>1. s[p] \in Latency
      OBVIOUS
    <3>2. s[p] \in Nat
      BY <3>1, LatencyAssumption, Zenon
    <3>3. QED
      BY <3>2
  <2>2. s \in [1 .. n -> Int]
    BY <2>1
  <2>3. QED
    BY <2>1, <2>2 DEF AreInts
<1>2. g \in Seq(Int) /\ Len(g) = n /\ Sorts(g, s, n)
  <2> HIDE DEF g, n
  <2>1. QED
    BY <1>1, InsertionSorts DEF g, n
<1>3. n \in Nat \ {0} /\ DOMAIN s = 1 .. n
  OBVIOUS
<1>4. k \in 0 .. n - 1
  <2> HIDE DEF n
  <2>1. QED
    BY <1>3
<1> HIDE DEF g, n, k
<1>5. HasRank(g[k + 1], s, n, k)
  <2>1. n \in Nat /\ k \in 0 .. n - 1 /\ Sorts(g, s, n)
    BY <1>2, <1>3, <1>4
  <2>2. QED
    BY <1>1, <2>1, SortedRank
<1>6. IsMedian(g[k + 1], s)
  BY <1>3, <1>5 DEF IsMedian, HasRank, n, k
<1>7. g # <<>>
  BY <1>2, <1>3
<1>8. QED
  BY <1>2, <1>6, <1>7 DEF g, k
\* The distances at which a bucket with samples lies, on either side of i.
FilledAt(b, i, d) == \/ i - d \in Bucket /\ b[i - d] # <<>>
                     \/ i + d \in Bucket /\ b[i + d] # <<>>

\* What the search returns if it goes no further than distance d, where rest is what it
\* would find beyond.
Found(b, i, d, rest) ==
    IF i - d \in Bucket /\ b[i - d] # <<>> THEN b[i - d]
    ELSE IF i + d \in Bucket /\ b[i + d] # <<>> THEN b[i + d]
    ELSE rest

(* What the search finds is what lies at the first distance with anything. *)
LEMMA SearchFinds ==
    ASSUME NEW b \in Contents, NEW rif \in Int
    PROVE  LET i == BucketIndex(rif)
           IN  \/ /\ \A d \in 0 .. NumBuckets - 1 : ~FilledAt(b, i, d)
                  /\ Samples(b, rif) = <<>>
               \/ \E d \in 0 .. NumBuckets - 1 :
                     /\ FilledAt(b, i, d)
                     /\ \A e \in 0 .. d - 1 : ~FilledAt(b, i, e)
                     /\ Samples(b, rif) = Found(b, i, d, <<>>)
<1> DEFINE i == BucketIndex(rif)
           N == NumBuckets
           Next(f, d) == IF d = NumBuckets THEN <<>>
                         ELSE IF i - d \in Bucket /\ b[i - d] # <<>> THEN b[i - d]
                         ELSE IF i + d \in Bucket /\ b[i + d] # <<>> THEN b[i + d]
                         ELSE f[d + 1]
           IsSearch(f) == f = [d \in 0 .. NumBuckets |-> Next(f, d)]
           search == CHOOSE f : IsSearch(f)
<1>1. N \in Nat \ {0} /\ i \in Bucket /\ b \in [Bucket -> Seq(Latency)]
  BY NumBucketsAssumption, IndexIsBucket DEF Contents
<1>2. Samples(b, rif) = search[0]
  BY DEF Samples
<1> HIDE DEF i
<1>3. \E f : IsSearch(f)
  <2> DEFINE X == Seq(Latency)
             none == <<>>
             step == [k \in 1 .. N |-> [x \in X |-> Found(b, i, N - k, x)]]
  <2>1. none \in X
    OBVIOUS
  <2>2. ASSUME NEW x \in X, NEW d \in Int PROVE Found(b, i, d, x) \in X
    BY <1>1 DEF Found
  <2> HIDE DEF X, none
  <2>3. \A k \in 1 .. N : [x \in X |-> Found(b, i, N - k, x)] \in [X -> X]
    BY <1>1, <2>2
  <2>4. IsStep(step, X, N)
    BY <2>3 DEF IsStep
  <2>5. \A k \in 1 .. N, x \in X : step[k][x] = Found(b, i, N - k, x)
    OBVIOUS
  <2> HIDE DEF step
  <2>6. PICK g : Follows(g, step, X, none, N)
    BY <1>1, <2>1, <2>4, Iteration
  <2> DEFINE f == [d \in 0 .. N |-> g[N - d]]
  <2>7. ASSUME NEW d \in 0 .. N PROVE f[d] = Next(f, d)
    <3>1. CASE d = N
      <4>1. f[d] = none
        BY <1>1, <2>6, <3>1 DEF Follows
      <4>2. QED
        BY <3>1, <4>1 DEF none
    <3>2. CASE d # N
      <4>1. /\ N - d \in 1 .. N /\ (N - d) - 1 = N - (d + 1) /\ N - (N - d) = d
            /\ d + 1 \in 0 .. N /\ N - (d + 1) \in 0 .. N
        BY <1>1, <3>2
      <4>2. g[N - (d + 1)] \in X
        BY <2>6, <4>1 DEF Follows
      <4>3. g[N - d] = Found(b, i, d, g[N - (d + 1)])
        BY <2>5, <2>6, <4>1, <4>2 DEF Follows
      <4>4. f[d] = g[N - d] /\ f[d + 1] = g[N - (d + 1)]
        BY <4>1
      <4> HIDE DEF f
      <4>5. f[d] = Found(b, i, d, f[d + 1])
        BY <4>3, <4>4
      <4>6. QED
        BY <3>2, <4>5 DEF Found
    <3>3. QED
      BY <3>1, <3>2
  <2>8. f = [d \in 0 .. N |-> f[d]]
    OBVIOUS
  <2> HIDE DEF f, Next
  <2>9. IsSearch(f)
    BY <2>7, <2>8
  <2> HIDE DEF IsSearch
  <2>10. QED
    BY <2>9
<1>4. IsSearch(search)
  <2> HIDE DEF IsSearch
  <2>1. QED
    BY <1>3
<1>5. \A d \in 0 .. N : search[d] = Next(search, d)
  <2> HIDE DEF Next, search
  <2>1. QED
    BY <1>4
<1> HIDE DEF search
<1>6. \A d \in 0 .. N - 1 : search[d] = Found(b, i, d, search[d + 1])
  BY <1>1, <1>5 DEF Found
<1>7. search[N] = <<>>
  BY <1>1, <1>5
<1> HIDE DEF Next, IsSearch, N
<1>8. ASSUME NEW n \in 0 .. N, \A d \in 0 .. n - 1 : ~FilledAt(b, i, d)
      PROVE  search[0] = search[n]
  <2> DEFINE S == {d \in 0 .. n : search[0] = search[d]}
  <2>1. 0 \in S
    BY <1>1
  <2>2. ASSUME NEW d \in 0 .. n - 1, d \in S PROVE d + 1 \in S
    <3>1. search[d] = Found(b, i, d, search[d + 1])
      BY <1>1, <1>6
    <3>2. search[d] = search[d + 1]
      BY <1>8, <3>1 DEF Found, FilledAt
    <3>3. QED
      BY <1>1, <2>2, <3>2
  <2>3. \A d \in 0 .. n : d \in S
    <3> HIDE DEF S
    <3>1. n \in Nat
      BY <1>1
    <3>2. QED
      BY <2>1, <2>2, <3>1, CountingUp, Zenon
  <2>4. QED
    BY <1>1, <2>3
<1> DEFINE D == {d \in 0 .. N - 1 : FilledAt(b, i, d)}
<1>9. CASE D = {}
  <2>1. \A d \in 0 .. N - 1 : ~FilledAt(b, i, d)
    BY <1>9
  <2>2. search[0] = search[N]
    BY <1>1, <1>8, <2>1
  <2>3. QED
    BY <1>2, <1>7, <2>1, <2>2 DEF N, i
<1>10. CASE D # {}
  <2>1. D \in SUBSET Int /\ IsFiniteSet(D)
    <3>1. IsFiniteSet(0 .. N - 1) /\ 0 .. N - 1 \in SUBSET Int
      BY <1>1, FS_Interval
    <3>2. D \in SUBSET (0 .. N - 1)
      OBVIOUS
    <3> HIDE DEF D
    <3>3. QED
      BY <3>1, <3>2, FS_Subset
  <2>2. PICK d \in D : \A e \in D : d <= e
    <3> HIDE DEF D
    <3>1. QED
      BY <1>10, <2>1, SmallestMember
  <2>3. d \in 0 .. N - 1 /\ FilledAt(b, i, d) /\ \A e \in 0 .. d - 1 : ~FilledAt(b, i, e)
    BY <1>1, <2>2
  <2>4. search[0] = search[d]
    BY <1>1, <1>8, <2>3
  <2>5. search[d] = Found(b, i, d, search[d + 1])
    BY <1>6, <2>3
  <2>6. search[d] = Found(b, i, d, <<>>)
    BY <2>3, <2>5 DEF Found, FilledAt
  <2>7. QED
    BY <1>2, <2>3, <2>4, <2>6 DEF N, i
<1>11. QED
  BY <1>9, <1>10

(* It is the lower one of the filled buckets nearest to the RIF. *)
LEMMA SamplesAreNearest ==
    ASSUME NEW b \in Contents, NEW rif \in Int
    PROVE  LET nearest == NearestFilled(b, BucketIndex(rif))
           IN  IF nearest = {} THEN Samples(b, rif) = <<>>
               ELSE \E j \in nearest : /\ \A k \in nearest : j <= k
                                       /\ Samples(b, rif) = b[j]
<1> DEFINE i == BucketIndex(rif)
           filled == {j \in Bucket : b[j] # <<>>}
           nearest == NearestFilled(b, i)
<1>1. NumBuckets \in Nat \ {0} /\ i \in Bucket
  BY NumBucketsAssumption, IndexIsBucket
<1> HIDE DEF i
<1>2. nearest = {j \in filled : \A k \in filled : Distance(i, j) <= Distance(i, k)}
  BY DEF NearestFilled
<1>3. ASSUME NEW k \in filled
      PROVE  /\ Distance(i, k) \in 0 .. NumBuckets - 1
             /\ FilledAt(b, i, Distance(i, k))
             /\ k = i - Distance(i, k) \/ k = i + Distance(i, k)
  <2>1. CASE i < k
    <3>1. Distance(i, k) = k - i /\ i + (k - i) = k
      BY <1>1, <2>1 DEF Distance, Bucket
    <3>2. QED
      BY <1>1, <2>1, <3>1 DEF Bucket, FilledAt
  <2>2. CASE ~(i < k)
    <3>1. Distance(i, k) = i - k /\ i - (i - k) = k
      BY <1>1, <2>2 DEF Distance, Bucket
    <3>2. QED
      BY <1>1, <2>2, <3>1 DEF Bucket, FilledAt
  <2>3. QED
    BY <2>1, <2>2
<1>4. CASE /\ \A d \in 0 .. NumBuckets - 1 : ~FilledAt(b, i, d)
           /\ Samples(b, rif) = <<>>
  <2>1. filled = {}
    <3> HIDE DEF filled
    <3>1. QED
      BY <1>3, <1>4
  <2>2. QED
    BY <1>2, <1>4, <2>1 DEF i
<1>5. CASE \E d \in 0 .. NumBuckets - 1 :
              /\ FilledAt(b, i, d)
              /\ \A e \in 0 .. d - 1 : ~FilledAt(b, i, e)
              /\ Samples(b, rif) = Found(b, i, d, <<>>)
  <2>1. PICK d \in 0 .. NumBuckets - 1 :
              /\ FilledAt(b, i, d)
              /\ \A e \in 0 .. d - 1 : ~FilledAt(b, i, e)
              /\ Samples(b, rif) = Found(b, i, d, <<>>)
    BY <1>5
  <2>2. \A k \in filled : d <= Distance(i, k)
    <3>1. SUFFICES ASSUME NEW k \in filled, ~(d <= Distance(i, k)) PROVE FALSE
      OBVIOUS
    <3>2. Distance(i, k) \in 0 .. d - 1
      BY <1>1, <1>3, <3>1
    <3>3. QED
      BY <1>3, <2>1, <3>2
  <2> DEFINE j == IF i - d \in Bucket /\ b[i - d] # <<>> THEN i - d ELSE i + d
  <2>3. j \in filled /\ Samples(b, rif) = b[j] /\ Distance(i, j) = d
    BY <1>1, <2>1 DEF Found, FilledAt, Distance, Bucket
  <2>4. ASSUME NEW k \in nearest PROVE j <= k
    <3>1. k \in filled /\ Distance(i, k) <= Distance(i, j)
      BY <1>2, <2>3, <2>4
    <3>2. Distance(i, k) = d
      BY <1>1, <1>3, <2>2, <2>3, <3>1
    <3>3. k = i - d \/ k = i + d
      BY <1>3, <3>1, <3>2
    <3>4. QED
      BY <1>1, <2>1, <3>1, <3>3 DEF Bucket
  <2>5. j \in nearest
    <3> HIDE DEF j, filled
    <3>1. QED
      BY <1>2, <2>2, <2>3
  <2>6. QED
    <3> HIDE DEF j, nearest
    <3>1. QED
      BY <2>3, <2>4, <2>5 DEF nearest, i
<1>6. QED
  BY <1>4, <1>5, SearchFinds DEF i

(* The estimate a replica gives for a RIF (main.go:55) is the median of the filled
   bucket nearest to it: for any number of buckets and samples.              *)
THEOREM EstimateIsMedian ==
    ASSUME NEW b \in Contents, NEW rif \in Int
    PROVE  IsEstimate(MedianAtRIF(b, rif), b, rif)
<1> DEFINE i == BucketIndex(rif)
           nearest == NearestFilled(b, i)
           s == Samples(b, rif)
<1>1. i \in Bucket /\ b \in [Bucket -> Seq(Latency)]
  BY IndexIsBucket DEF Contents
<1> HIDE DEF i
<1>2. CASE nearest = {}
  <2>1. s = <<>>
    BY <1>2, SamplesAreNearest DEF i
  <2>2. InsertionSort(s) \in Seq(Int) /\ Len(InsertionSort(s)) = 0
    <3> HIDE DEF s
    <3>1. s \in Seq(Int) /\ Len(s) = 0
      BY <2>1
    <3>2. QED
      BY <3>1, InsertionSorts
  <2>3. InsertionSort(s) = <<>>
    BY <2>2
  <2>4. MedianAtRIF(b, rif) = 0
    BY <2>3 DEF MedianAtRIF
  <2>5. QED
    BY <1>2, <2>4 DEF IsEstimate, i
<1>3. CASE nearest # {}
  <2>1. PICK j \in nearest : (\A k \in nearest : j <= k) /\ s = b[j]
    BY <1>3, SamplesAreNearest DEF i
  <2>2. s \in Seq(Latency) /\ s # <<>>
    BY <1>1, <2>1 DEF NearestFilled
  <2> HIDE DEF s
  <2>3. /\ InsertionSort(s) # <<>>
        /\ IsMedian(InsertionSort(s)[Len(InsertionSort(s)) \div 2 + 1], s)
    BY <2>2, MiddleIsMedian
  <2>4. IsMedian(MedianAtRIF(b, rif), s)
    BY <2>3 DEF MedianAtRIF, s
  <2>5. QED
    BY <1>3, <2>1, <2>4 DEF IsEstimate, i
<1>4. QED
  BY <1>2, <1>3

(* So it is in every state of a replica, whatever its handlers recorded. *)
THEOREM BackendEstimateAgrees == BackendSpec => []EstimateAgrees
<1>1. ASSUME BackendInv PROVE EstimateAgrees
  <2>1. buckets \in Contents
    BY <1>1 DEF BackendInv, Local
  <2>2. \A rif \in -1 .. NumBuckets : rif \in Int
    BY NumBucketsAssumption
  <2>3. QED
    BY <2>1, <2>2, EstimateIsMedian DEF EstimateAgrees
<1>2. QED
  BY <1>1, BackendInvariant, PTL

-----------------------------------------------------------------------------
(* The slice behind the probe pool does what the pool of sets says.  First *)
(* the loops, whatever the slice: Scan ends at an element no other beats,  *)
(* so an eviction takes an oldest entry, RemoveWorst a worst one and       *)
(* selectPrequal one the hot-cold rule prefers; the sorted slice holds at  *)
(* the quantile index the RIF of that rank; cutting, appending and copying *)
(* change the set of entries as they should.  Then SliceInv, that no slice *)
(* ever repeats an entry and that every entry in reach has its record, and *)
(* step by step the refinement.                                            *)

\* beats[p] has the positions p is better than: none is better than itself, and what
\* is better than a better one is better.
IsBetter(beats, n) ==
    /\ \A p \in 1 .. n : p \notin beats[p]
    /\ \A p, q, r \in 1 .. n : r \in beats[q] /\ q \in beats[p] => r \in beats[p]

(* A loop that keeps the best so far ends with a candidate no other one beats, and
   with none only when there is none.                                        *)
LEMMA ScanFinds ==
    ASSUME NEW T, NEW s \in Seq(T), NEW candidates \in SUBSET DOMAIN s,
           NEW beats, IsBetter(beats, Len(s))
    PROVE  LET b == Scan(s, candidates, beats)
           IN  /\ candidates = {} => b = 0
               /\ candidates # {} => /\ b \in candidates
                                     /\ \A q \in candidates : b \notin beats[q]
<1> DEFINE n == Len(s)
           X == 0 .. n
           Later(p, b) == IF p \in candidates /\ (b = 0 \/ b \in beats[p]) THEN p ELSE b
           Round(f, p) == IF p = 0 THEN 0 ELSE Later(p, f[p - 1])
           IsRounds(f) == f = [p \in X |-> Round(f, p)]
           best == CHOOSE f : IsRounds(f)
<1>1. n \in Nat /\ DOMAIN s = 1 .. n /\ candidates \subseteq 1 .. n
  OBVIOUS
<1>2. Scan(s, candidates, beats) = best[n]
  BY DEF Scan
<1>0. IsBetter(beats, n)
  OBVIOUS
<1> HIDE DEF n
<1>3. \E f : IsRounds(f)
  <2> DEFINE step == [p \in 1 .. n |-> [b \in X |-> Later(p, b)]]
  <2>1. \A p \in 1 .. n : [b \in X |-> Later(p, b)] \in [X -> X]
    BY <1>1
  <2>2. IsStep(step, X, n)
    BY <2>1 DEF IsStep
  <2>3. \A p \in 1 .. n, b \in X : step[p][b] = Later(p, b)
    OBVIOUS
  <2>4. 0 \in X
    BY <1>1
  <2> HIDE DEF step, X, Later
  <2>5. PICK f : Follows(f, step, X, 0, n)
    BY <1>1, <2>2, <2>4, Iteration
  <2>6. ASSUME NEW p \in 0 .. n PROVE f[p] = Round(f, p)
    <3>1. CASE p = 0
      BY <2>5, <3>1 DEF Follows
    <3>2. CASE p # 0
      <4>1. p \in 1 .. n /\ p - 1 \in 0 .. n
        BY <1>1, <3>2
      <4>2. f[p - 1] \in X
        BY <2>5, <4>1 DEF Follows
      <4>3. QED
        BY <2>3, <2>5, <3>2, <4>1, <4>2 DEF Follows
    <3>3. QED
      BY <3>1, <3>2
  <2>7. f = [p \in X |-> f[p]]
    BY <2>5 DEF Follows, X
  <2> HIDE DEF Round
  <2>8. IsRounds(f)
    BY <2>6, <2>7 DEF X
  <2> HIDE DEF IsRounds
  <2>9. QED
    BY <2>8
<1>4. IsRounds(best)
  <2> HIDE DEF IsRounds
  <2>1. QED
    BY <1>3
<1>5. \A p \in X : best[p] = Round(best, p)
  <2> HIDE DEF Round, best
  <2>1. QED
    BY <1>4
<1> HIDE DEF best
<1> DEFINE Upto(p) == {q \in candidates : q <= p}
           Right(p) == /\ Upto(p) = {} => best[p] = 0
                       /\ Upto(p) # {} => /\ best[p] \in Upto(p)
                                          /\ \A q \in Upto(p) : best[p] \notin beats[q]
           Done == {p \in 0 .. n : Right(p)}
<1>6. 0 \in Done
  BY <1>1, <1>5
<1>7. ASSUME NEW p \in 0 .. n - 1, p \in Done PROVE p + 1 \in Done
  <2>1. p + 1 \in 1 .. n /\ p \in Nat /\ (p + 1) - 1 = p
    BY <1>1
  <2>2. best[p + 1] = Later(p + 1, best[p])
    BY <1>5, <2>1
  <2>3. Upto(p + 1) = IF p + 1 \in candidates THEN Upto(p) \cup {p + 1} ELSE Upto(p)
    BY <1>1, <2>1
  <2>4. Right(p)
    BY <1>7
  <2> DEFINE b == best[p]
             U == Upto(p)
             V == Upto(p + 1)
  <2>5. U \subseteq candidates /\ 0 \notin U /\ U \subseteq 1 .. n
    BY <1>1
  <2>6. p + 1 \notin beats[p + 1]
    BY <1>0, <2>1 DEF IsBetter
  <2>7. ASSUME p + 1 \in candidates, b \in U, b \in beats[p + 1], NEW q \in U
        PROVE  p + 1 \notin beats[q]
    BY <1>0, <2>1, <2>4, <2>5, <2>7 DEF IsBetter
  <2> HIDE DEF Upto
  <2>8. Right(p + 1)
    <3>1. CASE p + 1 \notin candidates
      BY <2>2, <2>3, <2>4, <3>1
    <3>2. CASE p + 1 \in candidates /\ U = {}
      BY <2>2, <2>3, <2>4, <2>6, <3>2
    <3>3. CASE p + 1 \in candidates /\ U # {} /\ b \in beats[p + 1]
      BY <2>2, <2>3, <2>4, <2>6, <2>7, <3>3
    <3>4. CASE p + 1 \in candidates /\ U # {} /\ b \notin beats[p + 1]
      BY <2>2, <2>3, <2>4, <2>5, <3>4
    <3>5. QED
      BY <3>1, <3>2, <3>3, <3>4
  <2>9. QED
    BY <2>1, <2>8
<1>8. \A p \in 0 .. n : p \in Done
  <2> HIDE DEF Done
  <2>1. QED
    BY <1>1, <1>6, <1>7, CountingUp, Zenon
<1>9. Right(n) /\ Upto(n) = candidates
  BY <1>1, <1>8
<1>10. QED
  BY <1>2, <1>9

-----------------------------------------------------------------------------

\* The entries of s have the measurements the loops compare.
Readable(h, s) ==
    \A p \in DOMAIN s : h[s[p]].rif \in Int /\ h[s[p]].lat \in Int /\ h[s[p]].age \in Int

(* removeOldestLocked ends at an oldest entry. *)
LEMMA OldestFound ==
    ASSUME NEW T, NEW s \in Seq(T), s # <<>>, NEW h, Readable(h, s)
    PROVE  /\ OldestLoop(s, h) \in DOMAIN s
           /\ s[OldestLoop(s, h)] \in Oldest(ToSet(s), h)
<1> DEFINE C == DOMAIN s
           beats == [p \in C |-> {q \in C : h[s[p]].age > h[s[q]].age}]
           b == Scan(s, C, beats)
<1>1. C = 1 .. Len(s) /\ C # {} /\ C \in SUBSET DOMAIN s
  OBVIOUS
<1>2. \A p, q \in C : q \in beats[p] <=> h[s[p]].age > h[s[q]].age
  OBVIOUS
<1>3. \A p \in C : h[s[p]].age \in Int
  BY DEF Readable
<1> HIDE DEF beats
<1>4. IsBetter(beats, Len(s))
  <2>1. \A p, q, r \in C : r \in beats[q] /\ q \in beats[p] => r \in beats[p]
    BY <1>2, <1>3
  <2>2. QED
    BY <1>1, <1>2, <1>3, <2>1 DEF IsBetter
<1> HIDE DEF C
<1>5. b \in C /\ \A q \in C : b \notin beats[q]
  BY <1>1, <1>4, ScanFinds
<1>6. OldestLoop(s, h) = b
  BY DEF OldestLoop, C, beats
<1> HIDE DEF b
<1>7. \A q \in C : h[s[b]].age >= h[s[q]].age
  BY <1>2, <1>3, <1>5
<1>8. QED
  BY <1>5, <1>6, <1>7 DEF C, Oldest, ToSet

(* The loop of RemoveWorst ends at a worst entry. *)
LEMMA WorstFound ==
    ASSUME NEW T, NEW s \in Seq(T), s # <<>>, NEW h, Readable(h, s),
           NEW threshold \in Int
    PROVE  /\ WorstLoop(s, h, threshold) \in DOMAIN s
           /\ s[WorstLoop(s, h, threshold)] \in Worst(ToSet(s), h, threshold)
<1> DEFINE C == DOMAIN s
           Beats(p, q) ==
               IF h[s[p]].rif > threshold
               THEN h[s[q]].rif <= threshold \/ h[s[p]].rif > h[s[q]].rif
               ELSE h[s[q]].rif <= threshold /\ h[s[p]].lat > h[s[q]].lat
           beats == [p \in C |-> {q \in C : Beats(p, q)}]
           b == Scan(s, C, beats)
<1>1. C = 1 .. Len(s) /\ C # {} /\ C \in SUBSET DOMAIN s
  OBVIOUS
<1>2. \A p, q \in C : q \in beats[p] <=> Beats(p, q)
  OBVIOUS
<1>3. \A p \in C : h[s[p]].rif \in Int /\ h[s[p]].lat \in Int
  BY DEF Readable
<1> HIDE DEF beats
<1>4. IsBetter(beats, Len(s))
  <2>1. ASSUME NEW p \in C, NEW q \in C, NEW r \in C, Beats(q, r), Beats(p, q)
        PROVE  Beats(p, r)
    BY <1>3, <2>1, SMTT(30)
  <2>2. \A p \in C : ~Beats(p, p)
    BY <1>3
  <2> HIDE DEF Beats
  <2>3. QED
    BY <1>1, <1>2, <2>1, <2>2 DEF IsBetter
<1> HIDE DEF C
<1>5. b \in C /\ \A q \in C : b \notin beats[q]
  BY <1>1, <1>4, ScanFinds
<1>6. WorstLoop(s, h, threshold) = b
  BY DEF WorstLoop, C, beats
<1> HIDE DEF b
<1>7. \A q \in C : ~Beats(q, b)
  BY <1>2, <1>5
<1>8. s[b] \in Worst(ToSet(s), h, threshold)
  <2> DEFINE H == Hot(ToSet(s), h, threshold)
  <2>1. /\ s[b] \in ToSet(s)
        /\ \A i \in ToSet(s) : \E q \in C : i = s[q]
    BY <1>5 DEF ToSet, C
  <2>2. CASE H # {}
    <3>1. PICK q \in C : h[s[q]].rif > threshold
      BY <2>1, <2>2 DEF Hot
    <3>2. h[s[b]].rif > threshold
      BY <1>3, <1>5, <1>7, <3>1
    <3>3. \A r \in C : h[s[b]].rif >= h[s[r]].rif
      BY <1>3, <1>5, <1>7, <3>2
    <3>4. s[b] \in Busiest(H, h)
      BY <2>1, <3>2, <3>3 DEF Busiest, Hot
    <3>5. QED
      BY <2>2, <3>4 DEF Worst
  <2>3. CASE H = {}
    <3>1. \A q \in C : h[s[q]].rif <= threshold
      BY <1>3, <2>3 DEF Hot, ToSet, C
    <3>2. \A r \in C : h[s[b]].lat >= h[s[r]].lat
      BY <1>3, <1>5, <1>7, <3>1
    <3>3. s[b] \in Slowest(ToSet(s), h)
      BY <2>1, <3>2 DEF Slowest
    <3>4. QED
      BY <2>3, <3>3 DEF Worst
  <2>4. QED
    BY <2>2, <2>3
<1>9. QED
  BY <1>5, <1>6, <1>8 DEF C

(* The loop over the cold entries ends at a fastest one of them. *)
LEMMA FastestFound ==
    ASSUME NEW T, NEW s \in Seq(T), NEW h, Readable(h, s),
           NEW candidates \in SUBSET DOMAIN s, candidates # {}
    PROVE  LET b == FastestLoop(candidates, s, h)
           IN  /\ b \in candidates
               /\ \A q \in candidates : h[s[b]].lat <= h[s[q]].lat
<1> DEFINE C == DOMAIN s
           beats == [p \in C |-> {q \in C : h[s[p]].lat < h[s[q]].lat}]
           b == Scan(s, candidates, beats)
<1>1. C = 1 .. Len(s)
  OBVIOUS
<1>2. \A p, q \in C : q \in beats[p] <=> h[s[p]].lat < h[s[q]].lat
  OBVIOUS
<1>3. \A p \in C : h[s[p]].lat \in Int
  BY DEF Readable
<1> HIDE DEF beats
<1>4. IsBetter(beats, Len(s))
  <2>1. \A p, q, r \in C : r \in beats[q] /\ q \in beats[p] => r \in beats[p]
    BY <1>2, <1>3
  <2>2. QED
    BY <1>1, <1>2, <1>3, <2>1 DEF IsBetter
<1>5. b \in candidates /\ \A q \in candidates : b \notin beats[q]
  <2> HIDE DEF C
  <2>1. QED
    BY <1>4, ScanFinds
<1>6. FastestLoop(candidates, s, h) = b
  BY DEF FastestLoop, beats
<1> HIDE DEF b
<1>7. QED
  BY <1>2, <1>3, <1>5, <1>6

(* The loop over the hot entries ends at a calmest one of them. *)
LEMMA CalmestFound ==
    ASSUME NEW T, NEW s \in Seq(T), NEW h, Readable(h, s),
           NEW candidates \in SUBSET DOMAIN s, candidates # {}
    PROVE  LET b == CalmestLoop(candidates, s, h)
           IN  /\ b \in candidates
               /\ \A q \in candidates : h[s[b]].rif <= h[s[q]].rif
<1> DEFINE C == DOMAIN s
           beats == [p \in C |-> {q \in C : h[s[p]].rif < h[s[q]].rif}]
           b == Scan(s, candidates, beats)
<1>1. C = 1 .. Len(s)
  OBVIOUS
<1>2. \A p, q \in C : q \in beats[p] <=> h[s[p]].rif < h[s[q]].rif
  OBVIOUS
<1>3. \A p \in C : h[s[p]].rif \in Int
  BY DEF Readable
<1> HIDE DEF beats
<1>4. IsBetter(beats, Len(s))
  <2>1. \A p, q, r \in C : r \in beats[q] /\ q \in beats[p] => r \in beats[p]
    BY <1>2, <1>3
  <2>2. QED
    BY <1>1, <1>2, <1>3, <2>1 DEF IsBetter
<1>5. b \in candidates /\ \A q \in candidates : b \notin beats[q]
  <2> HIDE DEF C
  <2>1. QED
    BY <1>4, ScanFinds
<1>6. CalmestLoop(candidates, s, h) = b
  BY DEF CalmestLoop, beats
<1> HIDE DEF b
<1>7. QED
  BY <1>2, <1>3, <1>5, <1>6

\* What the loops of selectPrequal choose in s is what the rule prefers.
FollowsRule(s, h, seen, threshold) ==
    LET choice == {s[p] : p \in ChooseLoop(s, h, seen, threshold)}
    IN  /\ choice \subseteq HCL(seen, h, threshold)
        /\ choice = {} => seen = {}

(* The loops of selectPrequal choose by the hot-cold rule, and choose whenever some
   entry was seen healthy.                                                   *)
LEMMA RuleFollowed ==
    ASSUME NEW T, NEW s \in Seq(T), NEW h, Readable(h, s), NEW threshold \in Int,
           NEW seen \in SUBSET ToSet(s)
    PROVE  FollowsRule(s, h, seen, threshold)
<1> USE DEF FollowsRule
<1> DEFINE choice == {s[p] : p \in ChooseLoop(s, h, seen, threshold)}
           cold == ColdPositions(s, h, seen, threshold)
           hot  == HotPositions(s, h, seen, threshold)
<1>1. /\ cold \in SUBSET DOMAIN s /\ hot \in SUBSET DOMAIN s
      /\ \A i \in Cold(seen, h, threshold) : \E p \in cold : i = s[p]
      /\ \A i \in Hot(seen, h, threshold) : \E p \in hot : i = s[p]
      /\ \A p \in cold : s[p] \in Cold(seen, h, threshold)
      /\ \A p \in hot : s[p] \in Hot(seen, h, threshold)
  BY DEF ColdPositions, HotPositions, Cold, Hot, ToSet
<1>2. \A i \in seen : i \in Cold(seen, h, threshold) \/ i \in Hot(seen, h, threshold)
  BY DEF Cold, Hot, ToSet, Readable
<1> HIDE DEF cold, hot
<1>3. CASE cold # {}
  <2> DEFINE b == FastestLoop(cold, s, h)
  <2>1. b \in cold /\ \A q \in cold : h[s[b]].lat <= h[s[q]].lat
    BY <1>1, <1>3, FastestFound
  <2>2. choice = {s[b]}
    BY <1>3 DEF ChooseLoop, cold
  <2> HIDE DEF b, choice
  <2>3. s[b] \in Fastest(Cold(seen, h, threshold), h)
    BY <1>1, <2>1 DEF Fastest
  <2>4. Cold(seen, h, threshold) # {}
    BY <1>1, <2>1
  <2>5. s[b] \in HCL(seen, h, threshold)
    BY <2>3, <2>4 DEF HCL
  <2>6. QED
    BY <2>2, <2>5 DEF choice
<1>4. CASE cold = {} /\ hot # {}
  <2> DEFINE b == CalmestLoop(hot, s, h)
  <2>1. b \in hot /\ \A q \in hot : h[s[b]].rif <= h[s[q]].rif
    BY <1>1, <1>4, CalmestFound
  <2>2. choice = {s[b]}
    BY <1>4 DEF ChooseLoop, cold, hot
  <2> HIDE DEF b, choice
  <2>3. s[b] \in Calmest(Hot(seen, h, threshold), h)
    BY <1>1, <2>1 DEF Calmest
  <2>4. Cold(seen, h, threshold) = {}
    BY <1>1, <1>4
  <2>5. s[b] \in HCL(seen, h, threshold)
    BY <2>3, <2>4 DEF HCL
  <2>6. QED
    BY <2>2, <2>5 DEF choice
<1>5. CASE cold = {} /\ hot = {}
  <2>1. ChooseLoop(s, h, seen, threshold) = {}
    BY <1>5 DEF ChooseLoop, cold, hot
  <2>2. seen = {}
    BY <1>1, <1>2, <1>5
  <2>3. QED
    BY <2>1, <2>2
<1>6. QED
  BY <1>3, <1>4, <1>5

-----------------------------------------------------------------------------

\* The RIFs a slice reports, in its order.
RIFsOf(s, h) == [p \in 1 .. Len(s) |-> h[s[p]].rif]

(* rifQuantile reads one value of the sorted slice, at the quantile index. *)
LEMMA QuantileReads ==
    ASSUME NEW T, NEW s \in Seq(T), s # <<>>, NEW h, Readable(h, s)
    PROVE  /\ RIFsOf(s, h) \in Seq(Int) /\ Len(RIFsOf(s, h)) = Len(s)
           /\ QuantileIndex(Len(s)) \in 0 .. Len(s) - 1
           /\ QuantileLoop(s, h) = SortInts(RIFsOf(s, h))[QuantileIndex(Len(s)) + 1]
<1> DEFINE n == Len(s)
           k == ((n - 1) * QRIF) \div 100
           sorted == SortInts(RIFsOf(s, h))
<1>1. n \in Nat \ {0}
  OBVIOUS
<1>2. RIFsOf(s, h) \in Seq(Int) /\ Len(RIFsOf(s, h)) = n
  BY DEF RIFsOf, Readable
<1>3. QuantileLoop(s, h) = IF QRIF = 0 THEN sorted[1]
                           ELSE IF QRIF = 100 THEN sorted[n] ELSE sorted[1 + k]
  BY DEF QuantileLoop, RIFsOf
<1> HIDE DEF n, sorted
<1>4. k \in 0 .. n - 1
  BY <1>1, ScaledIndex, QRIFAssumption
<1>5. QRIF = 0 => k = 0
  BY <1>1
<1>6. QRIF = 100 => k = n - 1
  BY <1>1
<1> HIDE DEF k
<1>7. QuantileLoop(s, h) = sorted[k + 1]
  <2>1. 1 + k = k + 1 /\ (QRIF = 0 => 1 = k + 1) /\ (QRIF = 100 => n = k + 1)
    BY <1>1, <1>4, <1>5, <1>6
  <2>2. QED
    BY <1>3, <2>1
<1>8. QED
  BY <1>2, <1>4, <1>7 DEF QuantileIndex, n, k, sorted

(* The threshold is a RIF some entry of the slice reports. *)
LEMMA QuantileReported ==
    ASSUME NEW T, NEW s \in Seq(T), s # <<>>, NEW h, Readable(h, s)
    PROVE  \E p \in DOMAIN s : QuantileLoop(s, h) = h[s[p]].rif
<1> DEFINE n == Len(s)
           k == QuantileIndex(n)
           f == RIFsOf(s, h)
           g == SortInts(f)
<1>1. f \in Seq(Int) /\ Len(f) = n /\ k \in 0 .. n - 1 /\ QuantileLoop(s, h) = g[k + 1]
  BY QuantileReads
<1>2. n \in Nat /\ DOMAIN s = 1 .. n
  OBVIOUS
<1>3. \A p \in 1 .. n : f[p] = h[s[p]].rif
  BY DEF RIFsOf
<1> HIDE DEF k, f
<1>4. \E q \in 1 .. n : g[k + 1] = f[q]
  BY <1>1, SortIntsRank
<1>5. QED
  BY <1>1, <1>2, <1>3, <1>4

(* A slice without repetitions has as many positions of a kind as its set has
   entries of it.                                                            *)
LEMMA PositionsCounted ==
    ASSUME NEW T, NEW s \in Seq(T), IsInjective(s), NEW P \in SUBSET DOMAIN s
    PROVE  /\ IsFiniteSet({s[p] : p \in P})
           /\ Cardinality({s[p] : p \in P}) = Cardinality(P)
<1> DEFINE V == {s[p] : p \in P}
           pi == [p \in P |-> s[p]]
<1>1. IsFiniteSet(P)
  <2>1. IsFiniteSet(1 .. Len(s))
    BY FS_Interval
  <2>2. QED
    BY <2>1, FS_Subset
<1>2. /\ pi \in [P -> V]
      /\ \A p, q \in P : pi[p] = pi[q] => p = q
      /\ \A v \in V : \E p \in P : pi[p] = v
  BY DEF IsInjective
<1> HIDE DEF V, pi
<1>3. IsFiniteSet(V) /\ Cardinality(P) = Cardinality(V)
  BY <1>1, <1>2, SameNumber
<1>4. QED
  BY <1>3 DEF V

\* v has rank k among the RIFs of the entries in S, as RifQuantile asks.
HasRIFRank(v, S, h, k) ==
    /\ Cardinality({i \in S : h[i].rif < v}) <= k
    /\ k < Cardinality({i \in S : h[i].rif <= v})

(* Only one of the values has a rank. *)
LEMMA RankUnique ==
    ASSUME NEW S, IsFiniteSet(S), NEW h, NEW k \in Int, NEW v \in Int, NEW w \in Int,
           \A i \in S : h[i].rif \in Int,
           HasRIFRank(v, S, h, k), HasRIFRank(w, S, h, k)
    PROVE  v = w
<1>1. ASSUME NEW x \in Int, NEW y \in Int, x < y,
             HasRIFRank(x, S, h, k), HasRIFRank(y, S, h, k)
      PROVE  FALSE
  <2> DEFINE A == {i \in S : h[i].rif <= x}
             B == {i \in S : h[i].rif < y}
  <2>1. A \subseteq B /\ B \subseteq S
    BY <1>1
  <2>2. IsFiniteSet(B) /\ k < Cardinality(A) /\ Cardinality(B) <= k
    BY <1>1, <2>1, FS_Subset DEF HasRIFRank
  <2> HIDE DEF A, B
  <2>3. Cardinality(A) <= Cardinality(B) /\ Cardinality(A) \in Nat /\ Cardinality(B) \in Nat
    BY <2>1, <2>2, FS_Subset, FS_CardinalityType
  <2>4. QED
    BY <2>2, <2>3
<1>2. QED
  BY <1>1

(* The value at the quantile index of the sorted slice is the one RifQuantile defines
   by its rank.                                                              *)
LEMMA QuantileByRank ==
    ASSUME NEW T, NEW s \in Seq(T), IsInjective(s), NEW h, Readable(h, s)
    PROVE  QuantileLoop(s, h) = RifQuantile(ToSet(s), h)
<1> DEFINE S == ToSet(s)
<1>1. CASE s = <<>>
  <2>1. S = {}
    BY <1>1 DEF ToSet
  <2>2. QuantileLoop(s, h) = 0
    BY <1>1 DEF QuantileLoop
  <2>3. QED
    BY <2>1, <2>2 DEF RifQuantile
<1>2. CASE s # <<>>
  <2> DEFINE n == Len(s)
             k == QuantileIndex(n)
             f == RIFsOf(s, h)
             g == SortInts(f)
             v == QuantileLoop(s, h)
             Value(w) == w \in {h[i].rif : i \in S}
  <2>1. f \in Seq(Int) /\ Len(f) = n /\ k \in 0 .. n - 1 /\ v = g[k + 1]
    BY <1>2, QuantileReads
  <2>2. n \in Nat /\ DOMAIN s = 1 .. n /\ S # {}
    BY <1>2 DEF ToSet
  <2>3. \A p \in 1 .. n : f[p] = h[s[p]].rif /\ f[p] \in Int
    BY <2>2 DEF RIFsOf, Readable
  <2>4. AreInts(f, n)
    BY <2>3 DEF AreInts
  <2>5. S = {s[p] : p \in DOMAIN s}
    BY DEF ToSet
  <2>6. IsFiniteSet(S) /\ Cardinality(S) = n
    <3>1. Cardinality(1 .. n) = n
      BY <2>2, FS_Interval
    <3> HIDE DEF S, n
    <3>2. QED
      BY <2>2, <2>5, <3>1, PositionsCounted, ZenonT(60)
  <2>7. \A i \in S : h[i].rif \in Int
    BY DEF ToSet, Readable
  <2>8. \A A \in SUBSET (1 .. n) : Cardinality({s[p] : p \in A}) = Cardinality(A)
    BY <2>2, PositionsCounted
  <2> HIDE DEF n, k, f, v
  <2>9. /\ g[k + 1] \in Int
        /\ \E p \in 1 .. n : g[k + 1] = f[p]
        /\ HasRank(g[k + 1], f, n, k)
    BY <2>1, SortIntsRank
  <2>10. v \in Int /\ (\E p \in 1 .. n : v = f[p]) /\ HasRank(v, f, n, k)
    BY <2>1, <2>9
  <2>11. Value(v)
    BY <2>2, <2>3, <2>5, <2>10
  <2>12. HasRIFRank(v, S, h, k)
    <3> DEFINE Less == {p \in 1 .. n : f[p] < v}
               UpTo == {p \in 1 .. n : f[p] <= v}
    <3>1. {i \in S : h[i].rif < v} = {s[p] : p \in Less}
      BY <2>2, <2>3, <2>5
    <3>2. {i \in S : h[i].rif <= v} = {s[p] : p \in UpTo}
      BY <2>2, <2>3, <2>5
    <3>3. Cardinality(Less) <= k /\ k < Cardinality(UpTo)
      BY <2>10 DEF HasRank
    <3>4. QED
      BY <2>8, <3>1, <3>2, <3>3 DEF HasRIFRank
  <2>13. \A w : Value(w) => w \in Int
    BY <2>7
  <2> HIDE DEF S
  <2>14. ASSUME NEW w, Value(w), HasRIFRank(w, S, h, k) PROVE w = v
    <3> HIDE DEF Value
    <3>1. QED
      BY <2>1, <2>6, <2>7, <2>10, <2>12, <2>13, <2>14, RankUnique
  <2>15. RifQuantile(S, h) = CHOOSE w \in {h[i].rif : i \in S} : HasRIFRank(w, S, h, k)
    BY <2>2, <2>6 DEF RifQuantile, HasRIFRank, k
  <2>16. v = CHOOSE w \in {h[i].rif : i \in S} : HasRIFRank(w, S, h, k)
    BY <2>11, <2>12, <2>14
  <2>17. QED
    BY <2>15, <2>16 DEF v, S
<1>3. QED
  BY <1>1, <1>2

-----------------------------------------------------------------------------

(* Cutting a position out of a slice moves those after it down by one. *)
LEMMA RemoveAtIs ==
    ASSUME NEW T, NEW s \in Seq(T), NEW p \in DOMAIN s
    PROVE  /\ RemoveAt(s, p) \in Seq(T)
           /\ Len(RemoveAt(s, p)) = Len(s) - 1
           /\ \A q \in 1 .. Len(s) - 1 :
                 RemoveAt(s, p)[q] = IF q < p THEN s[q] ELSE s[q + 1]
<1> DEFINE a == SubSeq(s, 1, p - 1)
           b == SubSeq(s, p + 1, Len(s))
<1>1. p \in 1 .. Len(s) /\ Len(s) \in Nat
  OBVIOUS
<1>2. /\ a \in Seq(T) /\ Len(a) = p - 1
      /\ \A q \in 1 .. p - 1 : a[q] = s[q]
  BY <1>1
<1>3. /\ b \in Seq(T) /\ Len(b) = Len(s) - p
      /\ \A q \in 1 .. Len(s) - p : b[q] = s[p + q]
  BY <1>1
<1>4. RemoveAt(s, p) = a \o b
  BY DEF RemoveAt
<1> HIDE DEF a, b
<1>5. a \o b \in Seq(T) /\ Len(a \o b) = Len(s) - 1
  BY <1>1, <1>2, <1>3
<1>6. ASSUME NEW q \in 1 .. Len(s) - 1
      PROVE  (a \o b)[q] = IF q < p THEN s[q] ELSE s[q + 1]
  <2>1. CASE q < p
    <3>1. q \in 1 .. Len(a)
      BY <1>1, <1>2, <2>1
    <3>2. (a \o b)[q] = a[q]
      BY <1>2, <1>3, <3>1
    <3>3. QED
      BY <1>2, <2>1, <3>1, <3>2
  <2>2. CASE ~(q < p)
    <3>1. q - Len(a) \in 1 .. Len(s) - p /\ p + (q - Len(a)) = q + 1
      BY <1>1, <1>2, <2>2
    <3>2. (a \o b)[q] = b[q - Len(a)]
      <4>1. q \in 1 .. Len(a) + Len(b) /\ ~(q <= Len(a))
        BY <1>1, <1>2, <1>3, <2>2
      <4>2. a \in Seq(T) /\ b \in Seq(T)
        BY <1>2, <1>3
      <4>3. QED
        BY <4>1, <4>2
    <3>3. QED
      BY <1>3, <2>2, <3>1, <3>2
  <2>3. QED
    BY <2>1, <2>2
<1>7. QED
  BY <1>4, <1>5, <1>6

(* Cut out of a slice without repetitions, its entry is gone and every other stays. *)
LEMMA RemoveAtSet ==
    ASSUME NEW T, NEW s \in Seq(T), IsInjective(s), NEW p \in DOMAIN s
    PROVE  /\ RemoveAt(s, p) \in Seq(T)
           /\ IsInjective(RemoveAt(s, p))
           /\ ToSet(RemoveAt(s, p)) = ToSet(s) \ {s[p]}
<1> DEFINE r == RemoveAt(s, p)
           n == Len(s)
<1>1. /\ r \in Seq(T) /\ Len(r) = n - 1
      /\ \A q \in 1 .. n - 1 : r[q] = IF q < p THEN s[q] ELSE s[q + 1]
  BY RemoveAtIs
<1>2. n \in Nat /\ DOMAIN s = 1 .. n /\ p \in 1 .. n
  OBVIOUS
<1> HIDE DEF r, n
<1>3. DOMAIN r = 1 .. n - 1
  BY <1>1, <1>2
<1>4. \A i, j \in 1 .. n : s[i] = s[j] => i = j
  BY <1>2 DEF IsInjective
<1>5. \A i, j \in 1 .. n - 1 : r[i] = r[j] => i = j
  BY <1>1, <1>2, <1>4, SMTT(30)
<1>6. \A q \in 1 .. n - 1 : \E j \in 1 .. n : j # p /\ r[q] = s[j]
  BY <1>1, <1>2
<1>7. ASSUME NEW j \in 1 .. n, j # p PROVE \E q \in 1 .. n - 1 : r[q] = s[j]
  <2>1. CASE j < p
    <3>1. j \in 1 .. n - 1 /\ r[j] = s[j]
      BY <1>1, <1>2, <2>1
    <3>2. QED
      BY <3>1
  <2>2. CASE j > p
    <3>1. j - 1 \in 1 .. n - 1 /\ r[j - 1] = s[j]
      BY <1>1, <1>2, <2>2
    <3>2. QED
      BY <3>1
  <2>3. QED
    BY <1>2, <1>7, <2>1, <2>2
<1>8. ToSet(r) = ToSet(s) \ {s[p]}
  <2>1. ASSUME NEW v \in ToSet(r) PROVE v \in ToSet(s) \ {s[p]}
    <3>1. PICK q \in 1 .. n - 1 : v = r[q]
      BY <1>3 DEF ToSet
    <3>2. PICK j \in 1 .. n : j # p /\ v = s[j]
      BY <1>6, <3>1
    <3>3. QED
      BY <1>2, <1>4, <3>2 DEF ToSet
  <2>2. ASSUME NEW v \in ToSet(s) \ {s[p]} PROVE v \in ToSet(r)
    <3>1. PICK j \in 1 .. n : v = s[j] /\ j # p
      BY <1>2 DEF ToSet
    <3>2. PICK q \in 1 .. n - 1 : r[q] = v
      BY <1>7, <3>1
    <3>3. QED
      BY <1>3, <3>2 DEF ToSet
  <2>3. QED
    BY <2>1, <2>2
<1>9. IsInjective(r)
  BY <1>3, <1>5 DEF IsInjective
<1>10. QED
  BY <1>1, <1>8, <1>9 DEF r

(* removeEntryLocked takes the one entry it is asked for, if it is there. *)
LEMMA RemoveEntrySet ==
    ASSUME NEW T, NEW s \in Seq(T), IsInjective(s), NEW i
    PROVE  /\ RemoveEntry(s, i) \in Seq(T)
           /\ IsInjective(RemoveEntry(s, i))
           /\ ToSet(RemoveEntry(s, i)) = ToSet(s) \ {i}
<1> DEFINE found == {p \in DOMAIN s : s[p] = i}
           first == CHOOSE p \in found : \A q \in found : p <= q
<1>1. CASE found = {}
  <2>1. RemoveEntry(s, i) = s
    BY <1>1 DEF RemoveEntry
  <2>2. i \notin ToSet(s)
    BY <1>1 DEF ToSet
  <2>3. QED
    BY <2>1, <2>2
<1>2. CASE found # {}
  <2>1. RemoveEntry(s, i) = RemoveAt(s, first)
    BY <1>2 DEF RemoveEntry
  <2>2. found \in SUBSET Int /\ IsFiniteSet(found)
    <3>1. IsFiniteSet(1 .. Len(s))
      BY FS_Interval
    <3>2. QED
      BY <3>1, FS_Subset
  <2>3. \E p \in found : \A q \in found : p <= q
    <3> HIDE DEF found
    <3>1. QED
      BY <1>2, <2>2, SmallestMember
  <2>4. first \in found
    <3> HIDE DEF found
    <3>1. QED
      BY <2>3
  <2>5. first \in DOMAIN s /\ s[first] = i
    BY <2>4
  <2> HIDE DEF first
  <2>6. QED
    BY <2>1, <2>5, RemoveAtSet
<1>3. QED
  BY <1>1, <1>2

(* A deposit adds its entry at the end. *)
LEMMA AppendSet ==
    ASSUME NEW T, NEW s \in Seq(T), IsInjective(s), NEW i \in T, i \notin ToSet(s)
    PROVE  /\ Append(s, i) \in Seq(T)
           /\ IsInjective(Append(s, i))
           /\ ToSet(Append(s, i)) = ToSet(s) \cup {i}
<1> DEFINE r == Append(s, i)
           n == Len(s)
<1>1. /\ n \in Nat /\ DOMAIN s = 1 .. n
      /\ r \in Seq(T) /\ DOMAIN r = 1 .. n + 1
      /\ r[n + 1] = i /\ \A p \in 1 .. n : r[p] = s[p]
  OBVIOUS
<1> HIDE DEF r, n
<1>2. \A p \in 1 .. n : s[p] # i
  BY <1>1 DEF ToSet
<1>3. \A p, q \in 1 .. n : s[p] = s[q] => p = q
  BY <1>1 DEF IsInjective
<1>4. \A p \in 1 .. n + 1 : p \in 1 .. n \/ p = n + 1
  BY <1>1
<1>5. IsInjective(r)
  BY <1>1, <1>2, <1>3, <1>4 DEF IsInjective
<1>6. ToSet(r) = ToSet(s) \cup {i}
  <2>1. n + 1 \in 1 .. n + 1 /\ \A p \in 1 .. n : p \in 1 .. n + 1
    BY <1>1
  <2>2. QED
    BY <1>1, <1>4, <2>1 DEF ToSet
<1>7. QED
  BY <1>1, <1>5, <1>6 DEF r

(* Fresh copies the entries that are fresh, each once. *)
LEMMA FreshLoopSet ==
    ASSUME NEW T, NEW s \in Seq(T), IsInjective(s), NEW h
    PROVE  /\ FreshLoop(s, h) \in Seq(T)
           /\ IsInjective(FreshLoop(s, h))
           /\ ToSet(FreshLoop(s, h)) = {i \in ToSet(s) : h[i].age <= AgeLimit}
<1> DEFINE n == Len(s)
           X == Seq(T)
           none == <<>>
           IsFresh(p) == h[s[p]].age <= AgeLimit
           Later(p, f) == IF IsFresh(p) THEN Append(f, s[p]) ELSE f
           Round(f, p) == IF p = 0 THEN none ELSE Later(p, f[p - 1])
           IsRounds(f) == f = [p \in 0 .. n |-> Round(f, p)]
           kept == CHOOSE f : IsRounds(f)
<1>1. n \in Nat /\ DOMAIN s = 1 .. n /\ \A p \in 1 .. n : s[p] \in T
  OBVIOUS
<1>2. FreshLoop(s, h) = kept[n]
  <2>1. FreshLoop(s, h) =
          (CHOOSE f : f = [p \in 0 .. n |->
                             IF p = 0 THEN <<>>
                             ELSE IF h[s[p]].age <= AgeLimit THEN Append(f[p - 1], s[p])
                             ELSE f[p - 1]])[n]
    BY DEF FreshLoop
  <2>2. QED
    BY <2>1
<1>3. none \in X /\ Len(none) = 0 /\ ToSet(none) = {} /\ IsInjective(none)
  BY DEF ToSet, IsInjective
<1> HIDE DEF n, none, IsFresh
<1>4. \E f : IsRounds(f)
  <2> DEFINE step == [p \in 1 .. n |-> [f \in X |-> Later(p, f)]]
  <2>1. \A p \in 1 .. n : [f \in X |-> Later(p, f)] \in [X -> X]
    BY <1>1
  <2>2. IsStep(step, X, n)
    BY <2>1 DEF IsStep
  <2>3. \A p \in 1 .. n, f \in X : step[p][f] = Later(p, f)
    OBVIOUS
  <2> HIDE DEF step, X, Later
  <2>4. PICK f : Follows(f, step, X, none, n)
    BY <1>1, <1>3, <2>2, Iteration
  <2>5. ASSUME NEW p \in 0 .. n PROVE f[p] = Round(f, p)
    <3>1. CASE p = 0
      BY <2>4, <3>1 DEF Follows
    <3>2. CASE p # 0
      <4>1. p \in 1 .. n /\ p - 1 \in 0 .. n
        BY <1>1, <3>2
      <4>2. f[p - 1] \in X
        BY <2>4, <4>1 DEF Follows
      <4>3. QED
        BY <2>3, <2>4, <3>2, <4>1, <4>2 DEF Follows
    <3>3. QED
      BY <3>1, <3>2
  <2>6. f = [p \in 0 .. n |-> f[p]]
    BY <2>4 DEF Follows
  <2> HIDE DEF Round
  <2>7. IsRounds(f)
    BY <2>5, <2>6
  <2> HIDE DEF IsRounds
  <2>8. QED
    BY <2>7
<1>5. IsRounds(kept)
  <2> HIDE DEF IsRounds
  <2>1. QED
    BY <1>4
<1>6. \A p \in 0 .. n : kept[p] = Round(kept, p)
  <2> HIDE DEF Round, kept
  <2>1. QED
    BY <1>5
<1> HIDE DEF kept
<1> DEFINE Kept(p, f) == /\ f \in Seq(T) /\ IsInjective(f)
                         /\ ToSet(f) = {s[q] : q \in {x \in 1 .. p : IsFresh(x)}}
           Done == {p \in 0 .. n : Kept(p, kept[p])}
<1>7. 0 \in Done
  <2>1. kept[0] = none
    BY <1>1, <1>6
  <2>2. {s[q] : q \in {x \in 1 .. 0 : IsFresh(x)}} = {}
    OBVIOUS
  <2>3. Kept(0, none)
    BY <1>3, <2>2
  <2>4. 0 \in 0 .. n
    BY <1>1
  <2> HIDE DEF Kept
  <2>5. QED
    BY <2>1, <2>3, <2>4
<1>8. ASSUME NEW p \in 0 .. n - 1, p \in Done PROVE p + 1 \in Done
  <2>1. p + 1 \in 1 .. n /\ p \in Nat /\ (p + 1) - 1 = p /\ p + 1 # 0 /\ p + 1 \in 0 .. n
    BY <1>1
  <2>2. kept[p + 1] = Later(p + 1, kept[p])
    BY <1>6, <2>1
  <2> DEFINE f == kept[p]
             F(m) == {x \in 1 .. m : IsFresh(x)}
  <2>3. Kept(p, f)
    BY <1>8
  <2>4. F(p + 1) = IF IsFresh(p + 1) THEN F(p) \cup {p + 1} ELSE F(p)
    BY <2>1
  <2>5. s[p + 1] \notin ToSet(f) /\ s[p + 1] \in T
    <3>1. \A x \in F(p) : x \in 1 .. n /\ x # p + 1
      BY <1>1, <2>1
    <3>2. \A x \in F(p) : s[x] # s[p + 1]
      BY <1>1, <2>1, <3>1 DEF IsInjective
    <3> HIDE DEF F
    <3>3. ToSet(f) = {s[q] : q \in F(p)}
      BY <2>3 DEF F
    <3>4. QED
      BY <1>1, <2>1, <3>2, <3>3
  <2> HIDE DEF f
  <2>6. CASE IsFresh(p + 1)
    <3>1. kept[p + 1] = Append(f, s[p + 1])
      BY <2>2, <2>6 DEF f
    <3>2. /\ Append(f, s[p + 1]) \in Seq(T) /\ IsInjective(Append(f, s[p + 1]))
          /\ ToSet(Append(f, s[p + 1])) = ToSet(f) \cup {s[p + 1]}
      BY <2>3, <2>5, AppendSet
    <3>3. {s[q] : q \in F(p + 1)} = {s[q] : q \in F(p)} \cup {s[p + 1]}
      <4> HIDE DEF F
      <4>1. QED
        BY <2>4, <2>6
    <3>4. QED
      BY <2>1, <2>3, <3>1, <3>2, <3>3
  <2>7. CASE ~IsFresh(p + 1)
    <3>1. kept[p + 1] = f /\ F(p + 1) = F(p)
      BY <2>2, <2>4, <2>7 DEF f
    <3>2. QED
      BY <2>1, <2>3, <3>1
  <2>8. QED
    BY <2>6, <2>7
<1>9. \A p \in 0 .. n : p \in Done
  <2> HIDE DEF Done
  <2>1. QED
    BY <1>1, <1>7, <1>8, CountingUp, Zenon
<1>10. Kept(n, kept[n])
  <2> HIDE DEF Kept
  <2>1. n \in 0 .. n
    BY <1>1
  <2>2. QED
    BY <1>9, <2>1
<1>11. {s[q] : q \in {x \in 1 .. n : IsFresh(x)}} = {i \in ToSet(s) : h[i].age <= AgeLimit}
  BY <1>1 DEF ToSet, IsFresh
<1>12. QED
  BY <1>2, <1>10, <1>11

-----------------------------------------------------------------------------

\* What the slices of the specification are: no entry occurs twice in the pool or in
\* a copy of it, and the record of every entry that can be reached is there.
SliceInv ==
    /\ entries \in Seq(Entry) /\ IsInjective(entries)
    /\ copy \in [Client -> Seq(Entry)] /\ \A c \in Client : IsInjective(copy[c])
    /\ chosen \in [Client -> SUBSET Entry]
    /\ \A c \in Client : copy[c] = <<>> \/ chosen[c] = {}
    /\ heap \in [Abs!Reachable -> Abs!ProbeEntry]

(* An entry is reached through the pool, a copy, or a caller's choice. *)
LEMMA ReachedThrough ==
    /\ \A i : i \in Abs!Reachable <=>
                 \/ i \in ToSet(entries)
                 \/ \E c \in Client : i \in ToSet(copy[c]) \/ i \in chosen[c]
    /\ \A i : i \in Abs!Reachable' <=>
                 \/ i \in ToSet(entries')
                 \/ \E c \in Client : i \in ToSet(copy'[c]) \/ i \in chosen'[c]
BY DEF Abs!Reachable

(* What a record says of its entry can be compared. *)
LEMMA RecordsReadable ==
    ASSUME SliceInv, NEW i \in Abs!Reachable
    PROVE  /\ heap[i] \in Abs!ProbeEntry
           /\ heap[i].rif \in Abs!ReportedRIFs
           /\ heap[i].rif \in Int /\ heap[i].lat \in Int /\ heap[i].age \in Int
<1>1. heap[i] \in Abs!ProbeEntry
  BY DEF SliceInv
<1>2. /\ heap[i].rif \in Abs!ReportedRIFs
      /\ heap[i].lat \in Latencies /\ heap[i].age \in Abs!Ages
  BY <1>1 DEF Abs!ProbeEntry
<1>3. heap[i].lat \in Nat
  BY <1>2, SignalAssumption, Zenon
<1>4. heap[i].rif \in Int
  <2>1. heap[i].rif \in RIFs \/ heap[i].rif = -1
    BY <1>2 DEF Abs!ReportedRIFs, Abs!NoRIF
  <2>2. CASE heap[i].rif \in RIFs
    BY <2>2, SignalAssumption, Zenon
  <2>3. QED
    BY <2>1, <2>2
<1>5. heap[i].age \in Int
  BY <1>2, AgeAssumption DEF Abs!Ages
<1>6. QED
  BY <1>1, <1>2, <1>3, <1>4, <1>5

(* The loops can read every slice of entries that can be reached, and its threshold
   is one a remover may use.                                                 *)
LEMMA ThresholdReported ==
    ASSUME SliceInv, NEW s \in Seq(Entry), ToSet(s) \subseteq Abs!Reachable
    PROVE  /\ Readable(heap, s)
           /\ QuantileLoop(s, heap) \in Abs!ReportedRIFs \cup {0}
           /\ QuantileLoop(s, heap) \in Int
<1>1. Readable(heap, s) /\ \A p \in DOMAIN s : heap[s[p]].rif \in Abs!ReportedRIFs
  <2>1. \A p \in DOMAIN s : s[p] \in Abs!Reachable
    BY DEF ToSet
  <2>2. QED
    BY <2>1, RecordsReadable DEF Readable
<1>2. CASE s = <<>>
  <2>1. QuantileLoop(s, heap) = 0
    BY <1>2 DEF QuantileLoop
  <2>2. QED
    BY <1>1, <2>1
<1>3. CASE s # <<>>
  <2>1. PICK p \in DOMAIN s : QuantileLoop(s, heap) = heap[s[p]].rif
    BY <1>1, <1>3, QuantileReported
  <2>2. QED
    BY <1>1, <2>1 DEF Readable
<1>4. QED
  BY <1>2, <1>3

(* The entries of the pool and of the copies can be reached. *)
LEMMA SlicesReached ==
    ASSUME SliceInv
    PROVE  /\ entries \in Seq(Entry) /\ ToSet(entries) \subseteq Abs!Reachable
           /\ \A c \in Client : copy[c] \in Seq(Entry) /\ ToSet(copy[c]) \subseteq Abs!Reachable
<1>1. entries \in Seq(Entry) /\ \A c \in Client : copy[c] \in Seq(Entry)
  BY DEF SliceInv
<1>2. QED
  BY <1>1, ReachedThrough

-----------------------------------------------------------------------------

(* The pool of sets counts as this module does. *)
LEMMA SameCount == \A S : Abs!Cardinality(S) = Cardinality(S)
BY DEF Abs!Cardinality, Cardinality

(* The empty pool. *)
LEMMA InitImplements == SliceInit => Abs!PoolInit /\ SliceInv
<1> SUFFICES ASSUME SliceInit PROVE Abs!PoolInit /\ SliceInv
  OBVIOUS
<1> DEFINE none == <<>>
<1>1. none \in Seq(Entry) /\ IsInjective(none) /\ ToSet(none) = {}
  BY DEF IsInjective, ToSet
<1>2. entries = none /\ heap = [i \in {} |-> {}] /\ copy = [c \in Client |-> none]
      /\ chosen = [c \in Client |-> {}]
  BY DEF SliceInit
<1> HIDE DEF none
<1>3. Abs!Reachable = {}
  BY <1>1, <1>2 DEF Abs!Reachable
<1>4. [c \in Client |-> ToSet(copy[c])] = [c \in Client |-> {}]
  BY <1>1, <1>2
<1>5. Abs!PoolInit
  BY <1>1, <1>2, <1>4 DEF Abs!PoolInit
<1>6. SliceInv
  BY <1>1, <1>2, <1>3 DEF SliceInv
<1>7. QED
  BY <1>5, <1>6

(* Add: when the pool is full, the loop evicts an oldest entry. *)
LEMMA AddImplements ==
    ASSUME SliceInv, NEW i \in Entry, NEW o \in Abs!Observation, Add(i, o)
    PROVE  Abs!Add(i, o) /\ SliceInv'
<1> DEFINE rest == IF Len(entries) >= MaxSize
                   THEN RemoveAt(entries, OldestLoop(entries, heap)) ELSE entries
           h == [j \in DOMAIN heap \cup {i} |-> IF j = i THEN Abs!NewEntry(o) ELSE heap[j]]
<1>1. /\ i \in Entry \ Abs!Reachable
      /\ entries' = Append(rest, i)
      /\ copy' = copy /\ chosen' = chosen
      /\ Keep(h)
  BY DEF Add
<1>2. /\ entries \in Seq(Entry) /\ IsInjective(entries) /\ Readable(heap, entries)
      /\ heap \in [Abs!Reachable -> Abs!ProbeEntry]
  BY SlicesReached, ThresholdReported DEF SliceInv
<1>3. Cardinality(ToSet(entries)) = Len(entries)
  <2> DEFINE n == Len(entries)
  <2>1. /\ DOMAIN entries = 1 .. n /\ n \in Nat
        /\ ToSet(entries) = {entries[p] : p \in DOMAIN entries}
    BY <1>2 DEF ToSet
  <2> HIDE DEF n
  <2>2. Cardinality(1 .. n) = n
    BY <2>1, FS_Interval
  <2> DEFINE P == DOMAIN entries
  <2>3. P \in SUBSET DOMAIN entries
    OBVIOUS
  <2>4. Cardinality({entries[p] : p \in P}) = Cardinality(P)
    <3> HIDE DEF P
    <3>1. QED
      BY <1>2, <2>3, PositionsCounted, ZenonT(60)
  <2>5. QED
    BY <2>1, <2>2, <2>4 DEF n
<1>4. /\ rest \in Seq(Entry) /\ IsInjective(rest)
      /\ \E evicted \in Abs!Evictions : ToSet(rest) = ToSet(entries) \ evicted
  <2>1. CASE Len(entries) >= MaxSize
    <3>1. entries # <<>>
      BY <2>1, MaxSizeAssumption
    <3> DEFINE p == OldestLoop(entries, heap)
    <3>2. p \in DOMAIN entries /\ entries[p] \in Oldest(ToSet(entries), heap)
      BY <1>2, <3>1, OldestFound
    <3> HIDE DEF p
    <3>3. rest = RemoveAt(entries, p)
      BY <2>1 DEF p
    <3> HIDE DEF rest
    <3>4. /\ rest \in Seq(Entry) /\ IsInjective(rest)
          /\ ToSet(rest) = ToSet(entries) \ {entries[p]}
      BY <1>2, <3>2, <3>3, RemoveAtSet
    <3>5. {entries[p]} \in Abs!Evictions
      BY <1>3, <2>1, <3>2, SameCount DEF Abs!Evictions, Abs!Oldest, Oldest
    <3>6. QED
      BY <3>4, <3>5
  <2>2. CASE ~(Len(entries) >= MaxSize)
    <3>1. rest = entries
      BY <2>2
    <3>2. {} \in Abs!Evictions
      BY <1>3, <2>2, SameCount DEF Abs!Evictions
    <3>3. QED
      BY <1>2, <3>1, <3>2
  <2>3. QED
    BY <2>1, <2>2
<1> HIDE DEF rest, h
<1>5. PICK evicted \in Abs!Evictions : ToSet(rest) = ToSet(entries) \ evicted
  BY <1>4
<1>6. i \notin ToSet(rest)
  BY <1>1, <1>5, ReachedThrough
<1>7. /\ entries' \in Seq(Entry) /\ IsInjective(entries')
      /\ ToSet(entries') = (ToSet(entries) \ evicted) \cup {i}
  BY <1>1, <1>4, <1>5, <1>6, AppendSet
<1>8. \A j \in Abs!Reachable' : j = i \/ j \in Abs!Reachable
  BY <1>1, <1>7, ReachedThrough
<1>9. Abs!NewEntry(o) \in Abs!ProbeEntry
  BY DEF Abs!NewEntry, Abs!Observation, Abs!ProbeEntry
<1>10. \A j \in Abs!Reachable' : h[j] = IF j = i THEN Abs!NewEntry(o) ELSE heap[j]
  BY <1>2, <1>8 DEF h
<1>11. \A j \in Abs!Reachable' : h[j] \in Abs!ProbeEntry
  BY <1>2, <1>8, <1>9, <1>10
<1>12. heap' \in [Abs!Reachable' -> Abs!ProbeEntry]
  BY <1>1, <1>11 DEF Keep
<1>13. heap' = [j \in Abs!Reachable' |-> IF j = i THEN Abs!NewEntry(o) ELSE heap[j]]
  BY <1>1, <1>10 DEF Keep
<1>14. Abs!Add(i, o)
  BY <1>1, <1>7, <1>13 DEF Abs!Add
<1>15. SliceInv'
  BY <1>1, <1>7, <1>12 DEF SliceInv
<1>16. QED
  BY <1>14, <1>15

(* Fresh: the loop copies the fresh entries. *)
LEMMA FreshImplements ==
    ASSUME SliceInv, NEW c \in Client, Fresh(c)
    PROVE  Abs!Fresh(c) /\ SliceInv'
<1>1. /\ entries \in Seq(Entry) /\ IsInjective(entries)
      /\ copy \in [Client -> Seq(Entry)] /\ \A d \in Client : IsInjective(copy[d])
      /\ copy[c] = <<>> /\ chosen[c] = {}
      /\ copy' = [copy EXCEPT ![c] = FreshSlice]
      /\ entries' = entries /\ heap' = heap /\ chosen' = chosen
  BY DEF SliceInv, Fresh
<1>2. /\ FreshSlice \in Seq(Entry) /\ IsInjective(FreshSlice)
      /\ ToSet(FreshSlice) = {i \in ToSet(entries) : heap[i].age <= AgeLimit}
  BY <1>1, FreshLoopSet DEF FreshSlice
<1>3. /\ copy' \in [Client -> Seq(Entry)]
      /\ \A d \in Client : copy'[d] = IF d = c THEN FreshSlice ELSE copy[d]
  BY <1>1, <1>2
<1>4. ToSet(copy[c]) = {}
  BY <1>1 DEF ToSet
<1>5. \A i : i \in Abs!Reachable' <=> i \in Abs!Reachable
  BY <1>1, <1>2, <1>3, <1>4, ReachedThrough
<1>6. Abs!Reachable' = Abs!Reachable
  BY <1>5
<1>7. [d \in Client |-> ToSet(copy[d])]' =
        [[d \in Client |-> ToSet(copy[d])] EXCEPT ![c] = Abs!FreshEntries]
  BY <1>2, <1>3 DEF Abs!FreshEntries
<1>8. Abs!Fresh(c)
  BY <1>1, <1>4, <1>7 DEF Abs!Fresh
<1>9. SliceInv'
  BY <1>1, <1>2, <1>3, <1>6 DEF SliceInv
<1>10. QED
  BY <1>8, <1>9

(* MarkUsed: a spent entry is cut out of the pool, if it is still there. *)
LEMMA MarkUsedImplements ==
    ASSUME SliceInv, NEW c \in Client, NEW i, MarkUsed(c, i)
    PROVE  i \in Entry /\ Abs!MarkUsed(c, i) /\ SliceInv'
<1> DEFINE used == [heap EXCEPT ![i].uses = @ + 1]
           none == <<>>
<1>1. /\ entries \in Seq(Entry) /\ IsInjective(entries)
      /\ copy \in [Client -> Seq(Entry)] /\ \A d \in Client : IsInjective(copy[d])
      /\ \A d \in Client : copy[d] = none \/ chosen[d] = {}
      /\ chosen \in [Client -> SUBSET Entry]
      /\ heap \in [Abs!Reachable -> Abs!ProbeEntry]
  BY DEF SliceInv
<1>2. /\ i \in ToSet(copy[c])
      /\ entries' = IF used[i].uses >= used[i].maxUses
                    THEN RemoveEntry(entries, i) ELSE entries
      /\ copy' = [copy EXCEPT ![c] = none]
      /\ chosen' = [chosen EXCEPT ![c] = {i}]
      /\ Keep(used)
  BY DEF MarkUsed
<1>3. none \in Seq(Entry) /\ IsInjective(none) /\ ToSet(none) = {}
  BY DEF IsInjective, ToSet
<1> HIDE DEF none
<1>4. i \in Abs!Reachable /\ i \in Entry
  <2>1. copy[c] \in Seq(Entry)
    BY <1>1
  <2>2. QED
    BY <1>2, <2>1, ReachedThrough DEF ToSet
<1> DEFINE record == [heap[i] EXCEPT !.uses = @ + 1]
<1>5. heap[i] \in Abs!ProbeEntry
  BY <1>1, <1>4
<1>6. /\ record \in Abs!ProbeEntry
      /\ record.uses = heap[i].uses + 1 /\ record.maxUses = heap[i].maxUses
  BY <1>5 DEF Abs!ProbeEntry
<1>7. \A j \in Abs!Reachable : used[j] = IF j = i THEN record ELSE heap[j]
  BY <1>1, <1>4
<1> HIDE DEF used, record
<1>8. used[i].uses = heap[i].uses + 1 /\ used[i].maxUses = heap[i].maxUses
  BY <1>4, <1>6, <1>7
<1>9. /\ entries' \in Seq(Entry) /\ IsInjective(entries')
      /\ ToSet(entries') = Abs!AfterUse(i)
  <2>1. /\ RemoveEntry(entries, i) \in Seq(Entry)
        /\ IsInjective(RemoveEntry(entries, i))
        /\ ToSet(RemoveEntry(entries, i)) = ToSet(entries) \ {i}
    BY <1>1, RemoveEntrySet
  <2>2. CASE heap[i].uses + 1 >= heap[i].maxUses
    <3>1. entries' = RemoveEntry(entries, i)
      BY <1>2, <1>8, <2>2
    <3>2. Abs!AfterUse(i) = ToSet(entries) \ {i}
      BY <2>2 DEF Abs!AfterUse
    <3>3. QED
      BY <2>1, <3>1, <3>2
  <2>3. CASE ~(heap[i].uses + 1 >= heap[i].maxUses)
    <3>1. entries' = entries
      BY <1>2, <1>8, <2>3
    <3>2. Abs!AfterUse(i) = ToSet(entries)
      BY <2>3 DEF Abs!AfterUse
    <3>3. QED
      BY <1>1, <3>1, <3>2
  <2>4. QED
    BY <2>2, <2>3
<1>10. ToSet(entries') \subseteq ToSet(entries)
  BY <1>9 DEF Abs!AfterUse
<1>11. /\ copy' \in [Client -> Seq(Entry)]
       /\ \A d \in Client : copy'[d] = IF d = c THEN none ELSE copy[d]
       /\ chosen' \in [Client -> SUBSET Entry]
       /\ \A d \in Client : chosen'[d] = IF d = c THEN {i} ELSE chosen[d]
  BY <1>1, <1>2, <1>3, <1>4
<1>12. \A j \in Abs!Reachable' : j \in Abs!Reachable
  BY <1>3, <1>4, <1>10, <1>11, ReachedThrough
<1>13. \A j \in Abs!Reachable' : used[j] = IF j = i THEN record ELSE heap[j]
  BY <1>7, <1>12
<1>14. \A j \in Abs!Reachable' : used[j] \in Abs!ProbeEntry
  BY <1>1, <1>6, <1>12, <1>13
<1>15. heap' \in [Abs!Reachable' -> Abs!ProbeEntry]
  BY <1>2, <1>14 DEF Keep
<1>16. heap' = [j \in Abs!Reachable' |-> IF j = i THEN record ELSE heap[j]]
  BY <1>2, <1>13 DEF Keep
<1>17. [d \in Client |-> ToSet(copy[d])]' =
         [[d \in Client |-> ToSet(copy[d])] EXCEPT ![c] = {}]
  BY <1>3, <1>11
<1>18. Abs!MarkUsed(c, i)
  BY <1>2, <1>9, <1>16, <1>17 DEF Abs!MarkUsed, record
<1>19. SliceInv'
  BY <1>1, <1>3, <1>9, <1>11, <1>15 DEF SliceInv, none
<1>20. QED
  BY <1>4, <1>18, <1>19

(* What selectPrequal chooses it marks used. *)
LEMMA UseImplements ==
    ASSUME SliceInv, NEW c \in Client, Use(c)
    PROVE  (\E i \in Entry : Abs!MarkUsed(c, i)) /\ SliceInv'
<1>1. PICK i : MarkUsed(c, i)
  BY DEF Use
<1>2. QED
  BY <1>1, MarkUsedImplements

(* A step that drops entries, and changes no record, keeps the specification. *)
LEMMA DropImplements ==
    ASSUME SliceInv, Keep(heap),
           entries' \in Seq(Entry), IsInjective(entries'),
           ToSet(entries') \subseteq ToSet(entries),
           NEW c, copy' = copy \/ (c \in Client /\ copy' = [copy EXCEPT ![c] = <<>>]),
           chosen' = chosen \/ (c \in Client /\ chosen' = [chosen EXCEPT ![c] = {}])
    PROVE  /\ heap' = [j \in Abs!Reachable' |-> heap[j]]
           /\ SliceInv'
<1> DEFINE none == <<>>
<1>1. none \in Seq(Entry) /\ IsInjective(none) /\ ToSet(none) = {}
  BY DEF IsInjective, ToSet
<1>2. /\ copy \in [Client -> Seq(Entry)] /\ \A d \in Client : IsInjective(copy[d])
      /\ \A d \in Client : copy[d] = none \/ chosen[d] = {}
      /\ chosen \in [Client -> SUBSET Entry]
      /\ heap \in [Abs!Reachable -> Abs!ProbeEntry]
      /\ copy' = copy \/ (c \in Client /\ copy' = [copy EXCEPT ![c] = none])
  BY DEF SliceInv
<1> HIDE DEF none
<1>3. /\ copy' \in [Client -> Seq(Entry)]
      /\ \A d \in Client : copy'[d] = none \/ copy'[d] = copy[d]
  BY <1>1, <1>2
<1>4. /\ chosen' \in [Client -> SUBSET Entry]
      /\ \A d \in Client : chosen'[d] = {} \/ chosen'[d] = chosen[d]
  BY <1>2
<1>5. \A j \in Abs!Reachable' : j \in Abs!Reachable
  BY <1>1, <1>3, <1>4, ReachedThrough
<1>6. heap' = [j \in Abs!Reachable' |-> heap[j]]
  BY DEF Keep
<1>7. heap' \in [Abs!Reachable' -> Abs!ProbeEntry]
  BY <1>2, <1>5, <1>6
<1>8. /\ \A d \in Client : IsInjective(copy'[d])
      /\ \A d \in Client : copy'[d] = none \/ chosen'[d] = {}
  BY <1>1, <1>2, <1>3, <1>4
<1>9. SliceInv'
  BY <1>3, <1>4, <1>7, <1>8 DEF SliceInv, none
<1>10. QED
  BY <1>6, <1>9

(* Release: a copy that is dropped had entries, or a choice was made. *)
LEMMA ReleaseImplements ==
    ASSUME SliceInv, NEW c \in Client, Release(c)
    PROVE  Abs!Release(c) /\ SliceInv'
<1> DEFINE none == <<>>
<1>1. /\ copy[c] # none \/ chosen[c] # {}
      /\ copy' = [copy EXCEPT ![c] = none]
      /\ chosen' = [chosen EXCEPT ![c] = {}]
      /\ entries' = entries /\ Keep(heap)
      /\ entries \in Seq(Entry) /\ IsInjective(entries)
      /\ copy \in [Client -> Seq(Entry)]
  BY DEF Release, SliceInv
<1>2. heap' = [j \in Abs!Reachable' |-> heap[j]] /\ SliceInv'
  BY <1>1, DropImplements
<1>3. ToSet(none) = {}
  BY DEF ToSet
<1>4. copy[c] # none => ToSet(copy[c]) # {}
  <2>1. copy[c] \in Seq(Entry)
    BY <1>1
  <2>2. ASSUME NEW s \in Seq(Entry), s # none PROVE ToSet(s) # {}
    <3>1. s[1] \in ToSet(s)
      BY <2>2 DEF ToSet
    <3>2. QED
      BY <3>1
  <2>3. QED
    BY <2>1, <2>2
<1> HIDE DEF none
<1>5. [d \in Client |-> ToSet(copy[d])]' =
        [[d \in Client |-> ToSet(copy[d])] EXCEPT ![c] = {}]
  BY <1>1, <1>3
<1>6. Abs!Release(c)
  BY <1>1, <1>2, <1>4, <1>5 DEF Abs!Release
<1>7. QED
  BY <1>2, <1>6

(* RemoveWorst: each loop finds an entry the pool of sets may remove. *)
LEMMA RemoveWorstImplements ==
    ASSUME SliceInv, NEW threshold \in Int, NEW removeOldest \in BOOLEAN,
           RemoveWorst(threshold, removeOldest)
    PROVE  Abs!RemoveWorst(threshold, removeOldest) /\ SliceInv'
<1>1. /\ entries \in Seq(Entry) /\ IsInjective(entries) /\ Readable(heap, entries)
      /\ entries # <<>>
      /\ entries' = IF removeOldest THEN RemoveAt(entries, OldestLoop(entries, heap))
                    ELSE RemoveEntry(entries, entries[WorstLoop(entries, heap, threshold)])
      /\ copy' = copy /\ chosen' = chosen /\ Keep(heap)
  BY SlicesReached, ThresholdReported DEF SliceInv, RemoveWorst
<1>2. \E worst \in IF removeOldest THEN Abs!Oldest(ToSet(entries), heap)
                                   ELSE Abs!Worst(ToSet(entries), heap, threshold) :
         /\ entries' \in Seq(Entry) /\ IsInjective(entries')
         /\ ToSet(entries') = ToSet(entries) \ {worst}
  <2>1. CASE removeOldest
    <3> DEFINE p == OldestLoop(entries, heap)
    <3>1. p \in DOMAIN entries /\ entries[p] \in Oldest(ToSet(entries), heap)
      BY <1>1, OldestFound
    <3>2. entries' = RemoveAt(entries, p)
      BY <1>1, <2>1
    <3> HIDE DEF p
    <3>3. /\ entries' \in Seq(Entry) /\ IsInjective(entries')
          /\ ToSet(entries') = ToSet(entries) \ {entries[p]}
      BY <1>1, <3>1, <3>2, RemoveAtSet
    <3>4. entries[p] \in Abs!Oldest(ToSet(entries), heap)
      BY <3>1 DEF Abs!Oldest, Oldest
    <3>5. QED
      BY <2>1, <3>3, <3>4
  <2>2. CASE ~removeOldest
    <3> DEFINE p == WorstLoop(entries, heap, threshold)
    <3>1. p \in DOMAIN entries /\ entries[p] \in Worst(ToSet(entries), heap, threshold)
      BY <1>1, WorstFound
    <3>2. entries' = RemoveEntry(entries, entries[p])
      BY <1>1, <2>2
    <3> HIDE DEF p
    <3>3. /\ entries' \in Seq(Entry) /\ IsInjective(entries')
          /\ ToSet(entries') = ToSet(entries) \ {entries[p]}
      BY <1>1, <3>2, RemoveEntrySet
    <3>4. entries[p] \in Abs!Worst(ToSet(entries), heap, threshold)
      BY <3>1 DEF Abs!Worst, Worst, Abs!Hot, Hot, Abs!Busiest, Busiest, Abs!Slowest, Slowest
    <3>5. QED
      BY <2>2, <3>3, <3>4
  <2>3. QED
    BY <2>1, <2>2
<1>3. heap' = [j \in Abs!Reachable' |-> heap[j]] /\ SliceInv'
  BY <1>1, <1>2, DropImplements
<1>4. Abs!RemoveWorst(threshold, removeOldest)
  BY <1>1, <1>2, <1>3 DEF Abs!RemoveWorst
<1>5. QED
  BY <1>3, <1>4

(* Time ages the same entries. *)
LEMMA TickImplements ==
    ASSUME SliceInv, Tick
    PROVE  Abs!Tick /\ SliceInv'
<1>1. /\ heap' = [i \in DOMAIN heap |-> [heap[i] EXCEPT !.age = Older(@)]]
      /\ entries' = entries /\ copy' = copy /\ chosen' = chosen
      /\ heap \in [Abs!Reachable -> Abs!ProbeEntry]
  BY DEF Tick, SliceInv
<1>2. Abs!Reachable' = Abs!Reachable
  BY <1>1 DEF Abs!Reachable
<1>3. \A age : Abs!Older(age) = Older(age)
  BY DEF Abs!Older, Older
<1>4. heap' = [i \in Abs!Reachable |-> [heap[i] EXCEPT !.age = Abs!Older(@)]]
  BY <1>1, <1>3
<1>5. ASSUME NEW r \in Abs!ProbeEntry
      PROVE  [r EXCEPT !.age = Older(@)] \in Abs!ProbeEntry
  <2>1. Older(r.age) \in Abs!Ages
    BY AgeAssumption DEF Abs!ProbeEntry, Abs!Ages, Older
  <2>2. QED
    BY <2>1 DEF Abs!ProbeEntry
<1>6. heap' \in [Abs!Reachable' -> Abs!ProbeEntry]
  BY <1>1, <1>2, <1>5
<1>7. Abs!Tick
  BY <1>1, <1>4 DEF Abs!Tick
<1>8. SliceInv'
  BY <1>1, <1>6 DEF SliceInv
<1>9. QED
  BY <1>7, <1>8

-----------------------------------------------------------------------------

(* Every step of the slice is a step of the pool of sets, or changes nothing there. *)
LEMMA StepImplements ==
    SliceInv /\ [SliceNext]_sliceVars => [Abs!PoolNext]_(Abs!poolVars) /\ SliceInv'
<1> SUFFICES ASSUME SliceInv, [SliceNext]_sliceVars
             PROVE  [Abs!PoolNext]_(Abs!poolVars) /\ SliceInv'
  OBVIOUS
<1>1. CASE \E i \in Entry, o \in Abs!Observation : Add(i, o)
  BY <1>1, AddImplements DEF Abs!PoolNext
<1>2. CASE \E c \in Client : Fresh(c)
  BY <1>2, FreshImplements DEF Abs!PoolNext
<1>3. CASE \E c \in Client : Use(c)
  BY <1>3, UseImplements DEF Abs!PoolNext
<1>4. CASE \E c \in Client : Release(c)
  BY <1>4, ReleaseImplements DEF Abs!PoolNext
<1>5. CASE \E removeOldest \in BOOLEAN :
             RemoveWorst(QuantileLoop(FreshSlice, heap), removeOldest)
  <2> DEFINE threshold == QuantileLoop(FreshSlice, heap)
  <2>1. FreshSlice \in Seq(Entry) /\ ToSet(FreshSlice) \subseteq Abs!Reachable
    <3>1. entries \in Seq(Entry) /\ IsInjective(entries)
      BY DEF SliceInv
    <3>2. /\ FreshSlice \in Seq(Entry)
          /\ ToSet(FreshSlice) = {i \in ToSet(entries) : heap[i].age <= AgeLimit}
      BY <3>1, FreshLoopSet DEF FreshSlice
    <3>3. ToSet(FreshSlice) \subseteq ToSet(entries)
      BY <3>2
    <3>4. QED
      BY <3>2, <3>3, SlicesReached
  <2>2. threshold \in Abs!ReportedRIFs \cup {0} /\ threshold \in Int
    BY <2>1, ThresholdReported
  <2>3. PICK removeOldest \in BOOLEAN : RemoveWorst(threshold, removeOldest)
    BY <1>5
  <2> HIDE DEF threshold
  <2>4. Abs!RemoveWorst(threshold, removeOldest) /\ SliceInv'
    BY <2>2, <2>3, RemoveWorstImplements
  <2>5. QED
    BY <2>2, <2>4 DEF Abs!PoolNext
<1>6. CASE Tick
  BY <1>6, TickImplements DEF Abs!PoolNext
<1>7. CASE UNCHANGED sliceVars
  BY <1>7 DEF sliceVars, SliceInv, Abs!poolVars, Abs!Reachable
<1>8. QED
  BY <1>1, <1>2, <1>3, <1>4, <1>5, <1>6, <1>7 DEF SliceNext

(* No entry is ever twice in the pool or in a copy of it, and the record of every
   entry that somebody can reach is there: rifQuantile, the loops and
   removeEntryLocked, which stops at the first entry it finds, rest on it.   *)
THEOREM SliceInvariant == SliceSpec => []SliceInv
<1>1. SliceInit => SliceInv
  BY InitImplements
<1>2. SliceInv /\ [SliceNext]_sliceVars => SliceInv'
  BY StepImplements
<1>3. QED
  BY <1>1, <1>2, PTL DEF SliceSpec

(* The slice and its loops (types.go:85-175, balancer.go:399-437) implement the pool
   of sets, for every size of the pool and every order of the calls: an eviction takes
   an oldest entry, a removal a worst one, and MarkUsed the one it is meant to take. *)
THEOREM SliceImplementsPool == SliceSpec => ImplementsPool
<1>1. SliceInit => Abs!PoolInit
  BY InitImplements
<1>2. SliceInv /\ [SliceNext]_sliceVars => [Abs!PoolNext]_(Abs!poolVars)
  BY StepImplements
<1>3. QED
  BY <1>1, <1>2, SliceInvariant, PTL DEF SliceSpec, ImplementsPool, Abs!PoolSpec

(* In every state, the value rifQuantile (balancer.go:617-638) reads in the sorted
   slice is the RIF that has that rank among the entries.                    *)
THEOREM SliceQuantileAgrees == SliceSpec => []QuantileAgrees
<1>1. SliceInv => QuantileAgrees
  <2> SUFFICES ASSUME SliceInv, NEW s \in {entries} \cup {copy[c] : c \in Client}
               PROVE  QuantileLoop(s, heap) = RifQuantile(ToSet(s), heap)
    BY DEF QuantileAgrees
  <2>1. s \in Seq(Entry) /\ ToSet(s) \subseteq Abs!Reachable /\ IsInjective(s)
    BY SlicesReached DEF SliceInv
  <2>2. Readable(heap, s)
    BY <2>1, ThresholdReported
  <2>3. QED
    BY <2>1, <2>2, QuantileByRank
<1>2. QED
  BY <1>1, SliceInvariant, PTL

(* The decision of selectPrequal (balancer.go:399-437) is one the hot-cold rule
   prefers among the entries seen healthy, and there is one whenever some entry was. *)
THEOREM SliceChoiceAgrees == SliceSpec => []ChoiceAgrees
<1>1. SliceInv => ChoiceAgrees
  <2> SUFFICES ASSUME SliceInv, NEW c \in Client, NEW seen \in SUBSET ToSet(copy[c])
               PROVE  LET threshold == QuantileLoop(copy[c], heap)
                          choice == {copy[c][p] :
                                       p \in ChooseLoop(copy[c], heap, seen, threshold)}
                      IN  /\ choice \subseteq HCL(seen, heap, threshold)
                          /\ choice = {} => seen = {}
    BY DEF ChoiceAgrees
  <2> DEFINE s == copy[c]
             threshold == QuantileLoop(s, heap)
  <2>1. s \in Seq(Entry) /\ ToSet(s) \subseteq Abs!Reachable /\ seen \in SUBSET ToSet(s)
    BY SlicesReached
  <2> HIDE DEF s
  <2>2. Readable(heap, s) /\ threshold \in Int
    BY <2>1, ThresholdReported
  <2> HIDE DEF threshold
  <2>3. FollowsRule(s, heap, seen, threshold)
    BY <2>1, <2>2, RuleFollowed
  <2>4. QED
    BY <2>3 DEF threshold, s, FollowsRule
<1>2. QED
  BY <1>1, SliceInvariant, PTL
=============================================================================
