------------------------- MODULE PhaseReportProofs -------------------------
(***************************************************************************)
(* The reports of the experiments say what the files of hey say, whatever  *)
(* those contain, however many lines they have and wherever hey stopped:   *)
(* percentiles are quantiles, every response is counted once, and averages *)
(* and totals stay within what they are about.                             *)
(*                                                                         *)
(* What the parsers compute is first described line by line (TallyUpto),   *)
(* as counts of the lines read so far; that the recursion of ReadFile      *)
(* gives just this is ReadFileIs.                                          *)
(***************************************************************************)
EXTENDS PhaseReport, OrderLemmas

-----------------------------------------------------------------------------
(* Numbers.                                                                *)

(* The larger and the smaller of two integers. *)
LEMMA MaxMinOfTwo ==
    ASSUME NEW a \in Int, NEW b \in Int
    PROVE  /\ Max({a, b}) = IF a >= b THEN a ELSE b
           /\ Min({a, b}) = IF a <= b THEN a ELSE b
<1> DEFINE S == {a, b}
           large == IF a >= b THEN a ELSE b
           small == IF a <= b THEN a ELSE b
           IsMax(x) == x \in S /\ \A y \in S : x >= y
           IsMin(x) == x \in S /\ \A y \in S : x <= y
<1>1. \A x : IsMax(x) <=> x = large
  OBVIOUS
<1>2. \A x : IsMin(x) <=> x = small
  OBVIOUS
<1>3. Max(S) = CHOOSE x \in S : \A y \in S : x >= y
  BY DEF Max
<1>4. Min(S) = CHOOSE x \in S : \A y \in S : x <= y
  BY DEF Min
<1> HIDE DEF large, small
<1>5. IsMax(Max(S))
  <2>1. \E x \in S : \A y \in S : x >= y
    BY <1>1
  <2> HIDE DEF S
  <2>2. QED
    BY <1>3, <2>1
<1>6. IsMin(Min(S))
  <2>1. \E x \in S : \A y \in S : x <= y
    BY <1>2
  <2> HIDE DEF S
  <2>2. QED
    BY <1>4, <2>1
<1> HIDE DEF IsMax, IsMin
<1>7. Max(S) = large /\ Min(S) = small
  BY <1>1, <1>2, <1>5, <1>6
<1>8. QED
  BY <1>7 DEF large, small

(* Products distribute over sums. *)
LEMMA Distribute ==
    ASSUME NEW a \in Int, NEW b \in Int, NEW c \in Int
    PROVE  /\ a * b \in Int
           /\ a * (b + c) = a * b + a * c
           /\ (b + c) * a = b * a + c * a
  OBVIOUS

\* r is the first of n positions that a share q of them does not exceed.
IsCeiling(r, q, n) == r \in 1 .. n /\ 1000 * r >= q * n /\ 1000 * (r - 1) < q * n

(* The rank percentile() reads is the first position of the list that a share q of the
   list does not exceed.                                                     *)
LEMMA RankIsCeiling ==
    ASSUME NEW n \in Nat \ {0}, NEW q \in 1 .. 1000
    PROVE  IsCeiling(Rank(q, n), q, n)
<1> DEFINE m == q * n
           r == (m + 999) \div 1000
<1>1. m \in Nat /\ 1 <= m /\ m <= 1000 * n
  <2>1. q \in Nat /\ n \in Nat /\ 1 <= q /\ q <= 1000 /\ 1 <= n
    OBVIOUS
  <2>2. q * n \in Nat /\ 1 * 1 <= q * n /\ q * n <= 1000 * n
    BY <2>1
  <2>3. QED
    BY <2>2
<1>2. Rank(q, n) = Min({Max({1, r}), n})
  BY DEF Rank
<1> HIDE DEF m
<1>3. r \in 1 .. n /\ 1000 * r >= m /\ 1000 * (r - 1) < m
  BY <1>1
<1> HIDE DEF r
<1>4. Max({1, r}) = r
  BY <1>3, MaxMinOfTwo
<1>5. Min({r, n}) = r
  BY <1>3, MaxMinOfTwo
<1>6. QED
  BY <1>2, <1>3, <1>4, <1>5 DEF m, IsCeiling

-----------------------------------------------------------------------------
(* Totals.                                                                 *)

\* sum[k] is the sum of the values at the places among the first k.
IsSum(sum, values, places) ==
    /\ sum \in [0 .. Len(values) -> Int]
    /\ sum[0] = 0
    /\ \A k \in 1 .. Len(values) :
          sum[k] = IF k \in places THEN sum[k - 1] + values[k] ELSE sum[k - 1]

(* Total adds them up one by one. *)
LEMMA TotalIs ==
    ASSUME NEW values \in Seq(Int), NEW places
    PROVE  \E sum : IsSum(sum, values, places) /\ Total(values, places) = sum[Len(values)]
<1> DEFINE n == Len(values)
           X == 0 .. n
           Plus(k, x) == IF k \in places THEN x + values[k] ELSE x
           Round(f, k) == IF k = 0 THEN 0 ELSE Plus(k, f[k - 1])
           IsRounds(f) == f = [k \in X |-> Round(f, k)]
           sum == CHOOSE f : IsRounds(f)
<1>1. n \in Nat /\ \A k \in 1 .. n : values[k] \in Int
  OBVIOUS
<1>2. Total(values, places) = sum[n]
  BY DEF Total
<1> HIDE DEF n
<1>3. PICK f : f \in [X -> Int] /\ IsRounds(f)
  <2> DEFINE step == [k \in 1 .. n |-> [x \in Int |-> Plus(k, x)]]
  <2>1. \A k \in 1 .. n : [x \in Int |-> Plus(k, x)] \in [Int -> Int]
    BY <1>1
  <2>2. IsStep(step, Int, n)
    BY <2>1 DEF IsStep
  <2>3. \A k \in 1 .. n, x \in Int : step[k][x] = Plus(k, x)
    OBVIOUS
  <2> HIDE DEF step, X, Plus
  <2>4. PICK f : Follows(f, step, Int, 0, n)
    <3>1. 0 \in Int
      OBVIOUS
    <3>2. QED
      BY <1>1, <2>2, <3>1, Iteration, Zenon
  <2>5. ASSUME NEW k \in 0 .. n PROVE f[k] = Round(f, k)
    <3>1. CASE k = 0
      BY <2>4, <3>1 DEF Follows
    <3>2. CASE k # 0
      <4>1. k \in 1 .. n /\ k - 1 \in 0 .. n
        BY <1>1, <3>2
      <4>2. f[k - 1] \in Int
        BY <2>4, <4>1 DEF Follows
      <4>3. QED
        BY <2>3, <2>4, <3>2, <4>1, <4>2 DEF Follows
    <3>3. QED
      BY <3>1, <3>2
  <2>6. f = [k \in X |-> f[k]] /\ f \in [X -> Int]
    BY <2>4 DEF Follows, X
  <2> HIDE DEF Round
  <2>7. IsRounds(f)
    BY <2>5, <2>6 DEF X
  <2>8. QED
    BY <2>6, <2>7
<1>4. IsRounds(sum)
  <2> HIDE DEF IsRounds
  <2>1. QED
    BY <1>3
<1>5. \A k \in X : sum[k] = Round(sum, k) /\ f[k] = Round(f, k)
  <2> HIDE DEF Round, sum
  <2>1. QED
    BY <1>3, <1>4
<1>6. DOMAIN sum = X
  <2> HIDE DEF Round, sum
  <2>1. QED
    BY <1>4
<1> HIDE DEF sum, IsRounds
<1>7. \A k \in 0 .. n : sum[k] \in Int
  <2> DEFINE S == {k \in X : sum[k] = f[k]}
  <2>1. 0 \in S
    BY <1>1, <1>5
  <2>2. ASSUME NEW k \in 0 .. n - 1, k \in S PROVE k + 1 \in S
    <3>1. k + 1 \in X /\ k + 1 # 0 /\ (k + 1) - 1 = k
      BY <1>1
    <3> HIDE DEF Plus
    <3>2. QED
      BY <1>5, <2>2, <3>1
  <2> HIDE DEF S
  <2>3. \A k \in 0 .. n : k \in S
    BY <1>1, <2>1, <2>2, CountingUp, Zenon
  <2>4. QED
    BY <1>3, <2>3 DEF S
<1>8. sum \in [0 .. n -> Int]
  <2>1. sum = [k \in 0 .. n |-> sum[k]]
    <3> HIDE DEF Round
    <3>1. QED
      BY <1>4, <1>6 DEF IsRounds
  <2>2. QED
    BY <1>7, <2>1
<1>9. IsSum(sum, values, places)
  <2>1. sum[0] = 0
    BY <1>1, <1>5
  <2>2. ASSUME NEW k \in 1 .. n
        PROVE  sum[k] = IF k \in places THEN sum[k - 1] + values[k] ELSE sum[k - 1]
    <3>1. k \in X /\ k # 0
      BY <1>1
    <3>2. QED
      BY <1>5, <3>1
  <2>3. QED
    BY <1>8, <2>1, <2>2 DEF IsSum, n
<1>10. QED
  BY <1>2, <1>9 DEF n

(* The total of no places is 0. *)
LEMMA TotalOfNone ==
    ASSUME NEW values \in Seq(Int)
    PROVE  Total(values, {}) = 0
<1> DEFINE n == Len(values)
<1>1. PICK sum : IsSum(sum, values, {}) /\ Total(values, {}) = sum[n]
  BY TotalIs
<1>2. n \in Nat
  OBVIOUS
<1> DEFINE S == {k \in 0 .. n : sum[k] = 0}
<1>3. 0 \in S
  BY <1>1, <1>2 DEF IsSum
<1>4. ASSUME NEW k \in 0 .. n - 1, k \in S PROVE k + 1 \in S
  <2>1. k + 1 \in 1 .. n /\ (k + 1) - 1 = k
    BY <1>2
  <2>2. QED
    BY <1>1, <1>4, <2>1 DEF IsSum
<1> HIDE DEF S, n
<1>5. \A k \in 0 .. n : k \in S
  BY <1>2, <1>3, <1>4, CountingUp, Zenon
<1>6. QED
  BY <1>1, <1>2, <1>5 DEF S

(* Totals of different places add up. *)
LEMMA TotalOfUnion ==
    ASSUME NEW values \in Seq(Int), NEW P, NEW Q, P \cap Q = {}
    PROVE  /\ Total(values, P) \in Int /\ Total(values, Q) \in Int
           /\ Total(values, P \cup Q) = Total(values, P) + Total(values, Q)
<1> DEFINE n == Len(values)
<1>1. PICK p : IsSum(p, values, P) /\ Total(values, P) = p[n]
  BY TotalIs
<1>2. PICK q : IsSum(q, values, Q) /\ Total(values, Q) = q[n]
  BY TotalIs
<1>3. PICK u : IsSum(u, values, P \cup Q) /\ Total(values, P \cup Q) = u[n]
  BY TotalIs
<1>4. n \in Nat /\ \A k \in 1 .. n : values[k] \in Int
  OBVIOUS
<1> DEFINE S == {k \in 0 .. n : u[k] = p[k] + q[k]}
<1>5. \A k \in 0 .. n : p[k] \in Int /\ q[k] \in Int /\ u[k] \in Int
  BY <1>1, <1>2, <1>3 DEF IsSum
<1>6. 0 \in S
  BY <1>1, <1>2, <1>3, <1>4 DEF IsSum
<1>7. ASSUME NEW k \in 0 .. n - 1, k \in S PROVE k + 1 \in S
  <2> DEFINE j == k + 1
  <2>1. j \in 1 .. n /\ j \in 0 .. n /\ j - 1 = k /\ k \in 0 .. n
    BY <1>4
  <2> HIDE DEF j
  <2>2. /\ p[j] = IF j \in P THEN p[k] + values[j] ELSE p[k]
        /\ q[j] = IF j \in Q THEN q[k] + values[j] ELSE q[k]
        /\ u[j] = IF j \in P \/ j \in Q THEN u[k] + values[j] ELSE u[k]
    BY <1>1, <1>2, <1>3, <2>1 DEF IsSum
  <2>3. ~(j \in P /\ j \in Q)
    OBVIOUS
  <2>4. u[j] = p[j] + q[j]
    BY <1>4, <1>5, <1>7, <2>1, <2>2, <2>3, SMTT(30)
  <2>5. QED
    BY <2>1, <2>4 DEF j
<1> HIDE DEF S, n
<1>8. \A k \in 0 .. n : k \in S
  BY <1>4, <1>6, <1>7, CountingUp, Zenon
<1>9. n \in 0 .. n
  BY <1>4
<1>10. QED
  BY <1>1, <1>2, <1>3, <1>5, <1>8, <1>9 DEF S

(* Not every place has a greater share in one total than in another. *)
LEMMA TotalsBalance ==
    ASSUME NEW e \in Seq(Int), NEW t \in Seq(Int), Len(e) = Len(t),
           NEW P \in SUBSET DOMAIN e, P # {}
    PROVE  \E k \in P : Total(e, P) * t[k] <= e[k] * Total(t, P)
<1> DEFINE n == Len(e)
           E == Total(e, P)
           T == Total(t, P)
<1>1. PICK a : IsSum(a, e, P) /\ E = a[n]
  BY TotalIs
<1>2. PICK b : IsSum(b, t, P) /\ T = b[n]
  BY TotalIs
<1>3. n \in Nat /\ P \subseteq 1 .. n /\ \A k \in 1 .. n : e[k] \in Int /\ t[k] \in Int
  OBVIOUS
<1>4. \A k \in 0 .. n : a[k] \in Int /\ b[k] \in Int
  BY <1>1, <1>2 DEF IsSum
<1>5. E \in Int /\ T \in Int
  BY <1>1, <1>2, <1>3, <1>4
<1>6. SUFFICES ASSUME \A k \in P : ~(E * t[k] <= e[k] * T) PROVE FALSE
  OBVIOUS
<1> HIDE DEF E, T
<1> DEFINE D(k) == E * b[k] - a[k] * T
           S == {k \in 0 .. n : D(k) >= 0 /\ (P \cap (1 .. k) # {} => D(k) > 0)}
<1>7. 0 \in S
  <2>1. a[0] = 0 /\ b[0] = 0
    BY <1>1, <1>2 DEF IsSum
  <2>2. D(0) = 0
    BY <1>5, <2>1
  <2>3. P \cap (1 .. 0) = {}
    OBVIOUS
  <2>4. QED
    BY <1>3, <2>2, <2>3
<1>8. ASSUME NEW k \in 0 .. n - 1, k \in S PROVE k + 1 \in S
  <2> DEFINE j == k + 1
  <2>1. j \in 1 .. n /\ j \in 0 .. n /\ j - 1 = k /\ k \in 0 .. n
    BY <1>3
  <2>2. 1 .. j = (1 .. k) \cup {j}
    BY <2>1
  <2> HIDE DEF j
  <2>3. /\ a[j] = IF j \in P THEN a[k] + e[j] ELSE a[k]
        /\ b[j] = IF j \in P THEN b[k] + t[j] ELSE b[k]
    BY <1>1, <1>2, <2>1 DEF IsSum
  <2>4. a[k] \in Int /\ b[k] \in Int /\ e[j] \in Int /\ t[j] \in Int
    BY <1>3, <1>4, <2>1
  <2>5. CASE j \in P
    <3> DEFINE Eb == E * b[k]
               Et == E * t[j]
               aT == a[k] * T
               eT == e[j] * T
    <3>1. E * b[j] = Eb + Et /\ a[j] * T = aT + eT
      <4>1. E * (b[k] + t[j]) = Eb + Et
        <5>1. \A x, y \in Int : E * (x + y) = E * x + E * y
          BY <1>5, Distribute
        <5>2. QED
          BY <2>4, <5>1, Zenon
      <4>2. (a[k] + e[j]) * T = aT + eT
        BY <1>5, <2>4, Distribute, ZenonT(30)
      <4>3. QED
        BY <2>3, <2>5, <4>1, <4>2, Zenon
    <3>2. Eb \in Int /\ Et \in Int /\ aT \in Int /\ eT \in Int
      BY <1>5, <2>4, Distribute, Zenon
    <3>3. ~(E * t[j] <= e[j] * T)
      BY <1>6, <2>5
    <3>4. D(k) >= 0
      BY <1>8
    <3> HIDE DEF Eb, Et, aT, eT
    <3>5. D(k) = Eb - aT /\ D(j) = (Eb + Et) - (aT + eT) /\ ~(Et <= eT)
      BY <3>1, <3>3, Zenon DEF Eb, Et, aT, eT
    <3> HIDE DEF D
    <3>6. D(j) > 0 /\ D(j) >= 0
      BY <3>2, <3>4, <3>5
    <3>7. QED
      BY <2>1, <3>6 DEF j
  <2>6. CASE j \notin P
    <3>1. D(j) = D(k) /\ P \cap (1 .. j) = P \cap (1 .. k)
      BY <2>2, <2>3, <2>6
    <3> HIDE DEF D
    <3>2. j \in S
      BY <1>8, <2>1, <3>1
    <3>3. QED
      BY <3>2 DEF j
  <2>7. QED
    BY <2>5, <2>6
<1>9. n \in S
  <2> HIDE DEF S, n
  <2>1. \A k \in 0 .. n : k \in S
    BY <1>3, <1>7, <1>8, CountingUp, Zenon
  <2>2. QED
    BY <1>3, <2>1
<1>10. P \cap (1 .. n) # {}
  BY <1>3
<1>11. D(n) > 0
  <2> HIDE DEF D
  <2>1. QED
    BY <1>9, <1>10
<1>12. D(n) = E * T - E * T
  BY <1>1, <1>2
<1>13. E * T \in Int
  BY <1>5
<1>14. QED
  BY <1>11, <1>12, <1>13

-----------------------------------------------------------------------------
(* What a parser has read after some lines.                                *)

\* The lines of A among the first k.
First(A, k) == {j \in A : j <= k}

\* g[k] has the latencies that the lines of A among the first k add, in order.
Gathers(g, A, latencies, k) ==
    g[k] = IF k \in A THEN g[k - 1] \o latencies[k] ELSE g[k - 1]
IsGathered(g, A, latencies, n) ==
    /\ g \in [0 .. n -> Seq(Int)]
    /\ g[0] = <<>>
    /\ \A k \in 1 .. n : Gathers(g, A, latencies, k)

Gathered(A, latencies, n) == CHOOSE g : IsGathered(g, A, latencies, n)

\* The tally of the lines of A among the first k of file f.
TallyUpto(f, latencies, A, k) ==
    [lats  |-> Gathered(A, latencies, Len(f))[k],
     total |-> Cardinality(First(A, k)),
     ok    |-> Cardinality(Succeeded(f, First(A, k))),
     err   |-> Cardinality(First(A, k) \ Succeeded(f, First(A, k))),
     dist  |-> [c \in {Code(f[j]) : j \in First(A, k)} |->
                   Cardinality({j \in First(A, k) : Code(f[j]) = c})]]

\* The bins some of the first k lines fell into.
BinsUpto(f, k) == {BinIndex(f[j], BinSeconds) : j \in First(Responses(f), k)}

ReadUpto(f, latencies, k) ==
    [whole |-> TallyUpto(f, latencies, Responses(f), k),
     bins  |-> [b \in BinsUpto(f, k) |-> TallyUpto(f, latencies, InBin(f, b), k)]]

\* The lines of A are lines of f and add numbers.
Adds(f, latencies, A) ==
    /\ A \subseteq 1 .. Len(f)
    /\ \A k \in A : latencies[k] \in Seq(Int)

LEMMA GatheredIs ==
    ASSUME NEW n \in Nat, NEW A, NEW latencies, \A k \in A : latencies[k] \in Seq(Int)
    PROVE  IsGathered(Gathered(A, latencies, n), A, latencies, n)
<1> DEFINE X == Seq(Int)
           Plus(k, x) == IF k \in A THEN x \o latencies[k] ELSE x
           step == [k \in 1 .. n |-> [x \in X |-> Plus(k, x)]]
<1>1. \A k \in 1 .. n, x \in X : Plus(k, x) \in X
  OBVIOUS
<1>2. <<>> \in X
  OBVIOUS
<1> HIDE DEF Plus, X
<1>3. IsStep(step, X, n) /\ \A k \in 1 .. n, x \in X : step[k][x] = Plus(k, x)
  BY <1>1 DEF IsStep
<1> HIDE DEF step
<1>4. PICK g : Follows(g, step, X, <<>>, n)
  BY <1>2, <1>3, Iteration
<1>5. ASSUME NEW k \in 1 .. n PROVE g[k] = Plus(k, g[k - 1])
  <2>1. k - 1 \in 0 .. n
    OBVIOUS
  <2>2. g[k - 1] \in X
    BY <1>4, <2>1 DEF Follows
  <2>3. QED
    BY <1>3, <1>4, <2>2 DEF Follows
<1>6. IsGathered(g, A, latencies, n)
  BY <1>4, <1>5 DEF Follows, IsGathered, Gathers, X, Plus
<1>7. QED
  BY <1>6 DEF Gathered

(* The latencies line by line. *)
LEMMA GatheredStep ==
    ASSUME NEW f \in Seq(FileLine), NEW latencies, NEW A, Adds(f, latencies, A),
           NEW k \in 1 .. Len(f)
    PROVE  /\ Gathered(A, latencies, Len(f))[k - 1] \in Seq(Int)
           /\ Gathers(Gathered(A, latencies, Len(f)), A, latencies, k)
<1> DEFINE n == Len(f)
           g == Gathered(A, latencies, n)
<1>1. n \in Nat /\ k - 1 \in 0 .. n
  OBVIOUS
<1>2. IsGathered(g, A, latencies, n)
  BY <1>1, GatheredIs DEF Adds
<1> HIDE DEF g, n
<1>3. g[k - 1] \in Seq(Int) /\ Gathers(g, A, latencies, k)
  BY <1>1, <1>2 DEF IsGathered, n
<1>4. QED
  BY <1>3 DEF g, n

LEMMA LinesAreNumbers ==
    ASSUME NEW f \in Seq(FileLine), NEW latencies, NEW A, Adds(f, latencies, A)
    PROVE  \A j \in A : j \in Int /\ j \in 1 .. Len(f)
<1>1. \A j \in A : j \in 1 .. Len(f)
  BY DEF Adds
<1>2. Len(f) \in Nat
  OBVIOUS
<1>3. QED
  BY <1>1, <1>2

(* As long as no line of A was read, nothing is counted. *)
LEMMA TallyOfNone ==
    ASSUME NEW f \in Seq(FileLine), NEW latencies, NEW A, Adds(f, latencies, A),
           NEW k \in 0 .. Len(f), First(A, k) = {}
    PROVE  TallyUpto(f, latencies, A, k) = EmptyTally
<1> DEFINE n == Len(f)
           g == Gathered(A, latencies, n)
<1>1. n \in Nat /\ k \in 0 .. n
  OBVIOUS
<1>2. IsGathered(g, A, latencies, n)
  BY <1>1, GatheredIs DEF Adds
<1> HIDE DEF g
<1>3. g[k] = <<>>
  <2> DEFINE S == {j \in 0 .. n : j <= k => g[j] = <<>>}
  <2>1. 0 \in S
    BY <1>1, <1>2 DEF IsGathered
  <2>2. ASSUME NEW j \in 0 .. n - 1, j \in S PROVE j + 1 \in S
    <3>1. j + 1 \in 1 .. n /\ (j + 1) - 1 = j
      BY <1>1
    <3>2. j + 1 <= k => j + 1 \notin A
      BY DEF First
    <3>3. QED
      BY <1>1, <1>2, <2>2, <3>1, <3>2 DEF IsGathered, Gathers
  <2> HIDE DEF S, n
  <2>3. \A j \in 0 .. n : j \in S
    BY <1>1, <2>1, <2>2, CountingUp, Zenon
  <2>4. QED
    BY <1>1, <2>3 DEF S
<1>4. EmptyBag = [c \in {} |-> 1]
  BY DEF EmptyBag, SetToBag
<1>5. /\ Succeeded(f, First(A, k)) = {} /\ First(A, k) \ Succeeded(f, First(A, k)) = {}
      /\ {Code(f[j]) : j \in First(A, k)} = {}
  BY DEF Succeeded
<1>6. [c \in {Code(f[j]) : j \in First(A, k)} |->
           Cardinality({j \in First(A, k) : Code(f[j]) = c})] = EmptyBag
  BY <1>4, <1>5
<1>7. Cardinality({}) = 0
  BY FS_EmptySet
<1>8. QED
  BY <1>3, <1>5, <1>6, <1>7 DEF TallyUpto, EmptyTally, g, n

(* A line that is not in A leaves the tally of A alone. *)
LEMMA TallyStays ==
    ASSUME NEW f \in Seq(FileLine), NEW latencies, NEW A, Adds(f, latencies, A),
           NEW k \in 1 .. Len(f), k \notin A
    PROVE  TallyUpto(f, latencies, A, k) = TallyUpto(f, latencies, A, k - 1)
<1>1. First(A, k) = First(A, k - 1)
  BY LinesAreNumbers DEF First
<1>2. Gathered(A, latencies, Len(f))[k] = Gathered(A, latencies, Len(f))[k - 1]
  BY GatheredStep DEF Gathers
<1>3. QED
  BY <1>1, <1>2 DEF TallyUpto

(* A set with one member more. *)
LEMMA OneMore ==
    ASSUME NEW S, IsFiniteSet(S), NEW x, x \notin S
    PROVE  Cardinality(S \cup {x}) = Cardinality(S) + 1
  BY FS_AddElement

(* A line that is in A counts for the tally of A. *)
LEMMA TallyCounts ==
    ASSUME NEW f \in Seq(FileLine), NEW latencies, NEW A, Adds(f, latencies, A),
           NEW k \in 1 .. Len(f), k \in A
    PROVE  TallyUpto(f, latencies, A, k)
               = Count(TallyUpto(f, latencies, A, k - 1), f[k], latencies[k])
<1> DEFINE R == First(A, k - 1)
           Q == First(A, k)
           code == Code(f[k])
           With(c) == {j \in R : Code(f[j]) = c}
           codes == {Code(f[j]) : j \in R}
           dist == [c \in codes |-> Cardinality(With(c))]
           distQ == [c \in {Code(f[j]) : j \in Q} |-> Cardinality({j \in Q : Code(f[j]) = c})]
<1>1. Q = R \cup {k} /\ k \notin R
  BY LinesAreNumbers DEF First
<1>2. IsFiniteSet(R)
  <2>1. R \subseteq 1 .. Len(f)
    BY LinesAreNumbers DEF First
  <2>2. IsFiniteSet(1 .. Len(f))
    BY FS_Interval
  <2>3. QED
    BY <2>1, <2>2, FS_Subset
<1>3. Gathered(A, latencies, Len(f))[k] = Gathered(A, latencies, Len(f))[k - 1] \o latencies[k]
  <2> DEFINE g == Gathered(A, latencies, Len(f))
             h == g[k - 1] \o latencies[k]
  <2>1. Gathers(g, A, latencies, k)
    BY GatheredStep
  <2> HIDE DEF g
  <2>2. g[k] = h
    BY <2>1 DEF Gathers
  <2>3. QED
    BY <2>2 DEF g, h
<1> HIDE DEF R, Q, code
<1>4. \A S \in SUBSET R : /\ IsFiniteSet(S) /\ Cardinality(S) \in Nat
                          /\ Cardinality(S \cup {k}) = Cardinality(S) + 1
  BY <1>1, <1>2, FS_Subset, FS_CardinalityType, OneMore
<1>5. Cardinality(Q) = Cardinality(R) + 1
  BY <1>1, <1>4
<1>6. /\ Succeeded(f, Q) = IF Success(f[k]) THEN Succeeded(f, R) \cup {k} ELSE Succeeded(f, R)
      /\ Q \ Succeeded(f, Q) = IF Success(f[k]) THEN R \ Succeeded(f, R)
                               ELSE (R \ Succeeded(f, R)) \cup {k}
      /\ Succeeded(f, R) \in SUBSET R /\ R \ Succeeded(f, R) \in SUBSET R
  BY <1>1 DEF Succeeded
<1>7. /\ Cardinality(Succeeded(f, Q)) = Cardinality(Succeeded(f, R)) + (IF Success(f[k]) THEN 1 ELSE 0)
      /\ Cardinality(Q \ Succeeded(f, Q))
             = Cardinality(R \ Succeeded(f, R)) + (IF Success(f[k]) THEN 0 ELSE 1)
  <2> DEFINE yes == Succeeded(f, R)
             no == R \ Succeeded(f, R)
  <2>1. yes \in SUBSET R /\ no \in SUBSET R
    BY <1>6
  <2>2. /\ Cardinality(yes) \in Nat /\ Cardinality(yes \cup {k}) = Cardinality(yes) + 1
        /\ Cardinality(no) \in Nat /\ Cardinality(no \cup {k}) = Cardinality(no) + 1
    BY <1>4, <2>1
  <2>3. CASE Success(f[k])
    <3>1. Succeeded(f, Q) = yes \cup {k} /\ Q \ Succeeded(f, Q) = no
      BY <1>6, <2>3
    <3> HIDE DEF yes, no
    <3>2. Cardinality(no) + 0 = Cardinality(no)
      BY <2>2
    <3>3. Cardinality(Succeeded(f, Q)) = Cardinality(yes) + 1
          /\ Cardinality(Q \ Succeeded(f, Q)) = Cardinality(no) + 0
      BY <2>2, <3>1, <3>2, Zenon
    <3>4. QED
      BY <2>3, <3>3 DEF yes, no
  <2>4. CASE ~Success(f[k])
    <3>1. Succeeded(f, Q) = yes /\ Q \ Succeeded(f, Q) = no \cup {k}
      BY <1>6, <2>4
    <3> HIDE DEF yes, no
    <3>2. Cardinality(yes) + 0 = Cardinality(yes)
      BY <2>2
    <3>3. Cardinality(Succeeded(f, Q)) = Cardinality(yes) + 0
          /\ Cardinality(Q \ Succeeded(f, Q)) = Cardinality(no) + 1
      BY <2>2, <3>1, <3>2, Zenon
    <3>4. QED
      BY <2>4, <3>3 DEF yes, no
  <2>5. QED
    BY <2>3, <2>4
<1>8. distQ = dist (+) SetToBag({code})
  <2>1. {Code(f[j]) : j \in Q} = codes \cup {code}
    BY <1>1 DEF code
  <2>2. ASSUME NEW c PROVE {j \in Q : Code(f[j]) = c}
                               = IF c = code THEN With(c) \cup {k} ELSE With(c)
    BY <1>1 DEF code
  <2>3. SetToBag({code}) = [c \in {code} |-> 1]
    BY DEF SetToBag
  <2>4. ASSUME NEW c, c \notin codes PROVE Cardinality(With(c)) = 0
    <3>1. With(c) = {}
      BY <2>4
    <3>2. QED
      BY <3>1, FS_EmptySet
  <2>5. \A c : With(c) \in SUBSET R
    OBVIOUS
  <2> DEFINE both == [c \in codes \cup {code} |->
                         (IF c \in codes THEN dist[c] ELSE 0) + (IF c \in {code} THEN 1 ELSE 0)]
  <2>6. dist (+) SetToBag({code}) = both
    BY <2>3 DEF (+)
  <2>7. ASSUME NEW c \in codes \cup {code}
        PROVE  Cardinality({j \in Q : Code(f[j]) = c})
                   = (IF c \in codes THEN dist[c] ELSE 0) + (IF c \in {code} THEN 1 ELSE 0)
    <3>1. Cardinality({j \in Q : Code(f[j]) = c})
              = IF c = code THEN Cardinality(With(c)) + 1 ELSE Cardinality(With(c))
      <4> HIDE DEF With
      <4>1. QED
        BY <1>4, <2>2, <2>5
    <3>2. Cardinality(With(c)) = IF c \in codes THEN dist[c] ELSE 0
      <4> HIDE DEF With, codes
      <4>1. QED
        BY <2>4
    <3>3. Cardinality(With(c)) \in Nat
      BY <1>4, <2>5
    <3> HIDE DEF With, codes, dist
    <3>4. QED
      BY <3>1, <3>2, <3>3
  <2> HIDE DEF codes, dist
  <2>8. QED
    BY <2>1, <2>6, <2>7
<1>9. /\ TallyUpto(f, latencies, A, k - 1)
             = [lats |-> Gathered(A, latencies, Len(f))[k - 1],
                total |-> Cardinality(R), ok |-> Cardinality(Succeeded(f, R)),
                err |-> Cardinality(R \ Succeeded(f, R)), dist |-> dist]
      /\ TallyUpto(f, latencies, A, k)
             = [lats |-> Gathered(A, latencies, Len(f))[k],
                total |-> Cardinality(Q), ok |-> Cardinality(Succeeded(f, Q)),
                err |-> Cardinality(Q \ Succeeded(f, Q)), dist |-> distQ]
  BY DEF TallyUpto, R, Q
<1> HIDE DEF dist, distQ
<1> DEFINE lats == Gathered(A, latencies, Len(f))
<1> HIDE DEF lats
<1>10. Count(TallyUpto(f, latencies, A, k - 1), f[k], latencies[k])
           = [lats  |-> lats[k - 1] \o latencies[k],
              total |-> Cardinality(R) + 1,
              ok    |-> Cardinality(Succeeded(f, R)) + (IF Success(f[k]) THEN 1 ELSE 0),
              err   |-> Cardinality(R \ Succeeded(f, R)) + (IF Success(f[k]) THEN 0 ELSE 1),
              dist  |-> dist (+) SetToBag({code})]
  <2> DEFINE t == TallyUpto(f, latencies, A, k - 1)
  <2>1. /\ t.lats = lats[k - 1] /\ t.total = Cardinality(R)
        /\ t.ok = Cardinality(Succeeded(f, R)) /\ t.err = Cardinality(R \ Succeeded(f, R))
        /\ t.dist = dist
    <3> DEFINE total == Cardinality(R)
               ok    == Cardinality(Succeeded(f, R))
               err   == Cardinality(R \ Succeeded(f, R))
               last  == lats[k - 1]
    <3> HIDE DEF total, ok, err, last
    <3>1. t = [lats |-> last, total |-> total, ok |-> ok, err |-> err, dist |-> dist]
      BY <1>9, Zenon DEF lats, total, ok, err, last
    <3> HIDE DEF t
    <3>2. /\ t.lats = last /\ t.total = total /\ t.ok = ok /\ t.err = err /\ t.dist = dist
      BY <3>1
    <3>3. QED
      BY <3>2, Zenon DEF total, ok, err, last
  <2> HIDE DEF t
  <2>2. Count(t, f[k], latencies[k])
           = [lats  |-> lats[k - 1] \o latencies[k],
              total |-> Cardinality(R) + 1,
              ok    |-> Cardinality(Succeeded(f, R)) + (IF Success(f[k]) THEN 1 ELSE 0),
              err   |-> Cardinality(R \ Succeeded(f, R)) + (IF Success(f[k]) THEN 0 ELSE 1),
              dist  |-> dist (+) SetToBag({code})]
    BY <2>1, Zenon DEF Count, code
  <2>3. QED
    BY <2>2 DEF t
<1>11. QED
  BY <1>3, <1>5, <1>7, <1>8, <1>9, <1>10, Zenon DEF lats

(* What the columns of a line are. *)
LEMMA LineTypes ==
    ASSUME NEW f \in Seq(FileLine), NEW k \in 1 .. Len(f)
    PROVE  /\ Code(f[k]) \in Int
           /\ BinIndex(f[k], BinSeconds) \in Nat
           /\ k \in Responses(f) <=> f[k].lat # NoNumber
           /\ k \in Responses(f) => f[k].lat \in Int
<1> DEFINE line == f[k]
<1>1. line \in [lat : Column, code : Column, off : Column]
  BY LineAssumption
<1>2. k \in DOMAIN f
  OBVIOUS
<1> HIDE DEF line
<1>3. line.lat \in Column /\ line.code \in Column /\ line.off \in Column
  BY <1>1
<1>4. Code(line) \in Int /\ Offset(line) \in Int /\ (line.lat # NoNumber => line.lat \in Int)
  BY <1>3 DEF Code, Offset, Column
<1>5. BinIndex(line, BinSeconds) \in Nat
  <2> DEFINE d == Offset(line) \div BinSeconds
  <2>1. d \in Int
    BY <1>4, BinAssumption
  <2>2. BinIndex(line, BinSeconds) = Max({0, d})
    BY DEF BinIndex
  <2> HIDE DEF d
  <2>3. Max({0, d}) = IF 0 >= d THEN 0 ELSE d
    BY <2>1, MaxMinOfTwo
  <2>4. QED
    BY <2>1, <2>2, <2>3
<1>6. k \in Responses(f) <=> line.lat # NoNumber
  BY <1>2 DEF Responses, line
<1>7. QED
  BY <1>4, <1>5, <1>6 DEF line

(* The responses, and those of a bin. *)
LEMMA ResponseSets ==
    ASSUME NEW f \in Seq(FileLine), NEW latencies, Adds(f, latencies, Responses(f))
    PROVE  /\ \A j \in Responses(f) : j \in 1 .. Len(f) /\ j \in Int
           /\ \A b : Adds(f, latencies, InBin(f, b)) /\ InBin(f, b) \subseteq Responses(f)
<1>1. \A b : InBin(f, b) \subseteq Responses(f)
  BY DEF InBin
<1>2. QED
  BY <1>1, LinesAreNumbers DEF Adds

(* Reading line k goes from what was read of the first k - 1 lines to what was read
   of the first k.                                                           *)
LEMMA ReadStep ==
    ASSUME NEW f \in Seq(FileLine), NEW latencies, Adds(f, latencies, Responses(f)),
           NEW k \in 1 .. Len(f)
    PROVE  ReadUpto(f, latencies, k)
               = Read(ReadUpto(f, latencies, k - 1), f[k], BinSeconds, latencies[k])
<1> DEFINE R == Responses(f)
           T(A, j) == TallyUpto(f, latencies, A, j)
           acc == ReadUpto(f, latencies, k - 1)
           old == BinsUpto(f, k - 1)
           new == BinsUpto(f, k)
<1>1. /\ acc.whole = T(R, k - 1) /\ DOMAIN acc.bins = old
      /\ \A b \in old : acc.bins[b] = T(InBin(f, b), k - 1)
  BY DEF ReadUpto
<1>2. ReadUpto(f, latencies, k) = [whole |-> T(R, k), bins |-> [b \in new |-> T(InBin(f, b), k)]]
  BY DEF ReadUpto
<1>3. acc = [whole |-> acc.whole, bins |-> [b \in old |-> acc.bins[b]]]
  BY DEF ReadUpto
<1>4. \A b : Adds(f, latencies, InBin(f, b))
  BY ResponseSets
<1>5. /\ \A j \in R : j \in Int
      /\ k \in R <=> f[k].lat # NoNumber
  BY ResponseSets, LineTypes
<1> HIDE DEF acc
<1>6. CASE k \notin R
  <2>1. First(R, k) = First(R, k - 1)
    BY <1>5, <1>6 DEF First
  <2>2. new = old
    BY <2>1 DEF BinsUpto
  <2>3. T(R, k) = T(R, k - 1)
    BY <1>6, TallyStays
  <2>4. \A b : T(InBin(f, b), k) = T(InBin(f, b), k - 1)
    <3>1. \A b : k \notin InBin(f, b)
      BY <1>6 DEF InBin
    <3>2. QED
      BY <1>4, <3>1, TallyStays
  <2>5. Read(acc, f[k], BinSeconds, latencies[k]) = acc
    BY <1>5, <1>6 DEF Read
  <2> HIDE DEF T, old, new
  <2>6. [b \in new |-> T(InBin(f, b), k)] = [b \in old |-> acc.bins[b]]
    BY <1>1, <2>2, <2>4
  <2>7. QED
    BY <1>1, <1>2, <1>3, <2>3, <2>5, <2>6 DEF acc
<1>7. CASE k \in R
  <2> DEFINE i == BinIndex(f[k], BinSeconds)
             C(t) == Count(t, f[k], latencies[k])
             bins == [j \in old \cup {i} |-> IF j = i THEN C(BinAt(acc, i)) ELSE acc.bins[j]]
  <2>1. First(R, k) = First(R, k - 1) \cup {k}
    <3> HIDE DEF R
    <3>1. k \in Int /\ \A j \in R : j <= k <=> (j <= k - 1 \/ j = k)
      BY <1>5
    <3>2. QED
      BY <1>7, <3>1 DEF First
  <2>2. new = old \cup {i}
    BY <2>1 DEF BinsUpto
  <2>3. T(R, k) = C(T(R, k - 1))
    BY <1>7, TallyCounts
  <2>4. T(InBin(f, i), k) = C(T(InBin(f, i), k - 1))
    <3>1. k \in InBin(f, i)
      BY <1>7 DEF InBin
    <3>2. QED
      BY <1>4, <3>1, TallyCounts
  <2>5. ASSUME NEW b, b # i PROVE T(InBin(f, b), k) = T(InBin(f, b), k - 1)
    <3>1. k \notin InBin(f, b)
      BY <2>5 DEF InBin
    <3>2. QED
      BY <1>4, <3>1, TallyStays
  <2>6. BinAt(acc, i) = T(InBin(f, i), k - 1)
    <3>1. CASE i \in old
      BY <1>1, <3>1 DEF BinAt
    <3>2. CASE i \notin old
      <4>1. First(InBin(f, i), k - 1) = {}
        BY <3>2 DEF BinsUpto, First, InBin
      <4>2. k - 1 \in 0 .. Len(f)
        OBVIOUS
      <4>3. T(InBin(f, i), k - 1) = EmptyTally
        BY <1>4, <4>1, <4>2, TallyOfNone
      <4>4. QED
        BY <1>1, <3>2, <4>3 DEF BinAt
    <3>3. QED
      BY <3>1, <3>2
  <2>7. Read(acc, f[k], BinSeconds, latencies[k]) = [whole |-> C(acc.whole), bins |-> bins]
    <3>1. f[k].lat # NoNumber
      BY <1>5, <1>7
    <3>2. QED
      BY <1>1, <3>1, Zenon DEF Read
  <2> HIDE DEF T, old, new, i, C
  <2>8. [b \in new |-> T(InBin(f, b), k)] = bins
    <3>1. ASSUME NEW b \in new
          PROVE  T(InBin(f, b), k) = IF b = i THEN C(BinAt(acc, i)) ELSE acc.bins[b]
      <4>1. CASE b = i
        BY <2>4, <2>6, <4>1
      <4>2. CASE b # i
        BY <1>1, <2>2, <2>5, <4>2
      <4>3. QED
        BY <4>1, <4>2
    <3>2. QED
      BY <2>2, <3>1
  <2> HIDE DEF bins
  <2>9. QED
    BY <1>1, <1>2, <2>3, <2>7, <2>8 DEF acc
<1>8. QED
  BY <1>6, <1>7

(* What a parser has read at the end of the file. *)
LEMMA ReadFileIs ==
    ASSUME NEW f \in Seq(FileLine), NEW latencies, Adds(f, latencies, Responses(f))
    PROVE  ReadFile(f, BinSeconds, latencies) = ReadUpto(f, latencies, Len(f))
<1> DEFINE n == Len(f)
           X == 0 .. n
           Next1(k, a) == Read(a, f[k], BinSeconds, latencies[k])
           Round(g, k) == IF k = 0 THEN Nothing ELSE Next1(k, g[k - 1])
           IsRounds(g) == g = [k \in X |-> Round(g, k)]
           acc == CHOOSE g : IsRounds(g)
           upto == [k \in X |-> ReadUpto(f, latencies, k)]
<1>1. ReadFile(f, BinSeconds, latencies) = acc[n]
  BY DEF ReadFile
<1>2. n \in Nat
  OBVIOUS
<1>3. \A k \in 1 .. n : upto[k - 1] = ReadUpto(f, latencies, k - 1)
                        /\ upto[k] = ReadUpto(f, latencies, k)
  BY <1>2
<1>4. ReadUpto(f, latencies, 0) = Nothing
  <2>1. First(Responses(f), 0) = {}
    BY ResponseSets DEF First
  <2>2. TallyUpto(f, latencies, Responses(f), 0) = EmptyTally
    BY <1>2, <2>1, TallyOfNone
  <2>3. BinsUpto(f, 0) = {}
    BY <2>1 DEF BinsUpto
  <2>4. QED
    BY <2>2, <2>3 DEF ReadUpto, Nothing
<1> HIDE DEF Next1
<1>5. \A k \in X : upto[k] = Round(upto, k)
  <2>1. ASSUME NEW k \in 1 .. n PROVE upto[k] = Next1(k, upto[k - 1])
    BY <1>3, ReadStep DEF Next1
  <2>2. upto[0] = Nothing
    BY <1>2, <1>4
  <2> HIDE DEF upto
  <2>3. \A k \in X : k = 0 \/ k \in 1 .. n
    BY <1>2
  <2>4. QED
    BY <2>1, <2>2, <2>3
<1>6. \E g : IsRounds(g)
  <2>1. upto = [k \in X |-> upto[k]]
    OBVIOUS
  <2> HIDE DEF upto, Round
  <2>2. IsRounds(upto)
    BY <1>5, <2>1
  <2> HIDE DEF IsRounds
  <2>3. QED
    BY <2>2
<1>7. \A k \in X : acc[k] = Round(acc, k)
  <2>1. IsRounds(acc)
    <3> HIDE DEF IsRounds
    <3>1. QED
      BY <1>6
  <2> HIDE DEF acc, Round
  <2>2. QED
    BY <2>1
<1> HIDE DEF acc, upto
<1> DEFINE S == {k \in X : acc[k] = upto[k]}
<1>8. 0 \in S
  BY <1>2, <1>5, <1>7
<1>9. ASSUME NEW k \in 0 .. n - 1, k \in S PROVE k + 1 \in S
  <2>1. k + 1 \in X /\ k + 1 # 0 /\ (k + 1) - 1 = k
    BY <1>2
  <2>2. QED
    BY <1>5, <1>7, <1>9, <2>1
<1>10. \A k \in 0 .. n : k \in S
  <2> HIDE DEF S, n
  <2>1. QED
    BY <1>2, <1>8, <1>9, CountingUp, Zenon
<1>11. n \in X
  BY <1>2
<1>12. upto[n] = ReadUpto(f, latencies, n)
  BY <1>11 DEF upto
<1>13. QED
  BY <1>1, <1>10, <1>11, <1>12

-----------------------------------------------------------------------------
(* The lines of a report.                                                  *)

\* What a report says of the lines in A of file f.
LineOf(f, latencies, A) == Line(TallyUpto(f, latencies, A, Len(f)))

LEMMA NumBinsIsNat == NumBins(Duration, BinSeconds) \in Nat
<1>1. Duration \in Nat /\ BinSeconds \in Nat \ {0}
  BY BinAssumption
<1> DEFINE d == Duration + BinSeconds - 1
<1>2. d \in Nat
  BY <1>1
<1> HIDE DEF d
<1>3. d \div BinSeconds \in Nat
  BY <1>1, <1>2
<1>4. QED
  BY <1>3 DEF NumBins, d

(* The summary is about every response, row b about those of bin b - 1. *)
LEMMA ReportIs ==
    ASSUME NEW f \in Seq(FileLine), NEW latencies, Adds(f, latencies, Responses(f)),
           NEW report,
           report = Report(ReadFile(f, BinSeconds, latencies), Duration, BinSeconds)
    PROVE  /\ report.summary = LineOf(f, latencies, Responses(f))
           /\ DOMAIN report.rows = 1 .. NumBins(Duration, BinSeconds)
           /\ \A b \in DOMAIN report.rows : report.rows[b] = LineOf(f, latencies, InBin(f, b - 1))
<1> DEFINE n == Len(f)
           N == NumBins(Duration, BinSeconds)
           acc == ReadUpto(f, latencies, n)
<1>1. report = Report(acc, Duration, BinSeconds)
  BY ReadFileIs
<1>2. n \in Nat /\ n \in 0 .. n
  OBVIOUS
<1>3. /\ acc.whole = TallyUpto(f, latencies, Responses(f), n)
      /\ DOMAIN acc.bins = BinsUpto(f, n)
      /\ \A b \in BinsUpto(f, n) : acc.bins[b] = TallyUpto(f, latencies, InBin(f, b), n)
  BY DEF ReadUpto
<1> HIDE DEF acc, N
<1>4. ASSUME NEW b PROVE BinAt(acc, b) = TallyUpto(f, latencies, InBin(f, b), n)
  <2>1. CASE b \in BinsUpto(f, n)
    BY <1>3, <2>1 DEF BinAt
  <2>2. CASE b \notin BinsUpto(f, n)
    <3>1. First(InBin(f, b), n) = {}
      BY <2>2 DEF BinsUpto, First, InBin
    <3>2. Adds(f, latencies, InBin(f, b))
      BY ResponseSets
    <3>3. TallyUpto(f, latencies, InBin(f, b), n) = EmptyTally
      BY <1>2, <3>1, <3>2, TallyOfNone
    <3>4. QED
      BY <1>3, <2>2, <3>3 DEF BinAt
  <2>3. QED
    BY <2>1, <2>2
<1>5. report = [rows |-> [b \in 1 .. N |-> Line(BinAt(acc, b - 1))], summary |-> Line(acc.whole)]
  BY <1>1 DEF Report, N
<1>6. /\ report.rows = [b \in 1 .. N |-> Line(BinAt(acc, b - 1))]
      /\ report.summary = Line(acc.whole)
  BY <1>5
<1>7. \A b \in 1 .. N : report.rows[b] = Line(BinAt(acc, b - 1))
  BY <1>6
<1>8. DOMAIN report.rows = 1 .. N
  BY <1>6
<1> HIDE DEF n
<1>9. QED
  BY <1>3, <1>4, <1>6, <1>7, <1>8 DEF LineOf, N, n

(* Every line of a file is among the first ones. *)
LEMMA AllRead ==
    ASSUME NEW f \in Seq(FileLine), NEW A \in SUBSET Responses(f)
    PROVE  First(A, Len(f)) = A /\ A \subseteq 1 .. Len(f) /\ IsFiniteSet(A)
<1>1. \A j \in A : j \in 1 .. Len(f)
  BY DEF Responses
<1>2. IsFiniteSet(1 .. Len(f)) /\ Len(f) \in Nat
  BY FS_Interval
<1>3. IsFiniteSet(A)
  BY <1>1, <1>2, FS_Subset
<1>4. First(A, Len(f)) = A
  BY <1>1, <1>2 DEF First
<1>5. QED
  BY <1>1, <1>3, <1>4

(* A line of a report counts what it is about. *)
LEMMA LineCounts ==
    ASSUME NEW f \in Seq(FileLine), NEW latencies, NEW A \in SUBSET Responses(f)
    PROVE  /\ CountsExactly(LineOf(f, latencies, A), f, A)
           /\ LineOf(f, latencies, A).total \in Nat
           /\ LineOf(f, latencies, A).ok \in Nat
           /\ LineOf(f, latencies, A).err \in Nat
<1> DEFINE l == LineOf(f, latencies, A)
           t == TallyUpto(f, latencies, A, Len(f))
<1>1. First(A, Len(f)) = A /\ IsFiniteSet(A)
  BY AllRead
<1>2. /\ l.total = t.total /\ l.ok = t.ok /\ l.err = t.err /\ l.dist = t.dist
  BY DEF LineOf, Line
<1> HIDE DEF l
<1>3. /\ t.total = Cardinality(First(A, Len(f)))
      /\ t.ok = Cardinality(Succeeded(f, First(A, Len(f))))
      /\ t.err = Cardinality(First(A, Len(f)) \ Succeeded(f, First(A, Len(f))))
      /\ t.dist = [c \in {Code(f[j]) : j \in First(A, Len(f))} |->
                      Cardinality({j \in First(A, Len(f)) : Code(f[j]) = c})]
  BY DEF TallyUpto
<1> HIDE DEF t
<1>4. CountsExactly(l, f, A)
  BY <1>1, <1>2, <1>3 DEF CountsExactly
<1>5. /\ IsFiniteSet(Succeeded(f, A)) /\ IsFiniteSet(A \ Succeeded(f, A))
  BY <1>1, FS_Subset DEF Succeeded
<1>6. l.total \in Nat /\ l.ok \in Nat /\ l.err \in Nat
  BY <1>1, <1>4, <1>5, FS_CardinalityType DEF CountsExactly
<1>7. QED
  BY <1>4, <1>6 DEF l

(* The rows together count the responses of the bins of the phase. *)
LEMMA RowsCount ==
    ASSUME NEW f \in Seq(FileLine), NEW values \in Seq(Int),
           \A b \in 1 .. Len(values) : values[b] = Cardinality(InBin(f, b - 1))
    PROVE  Total(values, 1 .. Len(values))
               = Cardinality({j \in Responses(f) : BinIndex(f[j], BinSeconds) < Len(values)})
<1> DEFINE n == Len(values)
           Before(k) == {j \in Responses(f) : BinIndex(f[j], BinSeconds) < k}
<1>1. PICK sum : IsSum(sum, values, 1 .. n) /\ Total(values, 1 .. n) = sum[n]
  BY TotalIs
<1>2. n \in Nat
  OBVIOUS
<1>3. \A j \in Responses(f) : BinIndex(f[j], BinSeconds) \in Nat
  BY LineTypes DEF Responses
<1>4. IsFiniteSet(Responses(f))
  BY AllRead
<1> HIDE DEF n
<1> DEFINE S == {k \in 0 .. n : sum[k] = Cardinality(Before(k))}
<1>5. 0 \in S
  <2>1. Before(0) = {}
    BY <1>3
  <2>2. sum[0] = 0
    BY <1>1 DEF IsSum
  <2>3. Cardinality(Before(0)) = 0
    BY <2>1, FS_EmptySet, Zenon
  <2> HIDE DEF Before
  <2>4. QED
    BY <1>2, <2>2, <2>3
<1>6. ASSUME NEW k \in 0 .. n - 1, k \in S PROVE k + 1 \in S
  <2> DEFINE j == k + 1
  <2>1. j \in 1 .. n /\ j \in 0 .. n /\ j - 1 = k /\ k \in Int
    BY <1>2
  <2>2. Before(j) = Before(k) \cup InBin(f, k) /\ Before(k) \cap InBin(f, k) = {}
    BY <1>3, <2>1 DEF InBin
  <2>3. IsFiniteSet(Before(k)) /\ IsFiniteSet(InBin(f, k))
    BY <1>4, FS_Subset DEF InBin
  <2> HIDE DEF j, Before
  <2>4. Cardinality(Before(j)) = Cardinality(Before(k)) + Cardinality(InBin(f, k))
    <3>1. Cardinality(Before(k) \cap InBin(f, k)) = 0
      BY <2>2, FS_EmptySet, Zenon
    <3>2. Cardinality(Before(k)) \in Nat /\ Cardinality(InBin(f, k)) \in Nat
      BY <2>3, FS_CardinalityType
    <3>3. Cardinality(Before(j)) = Cardinality(Before(k)) + Cardinality(InBin(f, k))
                                      - Cardinality(Before(k) \cap InBin(f, k))
      BY <2>2, <2>3, FS_Union
    <3>4. QED
      BY <3>1, <3>2, <3>3
  <2>5. values[j] = Cardinality(InBin(f, k))
    BY <2>1 DEF n
  <2>6. sum[j] = sum[k] + values[j]
    <3>1. /\ \A i \in 1 .. n : sum[i] = IF i \in 1 .. n THEN sum[i - 1] + values[i] ELSE sum[i - 1]
      BY <1>1 DEF IsSum, n
    <3>2. QED
      BY <2>1, <3>1
  <2>7. sum[k] = Cardinality(Before(k))
    BY <1>6
  <2>8. QED
    BY <2>1, <2>4, <2>5, <2>6, <2>7 DEF j
<1> HIDE DEF S, Before
<1>7. \A k \in 0 .. n : k \in S
  BY <1>2, <1>5, <1>6, CountingUp, Zenon
<1>8. n \in 0 .. n
  BY <1>2
<1>9. QED
  BY <1>1, <1>7, <1>8 DEF S, Before, n

\* A report counts every response of file f.
ReportCounts(report, f) ==
    /\ CountsExactly(report.summary, f, Responses(f))
    /\ \A b \in DOMAIN report.rows : CountsExactly(report.rows[b], f, InBin(f, b - 1))
    /\ Total([b \in DOMAIN report.rows |-> report.rows[b].total], DOMAIN report.rows)
           + Cardinality(Late(f)) = report.summary.total

(* Whatever latencies a parser keeps, its report counts every response. *)
LEMMA ParserCounts ==
    ASSUME NEW f \in Seq(FileLine), NEW latencies, Adds(f, latencies, Responses(f)),
           NEW report,
           report = Report(ReadFile(f, BinSeconds, latencies), Duration, BinSeconds)
    PROVE  ReportCounts(report, f)
<1> DEFINE N == NumBins(Duration, BinSeconds)
           R == Responses(f)
           values == [b \in 1 .. N |-> report.rows[b].total]
           inTime == {j \in R : BinIndex(f[j], BinSeconds) < N}
<1>1. /\ report.summary = LineOf(f, latencies, R)
      /\ DOMAIN report.rows = 1 .. N
      /\ \A b \in 1 .. N : report.rows[b] = LineOf(f, latencies, InBin(f, b - 1))
  BY ReportIs, ZenonT(60)
<1>2. N \in Nat
  BY NumBinsIsNat
<1>3. \A b : InBin(f, b) \in SUBSET R
  BY DEF InBin
<1> HIDE DEF N
<1>4. CountsExactly(report.summary, f, R)
  BY <1>1, LineCounts
<1>5. \A b \in 1 .. N : /\ CountsExactly(report.rows[b], f, InBin(f, b - 1))
                        /\ report.rows[b].total \in Nat
  BY <1>1, <1>3, LineCounts
<1>6. values \in Seq(Int) /\ Len(values) = N
  BY <1>2, <1>5
<1>7. \A b \in 1 .. N : values[b] = Cardinality(InBin(f, b - 1))
  BY <1>5 DEF CountsExactly
<1> HIDE DEF values
<1>8. Total(values, 1 .. N) = Cardinality(inTime)
  BY <1>6, <1>7, RowsCount
<1>9. report.summary.total = Cardinality(R)
  BY <1>4 DEF CountsExactly
<1>10. Cardinality(inTime) + Cardinality(Late(f)) = Cardinality(R)
  <2>1. \A j \in R : BinIndex(f[j], BinSeconds) \in Nat
    BY LineTypes DEF Responses
  <2>2. inTime \cup Late(f) = R /\ inTime \cap Late(f) = {}
    BY <1>2, <2>1 DEF Late, N
  <2>3. IsFiniteSet(R) /\ IsFiniteSet(inTime) /\ IsFiniteSet(Late(f))
    BY <2>2, AllRead, FS_Subset
  <2> HIDE DEF R, inTime
  <2>4. Cardinality(inTime \cap Late(f)) = 0
    BY <2>2, FS_EmptySet, Zenon
  <2>5. Cardinality(inTime \cup Late(f)) = Cardinality(inTime) + Cardinality(Late(f))
                                              - Cardinality(inTime \cap Late(f))
    BY <2>3, FS_Union
  <2>6. Cardinality(inTime) \in Nat /\ Cardinality(Late(f)) \in Nat
    BY <2>3, FS_CardinalityType
  <2>7. Cardinality(inTime \cup Late(f)) = Cardinality(R)
    BY <2>2, Zenon
  <2>8. QED
    BY <2>4, <2>5, <2>6, <2>7
<1>11. Total(values, 1 .. N) + Cardinality(Late(f)) = report.summary.total
  BY <1>8, <1>9, <1>10
<1>12. QED
  BY <1>1, <1>4, <1>5, <1>11 DEF ReportCounts, values

(* Each of the four parsers keeps numbers. *)
LEMMA LatenciesAreNumbers ==
    ASSUME NEW f \in Seq(FileLine)
    PROVE  /\ Adds(f, [k \in DOMAIN f |-> <<f[k].lat>>], Responses(f))
           /\ Adds(f, [k \in DOMAIN f |-> SuccessfulLatency(f[k])], Responses(f))
           /\ Adds(f, [k \in DOMAIN f |-> IF Success(f[k]) THEN <<f[k].lat>> ELSE <<>>],
                   Responses(f))
           /\ Adds(f, [k \in DOMAIN f |-> DeadlineLatency(f[k])], Responses(f))
<1>1. ASSUME NEW k \in Responses(f)
      PROVE  k \in 1 .. Len(f) /\ k \in DOMAIN f /\ f[k].lat \in Int
  BY <1>1, LineTypes DEF Responses
<1>2. Deadline \in Int
  BY DeadlineAssumption
<1>3. \A x \in Int : <<x>> \in Seq(Int)
  OBVIOUS
<1>4. <<>> \in Seq(Int)
  OBVIOUS
<1>5. ASSUME NEW k \in Responses(f)
      PROVE  /\ <<f[k].lat>> \in Seq(Int)
             /\ SuccessfulLatency(f[k]) \in Seq(Int)
             /\ (IF Success(f[k]) THEN <<f[k].lat>> ELSE <<>>) \in Seq(Int)
             /\ DeadlineLatency(f[k]) \in Seq(Int)
  BY <1>1, <1>2, <1>3, <1>4 DEF SuccessfulLatency, DeadlineLatency
<1>6. QED
  BY <1>1, <1>5 DEF Adds

LEMMA ResponsesCounted ==
    ASSUME NEW f \in Seq(FileLine)
    PROVE  /\ ReportCounts(ParsePhase(f, Duration, BinSeconds), f)
           /\ ReportCounts(ParsePhase2xx(f, Duration, BinSeconds), f)
           /\ ReportCounts(ParseProbePhase(f, Duration, BinSeconds), f)
           /\ ReportCounts(BuildDeadlinePhase(f, Duration, BinSeconds), f)
<1>1. ReportCounts(ParsePhase(f, Duration, BinSeconds), f)
  BY LatenciesAreNumbers, ParserCounts DEF ParsePhase
<1>2. ReportCounts(ParsePhase2xx(f, Duration, BinSeconds), f)
  BY LatenciesAreNumbers, ParserCounts DEF ParsePhase2xx
<1>3. ReportCounts(ParseProbePhase(f, Duration, BinSeconds), f)
  BY LatenciesAreNumbers, ParserCounts DEF ParseProbePhase
<1>4. ReportCounts(BuildDeadlinePhase(f, Duration, BinSeconds), f)
  BY LatenciesAreNumbers, ParserCounts DEF BuildDeadlinePhase
<1>5. QED
  BY <1>1, <1>2, <1>3, <1>4

-----------------------------------------------------------------------------
(* Percentiles.                                                            *)

\* g lists the values x[j] of the members of S, that at position p being of e[p].
Lists(g, e, x, S) ==
    /\ g \in Seq(Int)
    /\ e \in [1 .. Len(g) -> S]
    /\ \A p, r \in 1 .. Len(g) : e[p] = e[r] => p = r
    /\ \A j \in S : \E p \in 1 .. Len(g) : e[p] = j
    /\ \A p \in 1 .. Len(g) : g[p] = x[e[p]]

(* One value more at the end of the list. *)
LEMMA ListsOneMore ==
    ASSUME NEW g, NEW e, NEW x, NEW S, Lists(g, e, x, S),
           NEW k, k \notin S, x[k] \in Int
    PROVE  \E h : Lists(g \o <<x[k]>>, h, x, S \cup {k})
<1> DEFINE n == Len(g)
           m == n + 1
           gg == g \o <<x[k]>>
           h == [p \in 1 .. m |-> IF p = m THEN k ELSE e[p]]
<1>1. /\ g \in Seq(Int) /\ e \in [1 .. n -> S]
      /\ \A p, r \in 1 .. n : e[p] = e[r] => p = r
      /\ \A j \in S : \E p \in 1 .. n : e[p] = j
      /\ \A p \in 1 .. n : g[p] = x[e[p]]
  BY DEF Lists
<1>2. n \in Nat
  BY <1>1
<1>3. /\ gg \in Seq(Int) /\ Len(gg) = m /\ gg[m] = x[k]
      /\ \A p \in 1 .. n : gg[p] = g[p]
  BY <1>1
<1> HIDE DEF n, gg
<1>4. \A p \in 1 .. m : p = m \/ (p # m /\ p \in 1 .. n)
  BY <1>2
<1>5. m \in 1 .. m /\ \A p \in 1 .. n : p \in 1 .. m /\ p # m
  BY <1>2
<1> HIDE DEF m
<1>6. h[m] = k /\ \A p \in 1 .. n : h[p] = e[p]
  BY <1>5
<1>7. h = [p \in 1 .. m |-> h[p]]
  OBVIOUS
<1> HIDE DEF h
<1>8. \A p \in 1 .. m : h[p] \in S \cup {k}
  BY <1>1, <1>4, <1>6
<1>9. h \in [1 .. m -> S \cup {k}]
  BY <1>7, <1>8
<1>10. \A p, r \in 1 .. m : h[p] = h[r] => p = r
  BY <1>1, <1>4, <1>6
<1>11. \A j \in S \cup {k} : \E p \in 1 .. m : h[p] = j
  BY <1>1, <1>5, <1>6
<1>12. \A p \in 1 .. m : gg[p] = x[h[p]]
  BY <1>1, <1>3, <1>4, <1>6
<1>13. Lists(gg, h, x, S \cup {k})
  BY <1>3, <1>9, <1>10, <1>11, <1>12 DEF Lists
<1>14. QED
  BY <1>13 DEF gg

\* Of the lines in A, those in S add one value each, and the others none.
AddsValues(f, latencies, A, x, S) ==
    /\ S \subseteq A
    /\ \A j \in S : x[j] \in Int
    /\ \A j \in A : latencies[j] = IF j \in S THEN <<x[j]>> ELSE <<>>

(* The latencies gathered from a file are those values, each once. *)
LEMMA GatheredLists ==
    ASSUME NEW f \in Seq(FileLine), NEW latencies, NEW A \in SUBSET Responses(f), NEW x, NEW S,
           AddsValues(f, latencies, A, x, S)
    PROVE  \E e : Lists(Gathered(A, latencies, Len(f))[Len(f)], e, x, S)
<1> DEFINE n == Len(f)
           g == Gathered(A, latencies, n)
           Done(k) == \E e : Lists(g[k], e, x, First(S, k))
           D == {k \in 0 .. n : Done(k)}
<1>1. n \in Nat /\ \A j \in A : j \in 1 .. n /\ j \in Int
  <2>1. \A j \in A : j \in 1 .. n
    BY AllRead
  <2>2. QED
    BY <2>1
<1>2. /\ S \subseteq A /\ \A j \in S : x[j] \in Int
      /\ \A j \in A : latencies[j] = IF j \in S THEN <<x[j]>> ELSE <<>>
  BY DEF AddsValues
<1>3. IsGathered(g, A, latencies, n)
  <2>1. \A j \in A : latencies[j] \in Seq(Int)
    <3>1. <<>> \in Seq(Int) /\ \A y \in Int : <<y>> \in Seq(Int)
      OBVIOUS
    <3>2. QED
      BY <1>2, <3>1, Zenon
  <2>2. QED
    BY <1>1, <2>1, GatheredIs
<1> HIDE DEF n, g
<1>4. g[0] = <<>> /\ \A k \in 0 .. n : g[k] \in Seq(Int)
  BY <1>3 DEF IsGathered
<1>5. \A k \in 1 .. n : g[k] = IF k \in A THEN g[k - 1] \o latencies[k] ELSE g[k - 1]
  BY <1>3 DEF IsGathered, Gathers
<1>6. 0 \in D
  <2> DEFINE none == [p \in 1 .. 0 |-> 0]
  <2>1. First(S, 0) = {}
    BY <1>1, <1>2 DEF First
  <2>2. Lists(<<>>, none, x, {})
    BY DEF Lists
  <2> HIDE DEF none
  <2>3. Lists(g[0], none, x, First(S, 0))
    BY <1>4, <2>1, <2>2
  <2>4. QED
    BY <1>1, <2>3
<1>7. ASSUME NEW k \in 0 .. n - 1, k \in D PROVE k + 1 \in D
  <2> DEFINE j == k + 1
  <2>1. j \in 1 .. n /\ j \in 0 .. n /\ j - 1 = k /\ k \in Int /\ j \in Int
        /\ \A i \in Int : i <= j <=> (i <= k \/ i = j)
    BY <1>1
  <2> HIDE DEF j
  <2>2. PICK e : Lists(g[k], e, x, First(S, k))
    BY <1>7
  <2>3. CASE j \in S
    <3>1. First(S, j) = First(S, k) \cup {j} /\ j \notin First(S, k)
      <4>1. ~(j <= k)
        BY <2>1
      <4>2. QED
        BY <1>1, <1>2, <2>1, <2>3, <4>1 DEF First
    <3>2. g[j] = g[k] \o <<x[j]>>
      BY <1>2, <1>5, <2>1, <2>3
    <3>3. PICK h : Lists(g[k] \o <<x[j]>>, h, x, First(S, k) \cup {j})
      BY <1>2, <2>2, <2>3, <3>1, ListsOneMore
    <3>4. Lists(g[j], h, x, First(S, j))
      BY <3>1, <3>2, <3>3, Zenon
    <3>5. QED
      BY <2>1, <3>4 DEF j
  <2>4. CASE j \notin S
    <3>1. First(S, j) = First(S, k)
      BY <1>1, <1>2, <2>1, <2>4 DEF First
    <3>2. g[j] = g[k]
      <4>1. CASE j \in A
        <5>1. g[j] = g[k] \o <<>>
          BY <1>2, <1>5, <2>1, <2>4, <4>1
        <5>2. g[k] \in Seq(Int)
          BY <2>2 DEF Lists
        <5>3. QED
          BY <5>1, <5>2
      <4>2. CASE j \notin A
        BY <1>5, <2>1, <4>2
      <4>3. QED
        BY <4>1, <4>2
    <3>3. Lists(g[j], e, x, First(S, j))
      BY <2>2, <3>1, <3>2
    <3>4. QED
      BY <2>1, <3>3 DEF j
  <2>5. QED
    BY <2>3, <2>4
<1> HIDE DEF D
<1>8. \A k \in 0 .. n : k \in D
  BY <1>1, <1>6, <1>7, CountingUp, Zenon
<1>9. n \in 0 .. n
  BY <1>1
<1>10. First(S, n) = S
  BY <1>1, <1>2 DEF First
<1>11. Done(n)
  BY <1>8, <1>9 DEF D
<1>12. QED
  BY <1>10, <1>11 DEF g, n

(* What percentile() finds in the sorted list is the quantile of the listed values. *)
LEMMA PercentileIsQuantile ==
    ASSUME NEW g, NEW e, NEW x, NEW S, Lists(g, e, x, S), NEW q \in 1 .. 1000
    PROVE  IsQuantile(Percentile(SortInts(g), q), q, x, S)
<1> DEFINE n == Len(g)
           sorted == SortInts(g)
           r == Rank(q, n)
           v == sorted[r]
           k == r - 1
           Less == {j \in S : x[j] < v}
           UpTo == {j \in S : x[j] <= v}
<1>1. /\ g \in Seq(Int) /\ e \in [1 .. n -> S]
      /\ \A p, i \in 1 .. n : e[p] = e[i] => p = i
      /\ \A j \in S : \E p \in 1 .. n : e[p] = j
      /\ \A p \in 1 .. n : g[p] = x[e[p]]
  BY DEF Lists
<1>2. n \in Nat /\ DOMAIN g = 1 .. n
  BY <1>1
<1>3. DOMAIN sorted = 1 .. n
  BY <1>2 DEF SortInts
<1>4. sorted = <<>> <=> n = 0
  <2>1. DOMAIN <<>> = 1 .. 0
    OBVIOUS
  <2>2. ASSUME sorted = <<>> PROVE n = 0
    BY <1>2, <1>3, <2>1, <2>2
  <2>3. ASSUME n = 0 PROVE sorted = <<>>
    <3>1. DOMAIN g = {}
      BY <1>2, <2>3
    <3>2. QED
      BY <3>1 DEF SortInts
  <2>4. QED
    BY <2>2, <2>3
<1>5. S = {} <=> n = 0
  BY <1>1, <1>2
<1>6. IsFiniteSet(1 .. n) /\ Cardinality(1 .. n) = n
  BY <1>2, FS_Interval
<1>7. IsFiniteSet(S) /\ Cardinality(S) = n
  <2> HIDE DEF n
  <2>1. /\ e \in [1 .. n -> S]
        /\ \A p, i \in 1 .. n : e[p] = e[i] => p = i
        /\ \A j \in S : \E p \in 1 .. n : e[p] = j
    BY <1>1
  <2>2. IsFiniteSet(S) /\ Cardinality(1 .. n) = Cardinality(S)
    BY <1>6, <2>1, SameNumber, ZenonT(60)
  <2>3. QED
    BY <1>6, <2>2
<1>8. Percentile(sorted, q) = IF n = 0 THEN NoNumber ELSE sorted[Rank(q, Len(sorted))]
  BY <1>4 DEF Percentile
<1> HIDE DEF n, sorted
<1>9. CASE n = 0
  BY <1>5, <1>8, <1>9 DEF IsQuantile, sorted
<1>10. CASE n # 0
  <2>1. n \in Nat \ {0}
    BY <1>2, <1>10
  <2>2. r \in 1 .. n /\ 1000 * r >= q * n /\ 1000 * (r - 1) < q * n
    <3>1. IsCeiling(r, q, n)
      BY <2>1, RankIsCeiling, ZenonT(60)
    <3> HIDE DEF r
    <3>2. QED
      BY <3>1, ZenonT(60) DEF IsCeiling
  <2> HIDE DEF r
  <2>3. k \in 0 .. n - 1 /\ k + 1 = r
    BY <2>1, <2>2
  <2>4. v \in Int /\ (\E p \in 1 .. n : v = g[p]) /\ HasRank(v, g, n, k)
    <3> HIDE DEF k
    <3>1. /\ SortInts(g)[k + 1] \in Int
          /\ \E p \in 1 .. Len(g) : SortInts(g)[k + 1] = g[p]
          /\ HasRank(SortInts(g)[k + 1], g, Len(g), k)
      BY <1>1, <2>3, SortIntsRank DEF n
    <3>2. QED
      BY <2>3, <3>1 DEF sorted, n
  <2>5. \A p \in 1 .. n : e[p] \in S
    BY <1>1
  <2> HIDE DEF v
  <2>6. v \in {x[j] : j \in S}
    BY <1>1, <2>4, <2>5
  <2>7. Cardinality({p \in 1 .. n : g[p] < v}) = Cardinality(Less)
    <3> DEFINE P == {p \in 1 .. n : g[p] < v}
               pi == [p \in P |-> e[p]]
    <3>1. pi \in [P -> Less]
      BY <1>1, <2>5
    <3>2. \A p, i \in P : pi[p] = pi[i] => p = i
      BY <1>1
    <3>3. \A t \in Less : \E p \in P : pi[p] = t
      BY <1>1
    <3>4. IsFiniteSet(P)
      BY <1>6, FS_Subset, ZenonT(60)
    <3> HIDE DEF pi, P, Less
    <3>5. Cardinality(P) = Cardinality(Less)
      BY <3>1, <3>2, <3>3, <3>4, SameNumber
    <3>6. QED
      BY <3>5 DEF P
  <2>8. Cardinality({p \in 1 .. n : g[p] <= v}) = Cardinality(UpTo)
    <3> DEFINE P == {p \in 1 .. n : g[p] <= v}
               pi == [p \in P |-> e[p]]
    <3>1. pi \in [P -> UpTo]
      BY <1>1, <2>5
    <3>2. \A p, i \in P : pi[p] = pi[i] => p = i
      BY <1>1
    <3>3. \A t \in UpTo : \E p \in P : pi[p] = t
      BY <1>1
    <3>4. IsFiniteSet(P)
      BY <1>6, FS_Subset, ZenonT(60)
    <3> HIDE DEF pi, P, UpTo
    <3>5. Cardinality(P) = Cardinality(UpTo)
      BY <3>1, <3>2, <3>3, <3>4, SameNumber
    <3>6. QED
      BY <3>5 DEF P
  <2>9. Cardinality(Less) <= k /\ k < Cardinality(UpTo)
    BY <2>4, <2>7, <2>8 DEF HasRank
  <2>10. Cardinality(Less) \in Nat /\ Cardinality(UpTo) \in Nat
    BY <1>7, FS_Subset, FS_CardinalityType
  <2> DEFINE m == q * n
  <2>11. m \in Int
    BY <1>2
  <2>12. 1000 * r >= m /\ 1000 * (r - 1) < m
    BY <2>2
  <2> HIDE DEF Less, UpTo, m
  <2>13. 1000 * Cardinality(UpTo) >= m /\ 1000 * Cardinality(Less) < m
    BY <1>2, <2>2, <2>3, <2>9, <2>10, <2>11, <2>12
  <2>14. IsQuantile(v, q, x, S)
    BY <1>5, <1>7, <1>10, <2>6, <2>13 DEF IsQuantile, Less, UpTo, m
  <2>15. sorted \in Seq(Int) /\ Len(sorted) = n
    <3>1. ASSUME NEW p \in 1 .. n PROVE sorted[p] \in Int
      <4> DEFINE i == p - 1
      <4>1. i \in 0 .. Len(g) - 1 /\ i + 1 = p
        BY <1>2 DEF n
      <4> HIDE DEF i
      <4>2. SortInts(g)[i + 1] \in Int
        BY <1>1, <4>1, SortIntsRank
      <4>3. QED
        BY <4>1, <4>2 DEF sorted
    <3>2. sorted = [p \in 1 .. n |-> sorted[p]]
      <4> DEFINE At(p) == CHOOSE y \in Range(g) :
                             /\ Cardinality({i \in DOMAIN g : g[i] < y}) < p
                             /\ Cardinality({i \in DOMAIN g : g[i] <= y}) >= p
      <4>1. sorted = [p \in 1 .. n |-> At(p)]
        BY <1>2 DEF sorted, SortInts
      <4> HIDE DEF At
      <4>2. QED
        BY <4>1
    <3>3. QED
      BY <1>2, <3>1, <3>2
  <2>16. Percentile(sorted, q) = v
    BY <1>8, <1>10, <2>15 DEF v, r
  <2>17. QED
    BY <2>14, <2>16 DEF sorted
<1>11. QED
  BY <1>9, <1>10

(* The same for the quantiles that are reported. *)
LEMMA ReportedIsQuantile ==
    ASSUME NEW g, NEW e, NEW x, NEW S, Lists(g, e, x, S), NEW q \in Quantiles
    PROVE  /\ IsQuantile(Percentile(SortInts(g), q), q, x, S)
           /\ S # {} => Percentile(SortInts(g), q) \in Int
<1>1. q \in 1 .. 1000
  BY QuantilesAssumption
<1>2. ASSUME NEW p \in 1 .. 1000
      PROVE  IsQuantile(Percentile(SortInts(g), p), p, x, S)
  BY PercentileIsQuantile
<1> DEFINE v == Percentile(SortInts(g), q)
<1>3. IsQuantile(v, q, x, S)
  BY <1>1, <1>2, ZenonT(60)
<1> HIDE DEF v
<1>4. S # {} => v \in Int
  BY <1>3 DEF IsQuantile, Lists
<1>5. QED
  BY <1>3, <1>4 DEF v

(* A line of a report has the quantiles of the values its lines added. *)
LEMMA LineQuantiles ==
    ASSUME NEW f \in Seq(FileLine), NEW latencies, NEW A \in SUBSET Responses(f), NEW x, NEW S,
           AddsValues(f, latencies, A, x, S), NEW q \in Quantiles
    PROVE  /\ IsQuantile(LineOf(f, latencies, A).pct[q], q, x, S)
           /\ S # {} => LineOf(f, latencies, A).pct[q] \in Int
<1> DEFINE g == Gathered(A, latencies, Len(f))[Len(f)]
           l == LineOf(f, latencies, A)
<1>1. PICK e : Lists(g, e, x, S)
  BY GatheredLists
<1>2. l.pct = [p \in Quantiles |-> Percentile(SortInts(g), p)]
  BY DEF LineOf, Line, TallyUpto
<1> HIDE DEF g, l
<1>3. l.pct[q] = Percentile(SortInts(g), q)
  BY <1>2
<1>4. /\ IsQuantile(Percentile(SortInts(g), q), q, x, S)
      /\ S # {} => Percentile(SortInts(g), q) \in Int
  BY <1>1, ReportedIsQuantile
<1>5. QED
  BY <1>3, <1>4, Zenon DEF l

\* The latencies of the lines of file f after the failures are mapped to the deadline.
Mapped(f) == [j \in DOMAIN f |-> IF Success(f[j]) THEN f[j].lat ELSE Deadline]

(* A parser that keeps the latencies of the successful responses reports their
   quantiles.                                                                *)
LEMMA QuantilesOfSuccess ==
    ASSUME NEW f \in Seq(FileLine), NEW latencies, Adds(f, latencies, Responses(f)),
           \A k \in Responses(f) :
              latencies[k] = IF Success(f[k]) THEN <<f[k].lat>> ELSE <<>>,
           NEW report,
           report = Report(ReadFile(f, BinSeconds, latencies), Duration, BinSeconds),
           NEW q \in Quantiles
    PROVE  /\ IsQuantile(report.summary.pct[q], q, Latencies(f), Succeeded(f, Responses(f)))
           /\ \A b \in DOMAIN report.rows :
                 IsQuantile(report.rows[b].pct[q], q, Latencies(f), Succeeded(f, InBin(f, b - 1)))
<1>1. /\ report.summary = LineOf(f, latencies, Responses(f))
      /\ \A b \in DOMAIN report.rows : report.rows[b] = LineOf(f, latencies, InBin(f, b - 1))
  BY ReportIs
<1>2. \A k \in Responses(f) : k \in DOMAIN f /\ f[k].lat \in Int
  BY LineTypes DEF Responses
<1>3. ASSUME NEW A \in SUBSET Responses(f)
      PROVE  IsQuantile(LineOf(f, latencies, A).pct[q], q, Latencies(f), Succeeded(f, A))
  <2> DEFINE x == Latencies(f)
             S == Succeeded(f, A)
  <2>1. /\ S \subseteq A
        /\ \A j \in S : x[j] \in Int
        /\ \A j \in A : latencies[j] = IF j \in S THEN <<x[j]>> ELSE <<>>
    BY <1>2 DEF Succeeded, Latencies
  <2>2. AddsValues(f, latencies, A, x, S)
    BY <2>1 DEF AddsValues
  <2> HIDE DEF x, S
  <2>3. IsQuantile(LineOf(f, latencies, A).pct[q], q, x, S)
    BY <2>2, LineQuantiles
  <2>4. QED
    BY <2>3 DEF x, S
<1>4. \A b : InBin(f, b) \in SUBSET Responses(f)
  BY DEF InBin
<1>5. QED
  BY <1>1, <1>3, <1>4

LEMMA QuantilesExact ==
    ASSUME NEW f \in Seq(FileLine), NEW report,
           \/ report = ParsePhase2xx(f, Duration, BinSeconds)
           \/ report = ParseProbePhase(f, Duration, BinSeconds),
           NEW q \in Quantiles
    PROVE  /\ IsQuantile(report.summary.pct[q], q, Latencies(f), Succeeded(f, Responses(f)))
           /\ \A b \in DOMAIN report.rows :
                 IsQuantile(report.rows[b].pct[q], q, Latencies(f), Succeeded(f, InBin(f, b - 1)))
<1> DEFINE l1 == [k \in DOMAIN f |-> SuccessfulLatency(f[k])]
           l2 == [k \in DOMAIN f |-> IF Success(f[k]) THEN <<f[k].lat>> ELSE <<>>]
<1>1. Adds(f, l1, Responses(f)) /\ Adds(f, l2, Responses(f))
  BY LatenciesAreNumbers
<1>2. \A k \in Responses(f) :
         /\ l1[k] = IF Success(f[k]) THEN <<f[k].lat>> ELSE <<>>
         /\ l2[k] = IF Success(f[k]) THEN <<f[k].lat>> ELSE <<>>
  BY DEF Responses, SuccessfulLatency
<1>3. \/ report = Report(ReadFile(f, BinSeconds, l1), Duration, BinSeconds)
      \/ report = Report(ReadFile(f, BinSeconds, l2), Duration, BinSeconds)
  BY DEF ParsePhase2xx, ParseProbePhase
<1> HIDE DEF l1, l2
<1>4. CASE report = Report(ReadFile(f, BinSeconds, l1), Duration, BinSeconds)
  BY <1>1, <1>2, <1>4, QuantilesOfSuccess
<1>5. CASE report = Report(ReadFile(f, BinSeconds, l2), Duration, BinSeconds)
  BY <1>1, <1>2, <1>5, QuantilesOfSuccess
<1>6. QED
  BY <1>3, <1>4, <1>5

(* The percentiles of the deadline report are the quantiles of all responses, a failure
   having taken as long as the deadline.                                     *)
LEMMA QuantilesMapped ==
    ASSUME NEW f \in Seq(FileLine), NEW report,
           report = BuildDeadlinePhase(f, Duration, BinSeconds), NEW q \in Quantiles
    PROVE  /\ IsQuantile(report.summary.pct[q], q, Mapped(f), Responses(f))
           /\ Responses(f) # {} => report.summary.pct[q] \in Int
<1> DEFINE latencies == [k \in DOMAIN f |-> DeadlineLatency(f[k])]
           R == Responses(f)
           x == Mapped(f)
<1>1. Adds(f, latencies, R) /\ report = Report(ReadFile(f, BinSeconds, latencies), Duration, BinSeconds)
  BY LatenciesAreNumbers DEF BuildDeadlinePhase
<1>2. \A k \in R : k \in DOMAIN f /\ f[k].lat \in Int
  BY LineTypes DEF Responses
<1>3. /\ R \subseteq R
      /\ \A j \in R : x[j] \in Int
      /\ \A j \in R : latencies[j] = IF j \in R THEN <<x[j]>> ELSE <<>>
  BY <1>2, DeadlineAssumption DEF Mapped, DeadlineLatency
<1>4. AddsValues(f, latencies, R, x, R)
  BY <1>3 DEF AddsValues
<1> HIDE DEF latencies, x
<1>5. report.summary = LineOf(f, latencies, R)
  BY <1>1, ReportIs
<1> HIDE DEF R
<1>6. R \in SUBSET Responses(f)
  BY DEF R
<1>7. IsQuantile(report.summary.pct[q], q, x, R) /\ (R # {} => report.summary.pct[q] \in Int)
  BY <1>4, <1>5, <1>6, LineQuantiles
<1>8. QED
  BY <1>7 DEF x, R

(* Mapping failures to the deadline never lowers a percentile. *)
LEMMA MappedNoLower ==
    ASSUME NEW f \in Seq(FileLine),
           \A k \in Succeeded(f, Responses(f)) : f[k].lat <= Deadline,
           NEW q \in Quantiles, NEW v, NEW w,
           IsQuantile(v, q, Latencies(f), Succeeded(f, Responses(f))), v # NoNumber,
           IsQuantile(w, q, Mapped(f), Responses(f)),
           Responses(f) # {} => w \in Int
    PROVE  w # NoNumber /\ w >= v
<1> DEFINE R == Responses(f)
           S == Succeeded(f, R)
           x == Latencies(f)
           y == Mapped(f)
           Fast == {j \in S : x[j] < v}
           Low == {j \in R : y[j] <= w}
<1>1. S \subseteq R /\ S # {} /\ R # {}
  BY DEF Succeeded, IsQuantile
<1>2. w \in Int /\ w # NoNumber
  BY <1>1, NoNumberAssumption
<1>3. /\ \A k \in R : k \in DOMAIN f /\ f[k].lat \in Int
      /\ \A k \in R : k \in S <=> Success(f[k])
  BY LineTypes DEF Responses, Succeeded
<1>4. /\ \A j \in S : x[j] \in Int /\ y[j] = x[j] /\ x[j] <= Deadline
      /\ \A j \in R : j \notin S => y[j] = Deadline
  BY <1>1, <1>3 DEF Latencies, Mapped
<1>5. v \in {x[j] : j \in S}
  BY <1>1 DEF IsQuantile
<1>6. 1000 * Cardinality(Fast) < q * Cardinality(S)
  BY <1>1 DEF IsQuantile
<1>7. 1000 * Cardinality(Low) >= q * Cardinality(R)
  BY <1>1 DEF IsQuantile
<1>8. IsFiniteSet(R) /\ IsFiniteSet(S) /\ IsFiniteSet(Fast) /\ IsFiniteSet(Low)
  BY <1>1, AllRead, FS_Subset
<1>9. v \in Int /\ v <= Deadline /\ Deadline \in Int
  BY <1>4, <1>5, DeadlineAssumption
<1>10. SUFFICES ASSUME ~(w >= v) PROVE FALSE
  BY <1>2
<1>11. Low \subseteq Fast
  <2>1. SUFFICES ASSUME NEW j \in Low PROVE j \in Fast
    OBVIOUS
  <2>2. j \in R /\ y[j] <= w
    OBVIOUS
  <2>3. j \in S
    BY <1>2, <1>4, <1>9, <1>10, <2>2
  <2>4. x[j] < v
    BY <1>2, <1>4, <1>9, <1>10, <2>2, <2>3
  <2>5. QED
    BY <2>3, <2>4
<1> HIDE DEF R, S, x, y, Fast, Low
<1>12. /\ Cardinality(Low) <= Cardinality(Fast) /\ Cardinality(S) <= Cardinality(R)
       /\ Cardinality(Low) \in Nat /\ Cardinality(Fast) \in Nat
       /\ Cardinality(S) \in Nat /\ Cardinality(R) \in Nat
  BY <1>1, <1>8, <1>11, FS_Subset, FS_CardinalityType
<1>13. q * Cardinality(S) <= q * Cardinality(R)
       /\ q * Cardinality(S) \in Int /\ q * Cardinality(R) \in Int
  <2>1. q \in Nat
    BY QuantilesAssumption
  <2> DEFINE a == Cardinality(S)
             b == Cardinality(R)
  <2>2. a \in Nat /\ b \in Nat /\ a <= b
    BY <1>12
  <2> HIDE DEF a, b
  <2>3. q * a <= q * b /\ q * a \in Int /\ q * b \in Int
    BY <2>1, <2>2
  <2>4. QED
    BY <2>3 DEF a, b
<1> DEFINE a == q * Cardinality(S)
           b == q * Cardinality(R)
<1> HIDE DEF a, b
<1>14. /\ a <= b /\ a \in Int /\ b \in Int
       /\ 1000 * Cardinality(Fast) < a /\ 1000 * Cardinality(Low) >= b
  BY <1>6, <1>7, <1>13 DEF a, b
<1>15. QED
  BY <1>12, <1>14

-----------------------------------------------------------------------------
(* The rows of the time series.                                            *)

\* s is a sequence.
IsSequence(s) == s \in Seq(Range(s))

LEMMA ListIsSequence ==
    ASSUME NEW n \in Nat, NEW s, s = [k \in 1 .. n |-> s[k]]
    PROVE  IsSequence(s) /\ Len(s) = n /\ DOMAIN s = 1 .. n
<1>1. DOMAIN s = 1 .. n
  OBVIOUS
<1>2. \A k \in 1 .. n : s[k] \in Range(s)
  BY <1>1 DEF Range
<1>3. QED
  BY <1>1, <1>2 DEF IsSequence

(* One list after another. *)
LEMMA Joined ==
    ASSUME NEW s, IsSequence(s), NEW t, IsSequence(t)
    PROVE  /\ IsSequence(s \o t)
           /\ DOMAIN (s \o t) = 1 .. Len(s) + Len(t)
           /\ \A j \in 1 .. Len(s) : (s \o t)[j] = s[j]
           /\ \A j \in Len(s) + 1 .. Len(s) + Len(t) : (s \o t)[j] = t[j - Len(s)]
<1> DEFINE X == Range(s) \cup Range(t)
           u == s \o t
<1>1. /\ s \in Seq(Range(s)) /\ t \in Seq(Range(t))
      /\ Len(s) \in Nat /\ Len(t) \in Nat
      /\ DOMAIN s = 1 .. Len(s) /\ DOMAIN t = 1 .. Len(t)
  BY DEF IsSequence
<1>2. s \in Seq(X) /\ t \in Seq(X)
  <2>1. /\ \A j \in 1 .. Len(s) : s[j] \in X
        /\ \A j \in 1 .. Len(t) : t[j] \in X
    BY <1>1 DEF Range
  <2> HIDE DEF X
  <2>2. QED
    BY <1>1, <2>1
<1> HIDE DEF X
<1>3. u \in Seq(X) /\ Len(u) = Len(s) + Len(t) /\ DOMAIN u = 1 .. Len(s) + Len(t)
  BY <1>1, <1>2
<1>4. \A j \in 1 .. Len(s) : u[j] = s[j]
  BY <1>1, <1>2
<1>5. \A j \in Len(s) + 1 .. Len(s) + Len(t) : u[j] = t[j - Len(s)]
  BY <1>1, <1>2
<1> HIDE DEF u
<1>6. IsSequence(u)
  <2>1. \A j \in 1 .. Len(s) + Len(t) : u[j] \in Range(u)
    BY <1>3 DEF Range
  <2>2. QED
    BY <1>3, <2>1 DEF IsSequence
<1>7. QED
  BY <1>3, <1>4, <1>5, <1>6 DEF u

\* The rows of the first n phases of plan p: those of a phase stand in the order of
\* their bins, and there is one for each bin.
RowsInOrder(s, p, n) ==
    /\ IsSequence(s)
    /\ \A j \in DOMAIN s :
          /\ s[j].phase \in 1 .. n
          /\ s[j].bin \in 0 .. NumBins(Duration, BinSeconds) - 1
          /\ s[j].algo = p[s[j].phase].algo /\ s[j].load = p[s[j].phase].load
    /\ \A j, k \in DOMAIN s : s[j].phase = s[k].phase => (k < j <=> s[k].bin < s[j].bin)
    /\ \A m \in 1 .. n, b \in 0 .. NumBins(Duration, BinSeconds) - 1 :
          \E j \in DOMAIN s : s[j].phase = m /\ s[j].bin = b

\* The rows of phase n + 1 of plan p.
RowsOfNext(rows, p, n) ==
    /\ IsSequence(rows)
    /\ Len(rows) = NumBins(Duration, BinSeconds)
    /\ \A b \in DOMAIN rows :
          /\ rows[b].phase = n + 1 /\ rows[b].bin = b - 1
          /\ rows[b].algo = p[n + 1].algo /\ rows[b].load = p[n + 1].load

(* They may be appended. *)
LEMMA RowsAppended ==
    ASSUME NEW s, NEW p, NEW n \in Nat, RowsInOrder(s, p, n), NEW rows, RowsOfNext(rows, p, n)
    PROVE  RowsInOrder(s \o rows, p, n + 1)
<1> DEFINE t == s \o rows
           L == Len(s)
           N == NumBins(Duration, BinSeconds)
           m == n + 1
<1>1. /\ s \in Seq(Range(s)) /\ rows \in Seq(Range(rows))
      /\ L \in Nat /\ N \in Nat /\ m \in Nat /\ Len(rows) = N
      /\ DOMAIN s = 1 .. L /\ DOMAIN rows = 1 .. N
  BY NumBinsIsNat DEF RowsInOrder, RowsOfNext, IsSequence
<1>2. /\ IsSequence(t) /\ DOMAIN t = 1 .. L + N
      /\ \A j \in 1 .. L : t[j] = s[j]
      /\ \A j \in L + 1 .. L + N : t[j] = rows[j - L]
  <2>1. IsSequence(s) /\ IsSequence(rows) /\ Len(rows) = N
    BY DEF RowsInOrder, RowsOfNext
  <2> HIDE DEF N
  <2>2. QED
    BY <2>1, Joined
<1>3. \A j \in 1 .. L : t[j] = s[j]
  BY <1>2
<1>4. \A j \in L + 1 .. L + N : t[j] = rows[j - L] /\ j - L \in 1 .. N
  BY <1>1, <1>2
<1> HIDE DEF t
<1>5. \A j \in 1 .. L : /\ t[j].phase \in 1 .. n /\ t[j].bin \in 0 .. N - 1
                        /\ t[j].algo = p[t[j].phase].algo /\ t[j].load = p[t[j].phase].load
  BY <1>1, <1>3 DEF RowsInOrder
<1>6. \A j \in L + 1 .. L + N :
         /\ t[j].phase = m /\ t[j].bin = j - L - 1
         /\ t[j].algo = p[m].algo /\ t[j].load = p[m].load
  BY <1>1, <1>4 DEF RowsOfNext
<1>7. \A j \in 1 .. L + N : j \in 1 .. L \/ j \in L + 1 .. L + N
  BY <1>1
<1>8. \A j \in DOMAIN t :
          /\ t[j].phase \in 1 .. m /\ t[j].bin \in 0 .. N - 1
          /\ t[j].algo = p[t[j].phase].algo /\ t[j].load = p[t[j].phase].load
  <2>1. ASSUME NEW j \in 1 .. L
        PROVE  t[j].phase \in 1 .. m
    BY <1>1, <1>5
  <2>2. ASSUME NEW j \in L + 1 .. L + N
        PROVE  t[j].phase \in 1 .. m /\ t[j].bin \in 0 .. N - 1
    BY <1>1, <1>6
  <2> HIDE DEF N, L, m
  <2>3. QED
    BY <1>2, <1>5, <1>6, <1>7, <2>1, <2>2
<1>9. ASSUME NEW j \in DOMAIN t, NEW k \in DOMAIN t, t[j].phase = t[k].phase
       PROVE  k < j <=> t[k].bin < t[j].bin
  <2>1. \A i \in 1 .. L : t[i].phase # m
    BY <1>1, <1>5
  <2>2. CASE j \in 1 .. L /\ k \in 1 .. L
    BY <1>1, <1>3, <1>9, <2>2 DEF RowsInOrder
  <2>3. CASE j \in L + 1 .. L + N /\ k \in L + 1 .. L + N
    <3>1. t[j].bin = j - L - 1 /\ t[k].bin = k - L - 1
      BY <1>6, <2>3
    <3>2. QED
      BY <1>1, <2>3, <3>1
  <2> HIDE DEF N, L, m
  <2>4. QED
    BY <1>2, <1>6, <1>7, <1>9, <2>1, <2>2, <2>3
<1>10. ASSUME NEW i \in 1 .. m, NEW b \in 0 .. N - 1
       PROVE  \E j \in DOMAIN t : t[j].phase = i /\ t[j].bin = b
  <2>1. CASE i \in 1 .. n
    <3>1. PICK j \in DOMAIN s : s[j].phase = i /\ s[j].bin = b
      BY <2>1, Zenon DEF RowsInOrder
    <3>2. j \in 1 .. L /\ j \in DOMAIN t
      BY <1>1, <1>2
    <3>3. QED
      BY <1>3, <3>1, <3>2
  <2>2. CASE i = m
    <3> DEFINE j == L + (b + 1)
    <3>1. b + 1 \in 1 .. N /\ j \in L + 1 .. L + N /\ j - L - 1 = b
      BY <1>1
    <3> HIDE DEF j
    <3>2. j \in DOMAIN t
      BY <1>1, <1>2, <3>1
    <3>3. t[j].phase = i /\ t[j].bin = b
      BY <1>6, <2>2, <3>1
    <3>4. QED
      BY <3>2, <3>3
  <2>3. QED
    BY <1>1, <2>1, <2>2
<1> HIDE DEF N, L
<1>11. QED
  BY <1>2, <1>8, <1>9, <1>10 DEF RowsInOrder, t, N

\* What phases.csv says of phase k.
PhaseOf(k) ==
    [phase |-> k, algo |-> plan[k].algo, load |-> plan[k].load,
     summary |-> ParsePhase2xx(files[k], Duration, BinSeconds).summary]

\* What a row says is what was computed of the file of its phase for its bin.
RowsReported ==
    \A j \in DOMAIN series :
       series[j].line = ParsePhase2xx(files[series[j].phase], Duration, BinSeconds)
                            .rows[series[j].bin + 1]

\* The state: the files of the phases of the plan that are over, of each a summary of
\* its file, and its rows.
ReportInv ==
    /\ plan \in Plans
    /\ file \in Seq(FileLine)
    /\ files \in Seq(Seq(FileLine)) /\ Len(files) <= Len(plan)
    /\ phases = [k \in 1 .. Len(files) |-> PhaseOf(k)]
    /\ RowsInOrder(series, plan, Len(files))
    /\ RowsReported

(* A list with one more record. *)
LEMMA OneRecordMore ==
    ASSUME NEW n \in Nat, NEW s, s = [k \in 1 .. n |-> s[k]], NEW x
    PROVE  Append(s, x) = [k \in 1 .. n + 1 |-> IF k = n + 1 THEN x ELSE s[k]]
<1>1. s \in Seq(Range(s)) /\ Len(s) = n
  BY ListIsSequence DEF IsSequence
<1>2. QED
  BY <1>1

(* The phase that is over is the last one of phases.csv. *)
LEMMA PhaseListed ==
    ASSUME ReportInv, EndPhase
    PROVE  (phases = [k \in 1 .. Len(files) |-> PhaseOf(k)])'
<1>0. PICK n, m : n = Len(files) /\ m = Len(files) + 1
  OBVIOUS
<1> DEFINE summary == ParsePhase2xx(file, Duration, BinSeconds).summary
           last == [phase |-> m, algo |-> plan[m].algo, load |-> plan[m].load,
                    summary |-> summary]
<1>1. n = Len(files) /\ n \in Nat /\ m = n + 1 /\ files \in Seq(Seq(FileLine)) /\ file \in Seq(FileLine)
  BY <1>0 DEF ReportInv
<1>2. /\ phases' = Append(phases, last)
      /\ files' = Append(files, file)
      /\ plan' = plan
  BY <1>0 DEF EndPhase
<1>3. /\ Len(files') = m
      /\ \A k \in 1 .. n : files'[k] = files[k]
      /\ files'[m] = file
  BY <1>1, <1>2
<1>4. phases = [k \in 1 .. n |-> PhaseOf(k)]
  BY <1>1 DEF ReportInv
<1>5. \A k \in 1 .. n : phases[k] = PhaseOf(k)
  BY <1>4
<1>6. phases' = [k \in 1 .. m |-> IF k = m THEN last ELSE phases[k]]
  <2>1. phases = [k \in 1 .. n |-> phases[k]]
    BY <1>4, <1>5
  <2>2. QED
    BY <1>1, <1>2, <2>1, OneRecordMore
<1>7. ASSUME NEW k \in 1 .. n
      PROVE  PhaseOf(k)' = PhaseOf(k) /\ k # m
  <2>1. files'[k] = files[k] /\ k # m
    BY <1>1, <1>3
  <2>2. QED
    BY <1>2, <2>1 DEF PhaseOf
<1>8. PhaseOf(m)' = last
  <2>1. PhaseOf(m)' = [phase |-> m, algo |-> plan'[m].algo, load |-> plan'[m].load,
                       summary |-> ParsePhase2xx(files'[m], Duration, BinSeconds).summary]
    BY Zenon DEF PhaseOf
  <2>2. QED
    BY <1>2, <1>3, <2>1, Zenon DEF last
<1>9. \A k \in 1 .. m : k \in 1 .. n \/ k = m
  BY <1>1
<1>10. ASSUME NEW k \in 1 .. m
       PROVE  (IF k = m THEN last ELSE phases[k]) = PhaseOf(k)'
  <2>1. CASE k = m
    BY <1>8, <2>1, Zenon
  <2>2. CASE k # m
    <3>1. k \in 1 .. n
      BY <1>9, <2>2
    <3>2. phases[k] = PhaseOf(k)'
      BY <1>5, <1>7, <3>1, Zenon
    <3>3. QED
      BY <2>2, <3>2, Zenon
  <2>3. QED
    BY <2>1, <2>2
<1>11. phases' = [k \in 1 .. m |-> PhaseOf(k)']
  BY <1>6, <1>10, Zenon
<1>12. QED
  BY <1>3, <1>11, Zenon

(* What it appends to the time series are the rows of that phase. *)
LEMMA RowsListed ==
    ASSUME ReportInv, EndPhase
    PROVE  RowsInOrder(series', plan, Len(files) + 1)
<1> DEFINE n == Len(files)
           report == ParsePhase2xx(file, Duration, BinSeconds)
           rows == PhaseRows(report)
           N == NumBins(Duration, BinSeconds)
<1>1. n \in Nat /\ RowsInOrder(series, plan, n) /\ N \in Nat
  BY NumBinsIsNat DEF ReportInv
<1>2. series' = series \o rows
  BY DEF EndPhase
<1>3. DOMAIN report.rows = 1 .. N
  BY DEF ParsePhase2xx, Report
<1> HIDE DEF report
<1>4. /\ rows = [b \in 1 .. N |-> rows[b]]
      /\ \A b \in 1 .. N :
            /\ rows[b].phase = n + 1 /\ rows[b].bin = b - 1
            /\ rows[b].algo = plan[n + 1].algo /\ rows[b].load = plan[n + 1].load
  BY <1>3 DEF PhaseRows
<1> HIDE DEF rows, N
<1>5. IsSequence(rows) /\ Len(rows) = N /\ DOMAIN rows = 1 .. N
  BY <1>1, <1>4, ListIsSequence
<1>6. RowsOfNext(rows, plan, n)
  BY <1>4, <1>5 DEF RowsOfNext, N
<1>7. QED
  BY <1>1, <1>2, <1>6, RowsAppended

(* They say what the file of that phase says. *)
LEMMA LinesListed ==
    ASSUME ReportInv, EndPhase
    PROVE  RowsReported'
<1>0. PICK n, L : n = Len(files) /\ L = Len(series)
  OBVIOUS
<1> DEFINE report == ParsePhase2xx(file, Duration, BinSeconds)
           rows == PhaseRows(report)
           N == NumBins(Duration, BinSeconds)
           Row(f, b) == ParsePhase2xx(f, Duration, BinSeconds).rows[b]
<1>1. /\ n \in Nat /\ N \in Nat /\ L \in Nat /\ DOMAIN series = 1 .. L
      /\ series \in Seq(Range(series))
      /\ files \in Seq(Seq(FileLine)) /\ n = Len(files)
  BY <1>0, NumBinsIsNat DEF ReportInv, RowsInOrder, IsSequence
<1>2. series' = series \o rows /\ files' = Append(files, file)
  BY DEF EndPhase
<1>3. /\ files'[n + 1] = file
      /\ \A m \in 1 .. n : files'[m] = files[m]
  BY <1>1, <1>2
<1>4. DOMAIN report.rows = 1 .. N
  BY DEF ParsePhase2xx, Report
<1>5. /\ rows = [b \in 1 .. N |-> rows[b]]
      /\ \A b \in 1 .. N : rows[b].phase = n + 1 /\ rows[b].bin = b - 1
                            /\ rows[b].line = Row(file, b)
  <2> HIDE DEF report
  <2>1. /\ rows = [b \in 1 .. N |-> rows[b]]
        /\ \A b \in 1 .. N : rows[b].phase = n + 1 /\ rows[b].bin = b - 1
                              /\ rows[b].line = report.rows[b]
    BY <1>1, <1>4 DEF PhaseRows
  <2>2. QED
    BY <2>1 DEF report
<1> HIDE DEF rows, N, Row
<1>6. /\ DOMAIN series' = 1 .. L + N
      /\ \A j \in 1 .. L : series'[j] = series[j]
      /\ \A j \in L + 1 .. L + N : series'[j] = rows[j - L] /\ j - L \in 1 .. N
  <2>1. IsSequence(rows) /\ Len(rows) = N
    BY <1>1, <1>5, ListIsSequence
  <2>2. IsSequence(series) /\ Len(series) = L
    BY <1>0, <1>1 DEF IsSequence
  <2>3. /\ DOMAIN series' = 1 .. L + N
        /\ \A j \in 1 .. L : series'[j] = series[j]
        /\ \A j \in L + 1 .. L + N : series'[j] = rows[j - L]
    BY <1>2, <2>1, <2>2, Joined
  <2>4. \A j \in L + 1 .. L + N : j - L \in 1 .. N
    BY <1>1
  <2>5. QED
    BY <2>3, <2>4
<1>7. ASSUME NEW j \in 1 .. L
      PROVE  series'[j].line = Row(files'[series'[j].phase], series'[j].bin + 1)
  <2>1. series[j].line = Row(files[series[j].phase], series[j].bin + 1)
    BY <1>1 DEF ReportInv, RowsReported, Row
  <2>2. series[j].phase \in 1 .. n
    BY <1>1 DEF ReportInv, RowsInOrder
  <2>3. QED
    BY <1>3, <1>6, <2>1, <2>2
<1>8. ASSUME NEW j \in L + 1 .. L + N
      PROVE  series'[j].line = Row(files'[series'[j].phase], series'[j].bin + 1)
  <2> DEFINE b == j - L
  <2>1. b \in 1 .. N /\ (b - 1) + 1 = b /\ series'[j] = rows[b]
    BY <1>1, <1>6
  <2> HIDE DEF b
  <2>2. rows[b].phase = n + 1 /\ rows[b].bin + 1 = b /\ rows[b].line = Row(file, b)
    BY <1>5, <2>1
  <2>3. QED
    BY <1>3, <2>1, <2>2
<1>9. \A j \in 1 .. L + N : j \in 1 .. L \/ j \in L + 1 .. L + N
  BY <1>1
<1>10. \A j \in DOMAIN series' :
          series'[j].line = Row(files'[series'[j].phase], series'[j].bin + 1)
  BY <1>6, <1>7, <1>8, <1>9
<1>11. QED
  BY <1>10 DEF RowsReported, Row

(* Every step of an experiment keeps the records of the phases in step with the files:
   no phase is skipped, none is recorded twice, and its summary and its rows are those of
   its file, whichever phases came before.                                   *)
THEOREM ReportInvariant == ReportSpec => []ReportInv
<1>1. ReportInit => ReportInv
  <2>1. SUFFICES ASSUME ReportInit PROVE ReportInv
    OBVIOUS
  <2>2. /\ plan \in Plans /\ file = <<>> /\ files = <<>> /\ series = <<>> /\ phases = <<>>
    BY <2>1 DEF ReportInit
  <2>3. Len(plan) \in Nat
    BY <2>2, PlansAssumption
  <2>4. file \in Seq(FileLine) /\ files \in Seq(Seq(FileLine)) /\ Len(files) = 0
        /\ Len(files) <= Len(plan)
    BY <2>2, <2>3
  <2>5. phases = [k \in 1 .. Len(files) |-> PhaseOf(k)]
    <3>1. 1 .. Len(files) = {}
      BY <2>4
    <3>2. QED
      BY <2>2, <3>1
  <2>6. RowsInOrder(series, plan, Len(files))
    <3>1. DOMAIN series = {} /\ 1 .. Len(files) = {} /\ IsSequence(series)
      BY <2>2, <2>4 DEF IsSequence
    <3>2. QED
      BY <3>1 DEF RowsInOrder
  <2>7. RowsReported
    BY <2>2 DEF RowsReported
  <2>8. QED
    BY <2>2, <2>4, <2>5, <2>6, <2>7 DEF ReportInv
<1>2. ReportInv /\ [ReportNext]_reportVars => ReportInv'
  <2>1. SUFFICES ASSUME ReportInv, [ReportNext]_reportVars PROVE ReportInv'
    OBVIOUS
  <2>2. ASSUME NEW line \in FileLine, WriteLine(line)
        PROVE  ReportInv'
    <3>1. /\ file' = Append(file, line) /\ plan' = plan /\ files' = files
          /\ series' = series /\ phases' = phases
      BY <2>2 DEF WriteLine
    <3>2. file' \in Seq(FileLine)
      BY <2>1, <3>1 DEF ReportInv
    <3>3. \A k : PhaseOf(k)' = PhaseOf(k)
      BY <3>1 DEF PhaseOf
    <3>4. (phases = [k \in 1 .. Len(files) |-> PhaseOf(k)])'
      <4>1. phases' = [k \in 1 .. Len(files') |-> PhaseOf(k)]
        BY <2>1, <3>1 DEF ReportInv
      <4>2. QED
        BY <3>3, <4>1, Zenon
    <3>5. RowsReported'
      BY <2>1, <3>1 DEF ReportInv, RowsReported
    <3>6. QED
      BY <2>1, <3>1, <3>2, <3>4, <3>5 DEF ReportInv
  <2>3. CASE EndPhase
    <3>1. /\ plan' = plan /\ file' = <<>> /\ files' = Append(files, file)
          /\ Len(files) < Len(plan)
      BY <2>3 DEF EndPhase
    <3>2. /\ plan \in Plans /\ file \in Seq(FileLine) /\ files \in Seq(Seq(FileLine))
          /\ Len(plan) \in Nat
      BY <2>1, PlansAssumption DEF ReportInv
    <3>3. /\ files' \in Seq(Seq(FileLine)) /\ Len(files') = Len(files) + 1
          /\ Len(files') <= Len(plan) /\ file' \in Seq(FileLine)
      BY <3>1, <3>2
    <3>4. (phases = [k \in 1 .. Len(files) |-> PhaseOf(k)])'
      BY <2>1, <2>3, PhaseListed
    <3>5. RowsInOrder(series', plan', Len(files'))
      BY <2>1, <2>3, <3>1, <3>3, RowsListed
    <3>6. RowsReported'
      BY <2>1, <2>3, LinesListed
    <3>7. QED
      BY <3>1, <3>2, <3>3, <3>4, <3>5, <3>6 DEF ReportInv
  <2>4. CASE UNCHANGED reportVars
    <3>1. /\ plan' = plan /\ file' = file /\ files' = files
          /\ series' = series /\ phases' = phases
      BY <2>4 DEF reportVars
    <3>2. \A k : PhaseOf(k)' = PhaseOf(k)
      BY <3>1 DEF PhaseOf
    <3>3. (phases = [k \in 1 .. Len(files) |-> PhaseOf(k)])'
      <4>1. phases' = [k \in 1 .. Len(files') |-> PhaseOf(k)]
        BY <2>1, <3>1 DEF ReportInv
      <4>2. QED
        BY <3>2, <4>1, Zenon
    <3>4. RowsReported'
      BY <2>1, <3>1 DEF ReportInv, RowsReported
    <3>5. QED
      BY <2>1, <3>1, <3>3, <3>4 DEF ReportInv
  <2>5. QED
    BY <2>1, <2>2, <2>3, <2>4 DEF ReportNext
<1>3. QED
  BY <1>1, <1>2, PTL DEF ReportSpec

-----------------------------------------------------------------------------
(* The properties of the parsers.                                          *)

(* Every percentile experiment1.py and experiment2.py report, of a phase and of each of
   its bins, is the quantile of the latencies of the successful responses in it,
   whatever quantiles are asked for.                                         *)
THEOREM PercentilesAreExact == ReportSpec => []PercentilesExact
<1>1. ReportInv => PercentilesExact
  BY QuantilesExact DEF ReportInv, PercentilesExact
<1>2. QED
  BY <1>1, ReportInvariant, PTL

(* None of the four parsers loses a response or counts one twice. *)
THEOREM ResponsesAreCounted == ReportSpec => []EveryResponseCounted
<1>1. ReportInv => EveryResponseCounted
  <2>1. SUFFICES ASSUME ReportInv PROVE EveryResponseCounted
    OBVIOUS
  <2>2. file \in Seq(FileLine)
    BY <2>1 DEF ReportInv
  <2>3. \A report \in {ParsePhase(file, Duration, BinSeconds),
                       ParsePhase2xx(file, Duration, BinSeconds),
                       ParseProbePhase(file, Duration, BinSeconds),
                       BuildDeadlinePhase(file, Duration, BinSeconds)} :
           ReportCounts(report, file)
    BY <2>2, ResponsesCounted
  <2>4. QED
    BY <2>3, Zenon DEF EveryResponseCounted, ReportCounts
<1>2. QED
  BY <1>1, ReportInvariant, PTL

(* The deadline report of a phase is never faster than the report experiment1.py wrote
   of it, whatever the deadline, unless a successful response took longer.   *)
THEOREM DeadlineIsFair == ReportSpec => []DeadlineNeverFlatters
<1>1. ReportInv => DeadlineNeverFlatters
  <2> DEFINE ok == \A k \in Succeeded(file, Responses(file)) : file[k].lat <= Deadline
             measured == ParsePhase2xx(file, Duration, BinSeconds)
             mapped == BuildDeadlinePhase(file, Duration, BinSeconds)
  <2>1. ASSUME ReportInv, ok, NEW q \in Quantiles, measured.summary.pct[q] # NoNumber
        PROVE  mapped.summary.pct[q] # NoNumber
               /\ mapped.summary.pct[q] >= measured.summary.pct[q]
    <3>1. file \in Seq(FileLine)
      BY <2>1 DEF ReportInv
    <3>2. IsQuantile(measured.summary.pct[q], q, Latencies(file),
                     Succeeded(file, Responses(file)))
      BY <3>1, QuantilesExact
    <3>3. /\ IsQuantile(mapped.summary.pct[q], q, Mapped(file), Responses(file))
          /\ Responses(file) # {} => mapped.summary.pct[q] \in Int
      BY <3>1, QuantilesMapped
    <3>4. ok
      BY <2>1
    <3> HIDE DEF measured, mapped
    <3>5. QED
      BY <2>1, <3>1, <3>2, <3>3, <3>4, MappedNoLower
  <2>2. QED
    BY <2>1 DEF DeadlineNeverFlatters
<1>2. QED
  BY <1>1, ReportInvariant, PTL

-----------------------------------------------------------------------------
(* Rolling averages.                                                       *)

\* earlier[j] says which rows of the group come before j: as many as its bin says.
PlacedByBin(group, earlier) ==
    \A j \in group : Cardinality(group \cap earlier[j]) = series[j].bin

(* Then the rows around a row are those whose bins are. *)
LEMMA AroundIsByBin ==
    ASSUME ReportInv, NEW i \in DOMAIN series, NEW window \in Nat,
           NEW earlier, PlacedByBin(PhaseGroup(series, i), earlier)
    PROVE  Around(PhaseGroup(series, i), earlier, i, Half(window)) = Neighbours(i, window)
<1> DEFINE G == PhaseGroup(series, i)
           place == [j \in G |-> Cardinality(G \cap earlier[j])]
           half == Half(window)
<1>1. half \in Nat
  BY DEF Half
<1>2. Around(G, earlier, i, half) = {j \in G : place[j] \in place[i] - half .. place[i] + half}
  BY DEF Around
<1>3. \A j \in G : j \in DOMAIN series /\ series[j].bin \in Int /\ place[j] = series[j].bin
  BY NumBinsIsNat DEF PlacedByBin, PhaseGroup, ReportInv, RowsInOrder
<1>4. i \in G
  BY DEF PhaseGroup
<1> HIDE DEF place, half
<1>5. \A j \in G : place[j] \in place[i] - half .. place[i] + half
                     <=> series[j].bin - series[i].bin \in -half .. half
  BY <1>1, <1>3, <1>4
<1>6. Neighbours(i, window) = {j \in G : series[j].bin - series[i].bin \in -half .. half}
  BY DEF Neighbours, PhaseGroup, half
<1>7. QED
  BY <1>2, <1>5, <1>6 DEF half

(* The rows of a phase stand in the order of their bins, none missing. *)
LEMMA PhasePlaced ==
    ASSUME ReportInv, NEW i \in DOMAIN series
    PROVE  /\ PlacedByBin(PhaseGroup(series, i), ByIndex(series))
           /\ PlacedByBin(PhaseGroup(series, i), ByBin(series))
<1> DEFINE G == PhaseGroup(series, i)
           N == NumBins(Duration, BinSeconds)
           Before(j) == {k \in G : k < j}
<1>1. RowsInOrder(series, plan, Len(files)) /\ N \in Nat
  BY NumBinsIsNat DEF ReportInv
<1>2. DOMAIN series \subseteq Int /\ IsFiniteSet(DOMAIN series)
  <2>1. series \in Seq(Range(series))
    BY <1>1 DEF RowsInOrder, IsSequence
  <2>2. Len(series) \in Nat /\ DOMAIN series = 1 .. Len(series)
    BY <2>1
  <2>3. QED
    BY <2>2, FS_Interval
<1>3. \A j \in G : j \in DOMAIN series /\ j \in Int /\ series[j].phase = series[i].phase
  BY <1>2 DEF PhaseGroup
<1>4. /\ \A j \in G : series[j].bin \in 0 .. N - 1 /\ series[j].phase \in 1 .. Len(files)
      /\ \A j, k \in G : k < j <=> series[k].bin < series[j].bin
  BY <1>1, <1>3 DEF RowsInOrder
<1>5. \A b \in 0 .. N - 1 : \E k \in G : series[k].bin = b
  <2>1. series[i].phase \in 1 .. Len(files)
    BY <1>1 DEF RowsInOrder
  <2>2. \A b \in 0 .. N - 1 :
           \E k \in DOMAIN series : series[k].phase = series[i].phase /\ series[k].bin = b
    BY <1>1, <2>1, Zenon DEF RowsInOrder
  <2>3. QED
    BY <2>2 DEF PhaseGroup
<1>6. \A j \in G : Before(j) = G \cap ByIndex(series)[j]
  BY <1>3 DEF ByIndex
<1>7. \A j, k \in G : series[j].bin = series[k].bin => j = k
  BY <1>1, <1>3, <1>4
<1>8. \A j \in G : Before(j) = G \cap ByBin(series)[j]
  BY <1>3, <1>4, <1>7 DEF ByBin
<1>9. ASSUME NEW j \in G
      PROVE  Cardinality(Before(j)) = series[j].bin
  <2> DEFINE B == Before(j)
             n == series[j].bin
             pi == [k \in B |-> series[k].bin]
  <2>1. n \in Nat /\ n <= N - 1
    BY <1>1, <1>4
  <2>2. B \subseteq G /\ B \subseteq DOMAIN series /\ IsFiniteSet(B)
    BY <1>2, <1>3, FS_Subset
  <2>3. pi \in [B -> 0 .. n - 1]
    BY <1>1, <1>4, <2>1
  <2>4. \A k, m \in B : pi[k] = pi[m] => k = m
    BY <1>7
  <2>5. \A b \in 0 .. n - 1 : \E k \in B : pi[k] = b
    <3>1. SUFFICES ASSUME NEW b \in 0 .. n - 1 PROVE \E k \in B : pi[k] = b
      OBVIOUS
    <3>2. b \in 0 .. N - 1 /\ b < n
      BY <1>1, <2>1
    <3>3. PICK k \in G : series[k].bin = b
      BY <1>5, <3>2
    <3>4. k \in B
      BY <1>4, <3>2, <3>3
    <3>5. QED
      BY <3>3, <3>4
  <2>6. Cardinality(0 .. n - 1) = n
    BY <2>1, FS_Interval
  <2> HIDE DEF B, n, pi
  <2>7. Cardinality(B) = Cardinality(0 .. n - 1)
    BY <2>2, <2>3, <2>4, <2>5, SameNumber
  <2>8. QED
    BY <2>6, <2>7 DEF B, n
<1> HIDE DEF G, Before
<1>10. PlacedByBin(G, ByIndex(series)) /\ PlacedByBin(G, ByBin(series))
  BY <1>6, <1>8, <1>9 DEF PlacedByBin
<1>11. QED
  BY <1>10 DEF G

(* A window of one row or none: the row by itself. *)
LEMMA NoNeighbours ==
    ASSUME ReportInv, NEW i \in DOMAIN series, NEW window \in Nat, window <= 1
    PROVE  Neighbours(i, window) = {i}
<1>1. Half(window) = 0
  BY DEF Half
<1>2. RowsInOrder(series, plan, Len(files))
  BY DEF ReportInv
<1>3. \A j \in DOMAIN series : j \in Int /\ series[j].bin \in Int
  BY <1>2, NumBinsIsNat DEF RowsInOrder, IsSequence
<1>4. ASSUME NEW j \in DOMAIN series, series[j].phase = series[i].phase
      PROVE  series[j].bin - series[i].bin \in -Half(window) .. Half(window) <=> j = i
  <2>1. /\ i < j <=> series[i].bin < series[j].bin
        /\ j < i <=> series[j].bin < series[i].bin
    BY <1>2, <1>4 DEF RowsInOrder
  <2>2. QED
    BY <1>1, <1>3, <2>1
<1>5. QED
  BY <1>4 DEF Neighbours

(* As long as no policy runs twice under a load, the rows of a policy and load are those
   of one phase.                                                             *)
LEMMA KeyIsPhase ==
    ASSUME ReportInv, NEW i \in DOMAIN series,
           \A m, n \in DOMAIN plan : plan[m] = plan[n] => m = n
    PROVE  KeyGroup(series, i) = PhaseGroup(series, i)
<1>1. RowsInOrder(series, plan, Len(files)) /\ plan \in Plans
  BY DEF ReportInv
<1>2. \A n \in DOMAIN plan : plan[n] = [algo |-> plan[n].algo, load |-> plan[n].load]
  <2>1. plan \in Seq({[algo |-> plan[n].algo, load |-> plan[n].load] : n \in DOMAIN plan})
    BY <1>1, PlansAssumption
  <2>2. \A n \in DOMAIN plan :
           plan[n] \in {[algo |-> plan[m].algo, load |-> plan[m].load] : m \in DOMAIN plan}
    BY <2>1
  <2>3. QED
    BY <2>2
<1>3. \A j \in DOMAIN series :
         /\ series[j].phase \in DOMAIN plan
         /\ series[j].algo = plan[series[j].phase].algo
         /\ series[j].load = plan[series[j].phase].load
  <2>1. \A m \in 1 .. Len(files) : m \in DOMAIN plan
    <3>1. Len(files) \in Nat /\ Len(files) <= Len(plan)
      BY DEF ReportInv
    <3>2. Len(plan) \in Nat /\ DOMAIN plan = 1 .. Len(plan)
      BY <1>1, PlansAssumption
    <3>3. QED
      BY <3>1, <3>2
  <2>2. QED
    BY <1>1, <2>1 DEF RowsInOrder
<1>4. ASSUME NEW j \in DOMAIN series
      PROVE  PhaseKey(series[j]) = PhaseKey(series[i]) <=> series[j].phase = series[i].phase
  <2>1. ASSUME PhaseKey(series[j]) = PhaseKey(series[i])
        PROVE  series[j].phase = series[i].phase
    <3>1. series[j].algo = series[i].algo /\ series[j].load = series[i].load
      BY <2>1 DEF PhaseKey
    <3>2. plan[series[j].phase] = plan[series[i].phase]
      BY <1>2, <1>3, <3>1
    <3>3. QED
      BY <1>3, <3>2
  <2>2. ASSUME series[j].phase = series[i].phase
        PROVE  PhaseKey(series[j]) = PhaseKey(series[i])
    BY <1>3, <2>2 DEF PhaseKey
  <2>3. QED
    BY <2>1, <2>2
<1>5. QED
  BY <1>4 DEF KeyGroup, PhaseGroup

(* A rolling average takes a row and its neighbours of the same phase, however long the
   window, at the ends of a phase too.                                       *)
THEOREM AveragesStayInPhase == ReportSpec => []SmoothingStaysInPhase
<1>1. ASSUME ReportInv, NEW i \in DOMAIN series, NEW window \in Windows
      PROVE  /\ SmoothByPhase(series, i, window) = Neighbours(i, window)
             /\ SmoothDeadlineRows(series, i, window) = Neighbours(i, window)
             /\ (\A m, n \in DOMAIN plan : plan[m] = plan[n] => m = n) =>
                    SmoothRows(series, i, window) = Neighbours(i, window)
  <2>1. window \in Nat
    BY WindowsAssumption
  <2>2. CASE window <= 1
    BY <1>1, <2>1, <2>2, NoNeighbours DEF SmoothByPhase, SmoothDeadlineRows, SmoothRows
  <2>3. CASE ~(window <= 1)
    <3>1. /\ Around(PhaseGroup(series, i), ByIndex(series), i, Half(window))
                 = Neighbours(i, window)
          /\ Around(PhaseGroup(series, i), ByBin(series), i, Half(window))
                 = Neighbours(i, window)
      BY <1>1, <2>1, PhasePlaced, AroundIsByBin
    <3>2. /\ SmoothByPhase(series, i, window) = Neighbours(i, window)
          /\ SmoothDeadlineRows(series, i, window) = Neighbours(i, window)
      BY <2>3, <3>1 DEF SmoothByPhase, SmoothDeadlineRows
    <3>3. ASSUME \A m, n \in DOMAIN plan : plan[m] = plan[n] => m = n
          PROVE  SmoothRows(series, i, window) = Neighbours(i, window)
      <4>1. KeyGroup(series, i) = PhaseGroup(series, i)
        BY <1>1, <3>3, KeyIsPhase
      <4>2. QED
        BY <2>3, <3>1, <4>1 DEF SmoothRows
    <3>4. QED
      BY <3>2, <3>3
  <2>4. QED
    BY <2>2, <2>3
<1>2. ReportInv => SmoothingStaysInPhase
  BY <1>1 DEF SmoothingStaysInPhase
<1>3. QED
  BY <1>2, ReportInvariant, PTL

-----------------------------------------------------------------------------
(* The totals of the policies.                                             *)

(* The numbers of a summary are numbers. *)
LEMMA SummaryTypes ==
    ASSUME NEW f \in Seq(FileLine)
    PROVE  /\ ParsePhase2xx(f, Duration, BinSeconds).summary.total \in Int
           /\ ParsePhase2xx(f, Duration, BinSeconds).summary.err \in Int
<1> DEFINE latencies == [k \in DOMAIN f |-> SuccessfulLatency(f[k])]
           report == ParsePhase2xx(f, Duration, BinSeconds)
<1>1. /\ Adds(f, latencies, Responses(f))
      /\ report = Report(ReadFile(f, BinSeconds, latencies), Duration, BinSeconds)
  BY LatenciesAreNumbers DEF ParsePhase2xx
<1> HIDE DEF latencies, report
<1>2. report.summary = LineOf(f, latencies, Responses(f))
  BY <1>1, ReportIs
<1>3. Responses(f) \in SUBSET Responses(f)
  OBVIOUS
<1>4. /\ LineOf(f, latencies, Responses(f)).total \in Nat
      /\ LineOf(f, latencies, Responses(f)).err \in Nat
  BY <1>3, LineCounts
<1>5. QED
  BY <1>2, <1>4 DEF report

\* The totals and the errors of the phases, in order; the phases of a policy.
PhaseTotals == [k \in DOMAIN phases |-> phases[k].summary.total]
PhaseErrors == [k \in DOMAIN phases |-> phases[k].summary.err]
PhasesOf(a) == {k \in DOMAIN phases : phases[k].algo = a}

LEMMA PhaseNumbers ==
    ASSUME ReportInv
    PROVE  /\ PhaseTotals \in Seq(Int) /\ PhaseErrors \in Seq(Int)
           /\ Len(PhaseTotals) = Len(PhaseErrors)
           /\ DOMAIN PhaseTotals = DOMAIN phases /\ DOMAIN PhaseErrors = DOMAIN phases
<1> DEFINE n == Len(files)
<1>1. /\ n \in Nat /\ DOMAIN phases = 1 .. n
      /\ \A k \in 1 .. n : files[k] \in Seq(FileLine)
      /\ \A k \in 1 .. n : phases[k] = PhaseOf(k)
  BY DEF ReportInv
<1>2. \A k \in 1 .. n : phases[k].summary.total \in Int /\ phases[k].summary.err \in Int
  BY <1>1, SummaryTypes DEF PhaseOf
<1> HIDE DEF n
<1>3. PhaseTotals \in Seq(Int) /\ Len(PhaseTotals) = n /\ DOMAIN PhaseTotals = 1 .. n
  BY <1>1, <1>2 DEF PhaseTotals
<1>4. PhaseErrors \in Seq(Int) /\ Len(PhaseErrors) = n /\ DOMAIN PhaseErrors = 1 .. n
  BY <1>1, <1>2 DEF PhaseErrors
<1>5. QED
  BY <1>1, <1>3, <1>4

(* Whatever the order in which the policies are added up, every phase is counted
   once.                                                                     *)
LEMMA TotalsAddUp ==
    ASSUME NEW values \in Seq(Int), NEW group, NEW n \in Nat,
           \A m, p \in 1 .. n : m # p => group[m] \cap group[p] = {}
    PROVE  Total([m \in 1 .. n |-> Total(values, group[m])], 1 .. n)
               = Total(values, UNION {group[m] : m \in 1 .. n})
<1> DEFINE outer == [m \in 1 .. n |-> Total(values, group[m])]
           Upto(m) == UNION {group[p] : p \in 1 .. m}
<1>1. \A P : Total(values, P) \in Int
  <2>1. \A P : P \cap {} = {}
    OBVIOUS
  <2>2. QED
    BY <2>1, TotalOfUnion
<1>2. outer \in Seq(Int) /\ Len(outer) = n /\ \A m \in 1 .. n : outer[m] = Total(values, group[m])
  BY <1>1
<1> HIDE DEF outer
<1>3. PICK sum : IsSum(sum, outer, 1 .. n) /\ Total(outer, 1 .. n) = sum[n]
  BY <1>2, TotalIs
<1> DEFINE S == {m \in 0 .. n : sum[m] = Total(values, Upto(m))}
<1>4. 0 \in S
  <2>1. Upto(0) = {}
    OBVIOUS
  <2>2. Total(values, Upto(0)) = 0
    BY <2>1, TotalOfNone, Zenon
  <2> HIDE DEF Upto
  <2>3. QED
    BY <1>3, <2>2 DEF IsSum
<1>5. ASSUME NEW m \in 0 .. n - 1, m \in S PROVE m + 1 \in S
  <2> DEFINE j == m + 1
             P == Upto(m)
             Q == group[j]
  <2>1. j \in 1 .. n /\ j \in 0 .. n /\ j - 1 = m /\ m \in Int
    OBVIOUS
  <2>2. Upto(j) = P \cup Q
    <3>1. \A p : p \in 1 .. j <=> p \in 1 .. m \/ p = j
      BY <2>1
    <3> HIDE DEF j
    <3>2. QED
      BY <3>1
  <2>3. P \cap Q = {}
    <3>1. \A p \in 1 .. m : p \in 1 .. n /\ p # j
      BY <2>1
    <3> HIDE DEF j
    <3>2. QED
      BY <2>1, <3>1
  <2> HIDE DEF j, P, Q, Upto
  <2>4. Total(values, P \cup Q) = Total(values, P) + Total(values, Q)
    BY <2>3, TotalOfUnion
  <2>5. sum[m] = Total(values, P)
    BY <1>5 DEF P
  <2>6. sum[j] = sum[m] + outer[j]
    BY <1>2, <1>3, <2>1 DEF IsSum
  <2>7. sum[j] = Total(values, Upto(j))
    BY <1>2, <2>1, <2>2, <2>4, <2>5, <2>6 DEF Q
  <2>8. j \in S
    BY <2>1, <2>7
  <2>9. QED
    BY <2>8 DEF j
<1> HIDE DEF S
<1>6. n \in S
  <2>1. \A m \in 0 .. n : m \in S
    BY <1>4, <1>5, CountingUp
  <2>2. QED
    BY <2>1
<1>7. sum[n] = Total(values, Upto(n))
  BY <1>6 DEF S
<1>8. QED
  BY <1>3, <1>7, Zenon DEF outer

(* The totals of the policies are those of the phases, in any order, and the overall
   error rate of a policy lies between those of its best and its worst phase, however
   unequal the phases are.                                                   *)
THEOREM AggregatesAreFaithful == ReportSpec => []AggregateFaithful
<1> DEFINE algos == {phases[k].algo : k \in DOMAIN phases}
           n == Cardinality(algos)
<1>1. \A a : /\ AggregateErrors(phases, a).total = Total(PhaseTotals, PhasesOf(a))
             /\ AggregateErrors(phases, a).err = Total(PhaseErrors, PhasesOf(a))
  BY DEF AggregateErrors, PhaseTotals, PhaseErrors, PhasesOf
<1>2. ASSUME ReportInv, NEW order \in Bijection(1 .. n, algos)
      PROVE  Total([m \in 1 .. n |-> AggregateErrors(phases, order[m]).total], 1 .. n)
                 = Total([k \in DOMAIN phases |-> phases[k].summary.total], DOMAIN phases)
  <2>1. n \in Nat
    <3>1. IsFiniteSet(DOMAIN phases)
      BY <1>2, FS_Interval DEF ReportInv
    <3>2. IsFiniteSet(algos)
      <4> DEFINE algo == [k \in DOMAIN phases |-> phases[k].algo]
      <4>1. algo \in Surjection(DOMAIN phases, algos)
        BY DEF Surjection
      <4> HIDE DEF algo, algos
      <4>2. QED
        BY <3>1, <4>1, FS_Surjection
    <3>3. QED
      BY <3>2, FS_CardinalityType
  <2> HIDE DEF n
  <2>2. /\ order \in [1 .. n -> algos]
        /\ \A m, p \in 1 .. n : order[m] = order[p] => m = p
        /\ \A a \in algos : \E m \in 1 .. n : order[m] = a
    BY DEF Bijection, Injection, Surjection, IsInjective
  <2> DEFINE group == [m \in 1 .. n |-> PhasesOf(order[m])]
  <2>3. \A m, p \in 1 .. n : m # p => group[m] \cap group[p] = {}
    BY <2>2 DEF PhasesOf
  <2>4. UNION {group[m] : m \in 1 .. n} = DOMAIN phases
    <3>1. \A k \in DOMAIN phases : \E m \in 1 .. n : k \in group[m]
      BY <2>2 DEF PhasesOf
    <3>2. \A m \in 1 .. n : group[m] \subseteq DOMAIN phases
      BY DEF PhasesOf
    <3> HIDE DEF group
    <3>3. QED
      BY <3>1, <3>2
  <2>5. \A m \in 1 .. n : AggregateErrors(phases, order[m]).total = Total(PhaseTotals, group[m])
    BY <1>1
  <2> HIDE DEF group
  <2>6. Total([m \in 1 .. n |-> Total(PhaseTotals, group[m])], 1 .. n)
            = Total(PhaseTotals, DOMAIN phases)
    BY <1>2, <2>1, <2>3, <2>4, PhaseNumbers, TotalsAddUp, SMTT(30)
  <2>7. [m \in 1 .. n |-> AggregateErrors(phases, order[m]).total]
            = [m \in 1 .. n |-> Total(PhaseTotals, group[m])]
    BY <2>5, Zenon
  <2>8. QED
    BY <2>6, <2>7, Zenon DEF PhaseTotals
<1>3. ASSUME ReportInv, NEW a \in algos
      PROVE  /\ \E k \in PhasesOf(a) :
                    AggregateErrors(phases, a).err * phases[k].summary.total
                        <= phases[k].summary.err * AggregateErrors(phases, a).total
             /\ \E k \in PhasesOf(a) :
                    AggregateErrors(phases, a).err * phases[k].summary.total
                        >= phases[k].summary.err * AggregateErrors(phases, a).total
  <2> DEFINE P == PhasesOf(a)
             e == PhaseErrors
             t == PhaseTotals
             E == Total(e, P)
             T == Total(t, P)
  <2>1. P # {} /\ P \subseteq DOMAIN phases
    BY DEF PhasesOf
  <2>2. /\ e \in Seq(Int) /\ t \in Seq(Int) /\ Len(e) = Len(t)
        /\ P \in SUBSET DOMAIN e /\ P \in SUBSET DOMAIN t
    BY <1>3, <2>1, PhaseNumbers
  <2>3. \A k \in P : /\ e[k] = phases[k].summary.err /\ t[k] = phases[k].summary.total
                     /\ e[k] \in Int /\ t[k] \in Int
    BY <2>1, <2>2 DEF PhaseErrors, PhaseTotals
  <2>4. E \in Int /\ T \in Int
    <3>1. P \cap {} = {}
      OBVIOUS
    <3>2. QED
      BY <2>2, <3>1, TotalOfUnion
  <2>5. AggregateErrors(phases, a).err = E /\ AggregateErrors(phases, a).total = T
    BY <1>1
  <2> HIDE DEF e, t, P
  <2>6. \E k \in P : E * t[k] <= e[k] * T
    BY <2>1, <2>2, TotalsBalance
  <2>7. \E k \in P : T * e[k] <= t[k] * E
    BY <2>1, <2>2, TotalsBalance
  <2> HIDE DEF E, T
  <2>8. \E k \in P : E * t[k] >= e[k] * T
    BY <2>3, <2>4, <2>7
  <2>9. \E k \in P : E * phases[k].summary.total <= phases[k].summary.err * T
    BY <2>3, <2>6
  <2>10. \E k \in P : E * phases[k].summary.total >= phases[k].summary.err * T
    BY <2>3, <2>8
  <2>11. QED
    BY <2>5, <2>9, <2>10 DEF P
<1>4. ReportInv => AggregateFaithful
  BY <1>2, <1>3, Zenon DEF AggregateFaithful, PhasesOf
<1>5. QED
  BY <1>4, ReportInvariant, PTL
=============================================================================
