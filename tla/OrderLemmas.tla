---------------------------- MODULE OrderLemmas ----------------------------
(***************************************************************************)
(* Facts about integers, finite sets and sequences of numbers, which the   *)
(* proofs about the components cite: the largest and the smallest of       *)
(* finitely many integers, counting up to a number, functions defined by   *)
(* recursion on a position, and the rank of a value in a sorted sequence.  *)
(*                                                                         *)
(* All of them rest on the well-foundedness of strict inclusion between    *)
(* finite sets.                                                            *)
(***************************************************************************)
EXTENDS Sorting, FiniteSetTheorems, WellFoundedInduction, TLAPS

(* A non-empty family of subsets of a finite set has a minimal member. *)
LEMMA MinimalMember ==
    ASSUME NEW S, IsFiniteSet(S), NEW F \in SUBSET SUBSET S, F # {}
    PROVE  \E A \in F : \A B \in F : B \subseteq A => B = A
<1>1. F \subseteq FiniteSubsetsOf(S)
  BY FS_Subset DEF FiniteSubsetsOf
<1>2. PICK A \in F : \A B \in F : <<B, A>> \notin StrictSubsetOrdering(S)
  BY <1>1, FS_StrictSubsetOrderingWellFounded, WFMin
<1>3. ASSUME NEW B \in F, B \subseteq A PROVE B = A
  BY <1>2, <1>3 DEF StrictSubsetOrdering
<1>4. QED
  BY <1>3

(* One of finitely many integers is the largest. *)
LEMMA LargestExists ==
    ASSUME NEW S, IsFiniteSet(S), S # {}, NEW f \in [S -> Int]
    PROVE  \E i \in S : \A j \in S : f[i] >= f[j]
<1> DEFINE Above(i) == {j \in S : f[j] > f[i]}
<1> DEFINE F == {Above(i) : i \in S}
<1>1. F \in SUBSET SUBSET S /\ F # {}
  <2>1. \A i \in S : Above(i) \in SUBSET S
    OBVIOUS
  <2>2. PICK i \in S : TRUE
    OBVIOUS
  <2>3. Above(i) \in F
    BY <2>2
  <2> HIDE DEF Above
  <2>4. QED
    BY <2>1, <2>3
<1>2. PICK A \in F : \A B \in F : B \subseteq A => B = A
  <2> HIDE DEF F
  <2>1. QED
    BY <1>1, MinimalMember
<1>3. PICK i \in S : A = Above(i)
  BY <1>2
<1>4. ASSUME NEW j \in S, f[j] > f[i] PROVE FALSE
  <2>1. Above(j) \subseteq A /\ j \in A /\ j \notin Above(j)
    BY <1>3, <1>4
  <2>2. Above(j) \in F
    OBVIOUS
  <2>3. QED
    BY <1>2, <2>1, <2>2
<1>5. QED
  BY <1>4

(* One of finitely many integers is the smallest. *)
LEMMA SmallestExists ==
    ASSUME NEW S, IsFiniteSet(S), S # {}, NEW f \in [S -> Int]
    PROVE  \E i \in S : \A j \in S : f[i] <= f[j]
<1> DEFINE g == [i \in S |-> 0 - f[i]]
<1>1. g \in [S -> Int]
  OBVIOUS
<1>2. PICK i \in S : \A j \in S : g[i] >= g[j]
  BY <1>1, LargestExists
<1>3. \A j \in S : f[i] <= f[j]
  BY <1>2
<1>4. QED
  BY <1>3

(* A finite set of integers has a largest member. *)
LEMMA LargestMember ==
    ASSUME NEW S \in SUBSET Int, IsFiniteSet(S), S # {}
    PROVE  \E i \in S : \A j \in S : i >= j
<1> DEFINE f == [i \in S |-> i]
<1>1. f \in [S -> Int]
  OBVIOUS
<1>2. \E i \in S : \A j \in S : f[i] >= f[j]
  <2> HIDE DEF f
  <2>1. QED
    BY <1>1, LargestExists
<1>3. QED
  BY <1>2

(* A finite set of integers has a smallest member. *)
LEMMA SmallestMember ==
    ASSUME NEW S \in SUBSET Int, IsFiniteSet(S), S # {}
    PROVE  \E i \in S : \A j \in S : i <= j
<1> DEFINE f == [i \in S |-> i]
<1>1. f \in [S -> Int]
  OBVIOUS
<1>2. \E i \in S : \A j \in S : f[i] <= f[j]
  <2> HIDE DEF f
  <2>1. QED
    BY <1>1, SmallestExists
<1>3. QED
  BY <1>2

(* A percentage of the last of n positions is the place of one of them, counted
   from 0.                                                                   *)
LEMMA ScaledIndex ==
    ASSUME NEW n \in Nat \ {0}, NEW percent \in 0 .. 100
    PROVE  ((n - 1) * percent) \div 100 \in 0 .. n - 1
<1> DEFINE m == n - 1
<1>1. m \in Nat /\ percent \in Nat /\ percent <= 100
  OBVIOUS
<1>2. m * percent \in Nat /\ m * percent <= m * 100
  BY <1>1
<1> DEFINE p == m * percent
<1> HIDE DEF m, p
<1>3. p \div 100 \in 0 .. m
  BY <1>1, <1>2 DEF p
<1>4. QED
  BY <1>3 DEF m, p

-----------------------------------------------------------------------------

(* Counting from 0 to n one by one: what holds at 0, and one further whenever it
   holds, holds at n.                                                        *)
LEMMA CountingUp ==
    ASSUME NEW n \in Nat, NEW S, 0 \in S, \A i \in 0 .. n - 1 : i \in S => i + 1 \in S
    PROVE  \A i \in 0 .. n : i \in S
<1> DEFINE T == {i \in 0 .. n : \A j \in 0 .. i : j \in S}
<1>1. T \in SUBSET Int /\ IsFiniteSet(T) /\ 0 \in T
  <2>1. IsFiniteSet(0 .. n)
    BY FS_Interval
  <2>2. QED
    BY <2>1, FS_Subset
<1>2. PICK m \in T : \A j \in T : m >= j
  <2> HIDE DEF T
  <2>1. QED
    BY <1>1, LargestMember
<1>3. m = n
  <2>1. SUFFICES ASSUME m # n PROVE FALSE
    OBVIOUS
  <2>2. m \in 0 .. n - 1 /\ m + 1 \in 0 .. n
    BY <2>1
  <2>3. m + 1 \in S
    BY <2>2
  <2>4. m + 1 \in T
    BY <2>2, <2>3
  <2>5. QED
    BY <1>2, <2>2, <2>4
<1>4. QED
  BY <1>3

\* step[i] says how the value at i follows from the one at i - 1, and f follows step.
IsStep(step, X, n) == step \in [1 .. n -> [X -> X]]
Follows(f, step, X, x0, n) ==
    /\ f \in [0 .. n -> X]
    /\ f[0] = x0
    /\ \A i \in 1 .. n : f[i] = step[i][f[i - 1]]

(* A function of the positions 0 .. n can be defined by its first value and by how
   each value follows from the one before.                                   *)
LEMMA Iteration ==
    ASSUME NEW X, NEW x0 \in X, NEW n \in Nat, NEW step, IsStep(step, X, n)
    PROVE  \E f : Follows(f, step, X, x0, n)
<1>0. step \in [1 .. n -> [X -> X]]
  BY DEF IsStep
<1> DEFINE Upto(m) == {f \in [0 .. m -> X] :
                          f[0] = x0 /\ \A i \in 1 .. m : f[i] = step[i][f[i - 1]]}
           S == {m \in 0 .. n : Upto(m) # {}}
<1> HIDE DEF Upto, S
<1>1. 0 \in S
  <2>1. [i \in 0 .. 0 |-> x0] \in Upto(0)
    BY DEF Upto
  <2>2. QED
    BY <2>1 DEF S
<1>2. ASSUME NEW m \in 0 .. n - 1, m \in S PROVE m + 1 \in S
  <2>1. PICK f \in Upto(m) : TRUE
    BY <1>2 DEF S
  <2>2. m \in Nat /\ m + 1 \in 1 .. n /\ m + 1 \in 0 .. n
    OBVIOUS
  <2>3. f \in [0 .. m -> X] /\ f[0] = x0 /\ \A i \in 1 .. m : f[i] = step[i][f[i - 1]]
    BY <2>1 DEF Upto
  <2>4. f[m] \in X /\ step[m + 1][f[m]] \in X
    BY <1>0, <2>2, <2>3
  <2> DEFINE next == step[m + 1][f[m]]
             g == [i \in 0 .. m + 1 |-> IF i = m + 1 THEN next ELSE f[i]]
  <2> HIDE DEF next
  <2>5. next \in X
    BY <2>4 DEF next
  <2>6. g \in [0 .. m + 1 -> X] /\ g[0] = x0 /\ g[m + 1] = next
        /\ \A i \in 0 .. m : g[i] = f[i]
    BY <2>2, <2>3, <2>5
  <2> HIDE DEF g
  <2>7. ASSUME NEW i \in 1 .. m + 1 PROVE g[i] = step[i][g[i - 1]]
    <3>1. i - 1 \in 0 .. m
      BY <2>2
    <3>2. CASE i = m + 1
      BY <2>2, <2>6, <3>1, <3>2 DEF next
    <3>3. CASE i # m + 1
      BY <2>2, <2>3, <2>6, <3>1, <3>3
    <3>4. QED
      BY <3>2, <3>3
  <2>8. g \in Upto(m + 1)
    BY <2>6, <2>7 DEF Upto
  <2>9. QED
    BY <2>2, <2>8 DEF S
<1>3. n \in S
  <2>1. \A m \in 0 .. n : m \in S
    BY <1>1, <1>2, CountingUp, Zenon
  <2>2. QED
    BY <2>1
<1>4. QED
  BY <1>3 DEF S, Upto, Follows

-----------------------------------------------------------------------------

(* A bijection from a finite set keeps the number of its members. *)
LEMMA SameNumber ==
    ASSUME NEW S, NEW T, IsFiniteSet(S), NEW pi \in [S -> T],
           \A i, j \in S : pi[i] = pi[j] => i = j,
           \A t \in T : \E i \in S : pi[i] = t
    PROVE  IsFiniteSet(T) /\ Cardinality(S) = Cardinality(T)
<1>1. pi \in Bijection(S, T)
  BY DEF Bijection, Injection, Surjection, IsInjective
<1>2. QED
  BY <1>1, FS_Bijection DEF ExistsBijection

\* The first n values of f are integers.
AreInts(f, n) == \A p \in 1 .. n : f[p] \in Int

\* pi permutes the positions 1 .. n.
Permutes(pi, n) ==
    /\ pi \in [1 .. n -> 1 .. n]
    /\ \A p, q \in 1 .. n : pi[p] = pi[q] => p = q
    /\ \A p \in 1 .. n : \E q \in 1 .. n : pi[q] = p

\* The first n values of g ascend.
Ascends(g, n) == \A p, q \in 1 .. n : p <= q => g[p] <= g[q]

\* g has the first n values of f, in ascending order.
Sorts(g, f, n) ==
    /\ Ascends(g, n)
    /\ \E pi : Permutes(pi, n) /\ \A p \in 1 .. n : g[p] = f[pi[p]]

(* The sorted values are some of the values. *)
LEMMA SortedValues ==
    ASSUME NEW n \in Nat, NEW f, NEW g, Sorts(g, f, n), NEW p \in 1 .. n
    PROVE  \E q \in 1 .. n : g[p] = f[q]
<1>1. PICK pi : Permutes(pi, n) /\ \A r \in 1 .. n : g[r] = f[pi[r]]
  BY DEF Sorts
<1>2. pi[p] \in 1 .. n /\ g[p] = f[pi[p]]
  BY <1>1 DEF Permutes
<1>3. QED
  BY <1>2

\* An insertion sort moves v down past the greater of n values, to place j.
IsPlace(j, v, g, n) ==
    /\ j \in 1 .. n + 1
    /\ \A p \in j .. n : v < g[p]
    /\ j > 1 => g[j - 1] <= v

\* h is g with v inserted at place j.
Inserts(h, v, j, g, n) ==
    \A p \in 1 .. n + 1 : h[p] = IF p < j THEN g[p] ELSE IF p = j THEN v ELSE g[p - 1]

\* v has rank k among the first n values of f: no more than k of them are smaller, and
\* more than k are no greater.
HasRank(v, f, n, k) ==
    /\ Cardinality({p \in 1 .. n : f[p] < v}) <= k
    /\ k < Cardinality({p \in 1 .. n : f[p] <= v})

(* There is such a place. *)
LEMMA PlaceExists ==
    ASSUME NEW n \in Nat, NEW g, AreInts(g, n), NEW v \in Int
    PROVE  \E j : IsPlace(j, v, g, n)
<1> DEFINE T == {p \in 1 .. n : g[p] <= v}
<1>1. CASE T = {}
  <2>1. \A p \in 1 .. n : v < g[p]
    BY <1>1 DEF AreInts
  <2>2. IsPlace(1, v, g, n)
    BY <2>1 DEF IsPlace
  <2>3. QED
    BY <2>2
<1>2. CASE T # {}
  <2>1. T \in SUBSET Int /\ IsFiniteSet(T)
    <3>1. IsFiniteSet(1 .. n)
      BY FS_Interval
    <3>2. QED
      BY <3>1, FS_Subset
  <2>2. PICK m \in T : \A p \in T : m >= p
    <3> HIDE DEF T
    <3>1. QED
      BY <1>2, <2>1, LargestMember
  <2>3. \A p \in m + 1 .. n : v < g[p]
    BY <2>2 DEF AreInts
  <2>4. IsPlace(m + 1, v, g, n)
    BY <2>2, <2>3 DEF IsPlace
  <2>5. QED
    BY <2>4
<1>3. QED
  BY <1>1, <1>2

(* One round of an insertion sort sorts one value more. *)
LEMMA InsertSorts ==
    ASSUME NEW n \in Nat, NEW f, AreInts(f, n + 1),
           NEW g, Sorts(g, f, n),
           NEW j, IsPlace(j, f[n + 1], g, n),
           NEW h, Inserts(h, f[n + 1], j, g, n)
    PROVE  Sorts(h, f, n + 1)
<1>0. \A p \in 1 .. n + 1 : h[p] = IF p < j THEN g[p] ELSE IF p = j THEN f[n + 1] ELSE g[p - 1]
  BY DEF Inserts
<1> DEFINE v == f[n + 1]
<1>1. PICK pi : Permutes(pi, n) /\ \A p \in 1 .. n : g[p] = f[pi[p]]
  BY DEF Sorts
<1>2. j \in 1 .. n + 1 /\ (\A p \in j .. n : v < g[p]) /\ (j > 1 => g[j - 1] <= v)
  BY DEF IsPlace
<1>3. /\ pi \in [1 .. n -> 1 .. n]
      /\ \A p, q \in 1 .. n : pi[p] = pi[q] => p = q
      /\ \A p \in 1 .. n : \E q \in 1 .. n : pi[q] = p
  BY <1>1 DEF Permutes
<1>4. v \in Int /\ \A p \in 1 .. n : g[p] \in Int
  <2>1. v \in Int /\ \A p \in 1 .. n : f[p] \in Int
    BY DEF AreInts
  <2>2. ASSUME NEW p \in 1 .. n PROVE g[p] \in Int
    BY <2>1, SortedValues
  <2>3. QED
    BY <2>1, <2>2
<1>5. \A p, q \in 1 .. n : p <= q => g[p] <= g[q]
  BY DEF Sorts, Ascends
<1> DEFINE rho == [p \in 1 .. n + 1 |->
                      IF p < j THEN pi[p] ELSE IF p = j THEN n + 1 ELSE pi[p - 1]]
<1>6. Ascends(h, n + 1)
  <2>1. SUFFICES ASSUME NEW p \in 1 .. n + 1, NEW q \in 1 .. n + 1, p <= q
                 PROVE  h[p] <= h[q]
    BY DEF Ascends
  <2>2. \A r \in 1 .. j - 1 : r \in 1 .. n /\ g[r] <= v
    BY <1>0, <1>2, <1>4, <1>5
  <2>3. \A r \in j + 1 .. n + 1 : r - 1 \in 1 .. n /\ v < g[r - 1]
    BY <1>0, <1>2
  <2>4. CASE q < j
    BY <1>0, <1>2, <1>5, <2>1, <2>2, <2>4
  <2>5. CASE q = j
    BY <1>0, <1>2, <1>4, <2>1, <2>2, <2>5
  <2>6. CASE q > j /\ p < j
    BY <1>0, <1>2, <1>4, <2>1, <2>2, <2>3, <2>6
  <2>7. CASE q > j /\ p = j
    BY <1>0, <1>2, <1>4, <2>1, <2>3, <2>7
  <2>8. CASE q > j /\ p > j
    BY <1>0, <1>2, <1>5, <2>1, <2>3, <2>8
  <2>9. QED
    BY <1>0, <1>2, <2>4, <2>5, <2>6, <2>7, <2>8
<1>7. Permutes(rho, n + 1)
  <2>1. /\ \A p \in 1 .. j - 1 : p \in 1 .. n /\ pi[p] \in 1 .. n /\ rho[p] = pi[p]
        /\ rho[j] = n + 1
        /\ \A p \in j + 1 .. n + 1 :
              p - 1 \in 1 .. n /\ pi[p - 1] \in 1 .. n /\ rho[p] = pi[p - 1]
    <3>1. \A p \in 1 .. j - 1 : p \in 1 .. n /\ p \in 1 .. n + 1 /\ p < j
      BY <1>2
    <3>2. \A p \in j + 1 .. n + 1 :
             p - 1 \in 1 .. n /\ p \in 1 .. n + 1 /\ ~(p < j) /\ p # j
      BY <1>2
    <3>3. \A p \in 1 .. n : pi[p] \in 1 .. n
      BY <1>3
    <3>4. ~(j < j)
      BY <1>2
    <3>5. QED
      BY <1>2, <3>1, <3>2, <3>3, <3>4
  <2>2. DOMAIN rho = 1 .. n + 1 /\ rho = [p \in 1 .. n + 1 |-> rho[p]]
    OBVIOUS
  <2> HIDE DEF rho
  <2>3. rho \in [1 .. n + 1 -> 1 .. n + 1]
    <3>1. \A p \in 1 .. n + 1 : rho[p] \in 1 .. n + 1
      BY <1>2, <2>1
    <3>2. QED
      BY <2>2, <3>1
  <2>4. ASSUME NEW p \in 1 .. n + 1, NEW q \in 1 .. n + 1, rho[p] = rho[q] PROVE p = q
    <3>1. (p = j) <=> (rho[p] = n + 1)
      BY <1>2, <2>1
    <3>2. (q = j) <=> (rho[q] = n + 1)
      BY <1>2, <2>1
    <3>3. CASE p = j \/ q = j
      BY <2>4, <3>1, <3>2, <3>3
    <3>4. CASE p < j /\ q < j
      BY <1>2, <1>3, <2>1, <2>4, <3>4
    <3>5. CASE p < j /\ q > j
      <4>1. pi[p] = pi[q - 1] /\ p \in 1 .. n /\ q - 1 \in 1 .. n
        BY <1>2, <2>1, <2>4, <3>5
      <4>2. p = q - 1
        BY <4>1, <1>3
      <4>3. QED
        BY <1>2, <3>5, <4>2
    <3>6. CASE p > j /\ q < j
      <4>1. pi[p - 1] = pi[q] /\ p - 1 \in 1 .. n /\ q \in 1 .. n
        BY <1>2, <2>1, <2>4, <3>6
      <4>2. p - 1 = q
        BY <4>1, <1>3
      <4>3. QED
        BY <1>2, <3>6, <4>2
    <3>7. CASE p > j /\ q > j
      <4>1. pi[p - 1] = pi[q - 1] /\ p - 1 \in 1 .. n /\ q - 1 \in 1 .. n
        BY <1>2, <2>1, <2>4, <3>7
      <4>2. p - 1 = q - 1
        BY <4>1, <1>3
      <4>3. QED
        BY <4>2
    <3>8. QED
      BY <1>2, <3>3, <3>4, <3>5, <3>6, <3>7
  <2>5. ASSUME NEW p \in 1 .. n + 1 PROVE \E q \in 1 .. n + 1 : rho[q] = p
    <3>1. CASE p = n + 1
      BY <1>2, <2>1, <3>1
    <3>2. CASE p # n + 1
      <4>1. PICK q \in 1 .. n : pi[q] = p
        BY <1>3, <3>2
      <4>2. CASE q < j
        BY <1>2, <2>1, <4>1, <4>2
      <4>3. CASE q >= j
        <5>1. q + 1 \in j + 1 .. n + 1
          BY <1>2, <4>3
        <5>2. rho[q + 1] = pi[(q + 1) - 1] /\ (q + 1) - 1 = q
          BY <2>1, <5>1
        <5>3. QED
          BY <1>2, <4>1, <5>1, <5>2
      <4>4. QED
        BY <1>2, <4>2, <4>3
    <3>3. QED
      BY <3>1, <3>2
  <2>6. QED
    BY <2>3, <2>4, <2>5 DEF Permutes
<1>8. ASSUME NEW p \in 1 .. n + 1 PROVE h[p] = f[rho[p]]
  <2>1. CASE p < j
    <3>1. p \in 1 .. n
      BY <1>2, <2>1
    <3>2. QED
      BY <1>0, <1>1, <2>1, <3>1
  <2>2. CASE p = j
    BY <1>0, <1>2, <2>2
  <2>3. CASE p > j
    <3>1. p - 1 \in 1 .. n /\ ~(p < j) /\ p # j
      BY <1>2, <2>3
    <3>2. QED
      BY <1>0, <1>1, <3>1
  <2>4. QED
    BY <1>2, <2>1, <2>2, <2>3
<1>9. QED
  <2> HIDE DEF rho
  <2>1. QED
    BY <1>6, <1>7, <1>8 DEF Sorts

(* Finitely many integers can be sorted. *)
LEMMA SortExists ==
    ASSUME NEW n \in Nat, NEW f, AreInts(f, n)
    PROVE  \E pi : Permutes(pi, n) /\ \A p, q \in 1 .. n : p <= q => f[pi[p]] <= f[pi[q]]
<1> DEFINE S == {m \in 0 .. n : \E g : Sorts(g, f, m)}
<1>1. 0 \in S
  <2> DEFINE e == [p \in 1 .. 0 |-> 0]
  <2>1. Permutes(e, 0) /\ Ascends(e, 0) /\ \A p \in 1 .. 0 : e[p] = f[e[p]]
    BY DEF Permutes, Ascends
  <2> HIDE DEF e
  <2>2. Sorts(e, f, 0)
    BY <2>1 DEF Sorts
  <2>3. QED
    BY <2>2
<1>2. ASSUME NEW m \in 0 .. n - 1, m \in S PROVE m + 1 \in S
  <2>1. /\ m \in Nat /\ m + 1 \in 0 .. n /\ AreInts(f, m + 1)
        /\ f[m + 1] \in Int /\ \A p \in 1 .. m : f[p] \in Int
    BY DEF AreInts
  <2>2. PICK g : Sorts(g, f, m)
    BY <1>2
  <2>3. AreInts(g, m)
    <3>1. ASSUME NEW p \in 1 .. m PROVE g[p] \in Int
      <4>1. PICK q \in 1 .. m : g[p] = f[q]
        BY <2>1, <2>2, SortedValues
      <4>2. QED
        BY <2>1, <4>1
    <3>2. QED
      BY <3>1 DEF AreInts
  <2>4. PICK j : IsPlace(j, f[m + 1], g, m)
    BY <2>1, <2>3, PlaceExists
  <2> DEFINE h == [p \in 1 .. m + 1 |->
                      IF p < j THEN g[p] ELSE IF p = j THEN f[m + 1] ELSE g[p - 1]]
  <2>5. Inserts(h, f[m + 1], j, g, m)
    BY DEF Inserts
  <2> HIDE DEF h
  <2>6. Sorts(h, f, m + 1)
    BY <2>1, <2>2, <2>4, <2>5, InsertSorts
  <2>7. QED
    BY <2>1, <2>6
<1>3. PICK g : Sorts(g, f, n)
  <2> HIDE DEF S
  <2>1. \A m \in 0 .. n : m \in S
    BY <1>1, <1>2, CountingUp, Zenon
  <2>2. QED
    BY <2>1 DEF S
<1>4. PICK pi : Permutes(pi, n) /\ \A p \in 1 .. n : g[p] = f[pi[p]]
  BY <1>3 DEF Sorts
<1>5. ASSUME NEW p \in 1 .. n, NEW q \in 1 .. n, p <= q PROVE f[pi[p]] <= f[pi[q]]
  BY <1>3, <1>4, <1>5 DEF Sorts, Ascends
<1>6. QED
  BY <1>4, <1>5

(* The value at position k + 1 of the sorted values has the rank k. *)
LEMMA SortedRank ==
    ASSUME NEW n \in Nat, NEW f, AreInts(f, n),
           NEW g, Sorts(g, f, n), NEW k \in 0 .. n - 1
    PROVE  /\ g[k + 1] \in Int
           /\ \E p \in 1 .. n : g[k + 1] = f[p]
           /\ HasRank(g[k + 1], f, n, k)
<1> DEFINE v == g[k + 1]
           Less(x) == {p \in 1 .. n : x[p] < v}
           UpTo(x) == {p \in 1 .. n : x[p] <= v}
<1>1. PICK pi : Permutes(pi, n) /\ \A p \in 1 .. n : g[p] = f[pi[p]]
  BY DEF Sorts
<1>2. /\ pi \in [1 .. n -> 1 .. n]
      /\ \A p, q \in 1 .. n : pi[p] = pi[q] => p = q
      /\ \A p \in 1 .. n : \E q \in 1 .. n : pi[q] = p
  BY <1>1 DEF Permutes
<1>3. k + 1 \in 1 .. n /\ \A p \in 1 .. n : g[p] \in Int
  <2>1. ASSUME NEW p \in 1 .. n PROVE g[p] \in Int
    BY SortedValues DEF AreInts
  <2>2. QED
    BY <2>1
<1>4. v \in Int /\ \E p \in 1 .. n : v = f[p]
  BY <1>3, SortedValues
<1>5. \A p, q \in 1 .. n : p <= q => g[p] <= g[q]
  BY DEF Sorts, Ascends
<1>6. IsFiniteSet(1 .. n)
  BY FS_Interval
<1>7. \A x : /\ IsFiniteSet(Less(x)) /\ IsFiniteSet(UpTo(x))
             /\ Cardinality(Less(x)) \in Nat /\ Cardinality(UpTo(x)) \in Nat
  BY <1>6, FS_Subset, FS_CardinalityType
<1>8. Cardinality(Less(g)) = Cardinality(Less(f))
  <2> DEFINE sigma == [p \in Less(g) |-> pi[p]]
  <2>1. sigma \in [Less(g) -> Less(f)]
    BY <1>1, <1>2
  <2>2. \A p, q \in Less(g) : sigma[p] = sigma[q] => p = q
    BY <1>2
  <2>3. ASSUME NEW t \in Less(f) PROVE \E p \in Less(g) : sigma[p] = t
    <3>1. PICK p \in 1 .. n : pi[p] = t
      BY <1>2
    <3>2. p \in Less(g)
      BY <1>1, <3>1
    <3>3. QED
      BY <3>1, <3>2
  <2> HIDE DEF sigma, Less
  <2>4. QED
    BY <1>7, <2>1, <2>2, <2>3, SameNumber
<1>9. Cardinality(UpTo(g)) = Cardinality(UpTo(f))
  <2> DEFINE sigma == [p \in UpTo(g) |-> pi[p]]
  <2>1. sigma \in [UpTo(g) -> UpTo(f)]
    BY <1>1, <1>2
  <2>2. \A p, q \in UpTo(g) : sigma[p] = sigma[q] => p = q
    BY <1>2
  <2>3. ASSUME NEW t \in UpTo(f) PROVE \E p \in UpTo(g) : sigma[p] = t
    <3>1. PICK p \in 1 .. n : pi[p] = t
      BY <1>2
    <3>2. p \in UpTo(g)
      BY <1>1, <3>1
    <3>3. QED
      BY <3>1, <3>2
  <2> HIDE DEF sigma, UpTo
  <2>4. QED
    BY <1>7, <2>1, <2>2, <2>3, SameNumber
<1>10. Cardinality(1 .. k) = k /\ Cardinality(1 .. k + 1) = k + 1
       /\ IsFiniteSet(1 .. k) /\ IsFiniteSet(1 .. k + 1)
  BY FS_Interval
<1>11. Less(g) \subseteq 1 .. k
  <2>1. SUFFICES ASSUME NEW p \in 1 .. n, g[p] < v, p > k PROVE FALSE
    OBVIOUS
  <2>2. k + 1 <= p
    BY <2>1
  <2>3. v <= g[p]
    BY <1>3, <1>5, <2>2
  <2>4. QED
    BY <1>3, <1>4, <2>1, <2>3
<1>12. 1 .. k + 1 \subseteq UpTo(g)
  BY <1>3, <1>5
<1>13. Cardinality(Less(g)) <= k
  <2> HIDE DEF Less
  <2>1. QED
    BY <1>10, <1>11, FS_Subset
<1>14. k + 1 <= Cardinality(UpTo(g))
  <2>1. IsFiniteSet(UpTo(g)) /\ 1 .. k + 1 \in SUBSET UpTo(g)
    BY <1>7, <1>12
  <2> HIDE DEF UpTo
  <2>2. Cardinality(1 .. k + 1) <= Cardinality(UpTo(g))
    BY <2>1, FS_Subset
  <2>3. QED
    BY <1>10, <2>2
<1>15. QED
  <2>1. Cardinality(Less(f)) <= k
    BY <1>8, <1>13
  <2>2. k < Cardinality(UpTo(f))
    <3>1. Cardinality(UpTo(f)) \in Nat /\ k + 1 <= Cardinality(UpTo(f))
      BY <1>7, <1>9, <1>14
    <3> HIDE DEF UpTo
    <3>2. QED
      BY <3>1
  <2>3. QED
    BY <1>4, <2>1, <2>2 DEF HasRank

(* What SortInts puts at position k + 1 is a value of the rank k. *)
LEMMA SortIntsRank ==
    ASSUME NEW values \in Seq(Int), NEW k \in 0 .. Len(values) - 1
    PROVE  /\ SortInts(values)[k + 1] \in Int
           /\ \E p \in 1 .. Len(values) : SortInts(values)[k + 1] = values[p]
           /\ HasRank(SortInts(values)[k + 1], values, Len(values), k)
<1> DEFINE n == Len(values)
           j == k + 1
           Fits(v) == /\ Cardinality({i \in 1 .. n : values[i] < v}) < j
                      /\ Cardinality({i \in 1 .. n : values[i] <= v}) >= j
<1>1. n \in Nat /\ DOMAIN values = 1 .. n /\ j \in 1 .. n /\ AreInts(values, n)
  BY DEF AreInts
<1>2. IsFiniteSet(1 .. n)
  BY <1>1, FS_Interval
<1>3. ASSUME NEW v PROVE HasRank(v, values, n, k) <=> Fits(v)
  <2> DEFINE A == {i \in 1 .. n : values[i] < v}
             B == {i \in 1 .. n : values[i] <= v}
  <2>1. Cardinality(A) \in Nat /\ Cardinality(B) \in Nat
    BY <1>2, FS_Subset, FS_CardinalityType
  <2>2. (HasRank(v, values, n, k) <=> Cardinality(A) <= k /\ k < Cardinality(B))
        /\ (Fits(v) <=> Cardinality(A) < j /\ Cardinality(B) >= j)
    BY DEF HasRank
  <2> HIDE DEF A, B, Fits
  <2>3. QED
    BY <1>1, <2>1, <2>2
<1>4. SortInts(values)[j] = CHOOSE v \in Range(values) : Fits(v)
  BY <1>1 DEF SortInts
<1>5. \E v \in Range(values) : Fits(v)
  <2>1. PICK pi : Permutes(pi, n) /\ \A p, q \in 1 .. n : p <= q => values[pi[p]] <= values[pi[q]]
    BY <1>1, SortExists
  <2> DEFINE g == [p \in 1 .. n |-> values[pi[p]]]
  <2>2. Sorts(g, values, n)
    BY <2>1 DEF Sorts, Ascends
  <2> HIDE DEF g
  <2>3. (\E p \in 1 .. n : g[k + 1] = values[p]) /\ HasRank(g[k + 1], values, n, k)
    <3>1. n \in Nat /\ k \in 0 .. n - 1 /\ AreInts(values, n) /\ Sorts(g, values, n)
      BY <1>1, <2>2
    <3> HIDE DEF n
    <3>2. /\ g[k + 1] \in Int
          /\ \E p \in 1 .. n : g[k + 1] = values[p]
          /\ HasRank(g[k + 1], values, n, k)
      BY <3>1, SortedRank, Zenon
    <3>3. QED
      BY <3>2
  <2>4. g[k + 1] \in Range(values) /\ Fits(g[k + 1])
    <3> HIDE DEF Fits
    <3>1. QED
      BY <1>1, <1>3, <2>3 DEF Range
  <2>5. QED
    BY <2>4
<1>6. SortInts(values)[j] \in Range(values) /\ Fits(SortInts(values)[j])
  <2> HIDE DEF Fits
  <2>1. QED
    BY <1>4, <1>5
<1>7. \E p \in 1 .. n : SortInts(values)[j] = values[p]
  BY <1>1, <1>6 DEF Range
<1>8. QED
  <2> HIDE DEF Fits
  <2>1. QED
    BY <1>1, <1>3, <1>6, <1>7 DEF AreInts

(* Only one value has a rank. *)
LEMMA OneOfARank ==
    ASSUME NEW n \in Nat, NEW f, AreInts(f, n), NEW k \in Int,
           NEW v \in Int, HasRank(v, f, n, k), NEW w \in Int, HasRank(w, f, n, k)
    PROVE  ~(v < w)
<1> DEFINE A == {p \in 1 .. n : f[p] <= v}
           B == {p \in 1 .. n : f[p] < w}
<1>1. SUFFICES ASSUME v < w PROVE FALSE
  OBVIOUS
<1>2. A \subseteq B
  BY <1>1 DEF AreInts
<1>3. IsFiniteSet(B)
  <2>1. IsFiniteSet(1 .. n) /\ B \subseteq 1 .. n
    BY FS_Interval
  <2>2. QED
    BY <2>1, FS_Subset
<1>4. k < Cardinality(A) /\ Cardinality(B) <= k
  BY DEF HasRank
<1> HIDE DEF A, B
<1>5. Cardinality(A) <= Cardinality(B) /\ Cardinality(A) \in Nat /\ Cardinality(B) \in Nat
  BY <1>2, <1>3, FS_Subset, FS_CardinalityType
<1>6. QED
  BY <1>4, <1>5

(* Hence SortInts, which is given by ranks, sorts: it returns the values it is given, each as
   often, in ascending order.                                                *)
LEMMA SortIntsSorts ==
    ASSUME NEW values \in Seq(Int)
    PROVE  Sorts(SortInts(values), values, Len(values))
<1> DEFINE n == Len(values)
           sorted == SortInts(values)
<1>1. n \in Nat /\ AreInts(values, n)
  BY DEF AreInts
<1>2. PICK pi : Permutes(pi, n) /\ \A p, q \in 1 .. n : p <= q => values[pi[p]] <= values[pi[q]]
  BY <1>1, SortExists
<1> DEFINE g == [p \in 1 .. n |-> values[pi[p]]]
<1>3. Sorts(g, values, n)
  BY <1>2 DEF Sorts, Ascends
<1> HIDE DEF g
<1>4. ASSUME NEW p \in 1 .. n
      PROVE  sorted[p] = g[p]
  <2> DEFINE k == p - 1
  <2>1. k \in 0 .. n - 1 /\ k \in Int /\ k + 1 = p
    BY <1>1
  <2> HIDE DEF k
  <2>2. sorted[k + 1] \in Int /\ HasRank(sorted[k + 1], values, n, k)
    BY <2>1, SortIntsRank
  <2>3. g[k + 1] \in Int /\ HasRank(g[k + 1], values, n, k)
    BY <1>1, <1>3, <2>1, SortedRank
  <2> HIDE DEF sorted, n
  <2>4. ~(sorted[k + 1] < g[k + 1]) /\ ~(g[k + 1] < sorted[k + 1])
    BY <1>1, <2>1, <2>2, <2>3, OneOfARank
  <2>5. QED
    BY <2>1, <2>2, <2>3, <2>4
<1> HIDE DEF sorted, n
<1>5. Ascends(sorted, n)
  BY <1>3, <1>4 DEF Sorts, Ascends
<1>6. Sorts(sorted, values, n)
  BY <1>3, <1>4, <1>5 DEF Sorts
<1>7. QED
  BY <1>6 DEF sorted, n
=============================================================================
