----------------------- MODULE OrderedParallelProofs -----------------------
(***************************************************************************)
(* Theorems of OrderedParallel, for any number of workers, any window, any *)
(* keys and inputs of any length, of StructuralSegmentation, for texts of  *)
(* any length and any options, and of GraphAnalysis, for graphs of any     *)
(* size. They share the induction over data.                               *)
(***************************************************************************)
EXTENDS OrderedParallel, StructuralSegmentation, GraphAnalysis, FiniteSetTheorems,
        SequenceTheorems, WellFoundedInduction, TLAPS

-----------------------------------------------------------------------------

(* Every set of numbers that is not empty has a least element: induction   *)
(* over data is argued from it.                                            *)
LEMMA LeastNumber ==
  ASSUME NEW T \in SUBSET Nat, T # {}
  PROVE  \E n \in T : \A m \in T : n <= m
<1> DEFINE R == {ss \in Nat \X Nat : ss[1] < ss[2]}
<1>1. IsWellFoundedOn(R, Nat)
  BY NatLessThanWellFounded DEF OpToRel
<1>2. PICK x \in T : \A y \in T : ~(<<y, x>> \in R)
  <2> HIDE DEF R
  <2> QED BY <1>1, WFMin
<1>3. ASSUME NEW y \in T PROVE x <= y
  <2>1. x \in Nat /\ y \in Nat
    OBVIOUS
  <2>2. ~(y < x)
    BY <1>2, <2>1
  <2> QED BY <2>1, <2>2
<1> QED BY <1>3

LEMMA SetInduction ==
  ASSUME NEW T \in SUBSET Nat, 0 \in T, \A n \in T : n + 1 \in T
  PROVE  T = Nat
<1> SUFFICES ASSUME T # Nat PROVE FALSE
  OBVIOUS
<1>1. PICK n \in Nat \ T : \A m \in Nat \ T : n <= m
  BY LeastNumber
<1>2. n # 0 /\ n - 1 \in Nat
  OBVIOUS
<1>3. n - 1 \in T
  BY <1>1, <1>2
<1> QED BY <1>2, <1>3

-----------------------------------------------------------------------------
(* The stable sort.                                                        *)

LEMMA KeysCompare ==
  ASSUME NEW jobs \in Seq(Jobs), NEW i \in DOMAIN jobs
  PROVE  jobs[i] \in Jobs /\ jobs[i].order \in Nat
<1>1. jobs[i] \in Jobs
  OBVIOUS
<1>2. \A job \in Jobs : job.order \in Keys
  BY DEF Jobs
<1> QED BY <1>1, <1>2, OrderedParallelAssumption

(* Every position has a rank of its own, and the ranks fill the domain.    *)
LEMMA RanksFill ==
  ASSUME NEW jobs \in Seq(Jobs)
  PROVE  /\ \A k \in DOMAIN jobs : \E i \in DOMAIN jobs : Rank(jobs, i) = k
         /\ \A i, j \in DOMAIN jobs :
              /\ Rank(jobs, i) \in DOMAIN jobs
              /\ i # j /\ Precedes(jobs, i, j) => Rank(jobs, i) < Rank(jobs, j)
<1> DEFINE D == DOMAIN jobs
           Upto(i) == {j \in D : Precedes(jobs, j, i)}
           rank == [i \in D |-> Rank(jobs, i)]
<1>1. /\ Len(jobs) \in Nat /\ D = 1..Len(jobs) /\ IsFiniteSet(D)
      /\ Cardinality(D) = Len(jobs)
  <2>1. Len(jobs) \in Nat /\ D = 1..Len(jobs)
    OBVIOUS
  <2>2. /\ IsFiniteSet(1..Len(jobs))
        /\ Cardinality(1..Len(jobs)) = IF 1 > Len(jobs) THEN 0 ELSE Len(jobs) - 1 + 1
    BY <2>1, FS_Interval
  <2> QED BY <2>1, <2>2
<1>2. \A i \in D : jobs[i].order \in Nat
  BY KeysCompare
<1>3. \A i, j \in D : i # j /\ Precedes(jobs, i, j) => ~ Precedes(jobs, j, i)
  BY <1>1, <1>2 DEF Precedes, Before
<1>4. \A i, j \in D : Precedes(jobs, i, j) \/ Precedes(jobs, j, i)
  BY <1>1, <1>2 DEF Precedes, Before
<1>5. \A i, j, k \in D : Precedes(jobs, i, j) /\ Precedes(jobs, j, k) => Precedes(jobs, i, k)
  BY <1>1, <1>2 DEF Precedes, Before
<1>6. \A i \in D : /\ Upto(i) \in SUBSET D /\ i \in Upto(i)
                   /\ IsFiniteSet(Upto(i)) /\ Rank(jobs, i) = Cardinality(Upto(i))
                   /\ Rank(jobs, i) \in 1..Len(jobs)
  <2> SUFFICES ASSUME NEW i \in D
               PROVE  /\ Upto(i) \in SUBSET D /\ i \in Upto(i)
                      /\ IsFiniteSet(Upto(i)) /\ Rank(jobs, i) = Cardinality(Upto(i))
                      /\ Rank(jobs, i) \in 1..Len(jobs)
    OBVIOUS
  <2>1. Upto(i) \in SUBSET D /\ i \in Upto(i)
    BY <1>4
  <2>2. Rank(jobs, i) = Cardinality(Upto(i))
    BY DEF Rank
  <2> HIDE DEF Upto, D
  <2>3. /\ IsFiniteSet(Upto(i)) /\ Cardinality(Upto(i)) <= Cardinality(D)
        /\ Cardinality(Upto(i)) \in Nat
    BY <2>1, <1>1, FS_Subset, FS_CardinalityType
  <2>4. Cardinality(Upto(i)) # 0
    BY <2>1, <2>3, FS_EmptySet
  <2> QED BY <2>1, <2>2, <2>3, <2>4, <1>1
<1>7. ASSUME NEW i \in D, NEW j \in D, i # j, Precedes(jobs, i, j)
      PROVE  Rank(jobs, i) < Rank(jobs, j)
  <2>1. Upto(i) \subseteq Upto(j) /\ j \notin Upto(i) /\ j \in Upto(j)
    BY <1>3, <1>5, <1>6, <1>7
  <2> HIDE DEF Upto, D
  <2>2. /\ Cardinality(Upto(i)) <= Cardinality(Upto(j))
        /\ Cardinality(Upto(i)) # Cardinality(Upto(j))
    BY <2>1, <1>6, FS_Subset
  <2> QED BY <2>2, <1>6
<1>8. rank \in Injection(D, D)
  <2>1. rank \in [D -> D]
    BY <1>1, <1>6
  <2>2. \A i, j \in D : rank[i] = rank[j] => i = j
    <3> SUFFICES ASSUME NEW i \in D, NEW j \in D, i # j PROVE rank[i] # rank[j]
      OBVIOUS
    <3>1. Rank(jobs, i) < Rank(jobs, j) \/ Rank(jobs, j) < Rank(jobs, i)
      BY <1>4, <1>7
    <3>2. Rank(jobs, i) \in 1..Len(jobs) /\ Rank(jobs, j) \in 1..Len(jobs)
      BY <1>6
    <3> QED BY <3>1, <3>2, <1>1
  <2> QED BY <2>1, <2>2 DEF Injection, IsInjective
<1>9. rank \in Surjection(D, D)
  <2> HIDE DEF rank, D
  <2> QED BY <1>1, <1>8, FS_Injection
<1>10. \A k \in D : \E i \in D : Rank(jobs, i) = k
  BY <1>9 DEF Surjection
<1> QED BY <1>1, <1>6, <1>7, <1>10

(* Sorting permutes the jobs and leaves them in order.                     *)
LEMMA SortedIs ==
  ASSUME NEW jobs \in Seq(Jobs)
  PROVE  \E at \in [DOMAIN jobs -> DOMAIN jobs] :
           /\ Sorted(jobs) = [k \in DOMAIN jobs |-> jobs[at[k]]]
           /\ \A i \in DOMAIN jobs : \E k \in DOMAIN jobs : at[k] = i
           /\ \A k, l \in DOMAIN jobs : at[k] = at[l] => k = l
           /\ \A k, l \in DOMAIN jobs :
                k < l => jobs[at[k]].order <= jobs[at[l]].order
<1> DEFINE D == DOMAIN jobs
           at == [k \in D |-> CHOOSE i \in D : Rank(jobs, i) = k]
<1>1. D = 1..Len(jobs) /\ Len(jobs) \in Nat
  OBVIOUS
<1>2. \A k \in D : at[k] \in D /\ Rank(jobs, at[k]) = k
  BY RanksFill
<1>3. at \in [D -> D]
  BY <1>2
<1>4. Sorted(jobs) = [k \in D |-> jobs[at[k]]]
  BY DEF Sorted
<1>5. \A i, j \in D : Rank(jobs, i) = Rank(jobs, j) => i = j
  <2> SUFFICES ASSUME NEW i \in D, NEW j \in D, i # j
               PROVE  Rank(jobs, i) # Rank(jobs, j)
    OBVIOUS
  <2>1. Precedes(jobs, i, j) \/ Precedes(jobs, j, i)
    <3>1. jobs[i].order \in Nat /\ jobs[j].order \in Nat
      BY KeysCompare
    <3> QED BY <1>1, <3>1 DEF Precedes, Before
  <2>2. /\ Rank(jobs, i) \in Nat /\ Rank(jobs, j) \in Nat
        /\ Precedes(jobs, i, j) => Rank(jobs, i) < Rank(jobs, j)
        /\ Precedes(jobs, j, i) => Rank(jobs, j) < Rank(jobs, i)
    <3>1. Rank(jobs, i) \in D /\ Rank(jobs, j) \in D
      BY RanksFill
    <3>2. /\ Precedes(jobs, i, j) => Rank(jobs, i) < Rank(jobs, j)
          /\ Precedes(jobs, j, i) => Rank(jobs, j) < Rank(jobs, i)
      BY RanksFill
    <3>3. Rank(jobs, i) \in Nat /\ Rank(jobs, j) \in Nat
      BY <1>1, <3>1
    <3> QED BY <3>2, <3>3
  <2> QED BY <2>1, <2>2
<1> HIDE DEF at
<1>6. \A i \in D : at[Rank(jobs, i)] = i
  BY <1>2, <1>5, RanksFill
<1>7. ASSUME NEW k \in D, NEW l \in D, k < l
      PROVE  jobs[at[k]].order <= jobs[at[l]].order
  <2>1. at[k] \in D /\ at[l] \in D /\ at[k] # at[l]
    BY <1>1, <1>2, <1>7
  <2>2. ~ Precedes(jobs, at[l], at[k])
    <3>1. Precedes(jobs, at[l], at[k]) => l < k
      BY <2>1, <1>2, RanksFill
    <3> QED BY <3>1, <1>1, <1>7
  <2>3. jobs[at[k]].order \in Nat /\ jobs[at[l]].order \in Nat
    BY <2>1, KeysCompare
  <2> QED BY <2>1, <2>2, <2>3, <1>1 DEF Precedes, Before
<1>8. \A i \in D : \E k \in D : at[k] = i
  BY <1>6, RanksFill
<1>9. \A k, l \in D : at[k] = at[l] => k = l
  BY <1>2
<1> QED BY <1>3, <1>4, <1>7, <1>8, <1>9

(* A map of 1..n onto itself that never decreases an order is the identity. *)
LEMMA IncreasingIsIdentity ==
  ASSUME NEW n \in Nat, NEW q \in [1..n -> 1..n],
         \A i \in 1..n : \E k \in 1..n : q[k] = i,
         \A k, l \in 1..n : k < l => q[k] < q[l]
  PROVE  \A k \in 1..n : q[k] = k
<1> SUFFICES ASSUME \E k \in 1..n : q[k] # k PROVE FALSE
  OBVIOUS
<1> DEFINE W == {k \in 1..n : q[k] # k}
<1>1. W \in SUBSET Nat /\ W # {}
  <2>1. PICK k \in 1..n : q[k] # k
    OBVIOUS
  <2>2. k \in W
    BY <2>1
  <2>3. W \in SUBSET Nat
    OBVIOUS
  <2> QED BY <2>2, <2>3
<1>2. PICK k \in W : \A l \in W : k <= l
  <2> HIDE DEF W
  <2> QED BY <1>1, LeastNumber
<1>3. k \in 1..n /\ q[k] \in 1..n /\ q[k] # k /\ \A l \in 1..n : l < k => q[l] = l
  BY <1>2
<1>4. q[k] > k
  <2> SUFFICES ASSUME q[k] < k PROVE FALSE
    BY <1>3
  <2>1. q[q[k]] = q[k]
    BY <1>3
  <2>2. q[q[k]] < q[k]
    BY <1>3
  <2> QED BY <2>1, <2>2, <1>3
<1>5. PICK l \in 1..n : q[l] = k
  BY <1>3
<1>6. ~ (l < k) /\ l # k
  BY <1>3, <1>5
<1>7. q[k] < q[l]
  BY <1>3, <1>5, <1>6
<1> QED BY <1>3, <1>4, <1>5, <1>7

Increasing(jobs) == \A i, j \in DOMAIN jobs : i < j => jobs[i].order < jobs[j].order

(* t has the jobs of c, each once, in some order.                          *)
Rearranges(t, c) ==
  \E m \in Nat : \E p \in [1..m -> DOMAIN c] :
    /\ t = [k \in 1..m |-> c[p[k]]]
    /\ \A i \in DOMAIN c : \E k \in 1..m : p[k] = i
    /\ \A k, l \in 1..m : p[k] = p[l] => k = l

(* Whatever permutes jobs of increasing keys, sorting undoes.              *)
LEMMA SortUndoes ==
  ASSUME NEW c \in Seq(Jobs), Increasing(c), NEW t, Rearranges(t, c)
  PROVE  Sorted(t) = c
<1>1. PICK m \in Nat : \E p \in [1..m -> DOMAIN c] :
         /\ t = [k \in 1..m |-> c[p[k]]]
         /\ \A i \in DOMAIN c : \E k \in 1..m : p[k] = i
         /\ \A k, l \in 1..m : p[k] = p[l] => k = l
  BY DEF Rearranges
<1>2. PICK p \in [1..m -> DOMAIN c] :
         /\ t = [k \in 1..m |-> c[p[k]]]
         /\ \A i \in DOMAIN c : \E k \in 1..m : p[k] = i
         /\ \A k, l \in 1..m : p[k] = p[l] => k = l
  BY <1>1
<1> DEFINE n == Len(c)
           s == [k \in 1..m |-> c[p[k]]]
<1>3. n \in Nat /\ DOMAIN c = 1..n
  OBVIOUS
<1>4. m = n
  <2>1. p \in Bijection(1..m, 1..n)
    BY <1>2, <1>3 DEF Bijection, Injection, Surjection, IsInjective
  <2>2. IsFiniteSet(1..m) /\ Cardinality(1..m) = m
    <3>1. /\ IsFiniteSet(1..m)
          /\ Cardinality(1..m) = IF 1 > m THEN 0 ELSE m - 1 + 1
      BY FS_Interval
    <3> QED BY <3>1
  <2>3. IsFiniteSet(1..n) /\ Cardinality(1..n) = n
    <3> HIDE DEF n
    <3>1. /\ IsFiniteSet(1..n)
          /\ Cardinality(1..n) = IF 1 > n THEN 0 ELSE n - 1 + 1
      BY <1>3, FS_Interval
    <3> QED BY <3>1, <1>3
  <2>4. ExistsBijection(1..m, 1..n)
    BY <2>1 DEF ExistsBijection
  <2> QED BY <2>2, <2>3, <2>4, FS_Bijection
<1>5. s \in Seq(Jobs) /\ DOMAIN s = 1..n /\ Len(s) = n
  BY <1>3, <1>4
<1> HIDE DEF n
<1>6. PICK at \in [DOMAIN s -> DOMAIN s] :
           /\ Sorted(s) = [k \in DOMAIN s |-> s[at[k]]]
           /\ \A i \in DOMAIN s : \E k \in DOMAIN s : at[k] = i
           /\ \A k, l \in DOMAIN s : at[k] = at[l] => k = l
           /\ \A k, l \in DOMAIN s :
                k < l => s[at[k]].order <= s[at[l]].order
  <2> HIDE DEF s
  <2> QED BY <1>5, SortedIs
<1> DEFINE q == [k \in 1..n |-> p[at[k]]]
<1>7. q \in [1..n -> 1..n]
  BY <1>3, <1>4, <1>5, <1>6
<1>8. \A i \in 1..n : \E k \in 1..n : q[k] = i
  <2> SUFFICES ASSUME NEW i \in 1..n PROVE \E k \in 1..n : q[k] = i
    OBVIOUS
  <2>1. PICK a \in 1..n : p[a] = i
    BY <1>2, <1>3, <1>4
  <2>2. PICK k \in 1..n : at[k] = a
    BY <1>5, <1>6
  <2> QED BY <2>1, <2>2
<1>9. \A k, l \in 1..n : k < l => q[k] < q[l]
  <2> SUFFICES ASSUME NEW k \in 1..n, NEW l \in 1..n, k < l PROVE q[k] < q[l]
    OBVIOUS
  <2>1. at[k] \in 1..n /\ at[l] \in 1..n /\ at[k] # at[l]
    BY <1>3, <1>5, <1>6
  <2>2. q[k] \in 1..n /\ q[l] \in 1..n /\ q[k] # q[l]
    BY <1>2, <2>1, <1>3, <1>4
  <2>3. c[q[k]].order <= c[q[l]].order
    <3>1. s[at[k]].order <= s[at[l]].order
      BY <1>5, <1>6
    <3>2. s[at[k]] = c[q[k]] /\ s[at[l]] = c[q[l]]
      BY <2>1, <1>4
    <3> QED BY <3>1, <3>2
  <2>4. c[q[k]].order \in Nat /\ c[q[l]].order \in Nat
    BY <2>2, <1>3, KeysCompare
  <2>5. q[l] < q[k] => c[q[l]].order < c[q[k]].order
    BY <2>2, <1>3 DEF Increasing
  <2>6. PICK x : x = c[q[k]].order
    OBVIOUS
  <2>7. PICK y : y = c[q[l]].order
    OBVIOUS
  <2>8. x \in Nat /\ y \in Nat
    BY <2>4, <2>6, <2>7
  <2>9. x <= y /\ (q[l] < q[k] => y < x)
    BY <2>3, <2>5, <2>6, <2>7
  <2>10. PICK a \in 1..n, b \in 1..n : a = q[k] /\ b = q[l]
    BY <2>2
  <2>11. a # b /\ (b < a => y < x)
    BY <2>2, <2>9, <2>10
  <2>12. a < b
    BY ONLY <1>3, <2>8, <2>9, <2>11, n \in Nat, a \in 1..n, b \in 1..n
  <2> QED BY <2>10, <2>12
<1>10. \A k \in 1..n : q[k] = k
  <2> HIDE DEF q
  <2> QED BY <1>3, <1>7, <1>8, <1>9, IncreasingIsIdentity
<1>11. \A k \in 1..n : s[at[k]] = c[k]
  <2> SUFFICES ASSUME NEW k \in 1..n PROVE s[at[k]] = c[k]
    OBVIOUS
  <2>1. at[k] \in 1..n /\ p[at[k]] = k
    BY <1>5, <1>6, <1>10
  <2> QED BY <2>1, <1>4
<1>12. Sorted(s) = [k \in 1..n |-> c[k]]
  <2> HIDE DEF s
  <2>1. Sorted(s) = [k \in 1..n |-> s[at[k]]]
    BY ONLY <1>5, <1>6
  <2> QED BY ONLY <1>11, <2>1
<1>13. c = [k \in 1..n |-> c[k]]
  BY ONLY <1>3, c \in Seq(Jobs)
<1>14. t = s
  BY ONLY <1>2
<1> QED BY ONLY <1>12, <1>13, <1>14

-----------------------------------------------------------------------------
(* The buckets and how their results are joined.                           *)

(* s holds, once each, the jobs of c whose position has a remainder in R.  *)
Holds(s, c, W, R) ==
  \E n \in Nat : \E p \in [1..n -> DOMAIN c] :
    /\ s = [k \in 1..n |-> c[p[k]]]
    /\ \A k \in 1..n : (p[k] - 1) % W \in R
    /\ \A k, l \in 1..n : p[k] = p[l] => k = l
    /\ \A i \in DOMAIN c : (i - 1) % W \in R => \E k \in 1..n : p[k] = i

LEMMA HoldsConcat ==
  ASSUME NEW c \in Seq(Jobs), NEW W \in Nat \ {0}, NEW R, NEW Q, R \cap Q = {},
         NEW s, NEW t, Holds(s, c, W, R), Holds(t, c, W, Q)
  PROVE  Holds(s \o t, c, W, R \cup Q)
<1> DEFINE D == DOMAIN c
<1>10. PICK n \in Nat : \E p \in [1..n -> D] :
         /\ s = [k \in 1..n |-> c[p[k]]]
         /\ \A k \in 1..n : (p[k] - 1) % W \in R
         /\ \A k, l \in 1..n : p[k] = p[l] => k = l
         /\ \A i \in D : (i - 1) % W \in R => \E k \in 1..n : p[k] = i
  BY DEF Holds
<1>1. PICK p \in [1..n -> D] :
         /\ s = [k \in 1..n |-> c[p[k]]]
         /\ \A k \in 1..n : (p[k] - 1) % W \in R
         /\ \A k, l \in 1..n : p[k] = p[l] => k = l
         /\ \A i \in D : (i - 1) % W \in R => \E k \in 1..n : p[k] = i
  BY <1>10
<1>11. PICK m \in Nat : \E q \in [1..m -> D] :
         /\ t = [k \in 1..m |-> c[q[k]]]
         /\ \A k \in 1..m : (q[k] - 1) % W \in Q
         /\ \A k, l \in 1..m : q[k] = q[l] => k = l
         /\ \A i \in D : (i - 1) % W \in Q => \E k \in 1..m : q[k] = i
  BY DEF Holds
<1>2. PICK q \in [1..m -> D] :
         /\ t = [k \in 1..m |-> c[q[k]]]
         /\ \A k \in 1..m : (q[k] - 1) % W \in Q
         /\ \A k, l \in 1..m : q[k] = q[l] => k = l
         /\ \A i \in D : (i - 1) % W \in Q => \E k \in 1..m : q[k] = i
  BY <1>11
<1> DEFINE z == [k \in 1..(n + m) |-> IF k <= n THEN p[k] ELSE q[k - n]]
<1>3. n + m \in Nat /\ \A k \in 1..(n + m) : k <= n => k \in 1..n
  OBVIOUS
<1>4. \A k \in 1..(n + m) : ~ (k <= n) => k - n \in 1..m
  OBVIOUS
<1>5. z \in [1..(n + m) -> D]
  BY <1>3, <1>4
<1>6. s \o t = [k \in 1..(n + m) |-> c[z[k]]]
  <2>1. \A k \in 1..n : c[p[k]] \in Jobs
    BY <1>1
  <2>2. \A k \in 1..m : c[q[k]] \in Jobs
    BY <1>2
  <2>3. s \in Seq(Jobs) /\ Len(s) = n
    BY <1>1, <2>1
  <2>4. t \in Seq(Jobs) /\ Len(t) = m
    BY <1>2, <2>2
  <2>5. s \o t = [k \in 1..(n + m) |-> IF k <= n THEN s[k] ELSE t[k - n]]
    <3>1. s \o t \in Seq(Jobs) /\ Len(s \o t) = n + m
      BY ONLY <2>3, <2>4, n \in Nat, m \in Nat, ConcatProperties
    <3>2. \A k \in 1..(n + m) : (s \o t)[k] = IF k <= n THEN s[k] ELSE t[k - n]
      <4>1. s \in Seq(Jobs) /\ t \in Seq(Jobs)
        BY ONLY <2>3, <2>4
      <4>2. \A k \in 1..Len(s) + Len(t) :
              (s \o t)[k] = IF k <= Len(s) THEN s[k] ELSE t[k - Len(s)]
        BY ONLY <4>1, ConcatProperties
      <4>3. Len(s) = n /\ Len(t) = m
        BY ONLY <2>3, <2>4
      <4> QED BY ONLY <4>2, <4>3
    <3>3. PICK N \in Nat : N = n + m
      OBVIOUS
    <3>4. s \o t = [k \in 1..N |-> (s \o t)[k]]
      <4>1. PICK st : st = s \o t
        OBVIOUS
      <4>2. st \in Seq(Jobs) /\ Len(st) = N
        BY ONLY <3>1, <3>3, <4>1
      <4>3. st = [k \in 1..N |-> st[k]]
        BY ONLY <4>2
      <4> QED BY ONLY <4>1, <4>3
    <3> QED BY ONLY <3>2, <3>3, <3>4
  <2>6. \A k \in 1..(n + m) : (IF k <= n THEN s[k] ELSE t[k - n]) = c[z[k]]
    BY <1>1, <1>2, <1>3, <1>4
  <2> HIDE DEF z
  <2> QED BY <2>5, <2>6
<1>7. \A k \in 1..(n + m) : (z[k] - 1) % W \in R \cup Q
  BY <1>1, <1>2, <1>3, <1>4
<1>8. ASSUME NEW k \in 1..(n + m), NEW l \in 1..(n + m), z[k] = z[l]
      PROVE  k = l
  <2>1. k <= n => (z[k] - 1) % W \in R
    BY <1>1, <1>3
  <2>2. ~ (k <= n) => (z[k] - 1) % W \in Q
    BY <1>2, <1>4
  <2>3. l <= n => (z[l] - 1) % W \in R
    BY <1>1, <1>3
  <2>4. ~ (l <= n) => (z[l] - 1) % W \in Q
    BY <1>2, <1>4
  <2>5. k <= n <=> l <= n
    <3> HIDE DEF z
    <3> QED BY <2>1, <2>2, <2>3, <2>4, <1>8
  <2>6. CASE k <= n
    <3>1. k \in 1..n /\ l \in 1..n /\ p[k] = p[l]
      BY <2>5, <2>6, <1>8
    <3> QED BY <3>1, <1>1
  <2>7. CASE ~ (k <= n)
    <3>1. k - n \in 1..m /\ l - n \in 1..m /\ q[k - n] = q[l - n]
      BY <2>5, <2>7, <1>8, <1>4
    <3>2. k - n = l - n
      BY <3>1, <1>2
    <3> QED BY <3>2
  <2> QED BY <2>6, <2>7
<1>9. ASSUME NEW i \in D, (i - 1) % W \in R \cup Q
      PROVE  \E k \in 1..(n + m) : z[k] = i
  <2>1. CASE (i - 1) % W \in R
    <3>1. PICK k \in 1..n : p[k] = i
      BY <2>1, <1>1
    <3>2. k \in 1..(n + m) /\ z[k] = i
      BY <3>1
    <3> QED BY <3>2
  <2>2. CASE (i - 1) % W \in Q
    <3>1. PICK k \in 1..m : q[k] = i
      BY <2>2, <1>2
    <3>2. k + n \in 1..(n + m) /\ ~ (k + n <= n) /\ (k + n) - n = k
      OBVIOUS
    <3>3. z[k + n] = i
      BY <3>1, <3>2
    <3> QED BY <3>2, <3>3
  <2> QED BY <1>9, <2>1, <2>2
<1> HIDE DEF z
<1>12. PICK N \in Nat : N = n + m
  BY <1>3
<1>13. /\ z \in [1..N -> D]
       /\ s \o t = [k \in 1..N |-> c[z[k]]]
       /\ \A k \in 1..N : (z[k] - 1) % W \in R \cup Q
       /\ \A k, l \in 1..N : z[k] = z[l] => k = l
       /\ \A i \in D : (i - 1) % W \in R \cup Q => \E k \in 1..N : z[k] = i
  BY <1>5, <1>6, <1>7, <1>8, <1>9, <1>12
<1>14. \E a \in [1..N -> DOMAIN c] :
         /\ s \o t = [k \in 1..N |-> c[a[k]]]
         /\ \A k \in 1..N : (a[k] - 1) % W \in R \cup Q
         /\ \A k, l \in 1..N : a[k] = a[l] => k = l
         /\ \A i \in DOMAIN c : (i - 1) % W \in R \cup Q => \E k \in 1..N : a[k] = i
  BY ONLY <1>13
<1> QED BY ONLY N \in Nat, <1>14 DEF Holds

(* What the recursion of FlattenSeq says.                                  *)
LEMMA FlattenRecursion ==
  ASSUME NEW seqs, NEW W \in Nat \ {0}, Len(seqs) = W
  PROVE  \E f : /\ FlattenSeq(seqs) = f[W]
                /\ f[1] = seqs[1]
                /\ \A i \in 2..W : f[i] = f[i - 1] \o seqs[i]
<1> DEFINE G(f, n) == [i \in 1..n |-> IF i = 1 THEN seqs[i] ELSE f[i - 1] \o seqs[i]]
           T == {n \in Nat : \E f : f = G(f, n)}
<1>1. 0 \in T
  <2> DEFINE z == [i \in 1..0 |-> 0]
  <2>1. z = G(z, 0)
    OBVIOUS
  <2>2. \E f : f = G(f, 0)
    <3> HIDE DEF G, z
    <3> QED BY <2>1
  <2> HIDE DEF G
  <2> QED BY <2>2
<1>2. ASSUME NEW n \in T PROVE n + 1 \in T
  <2>1. PICK f : f = G(f, n)
    OBVIOUS
  <2> DEFINE e(i) == IF i = 1 THEN seqs[i] ELSE f[i - 1] \o seqs[i]
             h == [i \in 1..n + 1 |-> e(i)]
  <2>2. n \in Nat /\ f = [i \in 1..n |-> e(i)]
    BY <2>1
  <2>3. \A i \in 1..n : f[i] = e(i)
    <3> HIDE DEF e
    <3> QED BY <2>2
  <2>4. \A i \in 1..n : h[i] = f[i]
    <3> HIDE DEF e
    <3> QED BY <2>2, <2>3
  <2>5. \A i \in 1..n + 1 : i # 1 => i - 1 \in 1..n
    BY <2>2
  <2>6. \A i \in 1..n + 1 : e(i) = IF i = 1 THEN seqs[i] ELSE h[i - 1] \o seqs[i]
    <3> HIDE DEF h
    <3> QED BY <2>4, <2>5
  <2>7. h = G(h, n + 1)
    <3> HIDE DEF e
    <3> QED BY <2>6
  <2>8. \E g : g = G(g, n + 1)
    <3> HIDE DEF G, h
    <3> QED BY <2>7
  <2>9. n + 1 \in Nat
    BY <2>2
  <2> HIDE DEF G, h
  <2> QED BY <2>8, <2>9
<1>3. T = Nat
  <2>1. T \in SUBSET Nat
    OBVIOUS
  <2> HIDE DEF T
  <2> QED BY <1>1, <1>2, <2>1, SetInduction
<1>4. \E f : f = G(f, W)
  <2> HIDE DEF G
  <2> QED BY <1>3
<1> DEFINE c == CHOOSE f : f = G(f, W)
<1>5. c = G(c, W)
  <2> HIDE DEF G
  <2> QED BY <1>4
<1>6. FlattenSeq(seqs) = c[W]
  BY DEF FlattenSeq
<1> HIDE DEF c
<1>7. c[1] = seqs[1]
  BY <1>5
<1>8. ASSUME NEW i \in 2..W PROVE c[i] = c[i - 1] \o seqs[i]
  <2>1. i \in 1..W /\ i # 1
    OBVIOUS
  <2> QED BY <1>5, <2>1
<1> QED BY <1>6, <1>7, <1>8

(* The remainder is the only number below the modulus that is left over.   *)
LEMMA RemainderUnique ==
  ASSUME NEW m \in Nat \ {0}, NEW k \in Nat, NEW s \in 0..(m - 1)
  PROVE  (m * k + s) % m = s
  <1> DEFINE n == m * k + s
             d == (n \div m) - k
  <1>1. /\ n \in Nat /\ n \div m \in Nat /\ n % m \in 0..(m - 1)
        /\ n = m * (n \div m) + (n % m)
    OBVIOUS
  <1>2. d \in Int /\ m * d = s - (n % m)
    BY <1>1
  <1>3. \A e \in Int : (e >= 1 => m * e >= m) /\ (e <= -1 => m * e <= -m)
    OBVIOUS
  <1>4. d = 0
    <2> HIDE DEF d
    <2>1. ~ d >= 1 /\ ~ d <= -1
      BY <1>1, <1>2, <1>3
    <2> QED BY <1>2, <2>1
  <1>5. m * d = 0
    BY <1>4
  <1> QED BY <1>1, <1>2, <1>5

(* A bucket is a row of positions one worker count apart, and its results  *)
(* are the jobs of that row.                                               *)
LEMMA ResultsHold ==
  ASSUME chunk \in Seq(Jobs), NEW W \in Nat \ {0}, W = WorkerCount,
         NEW w \in 0..(W - 1)
  PROVE  Holds(Results(w), chunk, W, {w})
<1> DEFINE L == Len(chunk)
           B == {i \in 1..L : (i - 1) % W = w}
<1>1. /\ L \in Nat /\ DOMAIN chunk = 1..L /\ Bucket(w) = B
  BY DEF Bucket
<1> HIDE DEF L
<1>2. PICK N \in Nat :
         /\ \A k \in 1..N : w + 1 + W * (k - 1) <= L
         /\ \A q \in Nat : W * q + w + 1 <= L => q + 1 \in 1..N
  <2>1. CASE L <= w
    <3>1. \A q \in Nat : W * q >= 0
      OBVIOUS
    <3>2. \A q \in Nat : ~ (W * q + w + 1 <= L)
      <4> SUFFICES ASSUME NEW q \in Nat PROVE ~ (W * q + w + 1 <= L)
        OBVIOUS
      <4>1. PICK x \in Nat : x = W * q
        OBVIOUS
      <4> QED BY <1>1, <2>1, <4>1
    <3>3. \A k \in 1..0 : w + 1 + W * (k - 1) <= L
      OBVIOUS
    <3> QED BY <3>2, <3>3
  <2>2. CASE w < L
    <3>1. PICK x \in Nat : x = L - w - 1
      BY <1>1, <2>2
    <3>2. PICK d \in Nat, r \in 0..(W - 1) : x = W * d + r
      <4>1. x \div W \in Nat /\ x % W \in 0..(W - 1) /\ x = W * (x \div W) + (x % W)
        OBVIOUS
      <4> QED BY <4>1
    <3>3. \A k \in 1..(d + 1) : W * (k - 1) <= W * d
      OBVIOUS
    <3>4. ASSUME NEW k \in 1..(d + 1) PROVE w + 1 + W * (k - 1) <= L
      <4>1. PICK y \in Int, z \in Int : y = W * (k - 1) /\ z = W * d
        OBVIOUS
      <4>2. y <= z
        BY <3>3, <4>1
      <4> QED BY <1>1, <3>1, <3>2, <4>1, <4>2
    <3>5. ASSUME NEW q \in Nat, W * q + w + 1 <= L PROVE q + 1 \in 1..(d + 1)
      <4>1. q >= d + 1 => W * q >= W * d + W
        OBVIOUS
      <4>2. PICK y \in Int, z \in Int : y = W * q /\ z = W * d
        OBVIOUS
      <4>3. q >= d + 1 => y >= z + W
        BY <4>1, <4>2
      <4>4. y + w + 1 <= L /\ L = z + r + w + 1
        BY <1>1, <3>1, <3>2, <3>5, <4>2
      <4> QED BY <1>1, <4>3, <4>4
    <3>6. PICK N \in Nat : N = d + 1
      OBVIOUS
    <3>7. /\ \A k \in 1..N : w + 1 + W * (k - 1) <= L
          /\ \A q \in Nat : W * q + w + 1 <= L => q + 1 \in 1..N
      BY ONLY <3>4, <3>5, <3>6
    <3> QED BY ONLY <3>7, N \in Nat
  <2> QED BY <1>1, <2>1, <2>2
<1> DEFINE p == [k \in 1..N |-> w + 1 + W * (k - 1)]
<1>3. ASSUME NEW k \in 1..N
      PROVE  p[k] \in 1..L /\ (p[k] - 1) % W = w
  <2>1. k - 1 \in Nat
    OBVIOUS
  <2>2. PICK x \in Nat : x = W * (k - 1)
    BY <2>1
  <2>3. (W * (k - 1) + w) % W = w
    BY <2>1, RemainderUnique
  <2>4. p[k] = w + 1 + x /\ p[k] <= L
    BY <1>2, <2>2
  <2>5. p[k] - 1 = x + w
    BY <2>4
  <2>6. (p[k] - 1) % W = w
    BY <2>2, <2>3, <2>5
  <2> QED BY <2>2, <2>4, <2>6, <1>1
<1>4. ASSUME NEW k \in 1..N, NEW l \in 1..N, p[k] = p[l] PROVE k = l
  <2>1. W * (k - 1) = W * (l - 1)
    <3>1. PICK x \in Int, y \in Int : x = W * (k - 1) /\ y = W * (l - 1)
      OBVIOUS
    <3>2. w + 1 + x = w + 1 + y
      BY <1>4, <3>1
    <3> QED BY <3>1, <3>2
  <2>2. k < l => W * (k - 1) < W * (l - 1)
    OBVIOUS
  <2>3. l < k => W * (l - 1) < W * (k - 1)
    OBVIOUS
  <2>4. PICK x \in Int, y \in Int : x = W * (k - 1) /\ y = W * (l - 1)
    OBVIOUS
  <2> QED BY <2>1, <2>2, <2>3, <2>4
<1>5. ASSUME NEW i \in 1..L, (i - 1) % W = w PROVE \E k \in 1..N : p[k] = i
  <2>1. PICK q \in Nat : i - 1 = W * q + w
    <3>1. i - 1 \in Nat
      OBVIOUS
    <3>2. (i - 1) \div W \in Nat /\ i - 1 = W * ((i - 1) \div W) + ((i - 1) % W)
      BY <3>1
    <3> QED BY <3>2, <1>5
  <2>2. PICK x \in Int : x = W * q
    OBVIOUS
  <2>3. W * q + w + 1 <= L
    BY <1>1, <2>1, <2>2
  <2>4. q + 1 \in 1..N
    BY <1>2, <2>3
  <2>5. p[q + 1] = w + 1 + W * q
    BY <2>4
  <2>6. p[q + 1] = i
    BY <2>1, <2>2, <2>5
  <2> QED BY <2>4, <2>6
<1>6. p \in [1..N -> 1..L]
  BY <1>3
<1>7. Cardinality(Bucket(w)) = N
  <2>1. p \in [1..N -> B]
    BY <1>3
  <2>2. p \in Bijection(1..N, B)
    <3> HIDE DEF p
    <3> QED BY <2>1, <1>4, <1>5 DEF Bijection, Injection, Surjection, IsInjective
  <2>3. ExistsBijection(1..N, B)
    BY <2>2 DEF ExistsBijection
  <2>4. IsFiniteSet(1..N) /\ Cardinality(1..N) = N
    <3>1. IsFiniteSet(1..N) /\ Cardinality(1..N) = IF 1 > N THEN 0 ELSE N - 1 + 1
      BY FS_Interval
    <3> QED BY <3>1
  <2> HIDE DEF B
  <2> QED BY <1>1, <2>3, <2>4, FS_Bijection
<1>8. Results(w) = [k \in 1..N |-> chunk[p[k]]]
  <2>1. Results(w) = [k \in 1..N |-> chunk[w + 1 + (k - 1) * W]]
    BY <1>7 DEF Results
  <2>2. \A k \in 1..N : p[k] = w + 1 + (k - 1) * W
    OBVIOUS
  <2> HIDE DEF p
  <2> QED BY <2>1, <2>2
<1> HIDE DEF p
<1>9. \E a \in [1..N -> DOMAIN chunk] :
         /\ Results(w) = [k \in 1..N |-> chunk[a[k]]]
         /\ \A k \in 1..N : (a[k] - 1) % W \in {w}
         /\ \A k, l \in 1..N : a[k] = a[l] => k = l
         /\ \A i \in DOMAIN chunk : (i - 1) % W \in {w} => \E k \in 1..N : a[k] = i
  BY <1>1, <1>3, <1>4, <1>5, <1>6, <1>8
<1> QED BY ONLY N \in Nat, <1>9 DEF Holds

LEMMA MaxMinOfTwo ==
  ASSUME NEW a \in Int, NEW b \in Int
  PROVE  /\ Min({a, b}) = IF a <= b THEN a ELSE b
         /\ Max({a, b}) = IF a >= b THEN a ELSE b
<1> DEFINE lo == IF a <= b THEN a ELSE b
           hi == IF a >= b THEN a ELSE b
<1>1. lo \in {a, b} /\ \A y \in {a, b} : lo <= y
  OBVIOUS
<1>2. hi \in {a, b} /\ \A y \in {a, b} : hi >= y
  OBVIOUS
<1>3. \A x \in {a, b} : (\A y \in {a, b} : x <= y) => x = lo
  OBVIOUS
<1>4. \A x \in {a, b} : (\A y \in {a, b} : x >= y) => x = hi
  OBVIOUS
<1>5. Min({a, b}) = lo
  <2> HIDE DEF lo
  <2> QED BY <1>1, <1>3 DEF Min
<1>6. Max({a, b}) = hi
  <2> HIDE DEF hi
  <2> QED BY <1>2, <1>4 DEF Max
<1> QED BY <1>5, <1>6

LEMMA WorkerCountIs ==
  ASSUME chunk \in Seq(Jobs)
  PROVE  WorkerCount \in Nat \ {0} /\ WorkerCount <= Workers
<1>1. Len(chunk) \in Nat /\ Workers \in Nat \ {0}
  BY OrderedParallelAssumption
<1>2. Min({Workers, Len(chunk)}) = IF Workers <= Len(chunk) THEN Workers ELSE Len(chunk)
  BY <1>1, MaxMinOfTwo
<1>3. PICK m \in Nat : m = Min({Workers, Len(chunk)}) /\ m <= Workers
  BY <1>1, <1>2
<1>4. Max({1, m}) = IF 1 >= m THEN 1 ELSE m
  <2>1. 1 \in Int /\ m \in Int
    OBVIOUS
  <2> QED BY <2>1, MaxMinOfTwo
<1>5. WorkerCount = Max({1, m})
  BY <1>3 DEF WorkerCount
<1> QED BY <1>1, <1>3, <1>4, <1>5

(* However the jobs of a chunk are dealt to workers, the joined and sorted *)
(* results are the chunk.                                                  *)
LEMMA MergedIsChunk ==
  ASSUME chunk \in Seq(Jobs), Increasing(chunk)
  PROVE  Merged = chunk
<1> DEFINE L == Len(chunk)
<1>1. PICK W \in Nat \ {0} : W = WorkerCount
  BY WorkerCountIs
<1> DEFINE seqs == [k \in 1..W |-> Results(k - 1)]
<1>2. Joined = FlattenSeq(seqs) /\ Len(seqs) = W
  BY <1>1 DEF Joined
<1>3. \A k \in 1..W : Holds(seqs[k], chunk, W, {k - 1})
  BY <1>1, ResultsHold
<1> HIDE DEF seqs
<1>4. PICK f : /\ FlattenSeq(seqs) = f[W]
               /\ f[1] = seqs[1]
               /\ \A i \in 2..W : f[i] = f[i - 1] \o seqs[i]
  BY <1>2, FlattenRecursion
<1> DEFINE T == {n \in Nat : n + 1 \in 1..W => Holds(f[n + 1], chunk, W, 0..n)}
<1>5. 0 \in T
  <2>1. 0..0 = {0}
    OBVIOUS
  <2>2. 1 \in 1..W /\ 1 - 1 = 0 /\ 0 + 1 = 1
    OBVIOUS
  <2>3. Holds(seqs[1], chunk, W, {1 - 1})
    BY <1>3, <2>2
  <2> QED BY <2>1, <2>2, <2>3, <1>4
<1>6. ASSUME NEW n \in T PROVE n + 1 \in T
  <2> SUFFICES ASSUME n + 2 \in 1..W PROVE Holds(f[n + 2], chunk, W, 0..(n + 1))
    OBVIOUS
  <2>1. n \in Nat /\ n + 1 \in 1..W /\ n + 2 \in 2..W /\ (n + 2) - 1 = n + 1
    OBVIOUS
  <2>2. Holds(f[n + 1], chunk, W, 0..n)
    BY <2>1
  <2>3. Holds(seqs[n + 2], chunk, W, {n + 1})
    BY <1>3, <2>1
  <2>4. f[n + 2] = f[n + 1] \o seqs[n + 2]
    BY <1>4, <2>1
  <2>5. (0..n) \cap {n + 1} = {} /\ (0..n) \cup {n + 1} = 0..(n + 1)
    BY <2>1
  <2>6. Holds(f[n + 1] \o seqs[n + 2], chunk, W, (0..n) \cup {n + 1})
    BY <2>2, <2>3, <2>5, HoldsConcat
  <2> QED BY <2>4, <2>5, <2>6
<1>7. T = Nat
  <2>1. T \in SUBSET Nat
    OBVIOUS
  <2> HIDE DEF T
  <2> QED BY <1>5, <1>6, <2>1, SetInduction
<1>8. Holds(Joined, chunk, W, 0..(W - 1))
  <2>1. W - 1 \in T /\ (W - 1) + 1 = W /\ W \in 1..W
    BY <1>7
  <2> QED BY <2>1, <1>2, <1>4
<1>9. \A i \in DOMAIN chunk : (i - 1) % W \in 0..(W - 1)
  <2>1. \A x \in Nat : x % W \in 0..(W - 1)
    OBVIOUS
  <2>2. \A i \in DOMAIN chunk : i - 1 \in Nat
    OBVIOUS
  <2> QED BY <2>1, <2>2
<1>10. PICK n \in Nat : \E p \in [1..n -> DOMAIN chunk] :
         /\ Joined = [k \in 1..n |-> chunk[p[k]]]
         /\ \A k, l \in 1..n : p[k] = p[l] => k = l
         /\ \A i \in DOMAIN chunk : (i - 1) % W \in 0..(W - 1) => \E k \in 1..n : p[k] = i
  BY <1>8 DEF Holds
<1>11. PICK p \in [1..n -> DOMAIN chunk] :
         /\ Joined = [k \in 1..n |-> chunk[p[k]]]
         /\ \A k, l \in 1..n : p[k] = p[l] => k = l
         /\ \A i \in DOMAIN chunk : (i - 1) % W \in 0..(W - 1) => \E k \in 1..n : p[k] = i
  BY <1>10
<1>12. Rearranges(Joined, chunk)
  <2>1. \A i \in DOMAIN chunk : \E k \in 1..n : p[k] = i
    BY <1>9, <1>11
  <2> QED BY <1>11, <2>1 DEF Rearranges
<1> QED BY <1>12, SortUndoes DEF Merged

-----------------------------------------------------------------------------
(* The inductive invariant.                                                *)

TypeInv ==
  /\ mode \in {"collect", "lazy"} /\ pc \in {"start", "fill", "run", "emit", "done"}
  /\ input \in Seq(Jobs) /\ queue \in Seq(Jobs) /\ chunk \in Seq(Jobs)
  /\ output \in Seq(Jobs) /\ emitted \in Seq(Jobs)
  /\ pulled \in Nat /\ pulled <= Len(queue)

(* The queue is what the caller passed, in its order or sorted; what has   *)
(* been pulled ascends.                                                    *)
QueueInv ==
  /\ pc = "start" => pulled = 0
  /\ pc # "start" => queue = Ordered
  /\ \A i, j \in 1..pulled : i < j => Before(queue[i], queue[j])
  /\ mode = "collect" /\ pc \notin {"start", "done"} => Increasing(queue)

(* What has been pulled is handed over, prepared or in flight, in this     *)
(* order and without a gap.                                                *)
FlowInv ==
  /\ Len(emitted) <= pulled
  /\ \A i \in 1..Len(emitted) : emitted[i] = queue[i]
  /\ pc # "done" =>
       /\ Len(emitted) + Len(output) + Len(chunk) = pulled
       /\ \A i \in 1..Len(output) : output[i] = queue[Len(emitted) + i]
       /\ \A i \in 1..Len(chunk) : chunk[i] = queue[Len(emitted) + Len(output) + i]

(* A lazy call has prepared outputs or jobs in flight, never both.         *)
WindowInv ==
  /\ Len(chunk) <= MaxInFlight
  /\ pc = "emit" => mode = "lazy" /\ chunk = <<>>
  /\ mode = "lazy" /\ pc # "emit" => output = <<>>
  /\ WindowIsBounded

(* What has happened in the scope.                                         *)
ScopeInv ==
  /\ pc # "run" => finished = {} /\ crashed = {}
  /\ pc = "run" => chunk # <<>> /\ (Len(chunk) = MaxInFlight \/ pulled = Len(queue))
  /\ crashed \subseteq Threads
  /\ \A w \in crashed : \E i \in Bucket(w) : chunk[i].does = "panic"
  /\ \A i \in finished : i \in DOMAIN chunk /\ chunk[i].does # "panic"

TwoPanics ==
  \E i, j \in 1..Len(queue) : i # j /\ queue[i].does = "panic" /\ queue[j].does = "panic"

(* Every window so far was completed; an outcome is the serial one, unless *)
(* two workers panicked at once.                                           *)
SerialInv ==
  /\ pc \in {"fill", "run", "emit"} =>
       \E k \in Nat :
         /\ \A j \in 1..k : WindowOutcome(j) = Done
         /\ \/ pulled - Len(chunk) = MaxInFlight * k
            \/ chunk = <<>> /\ pulled = Len(queue) /\ pulled <= MaxInFlight * k
  /\ pc = "done" =>
       \/ outcome = SerialOutcome
       \/ /\ outcome = [kind |-> "unwound"] /\ SerialOutcome = [kind |-> "worker_panic"]
          /\ TwoPanics

BaseInv == TypeInv /\ QueueInv /\ FlowInv /\ WindowInv

LEMMA InputsAreJobs == ASSUME input \in Inputs PROVE input \in Seq(Jobs)
<1>1. PICK m \in 0..MaxJobs : input \in [1..m -> Jobs]
  BY DEF Inputs, BoundedSeq, SeqOf
<1>2. m \in Nat
  BY OrderedParallelAssumption
<1> QED BY <1>1, <1>2

LEMMA SortedIsJobs ==
  ASSUME NEW jobs \in Seq(Jobs)
  PROVE  Sorted(jobs) \in Seq(Jobs) /\ Len(Sorted(jobs)) = Len(jobs)
<1>1. PICK at \in [DOMAIN jobs -> DOMAIN jobs] :
         Sorted(jobs) = [k \in DOMAIN jobs |-> jobs[at[k]]]
  BY SortedIs
<1>2. DOMAIN jobs = 1..Len(jobs) /\ Len(jobs) \in Nat
  OBVIOUS
<1>3. \A k \in 1..Len(jobs) : jobs[at[k]] \in Jobs
  BY <1>1, <1>2
<1> QED BY <1>1, <1>2, <1>3

(* Sorted jobs of which no two neighbours have one key ascend.             *)
LEMMA SortedAscends ==
  ASSUME NEW jobs \in Seq(Jobs), Duplicates(Sorted(jobs)) = {}
  PROVE  Increasing(Sorted(jobs))
<1> DEFINE s == Sorted(jobs)
           n == Len(jobs)
<1>1. s \in Seq(Jobs) /\ Len(s) = n /\ n \in Nat /\ DOMAIN s = 1..n
  BY SortedIsJobs
<1>2. \A k, l \in 1..n : k < l => s[k].order <= s[l].order
  <2>1. PICK at \in [DOMAIN jobs -> DOMAIN jobs] :
           /\ Sorted(jobs) = [k \in DOMAIN jobs |-> jobs[at[k]]]
           /\ \A k, l \in DOMAIN jobs :
                k < l => jobs[at[k]].order <= jobs[at[l]].order
    BY SortedIs
  <2> QED BY <2>1
<1>3. \A k \in 1..n : s[k].order \in Nat
  BY <1>1, KeysCompare
<1> HIDE DEF s, n
<1>4. \A i \in 1..(n - 1) : s[i].order # s[i + 1].order
  BY <1>1 DEF Duplicates, s
<1>5. ASSUME NEW k \in 1..n, NEW l \in 1..n, k < l PROVE s[k].order < s[l].order
  <2>1. k \in 1..(n - 1) /\ k + 1 \in 1..n
    BY <1>1, <1>5
  <2>2. s[k].order < s[k + 1].order
    BY <1>1, <1>2, <1>3, <1>4, <2>1
  <2>3. k + 1 = l \/ s[k + 1].order <= s[l].order
    BY <1>1, <1>2, <1>5, <2>1
  <2> QED BY <1>3, <2>1, <2>2, <2>3
<1>6. Increasing(s)
  BY <1>1, <1>5 DEF Increasing
<1> QED BY <1>6 DEF s

LEMMA BaseStarts == ASSUME Init PROVE BaseInv
<1>1. input \in Seq(Jobs)
  BY InputsAreJobs DEF Init
<1>2. MaxInFlight \in Nat \ {0}
  BY OrderedParallelAssumption
<1>3. <<>> \in Seq(Jobs) /\ Len(<<>>) = 0
  OBVIOUS
<1> QED BY <1>1, <1>2, <1>3
        DEF Init, BaseInv, TypeInv, QueueInv, FlowInv, WindowInv, WindowIsBounded

LEMMA BaseStart == ASSUME BaseInv, Start PROVE BaseInv'
<1> USE DEF BaseInv
<1>1. /\ UNCHANGED <<mode, input, pulled, chunk, finished, crashed, output, emitted>>
      /\ pulled = 0 /\ pc = "start" /\ pc' \in {"fill", "done"}
  BY DEF Start, Finish, QueueInv
<1>2. queue' = Ordered /\ Ordered' = Ordered
  BY <1>1 DEF Start, Ordered, TypeInv
<1>3. queue' \in Seq(Jobs)
  BY <1>2, SortedIsJobs DEF Ordered, TypeInv
<1>4. TypeInv'
  BY <1>1, <1>3 DEF TypeInv
<1>5. mode = "collect" /\ pc' # "done" => Increasing(queue')
  BY <1>1, SortedAscends DEF Start, Finish, TypeInv
<1>6. QueueInv'
  BY <1>1, <1>2, <1>5 DEF QueueInv
<1>7. Len(emitted) = 0 /\ Len(output) = 0 /\ Len(chunk) = 0
  BY <1>1 DEF FlowInv, TypeInv
<1>8. FlowInv'
  BY <1>1, <1>7 DEF FlowInv
<1>9. WindowInv'
  BY <1>1 DEF WindowInv, WindowIsBounded
<1> QED BY <1>4, <1>6, <1>8, <1>9

LEMMA BasePull == ASSUME BaseInv, Pull PROVE BaseInv'
<1> USE DEF BaseInv
<1>1. /\ UNCHANGED <<mode, input, queue, finished, crashed, output, emitted>>
      /\ pc = "fill" /\ pulled < Len(queue) /\ Len(chunk) # MaxInFlight
  BY DEF Pull, ChunkIsFull
<1>2. Ordered' = Ordered
  BY <1>1 DEF Ordered
<1>3. /\ Len(queue) \in Nat /\ pulled + 1 \in 1..Len(queue) /\ MaxInFlight \in Nat
      /\ Len(chunk) \in Nat /\ Len(output) \in Nat /\ Len(emitted) \in Nat
  BY <1>1, OrderedParallelAssumption DEF TypeInv
<1>8. Len(emitted) + Len(output) + Len(chunk) = pulled /\ pulled \in Nat
  BY <1>1 DEF FlowInv, TypeInv
<1>4. PICK job : job = queue[pulled + 1]
  OBVIOUS
<1>5. job \in Jobs
  BY <1>3, <1>4 DEF TypeInv
<1>6. CASE OrderError(job) # Done
  <2>1. pc' = "done" /\ chunk' = <<>> /\ pulled' = pulled
    BY <1>4, <1>6 DEF Pull, Finish
  <2>2. Len(<<>>) = 0 /\ <<>> \in Seq(Jobs)
    OBVIOUS
  <2> QED BY <1>1, <1>2, <1>3, <2>1, <2>2
          DEF TypeInv, QueueInv, FlowInv, WindowInv, WindowIsBounded
<1>7. CASE OrderError(job) = Done
  <2>1. chunk' = Append(chunk, job) /\ pulled' = pulled + 1 /\ pc' = pc
    BY <1>4, <1>7 DEF Pull
  <2>2. PICK c : c = Append(chunk, job)
    OBVIOUS
  <2>3. /\ c \in Seq(Jobs) /\ Len(c) = Len(chunk) + 1 /\ c[Len(c)] = job
        /\ \A i \in 1..Len(chunk) : c[i] = chunk[i]
    BY <1>5, <2>2 DEF TypeInv
  <2>4. TypeInv'
    BY <1>1, <1>3, <2>1, <2>2, <2>3 DEF TypeInv
  <2>5. pulled = 0 \/ Before(queue[pulled], job)
    <3>1. CASE mode = "lazy"
      BY <1>7, <3>1 DEF OrderError, Before, Done, Failure
    <3>2. CASE mode = "collect"
      <4>1. pulled = 0 \/ pulled \in 1..Len(queue)
        BY <1>3 DEF TypeInv
      <4> QED BY <1>1, <1>3, <1>4, <3>2, <4>1 DEF QueueInv, Increasing, Before, TypeInv
    <3> QED BY <3>1, <3>2 DEF TypeInv
  <2>6. \A i, j \in 1..pulled' : i < j => Before(queue[i], queue[j])
    <3> SUFFICES ASSUME NEW i \in 1..(pulled + 1), NEW j \in 1..(pulled + 1), i < j
                 PROVE  Before(queue[i], queue[j])
      BY <2>1
    <3>1. \A a, b \in 1..pulled : a < b => Before(queue[a], queue[b])
      BY DEF QueueInv
    <3>2. pulled \in Nat
      BY DEF TypeInv
    <3>3. CASE j <= pulled
      <4>1. i \in 1..pulled /\ j \in 1..pulled
        BY <3>2, <3>3
      <4> QED BY <3>1, <4>1
    <3>4. CASE j = pulled + 1
      <4>1. pulled # 0 /\ i \in 1..pulled /\ pulled \in 1..pulled
        BY <3>2, <3>4
      <4>2. i = pulled \/ Before(queue[i], queue[pulled])
        BY <3>1, <3>2, <4>1
      <4>3. i \in 1..Len(queue) /\ pulled \in 1..Len(queue) /\ pulled + 1 \in 1..Len(queue)
        BY <1>3, <4>1
      <4>4. /\ queue[i].order \in Nat /\ queue[pulled].order \in Nat
            /\ queue[pulled + 1].order \in Nat
        BY <4>3, KeysCompare DEF TypeInv
      <4> QED BY <1>4, <2>5, <3>4, <4>1, <4>2, <4>4 DEF Before
    <3> QED BY <3>2, <3>3, <3>4
  <2>7. QueueInv'
    BY <1>1, <1>2, <2>1, <2>6 DEF QueueInv, Increasing
  <2>8. FlowInv'
    <3>1. Len(emitted) + Len(output) + Len(c) = pulled + 1
      BY ONLY <1>3, <1>8, <2>3
    <3>2. ASSUME NEW i \in 1..Len(c) PROVE c[i] = queue[Len(emitted) + Len(output) + i]
      <4>1. CASE i = Len(c)
        BY <1>3, <1>4, <2>3, <3>1, <4>1
      <4>2. CASE i # Len(c)
        <5>1. i \in 1..Len(chunk)
          BY <1>3, <2>3, <4>2
        <5> QED BY <1>1, <2>3, <5>1 DEF FlowInv
      <4> QED BY <4>1, <4>2
    <3>3. Len(emitted) <= pulled + 1
      BY <1>3 DEF FlowInv, TypeInv
    <3> QED BY <1>1, <2>1, <2>2, <3>1, <3>2, <3>3 DEF FlowInv
  <2>9. WindowInv'
    <3>1. Len(c) <= MaxInFlight
      BY <1>1, <1>3, <2>3 DEF WindowInv
    <3>2. mode = "lazy" => Len(output) = 0
      BY <1>1 DEF WindowInv
    <3>3. Len(emitted) + Len(output) + Len(c) = pulled + 1
      BY ONLY <1>3, <1>8, <2>3
    <3>4. mode = "lazy" => (pulled + 1) - Len(emitted) <= MaxInFlight
      BY <1>3, <2>3, <3>1, <3>2, <3>3 DEF TypeInv
    <3> QED BY <1>1, <2>1, <2>2, <3>1, <3>4 DEF WindowInv, WindowIsBounded
  <2> QED BY <2>4, <2>7, <2>8, <2>9
<1> QED BY <1>6, <1>7

LEMMA BaseDispatch == ASSUME BaseInv, Dispatch PROVE BaseInv'
<1> USE DEF BaseInv
<1>1. /\ UNCHANGED <<mode, input, queue, pulled, chunk, finished, crashed>>
      /\ pc = "fill"
  BY DEF Dispatch
<1>2. Ordered' = Ordered
  BY <1>1 DEF Ordered
<1>3. Len(emitted) + Len(output) + Len(chunk) = pulled /\ pulled \in Nat
  BY <1>1 DEF FlowInv, TypeInv
<1>4. CASE chunk = <<>>
  <2>1. pc' = "done" /\ emitted' = emitted \o output /\ output' = <<>>
    BY <1>4 DEF Dispatch, Finish
  <2>2. PICK e : e = emitted \o output
    OBVIOUS
  <2>3. /\ e \in Seq(Jobs) /\ Len(e) = Len(emitted) + Len(output)
        /\ \A i \in 1..(Len(emitted) + Len(output)) :
             e[i] = IF i <= Len(emitted) THEN emitted[i] ELSE output[i - Len(emitted)]
    <3>1. emitted \in Seq(Jobs) /\ output \in Seq(Jobs)
      BY DEF TypeInv
    <3> QED BY ONLY <2>2, <3>1, ConcatProperties
  <2>4. Len(emitted) \in Nat /\ Len(output) \in Nat /\ Len(chunk) = 0 /\ <<>> \in Seq(Jobs)
    BY <1>4 DEF TypeInv
  <2>5. Len(e) = pulled
    BY ONLY <1>3, <2>3, <2>4
  <2>6. ASSUME NEW i \in 1..Len(e) PROVE e[i] = queue[i]
    <3>1. CASE i <= Len(emitted)
      <4>1. i \in 1..Len(emitted) /\ e[i] = emitted[i]
        BY ONLY <2>3, <2>4, <3>1, i \in 1..Len(e)
      <4> QED BY <4>1 DEF FlowInv
    <3>2. CASE ~ (i <= Len(emitted))
      <4>1. /\ i - Len(emitted) \in 1..Len(output) /\ e[i] = output[i - Len(emitted)]
            /\ Len(emitted) + (i - Len(emitted)) = i
        BY ONLY <2>3, <2>4, <3>2, i \in 1..Len(e)
      <4>2. output[i - Len(emitted)] = queue[Len(emitted) + (i - Len(emitted))]
        BY <1>1, <4>1 DEF FlowInv
      <4> QED BY <4>1, <4>2
    <3> QED BY <3>1, <3>2
  <2>7. FlowInv'
    BY <1>1, <1>3, <2>1, <2>2, <2>5, <2>6 DEF FlowInv
  <2>8. WindowInv'
    <3>1. pulled - Len(e) <= MaxInFlight
      BY <1>3, <2>5, OrderedParallelAssumption
    <3> QED BY <1>1, <2>1, <2>2, <3>1 DEF WindowInv, WindowIsBounded
  <2>9. TypeInv' /\ QueueInv'
    BY <1>1, <1>2, <2>1, <2>2, <2>3, <2>4 DEF TypeInv, QueueInv
  <2> QED BY <2>7, <2>8, <2>9
<1>5. CASE chunk # <<>>
  <2>1. pc' = "run" /\ UNCHANGED <<emitted, output>>
    BY <1>5 DEF Dispatch
  <2> QED BY <1>1, <1>2, <2>1
          DEF TypeInv, QueueInv, FlowInv, WindowInv, WindowIsBounded
<1> QED BY <1>4, <1>5

(* A chunk in flight ascends, so that merging gives it back.               *)
LEMMA ChunkAscends ==
  ASSUME BaseInv, pc # "done"
  PROVE  chunk \in Seq(Jobs) /\ Increasing(chunk) /\ Merged = chunk
<1> USE DEF BaseInv
<1>1. /\ Len(emitted) + Len(output) + Len(chunk) = pulled /\ pulled \in Nat
      /\ Len(emitted) \in Nat /\ Len(output) \in Nat /\ Len(chunk) \in Nat
      /\ chunk \in Seq(Jobs)
  BY DEF FlowInv, TypeInv
<1>2. ASSUME NEW i \in 1..Len(chunk), NEW j \in 1..Len(chunk), i < j
      PROVE  chunk[i].order < chunk[j].order
  <2>1. PICK a \in 1..pulled, b \in 1..pulled :
           a = Len(emitted) + Len(output) + i /\ b = Len(emitted) + Len(output) + j
    BY ONLY <1>1, i \in 1..Len(chunk), j \in 1..Len(chunk)
  <2>2. a < b
    BY ONLY <1>1, <2>1, <1>2, i \in 1..Len(chunk), j \in 1..Len(chunk)
  <2>3. Before(queue[a], queue[b])
    BY <2>2 DEF QueueInv
  <2>4. chunk[i] = queue[a] /\ chunk[j] = queue[b]
    BY <2>1 DEF FlowInv
  <2> QED BY <2>3, <2>4 DEF Before
<1>3. Increasing(chunk)
  BY <1>1, <1>2 DEF Increasing
<1> QED BY <1>1, <1>3, MergedIsChunk

LEMMA BaseJoin == ASSUME BaseInv, JoinChunk PROVE BaseInv'
<1> USE DEF BaseInv
<1>1. /\ UNCHANGED <<mode, input, queue, pulled, emitted>>
      /\ pc = "run" /\ chunk' = <<>>
  BY DEF JoinChunk
<1>2. Ordered' = Ordered
  BY <1>1 DEF Ordered
<1>3. /\ Len(emitted) + Len(output) + Len(chunk) = pulled /\ pulled \in Nat
      /\ Len(emitted) \in Nat /\ Len(output) \in Nat /\ Len(chunk) \in Nat
      /\ MaxInFlight \in Nat
  BY <1>1, OrderedParallelAssumption DEF FlowInv, TypeInv
<1>4. Len(<<>>) = 0 /\ <<>> \in Seq(Jobs)
  OBVIOUS
<1>5. CASE ChunkOutcome # Done
  <2>1. pc' = "done" /\ output' = output
    BY <1>5 DEF JoinChunk, Finish
  <2> QED BY <1>1, <1>2, <1>3, <1>4, <2>1
          DEF TypeInv, QueueInv, FlowInv, WindowInv, WindowIsBounded
<1>6. CASE ChunkOutcome = Done
  <2>1. output' = output \o chunk /\ pc' = IF mode = "lazy" THEN "emit" ELSE "fill"
    <3>1. Merged = chunk
      BY <1>1, ChunkAscends
    <3> QED BY <1>6, <3>1 DEF JoinChunk
  <2>2. PICK o : o = output \o chunk
    OBVIOUS
  <2>3. /\ o \in Seq(Jobs) /\ Len(o) = Len(output) + Len(chunk)
        /\ \A i \in 1..(Len(output) + Len(chunk)) :
             o[i] = IF i <= Len(output) THEN output[i] ELSE chunk[i - Len(output)]
    <3>1. output \in Seq(Jobs) /\ chunk \in Seq(Jobs)
      BY DEF TypeInv
    <3> QED BY ONLY <2>2, <3>1, ConcatProperties
  <2>4. Len(emitted) + Len(o) + 0 = pulled
    BY ONLY <1>3, <2>3
  <2>5. ASSUME NEW i \in 1..Len(o) PROVE o[i] = queue[Len(emitted) + i]
    <3>1. CASE i <= Len(output)
      <4>1. i \in 1..Len(output) /\ o[i] = output[i]
        BY ONLY <1>3, <2>3, <3>1, i \in 1..Len(o)
      <4> QED BY <1>1, <4>1 DEF FlowInv
    <3>2. CASE ~ (i <= Len(output))
      <4>1. /\ i - Len(output) \in 1..Len(chunk) /\ o[i] = chunk[i - Len(output)]
            /\ Len(emitted) + Len(output) + (i - Len(output)) = Len(emitted) + i
        BY ONLY <1>3, <2>3, <3>2, i \in 1..Len(o)
      <4>2. chunk[i - Len(output)] = queue[Len(emitted) + Len(output) + (i - Len(output))]
        BY <1>1, <4>1 DEF FlowInv
      <4> QED BY <4>1, <4>2
    <3> QED BY <3>1, <3>2
  <2>6. FlowInv'
    BY <1>1, <1>4, <2>1, <2>2, <2>4, <2>5 DEF FlowInv
  <2>7. WindowInv'
    BY <1>1, <1>3, <1>4, <2>1 DEF WindowInv, WindowIsBounded, TypeInv
  <2>8. TypeInv' /\ QueueInv'
    BY <1>1, <1>2, <1>4, <2>1, <2>2, <2>3 DEF TypeInv, QueueInv
  <2> QED BY <2>6, <2>7, <2>8
<1> QED BY <1>5, <1>6

LEMMA BaseEmit == ASSUME BaseInv, Emit PROVE BaseInv'
<1> USE DEF BaseInv
<1>1. /\ UNCHANGED <<mode, input, queue, pulled, chunk, finished, crashed, outcome>>
      /\ pc = "emit" /\ mode = "lazy" /\ chunk = <<>>
  BY DEF Emit, WindowInv
<1>2. Ordered' = Ordered
  BY <1>1 DEF Ordered
<1>3. /\ Len(emitted) + Len(output) + Len(chunk) = pulled /\ pulled \in Nat
      /\ Len(emitted) \in Nat /\ Len(output) \in Nat /\ Len(chunk) = 0
  BY <1>1 DEF FlowInv, TypeInv
<1>4. CASE output = <<>>
  <2>1. pc' = "fill" /\ UNCHANGED <<output, emitted>>
    BY <1>4 DEF Emit
  <2> QED BY <1>1, <1>2, <1>4, <2>1
          DEF TypeInv, QueueInv, FlowInv, WindowInv, WindowIsBounded
<1>5. CASE output # <<>>
  <2>1. pc' = pc /\ emitted' = Append(emitted, Head(output)) /\ output' = Tail(output)
    BY <1>5 DEF Emit
  <2>2. PICK e, o : e = Append(emitted, Head(output)) /\ o = Tail(output)
    OBVIOUS
  <2>3. /\ e \in Seq(Jobs) /\ Len(e) = Len(emitted) + 1 /\ e[Len(e)] = output[1]
        /\ \A i \in 1..Len(emitted) : e[i] = emitted[i]
    <3>1. Head(output) \in Jobs /\ Head(output) = output[1] /\ emitted \in Seq(Jobs)
      BY <1>5 DEF TypeInv
    <3> QED BY ONLY <2>2, <3>1
  <2>4. /\ o \in Seq(Jobs) /\ Len(o) = Len(output) - 1 /\ Len(output) >= 1
        /\ \A i \in 1..Len(o) : o[i] = output[i + 1]
    <3>1. output \in Seq(Jobs)
      BY DEF TypeInv
    <3> QED BY ONLY <1>5, <2>2, <3>1
  <2>5. Len(emitted) + 1 = Len(e) /\ Len(e) + Len(o) + Len(chunk) = pulled /\ Len(e) <= pulled
    <3>1. Len(e) = Len(emitted) + 1
      BY ONLY <2>3
    <3>2. Len(o) = Len(output) - 1 /\ Len(output) >= 1
      BY ONLY <2>4
    <3>3. PICK a, b, x, y : a = Len(e) /\ b = Len(o) /\ x = Len(emitted) /\ y = Len(output)
      OBVIOUS
    <3>4. x + y + 0 = pulled /\ x \in Nat /\ y \in Nat /\ a = x + 1 /\ b = y - 1 /\ y >= 1
      BY ONLY <1>3, <3>1, <3>2, <3>3
    <3>5. x + 1 = a /\ a + b + 0 = pulled /\ a <= pulled
      BY ONLY <3>4
    <3> QED BY ONLY <1>3, <3>3, <3>5
  <2>6. ASSUME NEW i \in 1..Len(e) PROVE e[i] = queue[i]
    <3>1. CASE i = Len(e)
      <4>1. 1 \in 1..Len(output)
        BY <1>3, <2>4
      <4>2. output[1] = queue[Len(emitted) + 1]
        BY <1>1, <4>1 DEF FlowInv
      <4> QED BY <2>3, <2>5, <3>1, <4>2
    <3>2. CASE i # Len(e)
      <4>1. i \in 1..Len(emitted)
        BY <1>3, <2>3, <3>2
      <4> QED BY <2>3, <4>1 DEF FlowInv
    <3> QED BY <3>1, <3>2
  <2>7. ASSUME NEW i \in 1..Len(o) PROVE o[i] = queue[Len(e) + i]
    <3>1. i + 1 \in 1..Len(output) /\ Len(emitted) + (i + 1) = Len(e) + i
      <4>1. Len(e) = Len(emitted) + 1
        BY ONLY <2>3
      <4>2. Len(o) = Len(output) - 1 /\ Len(output) >= 1
        BY ONLY <2>4
      <4>3. PICK a, b, x, y : a = Len(e) /\ b = Len(o) /\ x = Len(emitted) /\ y = Len(output)
        OBVIOUS
      <4>4. x \in Nat /\ y \in Nat /\ a = x + 1 /\ b = y - 1 /\ i \in 1..b
        BY <1>3, <4>1, <4>2, <4>3
      <4>5. i + 1 \in 1..y /\ x + (i + 1) = a + i
        BY ONLY <4>4
      <4> QED BY ONLY <4>3, <4>5
    <3>2. output[i + 1] = queue[Len(emitted) + (i + 1)]
      BY <1>1, <3>1 DEF FlowInv
    <3> QED BY <2>4, <3>1, <3>2
  <2>8. FlowInv'
    <3>1. /\ emitted' = e /\ output' = o /\ Len(chunk') = 0
          /\ queue' = queue /\ pulled' = pulled /\ Len(chunk') = Len(chunk)
      BY <1>1, <1>3, <2>1, <2>2
    <3>2. \A i \in 1..Len(chunk') : FALSE
      BY ONLY <3>1
    <3> QED BY ONLY <2>5, <2>6, <2>7, <3>1, <3>2 DEF FlowInv
  <2>9. WindowInv'
    <3>1. pulled - Len(emitted) <= MaxInFlight /\ MaxInFlight \in Nat
      BY <1>1, OrderedParallelAssumption DEF WindowInv, WindowIsBounded
    <3>2. pulled - Len(e) <= MaxInFlight
      BY ONLY <1>3, <2>5, <3>1
    <3> QED BY <1>1, <2>1, <2>2, <3>2 DEF WindowInv, WindowIsBounded
  <2>10. TypeInv' /\ QueueInv'
    BY <1>1, <1>2, <2>1, <2>2, <2>3, <2>4 DEF TypeInv, QueueInv
  <2> QED BY <2>8, <2>9, <2>10
<1> QED BY <1>4, <1>5

LEMMA BaseOther ==
  ASSUME BaseInv, (\E w \in 0..(Workers - 1) : RunJob(w)) \/ UNCHANGED vars
  PROVE  BaseInv'
<1>1. UNCHANGED <<mode, input, queue, pulled, chunk, output, emitted, pc>>
  BY DEF RunJob, vars
<1>2. Ordered' = Ordered
  BY <1>1 DEF Ordered
<1> QED BY <1>1, <1>2
        DEF BaseInv, TypeInv, QueueInv, FlowInv, WindowInv, WindowIsBounded

LEMMA BaseInductive == Spec => []BaseInv
<1>1. BaseInv /\ [Next]_vars => BaseInv'
  BY BaseStart, BasePull, BaseDispatch, BaseJoin, BaseEmit, BaseOther DEF Next
<1> QED BY <1>1, BaseStarts, PTL DEF Spec

(* At no moment are more than MaxInFlight inputs and outputs of a lazy     *)
(* call retained, whatever the number of workers.                          *)
THEOREM WindowIsBoundedHolds == Spec => []WindowIsBounded
<1>1. BaseInv => WindowIsBounded
  BY DEF BaseInv, WindowInv
<1> QED BY <1>1, BaseInductive, PTL

(* What the caller has been given is a prefix of the canonical order       *)
(* without repetition.                                                     *)
THEOREM DeliveryIsCanonicalHolds == Spec => []DeliveryIsCanonical
<1>1. BaseInv => DeliveryIsCanonical
  <2> SUFFICES ASSUME BaseInv PROVE DeliveryIsCanonical
    OBVIOUS
  <2> USE DEF BaseInv
  <2>1. /\ emitted \in Seq(Jobs) /\ queue \in Seq(Jobs) /\ Len(emitted) \in Nat
        /\ Len(emitted) <= pulled /\ pulled \in Nat /\ pulled <= Len(queue)
        /\ \A i \in 1..Len(emitted) : emitted[i] = queue[i]
    BY DEF TypeInv, FlowInv
  <2>2. \A i \in 2..Len(emitted) : Before(emitted[i - 1], emitted[i])
    <3> SUFFICES ASSUME NEW i \in 2..Len(emitted) PROVE Before(emitted[i - 1], emitted[i])
      OBVIOUS
    <3>1. i - 1 \in 1..pulled /\ i \in 1..pulled /\ i - 1 < i
      BY <2>1
    <3>2. Before(queue[i - 1], queue[i])
      BY <3>1 DEF QueueInv
    <3>3. i \in 1..Len(emitted) /\ i - 1 \in 1..Len(emitted)
      OBVIOUS
    <3> QED BY <2>1, <3>2, <3>3
  <2>3. IsPrefix(emitted, Ordered)
    <3>1. CASE pc = "start"
      <4>1. Len(emitted) = 0
        BY <2>1, <3>1 DEF QueueInv
      <4>2. Ordered \in Seq(Jobs)
        BY SortedIsJobs DEF Ordered, TypeInv
      <4> QED BY <2>1, <4>1, <4>2 DEF IsPrefix
    <3>2. CASE pc # "start"
      <4>1. Ordered = queue
        BY <3>2 DEF QueueInv
      <4> QED BY <2>1, <4>1 DEF IsPrefix
    <3> QED BY <3>1, <3>2
  <2> QED BY <2>2, <2>3 DEF DeliveryIsCanonical
<1> QED BY <1>1, BaseInductive, PTL

-----------------------------------------------------------------------------
(* The scope: who has panicked and what has been run.                      *)

LEMMA ScopeStays ==
  ASSUME BaseInv, ScopeInv, chunk' = chunk, finished' = finished, crashed' = crashed,
         pc' = "run" => pc = "run" /\ pulled' = pulled /\ queue' = queue,
         pc = "run" => pc' = "run"
  PROVE  ScopeInv'
<1>1. Threads' = Threads /\ \A w : Bucket(w)' = Bucket(w)
  BY DEF Threads, Bucket, WorkerCount
<1> QED BY <1>1 DEF ScopeInv

LEMMA ScopeClears ==
  ASSUME finished' = {}, crashed' = {}, pc' # "run"
  PROVE  ScopeInv'
BY DEF ScopeInv

LEMMA ScopeNext == ASSUME BaseInv, ScopeInv, [Next]_vars PROVE ScopeInv'
<1>1. CASE Start
  <2>1. pc = "start" /\ pc' # "run" /\ UNCHANGED <<chunk, finished, crashed>>
    BY <1>1 DEF Start, Finish
  <2> QED BY <2>1, ScopeStays
<1>2. CASE Pull
  <2>1. pc = "fill" /\ pc' # "run" /\ UNCHANGED <<finished, crashed>>
    BY <1>2 DEF Pull, Finish
  <2>2. finished = {} /\ crashed = {}
    BY <2>1 DEF ScopeInv
  <2> QED BY <2>1, <2>2, ScopeClears
<1>3. CASE Dispatch
  <2>1. /\ pc = "fill" /\ UNCHANGED <<queue, pulled, chunk, finished, crashed>>
        /\ pc' = "run" => chunk # <<>> /\ (Len(chunk) = MaxInFlight \/ pulled = Len(queue))
    BY <1>3 DEF Dispatch, Finish, ChunkIsFull
  <2>2. finished = {} /\ crashed = {}
    BY <2>1 DEF ScopeInv
  <2> QED BY <2>1, <2>2 DEF ScopeInv
<1>4. CASE JoinChunk
  <2>1. finished' = {} /\ crashed' = {} /\ pc' # "run"
    BY <1>4 DEF JoinChunk, Finish
  <2> QED BY <2>1, ScopeClears
<1>5. CASE Emit
  <2>1. pc = "emit" /\ pc' # "run" /\ UNCHANGED <<chunk, finished, crashed>>
    BY <1>5 DEF Emit
  <2> QED BY <2>1, ScopeStays
<1>6. ASSUME NEW w \in 0..(Workers - 1), w \in Threads, RunJob(w) PROVE ScopeInv'
  <2>1. /\ pc = "run" /\ UNCHANGED <<queue, pulled, chunk, pc>>
        /\ ~ (Bucket(w) \subseteq finished)
    BY <1>6 DEF RunJob, Stopped
  <2>2. Threads' = Threads /\ \A v : Bucket(v)' = Bucket(v)
    BY <2>1 DEF Threads, Bucket, WorkerCount
  <2>3. PICK S : S = Bucket(w) \ finished
    OBVIOUS
  <2>4. S \in SUBSET Nat /\ S # {} /\ S \subseteq Bucket(w) /\ S \subseteq DOMAIN chunk
    <3>1. Bucket(w) \subseteq DOMAIN chunk
      BY DEF Bucket
    <3>2. DOMAIN chunk \subseteq Nat
      BY DEF BaseInv, TypeInv
    <3> QED BY <2>1, <2>3, <3>1, <3>2
  <2>5. PICK i : i = Min(S)
    OBVIOUS
  <2>6. i \in S
    <3>1. \E x \in S : \A y \in S : x <= y
      BY <2>4, LeastNumber
    <3> QED BY <2>5, <3>1 DEF Min
  <2>7. IF chunk[i].does = "panic"
        THEN crashed' = crashed \cup {w} /\ finished' = finished
        ELSE finished' = finished \cup {i} /\ crashed' = crashed
    BY <1>6, <2>3, <2>5 DEF RunJob
  <2> QED BY <1>6, <2>1, <2>2, <2>4, <2>6, <2>7 DEF ScopeInv
<1>7. CASE UNCHANGED vars
  <2>1. UNCHANGED <<queue, pulled, chunk, finished, crashed, pc>>
    BY <1>7 DEF vars
  <2> QED BY <2>1, ScopeStays
<1> QED BY <1>1, <1>2, <1>3, <1>4, <1>5, <1>6, <1>7 DEF Next

(* When every thread has stopped, a chunk without a crash has no panic in  *)
(* it, and a crash shows that it had one.                                  *)
LEMMA ScopeTells ==
  ASSUME BaseInv, ScopeInv, JoinChunk
  PROVE  /\ crashed # {} <=> \E i \in DOMAIN chunk : chunk[i].does = "panic"
         /\ Cardinality(crashed) > 1 =>
              \E i, j \in DOMAIN chunk :
                i # j /\ chunk[i].does = "panic" /\ chunk[j].does = "panic"
<1>1. PICK W \in Nat \ {0} : W = WorkerCount
  BY WorkerCountIs DEF BaseInv, TypeInv
<1>2. Threads = 0..(W - 1)
  BY <1>1 DEF Threads
<1>3. \A w : Bucket(w) = {i \in DOMAIN chunk : (i - 1) % W = w}
  BY <1>1 DEF Bucket
<1>4. crashed \subseteq Threads /\ \A w \in crashed : \E i \in Bucket(w) : chunk[i].does = "panic"
  BY DEF ScopeInv
<1>5. ASSUME crashed = {}, NEW i \in DOMAIN chunk PROVE chunk[i].does # "panic"
  <2>1. i - 1 \in Nat
    BY DEF BaseInv, TypeInv
  <2>2. (i - 1) % W \in 0..(W - 1)
    BY <2>1
  <2>3. Bucket((i - 1) % W) \subseteq finished
    BY <1>2, <1>5, <2>2 DEF JoinChunk, Stopped
  <2>4. i \in finished
    BY <1>3, <2>3
  <2> QED BY <2>4 DEF ScopeInv
<1>6. crashed # {} => \E i \in DOMAIN chunk : chunk[i].does = "panic"
  BY <1>3, <1>4
<1>7. ASSUME Cardinality(crashed) > 1
      PROVE  \E i, j \in DOMAIN chunk :
                i # j /\ chunk[i].does = "panic" /\ chunk[j].does = "panic"
  <2>1. IsFiniteSet(crashed)
    <3>1. IsFiniteSet(0..(W - 1))
      BY FS_Interval
    <3> QED BY <1>2, <1>4, <3>1, FS_Subset
  <2>2. PICK u \in crashed : TRUE
    BY <1>7, <2>1, FS_EmptySet
  <2>3. \E v \in crashed : v # u
    <3> SUFFICES ASSUME \A v \in crashed : v = u PROVE FALSE
      OBVIOUS
    <3>1. crashed = {u}
      BY <2>2
    <3> QED BY <1>7, <3>1, FS_Singleton
  <2>4. PICK v \in crashed : v # u
    BY <2>3
  <2>5. PICK i \in Bucket(u) : chunk[i].does = "panic"
    BY <1>4
  <2>6. PICK j \in Bucket(v) : chunk[j].does = "panic"
    BY <1>4
  <2>7. i \in DOMAIN chunk /\ j \in DOMAIN chunk /\ (i - 1) % W = u /\ (j - 1) % W = v
    BY <1>3, <2>5, <2>6
  <2>8. i # j
    BY <2>4, <2>7
  <2> QED BY <2>5, <2>6, <2>7, <2>8
<1> QED BY <1>5, <1>6, <1>7

-----------------------------------------------------------------------------
(* What one worker would do.                                               *)

(* The windows are those that begin within the input.                      *)
LEMMA WindowsAre ==
  ASSUME input \in Seq(Jobs), NEW k \in Nat \ {0}
  PROVE  k \in Windows <=> MaxInFlight * (k - 1) < Len(input)
<1>1. PICK M \in Nat \ {0} : M = MaxInFlight
  BY OrderedParallelAssumption
<1>2. PICK n \in Nat : n = Len(input)
  OBVIOUS
<1>3. PICK x \in Nat : x = n + M - 1
  OBVIOUS
<1>4. PICK d, r : d = x \div M /\ r = x % M
  OBVIOUS
<1>5. d \in Nat /\ r \in 0..(M - 1) /\ x = M * d + r
  BY <1>4
<1>6. k \in Windows <=> k <= d
  <2>1. Windows = 1..d
    BY <1>1, <1>2, <1>3, <1>4 DEF Windows
  <2> QED BY <1>5, <2>1
<1>7. k <= d => M * (k - 1) < n
  <2> SUFFICES ASSUME k <= d PROVE M * (k - 1) < n
    OBVIOUS
  <2>1. M * (k - 1) = M * k - M /\ M * k <= M * d
    BY <1>5
  <2>2. PICK y \in Int, z \in Int : y = M * k /\ z = M * d
    BY <1>5
  <2>3. y <= z /\ z + r = n + M - 1 /\ M * (k - 1) = y - M
    BY <1>3, <1>5, <2>1, <2>2
  <2>4. r >= 0
    BY <1>5
  <2>5. r <= M - 1
    BY <1>5
  <2>6. PICK v : v = M * (k - 1)
    OBVIOUS
  <2>7. v = y - M
    BY <2>3, <2>6
  <2>8. k >= 1 /\ k <= d /\ d \in Nat
    BY <1>5
  <2>9. v < n
    BY ONLY <1>5, <2>3, <2>5, <2>7, n \in Nat, M \in Nat \ {0}, y \in Int, z \in Int
  <2> QED BY <2>6, <2>9
<1>8. d < k => ~ (M * (k - 1) < n)
  <2> SUFFICES ASSUME d < k PROVE M * (k - 1) >= n
    <3>1. M * (k - 1) \in Int
      OBVIOUS
    <3> QED BY <3>1
  <2>1. d <= k - 1 /\ k - 1 \in Nat
    BY <1>5
  <2>2. M * d <= M * (k - 1)
    BY <1>5, <2>1
  <2>3. PICK y \in Int, z \in Int : y = M * (k - 1) /\ z = M * d
    BY <1>5
  <2>4. z <= y /\ z + r = n + M - 1
    BY <1>3, <1>5, <2>2, <2>3
  <2>5. y >= n
    BY ONLY <1>5, <2>4, n \in Nat, M \in Nat \ {0}, y \in Int, z \in Int
  <2> QED BY <2>3, <2>5
<1> QED BY <1>1, <1>2, <1>5, <1>6, <1>7, <1>8

(* The first window that cannot be completed decides.                      *)
LEMMA FirstBadWindow ==
  ASSUME ~ (mode = "collect" /\ Duplicates(Sorted(input)) # {}),
         NEW k \in Nat, \A j \in 1..k : WindowOutcome(j) = Done,
         k + 1 \in Windows, WindowOutcome(k + 1) # Done
  PROVE  SerialOutcome = WindowOutcome(k + 1)
<1> DEFINE bad == {j \in Windows : WindowOutcome(j) # Done}
<1>1. Windows \subseteq Nat \ {0}
  BY DEF Windows
<1>2. k + 1 \in bad /\ \A j \in bad : k + 1 <= j
  BY <1>1
<1>3. Min(bad) = k + 1
  <2>1. \A x \in bad : (\A y \in bad : x <= y) => x = k + 1
    BY <1>1, <1>2
  <2> HIDE DEF bad
  <2> QED BY <1>2, <2>1 DEF Min
<1>4. bad # {}
  BY <1>2
<1>5. SerialOutcome = IF bad = {} THEN Done ELSE WindowOutcome(Min(bad))
  BY DEF SerialOutcome
<1> HIDE DEF bad
<1> QED BY <1>3, <1>4, <1>5

LEMMA NoBadWindow ==
  ASSUME ~ (mode = "collect" /\ Duplicates(Sorted(input)) # {}),
         \A j \in Windows : WindowOutcome(j) = Done
  PROVE  SerialOutcome = Done
BY DEF SerialOutcome

(* Neither depends on anything but the mode and the input.                 *)
LEMMA SerialIsFixed ==
  ASSUME mode' = mode, input' = input
  PROVE  /\ SerialOutcome' = SerialOutcome
         /\ \A k : WindowOutcome(k)' = WindowOutcome(k)
<1>1. Ordered' = Ordered
  BY DEF Ordered
<1>2. \A k : Window(k)' = Window(k) /\ Misordered(k)' = Misordered(k)
  BY <1>1 DEF Window, Misordered
<1>3. Windows' = Windows
  BY DEF Windows
<1>4. ASSUME NEW k PROVE WindowOutcome(k)' = WindowOutcome(k)
  BY <1>1, <1>2 DEF WindowOutcome
<1>5. SerialOutcome' = SerialOutcome
  BY <1>3, <1>4 DEF SerialOutcome
<1> QED BY <1>4, <1>5

(* Whatever goes on, what was rejected as repeated never runs.             *)
LEMMA NothingRepeated ==
  ASSUME BaseInv, pc \notin {"start", "done"}
  PROVE  ~ (mode = "collect" /\ Duplicates(Sorted(input)) # {})
<1> SUFFICES ASSUME mode = "collect" PROVE Duplicates(Sorted(input)) = {}
  OBVIOUS
<1>1. queue = Sorted(input) /\ Increasing(queue) /\ queue \in Seq(Jobs)
  BY DEF BaseInv, QueueInv, TypeInv, Ordered
<1>2. \A i \in 1..(Len(queue) - 1) : i \in DOMAIN queue /\ i + 1 \in DOMAIN queue /\ i < i + 1
  BY <1>1
<1>3. \A i \in 1..(Len(queue) - 1) : queue[i].order < queue[i + 1].order
  BY <1>1, <1>2 DEF Increasing
<1>4. \A i \in DOMAIN queue : queue[i].order \in Nat
  BY <1>1, KeysCompare
<1>5. \A i \in 1..(Len(queue) - 1) : queue[i].order # queue[i + 1].order
  BY <1>2, <1>3, <1>4
<1> QED BY <1>1, <1>5 DEF Duplicates

LEMMA OrderedLength ==
  ASSUME BaseInv, pc # "start"
  PROVE  queue = Ordered /\ Len(queue) = Len(input) /\ Len(input) \in Nat
<1>1. queue = Ordered /\ input \in Seq(Jobs)
  BY DEF BaseInv, QueueInv, TypeInv
<1> QED BY <1>1, SortedIsJobs DEF Ordered

(* Full or last, a chunk in flight is the window it begins.                *)
LEMMA ChunkIsWindow ==
  ASSUME BaseInv, ScopeInv, pc = "run", NEW k \in Nat,
         pulled - Len(chunk) = MaxInFlight * k
  PROVE  /\ Window(k + 1) = chunk /\ Misordered(k + 1) = {}
         /\ k + 1 \in Windows
         /\ pulled = MaxInFlight * (k + 1)
            \/ (pulled = Len(queue) /\ pulled <= MaxInFlight * (k + 1))
<1>1. PICK M \in Nat \ {0} : M = MaxInFlight
  BY OrderedParallelAssumption
<1>2. PICK b \in Nat : b = M * k
  OBVIOUS
<1>3. M * (k + 1) = b + M
  BY <1>2
<1>4. /\ queue \in Seq(Jobs) /\ chunk \in Seq(Jobs) /\ pulled \in Nat
      /\ pulled <= Len(queue) /\ Len(chunk) \in Nat /\ Len(chunk) # 0
      /\ Len(chunk) = M \/ pulled = Len(queue)
      /\ Len(chunk) <= M
      /\ Len(emitted) \in Nat /\ Len(output) \in Nat
      /\ Len(emitted) + Len(output) + Len(chunk) = pulled
  BY <1>1 DEF BaseInv, TypeInv, FlowInv, WindowInv, ScopeInv
<1>5. queue = Ordered /\ Len(queue) = Len(input) /\ Len(input) \in Nat
  BY OrderedLength
<1>6. pulled = b + Len(chunk)
  BY <1>1, <1>2, <1>4
<1>7. Min({b + M, Len(input)}) = pulled
  <2>1. Min({b + M, Len(input)}) = IF b + M <= Len(input) THEN b + M ELSE Len(input)
    BY <1>5, MaxMinOfTwo
  <2> QED BY <1>4, <1>5, <1>6, <2>1
<1>8. Window(k + 1) = SubSeq(queue, b + 1, pulled)
  <2>1. (k + 1) - 1 = k /\ k * M = b /\ (k + 1) * M = b + M
    BY <1>2, <1>3
  <2> QED BY <1>1, <1>5, <1>7, <2>1 DEF Window
<1>9. SubSeq(queue, b + 1, pulled) = chunk
  <2>1. \A i \in 1..Len(chunk) : chunk[i] = queue[b + i]
    <3>1. Len(emitted) + Len(output) = b
      BY <1>4, <1>6
    <3> QED BY <3>1 DEF BaseInv, FlowInv
  <2>2. PICK s : s = SubSeq(queue, b + 1, pulled)
    OBVIOUS
  <2>3. b + 1 \in 1..Len(queue) + 1 /\ pulled \in b..Len(queue)
    BY <1>4, <1>6
  <2>4. /\ s \in Seq(Jobs) /\ Len(s) = Len(chunk)
        /\ \A i \in 1..Len(chunk) : s[i] = queue[b + i]
    BY ONLY <1>4, <1>6, <2>2, <2>3, b \in Nat
  <2>5. s = chunk
    <3>1. PICK c, l : c = chunk /\ l = Len(c)
      OBVIOUS
    <3>2. s \in Seq(Jobs) /\ c \in Seq(Jobs) /\ Len(s) = Len(c)
      BY ONLY <1>4, <2>4, <3>1
    <3>3. \A i \in 1..Len(s) : s[i] = c[i]
      BY ONLY <2>1, <2>4, <3>1
    <3>4. s = c
      BY ONLY <3>2, <3>3, SeqEqual
    <3> QED BY ONLY <3>1, <3>4
  <2> QED BY <2>2, <2>5
<1>10. Misordered(k + 1) = {}
  <2> SUFFICES ASSUME NEW i \in 2..Len(input), (i - 1) \div MaxInFlight = (k + 1) - 1,
                      Ordered[i].order <= Ordered[i - 1].order
               PROVE  FALSE
    BY DEF Misordered
  <2>1. PICK x \in Nat : x = i - 1
    OBVIOUS
  <2>2. x = M * (x \div M) + (x % M) /\ x % M \in 0..(M - 1)
    BY <2>1
  <2>3. x \div M = k
    BY <1>1, <2>1
  <2>4. x < b + M
    BY <1>2, <2>2, <2>3
  <2>5. i \in 1..pulled /\ i - 1 \in 1..pulled /\ i - 1 < i
    BY <1>4, <1>5, <1>6, <2>1, <2>4
  <2>6. Before(queue[i - 1], queue[i])
    BY <2>5 DEF BaseInv, QueueInv
  <2>7. queue[i - 1].order \in Nat /\ queue[i].order \in Nat
    BY <1>4, <2>5, KeysCompare
  <2> QED BY <1>5, <2>6, <2>7 DEF Before
<1>11. k + 1 \in Windows
  <2>1. input \in Seq(Jobs) /\ k + 1 \in Nat \ {0} /\ (k + 1) - 1 = k
    BY DEF BaseInv, TypeInv
  <2>2. M * k < Len(input)
    BY <1>2, <1>4, <1>5, <1>6
  <2> QED BY <1>1, <2>1, <2>2, WindowsAre
<1>12. pulled = M * (k + 1) \/ (pulled = Len(queue) /\ pulled <= M * (k + 1))
  BY <1>3, <1>4, <1>6
<1> QED BY <1>1, <1>8, <1>9, <1>10, <1>11, <1>12

(* A job out of order ends the window it would have joined.                *)
LEMMA MisorderedEnds ==
  ASSUME BaseInv, Pull, OrderError(queue[pulled + 1]) # Done, NEW k \in Nat,
         pulled - Len(chunk) = MaxInFlight * k
  PROVE  k + 1 \in Windows /\ WindowOutcome(k + 1) = OrderError(queue[pulled + 1])
<1>1. PICK M \in Nat \ {0} : M = MaxInFlight
  BY OrderedParallelAssumption
<1>2. PICK b \in Nat : b = M * k
  OBVIOUS
<1>3. /\ queue \in Seq(Jobs) /\ pulled \in Nat /\ pulled < Len(queue)
      /\ Len(chunk) \in Nat /\ Len(chunk) # M /\ Len(chunk) <= M /\ pc = "fill"
  BY <1>1 DEF BaseInv, TypeInv, WindowInv, Pull, ChunkIsFull
<1>4. queue = Ordered /\ Len(queue) = Len(input) /\ Len(input) \in Nat
  BY <1>3, OrderedLength
<1>5. pulled = b + Len(chunk) /\ Len(chunk) < M
  BY <1>1, <1>2, <1>3
<1>6. PICK i : i = pulled + 1
  OBVIOUS
<1>7. mode = "lazy" /\ pulled # 0 /\ ~ (queue[pulled].order < queue[i].order)
  BY <1>6 DEF OrderError, BaseInv, TypeInv
<1>8. i \in 2..Len(input) /\ i - 1 = pulled /\ pulled \in DOMAIN queue /\ i \in DOMAIN queue
  BY <1>3, <1>4, <1>6, <1>7
<1>9. queue[pulled].order \in Nat /\ queue[i].order \in Nat
  BY <1>3, <1>8, KeysCompare
<1>10. pulled \div M = k
  <2>1. PICK d, r : d = pulled \div M /\ r = pulled % M
    OBVIOUS
  <2>2. d \in Nat /\ r \in 0..(M - 1) /\ pulled = M * d + r
    BY <1>3, <2>1
  <2>3. PICK z \in Int : z = M * d
    BY <2>2
  <2>4. d < k => z <= b - M
    <3>1. d < k => M * d <= M * (k - 1) /\ M * (k - 1) = M * k - M
      BY <2>2
    <3> QED BY <1>2, <2>3, <3>1
  <2>5. k < d => b + M <= z
    <3>1. k < d => M * (k + 1) <= M * d /\ M * (k + 1) = M * k + M
      BY <2>2
    <3> QED BY <1>2, <2>3, <3>1
  <2>6. ~ (d < k) /\ ~ (k < d)
    BY <1>3, <1>5, <2>2, <2>3, <2>4, <2>5
  <2> QED BY <2>1, <2>2, <2>6
<1>11. i \in Misordered(k + 1)
  <2>1. Ordered[i].order <= Ordered[i - 1].order
    <3>1. Ordered[i] = queue[i] /\ Ordered[i - 1] = queue[pulled]
      BY ONLY <1>4, <1>8
    <3>2. \A x, y \in Nat : ~ (x < y) => y <= x
      OBVIOUS
    <3>3. queue[i].order <= queue[pulled].order
      BY ONLY <1>7, <1>9, <3>2
    <3> QED BY ONLY <3>1, <3>3
  <2>2. (i - 1) \div MaxInFlight = (k + 1) - 1
    <3>1. (i - 1) \div MaxInFlight = k
      BY ONLY <1>1, <1>8, <1>10
    <3> QED BY ONLY <3>1, k \in Nat
  <2> QED BY ONLY <1>8, <2>1, <2>2 DEF Misordered
<1>12. \A j \in Misordered(k + 1) : i <= j
  <2> SUFFICES ASSUME NEW j \in 2..Len(input), Ordered[j].order <= Ordered[j - 1].order, j < i
               PROVE  FALSE
    <3>1. i \in Nat /\ \A j \in 2..Len(input) : j \in Nat /\ (~ (j < i) => i <= j)
      BY ONLY <1>8
    <3>2. \A j \in Misordered(k + 1) : j \in 2..Len(input) /\ Ordered[j].order <= Ordered[j - 1].order
      BY ONLY DEF Misordered
    <3> QED BY <3>1, <3>2
  <2>1. j - 1 \in 1..pulled /\ j \in 1..pulled /\ j - 1 < j
    BY <1>3, <1>6
  <2>2. Before(queue[j - 1], queue[j])
    BY <2>1 DEF BaseInv, QueueInv
  <2>3. j \in DOMAIN queue /\ j - 1 \in DOMAIN queue
    BY <1>3, <2>1
  <2>4. queue[j - 1].order \in Nat /\ queue[j].order \in Nat
    BY <1>3, <2>3, KeysCompare
  <2> QED BY <1>4, <2>2, <2>4 DEF Before
<1>13. Misordered(k + 1) \subseteq Nat
  BY DEF Misordered
<1>14. Min(Misordered(k + 1)) = i
  <2>1. \A x \in Misordered(k + 1) :
          (\A y \in Misordered(k + 1) : x <= y) => x = i
    BY <1>11, <1>12, <1>13
  <2> QED BY <1>11, <1>12, <2>1 DEF Min
<1>15. WindowOutcome(k + 1)
         = Failure(IF Ordered[i].order = Ordered[i - 1].order
                   THEN "duplicate_order" ELSE "out_of_order", Ordered[i].order)
  BY <1>11, <1>14 DEF WindowOutcome
<1>16. OrderError(queue[i])
         = Failure(IF queue[pulled].order = queue[i].order
                   THEN "duplicate_order" ELSE "out_of_order", queue[i].order)
  BY <1>7 DEF OrderError
<1>17. WindowOutcome(k + 1) = OrderError(queue[i])
  BY <1>4, <1>8, <1>15, <1>16
<1>18. k + 1 \in Windows
  <2>1. input \in Seq(Jobs) /\ k + 1 \in Nat \ {0} /\ (k + 1) - 1 = k
    BY DEF BaseInv, TypeInv
  <2>2. M * k < Len(input)
    BY <1>2, <1>3, <1>4, <1>5
  <2> QED BY <1>1, <2>1, <2>2, WindowsAre
<1> QED BY <1>6, <1>17, <1>18

(* A joined chunk ends as its window does, but for two panics at once.     *)
LEMMA ChunkOutcomeIs ==
  ASSUME BaseInv, ScopeInv, JoinChunk, NEW k \in Nat,
         pulled - Len(chunk) = MaxInFlight * k
  PROVE  \/ ChunkOutcome = WindowOutcome(k + 1)
         \/ /\ ChunkOutcome = [kind |-> "unwound"]
            /\ WindowOutcome(k + 1) = [kind |-> "worker_panic"]
            /\ TwoPanics
<1>1. pc = "run"
  BY DEF JoinChunk
<1>2. Window(k + 1) = chunk /\ Misordered(k + 1) = {}
  BY <1>1, ChunkIsWindow
<1>3. Merged = chunk
  BY <1>1, ChunkAscends
<1>4. WindowOutcome(k + 1)
        = IF \E i \in DOMAIN chunk : chunk[i].does = "panic"
          THEN [kind |-> "worker_panic"]
          ELSE IF Failing(chunk) # <<>> THEN Failure("task", Head(Failing(chunk)).order)
          ELSE Done
  BY <1>2 DEF WindowOutcome
<1>5. ChunkOutcome
        = IF Cardinality(crashed) > 1 THEN [kind |-> "unwound"]
          ELSE IF crashed # {} THEN [kind |-> "worker_panic"]
          ELSE IF Failing(chunk) # <<>> THEN Failure("task", Head(Failing(chunk)).order)
          ELSE Done
  BY <1>3 DEF ChunkOutcome
<1>6. CASE ~ (Cardinality(crashed) > 1)
  <2>1. crashed # {} <=> \E i \in DOMAIN chunk : chunk[i].does = "panic"
    BY ScopeTells
  <2> QED BY <1>4, <1>5, <1>6, <2>1
<1>7. CASE Cardinality(crashed) > 1
  <2>1. PICK i, j \in DOMAIN chunk :
              i # j /\ chunk[i].does = "panic" /\ chunk[j].does = "panic"
    BY <1>7, ScopeTells
  <2>2. WindowOutcome(k + 1) = [kind |-> "worker_panic"]
    BY <1>4, <2>1
  <2>3. TwoPanics
    <3>1. /\ Len(emitted) \in Nat /\ Len(output) \in Nat /\ Len(chunk) \in Nat
          /\ Len(emitted) + Len(output) + Len(chunk) = pulled /\ pulled <= Len(queue)
          /\ Len(queue) \in Nat /\ DOMAIN chunk = 1..Len(chunk) /\ pulled \in Nat
      BY <1>1 DEF BaseInv, TypeInv, FlowInv
    <3>2. PICK b \in Nat : b = Len(emitted) + Len(output)
      BY <3>1
    <3>3. /\ b + i \in 1..Len(queue) /\ b + j \in 1..Len(queue) /\ b + i # b + j
      BY ONLY <3>1, <3>2, <2>1, i \in DOMAIN chunk, j \in DOMAIN chunk
    <3>4. chunk[i] = queue[b + i] /\ chunk[j] = queue[b + j]
      BY <1>1, <3>1, <3>2 DEF BaseInv, FlowInv
    <3> QED BY <2>1, <3>3, <3>4 DEF TwoPanics
  <2> QED BY <1>5, <1>7, <2>2, <2>3
<1> QED BY <1>6, <1>7

LEMMA SerialNext ==
  ASSUME BaseInv, ScopeInv, SerialInv, [Next]_vars
  PROVE  SerialInv'
<1>1. /\ mode' = mode /\ input' = input /\ SerialOutcome' = SerialOutcome
      /\ \A j : WindowOutcome(j)' = WindowOutcome(j)
  <2>1. mode' = mode /\ input' = input
    BY DEF Next, vars, Start, Pull, Dispatch, JoinChunk, Emit, RunJob
  <2> QED BY <2>1, SerialIsFixed
<1> DEFINE Ended(o) ==
             \/ o = SerialOutcome
             \/ /\ o = [kind |-> "unwound"] /\ SerialOutcome = [kind |-> "worker_panic"]
                /\ TwoPanics
           Reached(k, p, c, q) ==
             /\ \A j \in 1..k : WindowOutcome(j) = Done
             /\ \/ p - Len(c) = MaxInFlight * k
                \/ c = <<>> /\ p = Len(q) /\ p <= MaxInFlight * k
<1>2. /\ pc \in {"fill", "run", "emit"} => \E k \in Nat : Reached(k, pulled, chunk, queue)
      /\ pc = "done" => Ended(outcome)
  BY DEF SerialInv
<1>3. ASSUME pc' \in {"fill", "run", "emit"}, NEW k \in Nat, Reached(k, pulled', chunk', queue')
      PROVE  SerialInv'
  BY <1>1, <1>3 DEF SerialInv
<1>4. ASSUME pc' = "done", queue' = queue, Ended(outcome') PROVE SerialInv'
  BY <1>1, <1>4 DEF SerialInv, TwoPanics
<1>5. CASE Start
  <2>1. pulled' = 0 /\ chunk' = <<>> /\ pc = "start"
    BY <1>5 DEF Start, BaseInv, QueueInv, FlowInv, TypeInv
  <2>2. CASE pc' = "fill"
    <3>1. Reached(0, pulled', chunk', queue')
      <4>1. 0 - Len(<<>>) = MaxInFlight * 0
        BY OrderedParallelAssumption
      <4>2. 1..0 = {}
        OBVIOUS
      <4> QED BY <2>1, <4>1, <4>2
    <3> HIDE DEF Reached
    <3> QED BY <1>3, <2>2, <3>1
  <2>3. CASE pc' # "fill"
    <3>1. pc' = "done" /\ outcome' = SerialOutcome
      BY <1>5, <2>3 DEF Start, Finish, SerialOutcome, BaseInv, TypeInv
    <3> QED BY <1>1, <3>1 DEF SerialInv
  <2> QED BY <2>2, <2>3
<1>6. ASSUME pc \in {"fill", "run", "emit"},
             pc' \in {"fill", "run", "emit"}, queue' = queue,
             pulled' - Len(chunk') = pulled - Len(chunk),
             chunk = <<>> => chunk' = <<>> /\ pulled' = pulled
      PROVE  SerialInv'
  <2>1. PICK k \in Nat : Reached(k, pulled, chunk, queue)
    BY <1>2, <1>6
  <2>2. Reached(k, pulled', chunk', queue')
    BY <1>6, <2>1
  <2> HIDE DEF Reached
  <2> QED BY <1>3, <1>6, <2>2
<1>7. CASE Pull
  <2>1. pc = "fill" /\ pulled < Len(queue) /\ queue' = queue /\ pulled \in Nat
    BY <1>7 DEF Pull, BaseInv, TypeInv
  <2>2. PICK k \in Nat : /\ \A j \in 1..k : WindowOutcome(j) = Done
                         /\ pulled - Len(chunk) = MaxInFlight * k
    BY <1>2, <2>1
  <2>3. PICK job : job = queue[pulled + 1]
    OBVIOUS
  <2>4. CASE OrderError(job) # Done
    <3>1. pc' = "done" /\ outcome' = OrderError(job)
      BY <1>7, <2>3, <2>4 DEF Pull, Finish
    <3>2. k + 1 \in Windows /\ WindowOutcome(k + 1) = OrderError(job)
      BY <1>7, <2>2, <2>3, <2>4, MisorderedEnds
    <3>3. SerialOutcome = WindowOutcome(k + 1)
      <4>1. ~ (mode = "collect" /\ Duplicates(Sorted(input)) # {})
        BY <2>1, NothingRepeated
      <4> QED BY <2>2, <2>4, <3>2, <4>1, FirstBadWindow
    <3> QED BY <1>4, <2>1, <3>1, <3>2, <3>3
  <2>5. CASE OrderError(job) = Done
    <3>1. pulled' = pulled + 1 /\ chunk' = Append(chunk, job) /\ pc' = pc
      BY <1>7, <2>3, <2>5 DEF Pull
    <3>2. Len(chunk') = Len(chunk) + 1 /\ Len(chunk) \in Nat
      <4>1. chunk \in Seq(Jobs) /\ job \in Jobs
        <5>1. queue \in Seq(Jobs) /\ pulled + 1 \in 1..Len(queue) /\ chunk \in Seq(Jobs)
          BY <2>1 DEF BaseInv, TypeInv
        <5> QED BY <2>3, <5>1
      <4> QED BY <3>1, <4>1
    <3>3. pulled' - Len(chunk') = pulled - Len(chunk)
      BY <2>1, <3>1, <3>2
    <3>4. Reached(k, pulled', chunk', queue')
      BY <2>2, <3>3
    <3> HIDE DEF Reached
    <3> QED BY <1>3, <2>1, <3>1, <3>4
  <2> QED BY <2>4, <2>5
<1>8. CASE Dispatch
  <2>1. pc = "fill" /\ UNCHANGED <<queue, pulled, chunk>>
    BY <1>8 DEF Dispatch
  <2>2. CASE chunk # <<>>
    <3>1. pc' = "run"
      BY <1>8, <2>2 DEF Dispatch
    <3> QED BY <1>6, <2>1, <2>2, <3>1
  <2>3. CASE chunk = <<>>
    <3>1. pc' = "done" /\ outcome' = Done /\ pulled = Len(queue)
      BY <1>8, <2>3, OrderedParallelAssumption
      DEF Dispatch, Finish, ChunkIsFull, BaseInv, TypeInv
    <3>2. PICK k \in Nat : Reached(k, pulled, chunk, queue)
      BY <1>2, <2>1
    <3>3. pulled <= MaxInFlight * k /\ pulled \in Nat
      <4>1. Len(chunk) = 0 /\ pulled \in Nat
        BY <2>3 DEF BaseInv, TypeInv
      <4>2. PICK z \in Nat : z = MaxInFlight * k
        BY OrderedParallelAssumption
      <4>3. pulled - 0 = z \/ pulled <= z
        BY <3>2, <4>1, <4>2
      <4> QED BY <4>1, <4>2, <4>3
    <3>4. ASSUME NEW j \in Windows PROVE WindowOutcome(j) = Done
      <4>1. j \in Nat \ {0} /\ Len(queue) = Len(input) /\ input \in Seq(Jobs)
        BY <2>1, OrderedLength DEF Windows, BaseInv, TypeInv
      <4>2. MaxInFlight * (j - 1) < Len(input)
        BY <4>1, WindowsAre
      <4>3. PICK M \in Nat \ {0} : M = MaxInFlight
        BY OrderedParallelAssumption
      <4>4. ~ (k < j)
        <5> SUFFICES ASSUME k < j PROVE FALSE
          OBVIOUS
        <5>1. k <= j - 1 /\ j - 1 \in Nat
          BY <4>1
        <5>2. M * k <= M * (j - 1)
          BY <5>1
        <5>3. PICK y \in Int, z \in Int : y = M * k /\ z = M * (j - 1)
          BY <5>1
        <5> QED BY <3>1, <3>3, <4>1, <4>2, <4>3, <5>2, <5>3
      <4>5. j \in 1..k
        BY <4>1, <4>4
      <4> QED BY <3>2, <4>5
    <3>5. SerialOutcome = Done
      <4>1. ~ (mode = "collect" /\ Duplicates(Sorted(input)) # {})
        BY <2>1, NothingRepeated
      <4> QED BY <3>4, <4>1, NoBadWindow
    <3> QED BY <1>4, <2>1, <3>1, <3>5
  <2> QED BY <2>2, <2>3
<1>9. CASE JoinChunk
  <2>1. pc = "run" /\ UNCHANGED <<queue, pulled>> /\ chunk' = <<>> /\ chunk # <<>>
    BY <1>9 DEF JoinChunk, ScopeInv
  <2>2. PICK k \in Nat : /\ \A j \in 1..k : WindowOutcome(j) = Done
                         /\ pulled - Len(chunk) = MaxInFlight * k
    BY <1>2, <2>1
  <2>3. /\ k + 1 \in Windows
        /\ pulled = MaxInFlight * (k + 1)
           \/ (pulled = Len(queue) /\ pulled <= MaxInFlight * (k + 1))
    BY <2>1, <2>2, ChunkIsWindow
  <2>4. \/ ChunkOutcome = WindowOutcome(k + 1)
        \/ /\ ChunkOutcome = [kind |-> "unwound"]
           /\ WindowOutcome(k + 1) = [kind |-> "worker_panic"]
           /\ TwoPanics
    BY <1>9, <2>2, ChunkOutcomeIs
  <2>5. CASE ChunkOutcome # Done
    <3>1. pc' = "done" /\ outcome' = ChunkOutcome
      BY <1>9, <2>5 DEF JoinChunk, Finish
    <3>2. WindowOutcome(k + 1) # Done
      BY <2>4, <2>5 DEF Done
    <3>3. SerialOutcome = WindowOutcome(k + 1)
      <4>1. ~ (mode = "collect" /\ Duplicates(Sorted(input)) # {})
        BY <2>1, NothingRepeated
      <4> QED BY <2>2, <2>3, <3>2, <4>1, FirstBadWindow
    <3> QED BY <1>4, <2>1, <2>4, <3>1, <3>3
  <2>6. CASE ChunkOutcome = Done
    <3>1. pc' \in {"fill", "emit"}
      BY <1>9, <2>6 DEF JoinChunk
    <3>2. WindowOutcome(k + 1) = Done
      BY <2>4, <2>6 DEF Done
    <3>3. \A j \in 1..(k + 1) : WindowOutcome(j) = Done
      BY <2>2, <3>2
    <3>4. pulled - Len(<<>>) = pulled
      BY DEF BaseInv, TypeInv
    <3>5. k + 1 \in Nat /\ Reached(k + 1, pulled', chunk', queue')
      BY <2>1, <2>3, <3>3, <3>4
    <3> HIDE DEF Reached
    <3> QED BY <1>3, <3>1, <3>5
  <2> QED BY <2>5, <2>6
<1>10. CASE Emit
  <2>1. pc = "emit" /\ pc' \in {"fill", "emit"} /\ UNCHANGED <<queue, pulled, chunk>>
    BY <1>10 DEF Emit
  <2> QED BY <1>6, <2>1
<1>11. CASE UNCHANGED <<queue, pulled, chunk, pc, outcome>>
  <2>1. CASE pc = "done"
    BY <1>2, <1>4, <1>11, <2>1
  <2>2. CASE pc \in {"fill", "run", "emit"}
    BY <1>6, <1>11, <2>2
  <2>3. CASE pc = "start"
    BY <1>11, <2>3 DEF SerialInv
  <2> QED BY <2>1, <2>2, <2>3 DEF BaseInv, TypeInv
<1>12. CASE (\E w \in 0..(Workers - 1) : RunJob(w)) \/ UNCHANGED vars
  <2>1. UNCHANGED <<queue, pulled, chunk, pc, outcome>>
    BY <1>12 DEF RunJob, vars
  <2> QED BY <1>11, <2>1
<1> QED BY <1>5, <1>7, <1>8, <1>9, <1>10, <1>12 DEF Next

LEMMA ParallelInductive == Spec => [](BaseInv /\ ScopeInv /\ SerialInv)
<1>1. Init => ScopeInv /\ SerialInv
  BY DEF Init, ScopeInv, SerialInv
<1>2. BaseInv /\ ScopeInv /\ SerialInv /\ [Next]_vars => ScopeInv' /\ SerialInv'
  BY ScopeNext, SerialNext
<1> QED BY <1>1, <1>2, BaseInductive, PTL DEF Spec

(* An input of at most one panic has no two of them in the queue.          *)
LEMMA AtMostOnePanic ==
  ASSUME MaxPanics <= 1, input \in Inputs, queue = Ordered
  PROVE  ~ TwoPanics
<1> DEFINE P == {i \in DOMAIN input : input[i].does = "panic"}
<1>1. input \in Seq(Jobs)
  BY InputsAreJobs
<1>2. \A i, j \in P : i = j
  <2>1. IsFiniteSet(P)
    <3>1. DOMAIN input = 1..Len(input) /\ Len(input) \in Nat
      BY <1>1
    <3>2. IsFiniteSet(1..Len(input))
      BY <3>1, FS_Interval
    <3> QED BY <3>1, <3>2, FS_Subset
  <2>2. Cardinality(P) <= MaxPanics
    BY DEF Inputs
  <2> HIDE DEF P
  <2> SUFFICES ASSUME NEW i \in P, NEW j \in P, i # j PROVE FALSE
    OBVIOUS
  <2>3. IsFiniteSet({i}) /\ Cardinality({i}) = 1
    BY FS_Singleton
  <2>4. Cardinality({i} \cup {j}) = 2
    <3>1. Cardinality({i} \cup {j}) = Cardinality({i}) + 1
      BY <2>3, FS_AddElement
    <3> QED BY <2>3, <3>1
  <2>5. Cardinality({i} \cup {j}) <= Cardinality(P)
    BY <2>1, FS_Subset
  <2>6. Cardinality(P) \in Nat /\ MaxPanics \in Nat
    BY <2>1, FS_CardinalityType, OrderedParallelAssumption
  <2> QED BY <2>2, <2>4, <2>5, <2>6
<1>3. CASE mode = "lazy"
  BY <1>1, <1>2, <1>3 DEF TwoPanics, Ordered
<1>4. CASE mode # "lazy"
  <2>1. queue = Sorted(input)
    BY <1>4 DEF Ordered
  <2>2. PICK at \in [DOMAIN input -> DOMAIN input] :
           /\ Sorted(input) = [k \in DOMAIN input |-> input[at[k]]]
           /\ \A k, l \in DOMAIN input : at[k] = at[l] => k = l
    BY <1>1, SortedIs
  <2>3. DOMAIN input = 1..Len(queue)
    BY <1>1, <2>1, SortedIsJobs
  <2> SUFFICES ASSUME NEW i \in 1..Len(queue), NEW j \in 1..Len(queue), i # j,
                      queue[i].does = "panic", queue[j].does = "panic"
               PROVE  FALSE
    BY DEF TwoPanics
  <2>4. at[i] \in P /\ at[j] \in P /\ at[i] # at[j]
    BY <2>1, <2>2, <2>3
  <2> QED BY <1>2, <2>4
<1> QED BY <1>3, <1>4

(* The outcome is the serial one, whatever the workers do, for inputs of   *)
(* at most one panic; with two the call may unwind (see ChunkOutcome).     *)
THEOREM WorkersDoNotMatterHolds ==
  ASSUME MaxPanics <= 1
  PROVE  Spec => []WorkersDoNotMatter
<1>1. Init => input \in Inputs
  BY DEF Init
<1>2. input \in Inputs /\ [Next]_vars => (input \in Inputs)'
  BY DEF Next, vars, Start, Pull, Dispatch, JoinChunk, Emit, RunJob
<1>3. BaseInv /\ ScopeInv /\ SerialInv /\ input \in Inputs => WorkersDoNotMatter
  <2> SUFFICES ASSUME BaseInv, SerialInv, input \in Inputs, pc = "done"
               PROVE  outcome = SerialOutcome
    BY DEF WorkersDoNotMatter
  <2>1. ~ TwoPanics
    <3>1. queue = Ordered
      BY DEF BaseInv, QueueInv
    <3> QED BY <3>1, AtMostOnePanic
  <2> QED BY <2>1 DEF SerialInv
<1> QED BY <1>1, <1>2, <1>3, ParallelInductive, PTL DEF Spec

(* For inputs of any number of panics: a call whose outcome is not the     *)
(* serial one is a call that unwound where the serial one reports a panic, *)
(* and its input holds two panics.                                         *)
THEOREM OnlyPanicsMatter ==
  Spec => [](pc = "done" /\ outcome # SerialOutcome =>
               /\ outcome = [kind |-> "unwound"]
               /\ SerialOutcome = [kind |-> "worker_panic"]
               /\ TwoPanics)
<1>1. SerialInv => (pc = "done" /\ outcome # SerialOutcome =>
                      /\ outcome = [kind |-> "unwound"]
                      /\ SerialOutcome = [kind |-> "worker_panic"]
                      /\ TwoPanics)
  BY DEF SerialInv
<1> QED BY <1>1, ParallelInductive, PTL

(* Types, for any number of workers and inputs of any length.              *)
THEOREM ParallelTypeCorrect == Spec => []TypeInv
<1>1. BaseInv => TypeInv
  BY DEF BaseInv
<1> QED BY <1>1, BaseInductive, PTL

-----------------------------------------------------------------------------


-----------------------------------------------------------------------------
(* Segmentation: sets of positions in their order.                         *)

LEMMA InOrderIs ==
  ASSUME NEW S \in SUBSET Nat, IsFiniteSet(S)
  PROVE  /\ InOrderOfPosition(S) \in Seq(S)
         /\ Len(InOrderOfPosition(S)) = Cardinality(S)
         /\ \A k, l \in DOMAIN InOrderOfPosition(S) :
              k < l => InOrderOfPosition(S)[k] < InOrderOfPosition(S)[l]
         /\ \A i \in S : \E k \in DOMAIN InOrderOfPosition(S) : InOrderOfPosition(S)[k] = i
<1> DEFINE n == Cardinality(S)
           Below(i) == {j \in S : j < i}
           rank == [i \in S |-> Cardinality(Below(i)) + 1]
           at == [k \in 1..n |-> CHOOSE i \in S : Cardinality(Below(i)) = k - 1]
<1>1. n \in Nat
  BY FS_CardinalityType
<1>2. IsFiniteSet(1..n) /\ Cardinality(1..n) = n
  <2> HIDE DEF n
  <2>1. IsFiniteSet(1..n) /\ Cardinality(1..n) = IF 1 > n THEN 0 ELSE n - 1 + 1
    BY <1>1, FS_Interval
  <2> QED BY <1>1, <2>1
<1>3. ASSUME NEW i \in S
      PROVE  /\ IsFiniteSet(Below(i)) /\ Cardinality(Below(i)) \in Nat
             /\ Cardinality(Below(i)) < n
  <2>1. Below(i) \in SUBSET S /\ i \notin Below(i)
    OBVIOUS
  <2>2. Below(i) # S
    BY <2>1
  <2> HIDE DEF Below, n
  <2>3. /\ IsFiniteSet(Below(i)) /\ Cardinality(Below(i)) <= Cardinality(S)
        /\ Cardinality(Below(i)) = Cardinality(S) => Below(i) = S
    BY <2>1, FS_Subset
  <2>4. Cardinality(Below(i)) \in Nat
    BY <2>3, FS_CardinalityType
  <2> QED BY <2>2, <2>3, <2>4, <1>1 DEF n
<1>4. ASSUME NEW i \in S, NEW j \in S, i < j
      PROVE  Cardinality(Below(i)) < Cardinality(Below(j))
  <2>1. Below(i) \in SUBSET Below(j) /\ Below(i) # Below(j)
    <3>1. i \in Below(j) /\ i \notin Below(i)
      BY <1>4
    <3>2. ASSUME NEW x \in Below(i) PROVE x \in Below(j)
      <4>1. x \in Nat /\ i \in Nat /\ j \in Nat /\ x \in S /\ x < i
        OBVIOUS
      <4>2. x < j
        BY <4>1, <1>4
      <4> QED BY <4>1, <4>2
    <3> QED BY <3>1, <3>2
  <2> HIDE DEF Below
  <2>2. /\ Cardinality(Below(i)) <= Cardinality(Below(j))
        /\ Cardinality(Below(i)) # Cardinality(Below(j))
    BY <2>1, <1>3, FS_Subset
  <2> QED BY <2>2, <1>3
<1>5. \A i \in S : rank[i] \in 1..n
  <2> HIDE DEF Below, n
  <2> QED BY <1>1, <1>3
<1>6. \A i, j \in S : i < j <=> rank[i] < rank[j]
  <2> SUFFICES ASSUME NEW i \in S, NEW j \in S PROVE i < j <=> rank[i] < rank[j]
    OBVIOUS
  <2>1. i \in Nat /\ j \in Nat /\ (i < j \/ i = j \/ j < i)
    OBVIOUS
  <2>2. /\ i < j => Cardinality(Below(i)) < Cardinality(Below(j))
        /\ j < i => Cardinality(Below(j)) < Cardinality(Below(i))
    BY <1>4
  <2>3. Cardinality(Below(i)) \in Nat /\ Cardinality(Below(j)) \in Nat
    BY <1>3
  <2> HIDE DEF Below
  <2> QED BY <2>1, <2>2, <2>3
<1>7. rank \in Injection(S, 1..n)
  <2>1. rank \in [S -> 1..n]
    <3> HIDE DEF n
    <3> QED BY <1>5
  <2>2. \A i, j \in S : rank[i] = rank[j] => i = j
    <3> SUFFICES ASSUME NEW i \in S, NEW j \in S, rank[i] = rank[j] PROVE i = j
      OBVIOUS
    <3>1. rank[i] \in Nat /\ rank[j] \in Nat
      BY <1>1, <1>5
    <3>2. ~ (i < j) /\ ~ (j < i)
      <4> HIDE DEF rank
      <4> QED BY <1>6, <3>1
    <3> QED BY <3>2
  <2> HIDE DEF rank, n
  <2> QED BY <2>1, <2>2 DEF Injection, IsInjective
<1>8. rank \in Surjection(S, 1..n)
  <2> HIDE DEF rank
  <2> QED BY <1>2, <1>7, FS_Injection
<1>9. \A k \in 1..n : \E i \in S : Cardinality(Below(i)) = k - 1
  <2> SUFFICES ASSUME NEW k \in 1..n PROVE \E i \in S : Cardinality(Below(i)) = k - 1
    OBVIOUS
  <2>1. PICK i \in S : rank[i] = k
    BY <1>8 DEF Surjection
  <2>2. Cardinality(Below(i)) + 1 = k /\ Cardinality(Below(i)) \in Nat
    BY <2>1, <1>3
  <2> HIDE DEF Below, n
  <2> QED BY <2>2, <1>1
<1>10. \A k \in 1..n : at[k] \in S /\ rank[at[k]] = k
  <2> SUFFICES ASSUME NEW k \in 1..n PROVE at[k] \in S /\ rank[at[k]] = k
    OBVIOUS
  <2>1. at[k] \in S /\ Cardinality(Below(at[k])) = k - 1
    <3> HIDE DEF Below, n
    <3> QED BY <1>9
  <2>2. rank[at[k]] = Cardinality(Below(at[k])) + 1
    BY <2>1
  <2> HIDE DEF at, rank, Below, n
  <2> QED BY <2>1, <2>2, <1>1
<1>11. InOrderOfPosition(S) = at
  BY DEF InOrderOfPosition
<1> HIDE DEF at, rank, n, Below
<1>12. /\ DOMAIN at = 1..n /\ at \in Seq(S) /\ Len(at) = n
  <2>1. DOMAIN at = 1..n
    BY DEF at
  <2>2. at \in [1..n -> S]
    BY <1>10 DEF at
  <2> QED BY <1>1, <2>1, <2>2
<1>13. \A k, l \in 1..n : k < l => at[k] < at[l]
  BY <1>6, <1>10
<1>14. ASSUME NEW i \in S PROVE \E k \in 1..n : at[k] = i
  <2>1. rank[i] \in 1..n
    BY <1>5
  <2>2. at[rank[i]] \in S /\ rank[at[rank[i]]] = rank[i]
    BY <2>1, <1>10
  <2>3. at[rank[i]] = i
    BY <2>2, <1>7 DEF Injection, IsInjective
  <2> QED BY <2>1, <2>3
<1> QED BY <1>11, <1>12, <1>13, <1>14 DEF n

LEMMA InOrderOnce ==
  ASSUME NEW S \in SUBSET Nat, IsFiniteSet(S)
  PROVE  /\ InOrderOfPosition(S) \in Seq(S)
         /\ IsInjective(InOrderOfPosition(S))
         /\ Range(InOrderOfPosition(S)) = S
<1> DEFINE s == InOrderOfPosition(S)
<1>1. /\ s \in Seq(S)
      /\ \A k, l \in DOMAIN s : k < l => s[k] < s[l]
      /\ \A i \in S : \E k \in DOMAIN s : s[k] = i
  BY InOrderIs
<1> HIDE DEF s
<1>2. ASSUME NEW k \in DOMAIN s, NEW l \in DOMAIN s, s[k] = s[l] PROVE k = l
  <2>1. k \in Nat /\ l \in Nat /\ s[k] \in S /\ s[l] \in S
    BY <1>1
  <2>2. s[k] \in Nat
    BY <2>1
  <2> QED BY <1>1, <1>2, <2>1, <2>2
<1>3. \A k \in DOMAIN s : s[k] \in S
  BY <1>1
<1>4. Range(s) = S
  BY <1>1, <1>3 DEF Range
<1> QED BY <1>1, <1>2, <1>4 DEF s, IsInjective

(* What is kept of a sequence without repetitions does not repeat.         *)
LEMMA KeepOnce ==
  ASSUME NEW X, NEW s \in Seq(X), IsInjective(s), NEW S
  PROVE  Keep(s, S) \in Seq(S \cap X) /\ IsInjective(Keep(s, S))
<1> DEFINE T == {k \in DOMAIN s : s[k] \in S}
<1>1. T \in SUBSET Nat /\ IsFiniteSet(T)
  <2>1. DOMAIN s = 1..Len(s) /\ Len(s) \in Nat
    OBVIOUS
  <2>2. IsFiniteSet(1..Len(s))
    BY <2>1, FS_Interval
  <2>3. T \in SUBSET (1..Len(s)) /\ T \in SUBSET Nat
    BY <2>1
  <2> HIDE DEF T
  <2> QED BY <2>2, <2>3, FS_Subset
<1>2. PICK at : at = InOrderOfPosition(T)
  OBVIOUS
<1>3. at \in Seq(T) /\ IsInjective(at)
  <2> HIDE DEF T
  <2> QED BY <1>1, <1>2, InOrderOnce
<1>4. Keep(s, S) = [k \in DOMAIN at |-> s[at[k]]]
  BY <1>2 DEF Keep
<1>5. \A k \in DOMAIN at : at[k] \in DOMAIN s /\ s[at[k]] \in S \cap X
  <2>1. \A k \in DOMAIN at : at[k] \in T
    <3> HIDE DEF T
    <3> QED BY <1>3
  <2> QED BY <2>1
<1>6. [k \in DOMAIN at |-> s[at[k]]] \in Seq(S \cap X)
  <2>1. DOMAIN at = 1..Len(at) /\ Len(at) \in Nat
    <3> HIDE DEF T
    <3> QED BY <1>3
  <2> HIDE DEF T
  <2> QED BY <1>5, <2>1
<1>7. \A k, l \in DOMAIN at : s[at[k]] = s[at[l]] => k = l
  BY <1>3, <1>5 DEF IsInjective
<1> HIDE DEF T
<1> QED BY <1>4, <1>6, <1>7 DEF IsInjective


-----------------------------------------------------------------------------
(* The units and their nodes.                                              *)

Chosen == text \in Texts /\ option \in SegmentOptions

UnitSet == {u \in Prepared : \A i \in Members(u) : u <= i}

LEMMA PositionsAre ==
  ASSUME Chosen
  PROVE  /\ Len(text) \in Nat /\ Positions = 1..Len(text)
         /\ Positions \in SUBSET Nat /\ IsFiniteSet(Positions)
         /\ Prepared \in SUBSET Positions
         /\ \A i \in Positions : text[i].parent \in 0..Len(text)
         /\ \A i \in Positions : text[i].level \in Nat \ {0}
<1>1. /\ text \in Seq([kind : STRING, parent : Nat, level : Nat \ {0}, size : Nat,
                       selected : BOOLEAN, located : BOOLEAN, caption : Nat])
      /\ \A i \in DOMAIN text : {text[i].parent, text[i].caption} \subseteq 0 .. Len(text)
  BY SegmentationAssumption DEF Chosen
<1>2. Len(text) \in Nat /\ Positions = 1..Len(text)
  BY <1>1 DEF Positions
<1>3. IsFiniteSet(1..Len(text))
  BY <1>2, FS_Interval
<1>4. Prepared \in SUBSET Positions
  BY DEF Prepared
<1>5. \A i \in Positions : text[i].parent \in 0..Len(text)
  BY <1>1 DEF Positions
<1>6. ASSUME NEW i \in Positions PROVE text[i].level \in Nat \ {0}
  <2> DEFINE R == [kind : STRING, parent : Nat, level : Nat \ {0}, size : Nat,
                   selected : BOOLEAN, located : BOOLEAN, caption : Nat]
  <2>1. text \in Seq(R) /\ i \in DOMAIN text
    BY <1>1 DEF Positions
  <2>2. text[i] \in R
    <3> HIDE DEF R
    <3> QED BY <2>1
  <2> QED BY <2>2
<1> QED BY <1>2, <1>3, <1>4, <1>5, <1>6

LEMMA MembersAre ==
  ASSUME Chosen, NEW u
  PROVE  Members(u) \in SUBSET Nat /\ IsFiniteSet(Members(u)) /\ Members(u) \in SUBSET Prepared
<1>1. Members(u) \in SUBSET Prepared
  BY DEF Members
<1>2. Members(u) \in SUBSET Positions
  BY <1>1, PositionsAre
<1> QED BY <1>1, <1>2, PositionsAre, FS_Subset

(* Every node that is prepared is in one unit.                             *)
LEMMA UnitsPartition ==
  ASSUME Chosen
  PROVE  /\ \A u, v \in UnitSet : u # v => Members(u) \cap Members(v) = {}
         /\ \A i \in Prepared : \E u \in UnitSet : i \in Members(u)
<1>1. \A u, v \in Prepared : v \in Members(u) <=> AtomicGroup(v) = AtomicGroup(u)
  BY DEF Members
<1>2. \A u \in Prepared : u \in Nat
  BY PositionsAre
<1>3. ASSUME NEW u \in UnitSet, NEW v \in UnitSet, NEW i, i \in Members(u), i \in Members(v)
      PROVE  u = v
  <2>1. u \in Prepared /\ v \in Prepared /\ i \in Prepared
    BY <1>3, MembersAre DEF UnitSet
  <2>2. AtomicGroup(i) = AtomicGroup(u) /\ AtomicGroup(i) = AtomicGroup(v)
    BY <1>1, <1>3, <2>1
  <2>3. u \in Members(v) /\ v \in Members(u)
    BY <1>1, <2>1, <2>2
  <2>4. u <= v /\ v <= u
    BY <2>3 DEF UnitSet
  <2>5. u \in Nat /\ v \in Nat
    BY <1>2, <2>1
  <2> QED BY <2>4, <2>5
<1>4. ASSUME NEW i \in Prepared PROVE \E u \in UnitSet : i \in Members(u)
  <2>1. i \in Members(i)
    BY <1>1
  <2>2. PICK u \in Members(i) : \A m \in Members(i) : u <= m
    BY <2>1, MembersAre, LeastNumber
  <2>3. u \in Prepared /\ AtomicGroup(u) = AtomicGroup(i)
    BY <1>1, <2>2, MembersAre
  <2>4. Members(u) = Members(i)
    BY <2>3 DEF Members
  <2> QED BY <2>1, <2>2, <2>3, <2>4 DEF UnitSet
<1> QED BY <1>3, <1>4

LEMMA UnitsAre ==
  ASSUME Chosen
  PROVE  Units \in Seq(UnitSet) /\ IsInjective(Units) /\ Range(Units) = UnitSet
<1>1. UnitSet \in SUBSET Positions
  BY PositionsAre DEF UnitSet
<1>2. UnitSet \in SUBSET Nat /\ IsFiniteSet(UnitSet)
  BY <1>1, PositionsAre, FS_Subset
<1>3. Units = InOrderOfPosition(UnitSet)
  BY DEF Units, UnitSet
<1> QED BY <1>2, <1>3, InOrderOnce

LEMMA ConcatOnce ==
  ASSUME NEW X, NEW s \in Seq(X), NEW t \in Seq(X), IsInjective(s), IsInjective(t),
         \A x \in Range(s) : x \notin Range(t)
  PROVE  /\ s \o t \in Seq(X) /\ IsInjective(s \o t)
         /\ Range(s \o t) = Range(s) \cup Range(t)
<1>1. PICK w : w = s \o t
  OBVIOUS
<1>2. /\ w \in Seq(X) /\ Len(w) = Len(s) + Len(t)
      /\ \A i \in 1..Len(s) : w[i] = s[i]
      /\ \A i \in 1..Len(t) : w[Len(s) + i] = t[i]
      /\ \A i \in Len(s) + 1..Len(s) + Len(t) : w[i] = t[i - Len(s)]
  BY <1>1
<1>3. /\ DOMAIN s = 1..Len(s) /\ DOMAIN t = 1..Len(t) /\ DOMAIN w = 1..Len(s) + Len(t)
      /\ Len(s) \in Nat /\ Len(t) \in Nat
  BY <1>2
<1>4. \A i \in DOMAIN w : \/ i \in DOMAIN s /\ w[i] = s[i]
                          \/ i - Len(s) \in DOMAIN t /\ w[i] = t[i - Len(s)]
  BY ONLY <1>2, <1>3
<1>5. \A i \in DOMAIN s : i \in DOMAIN w /\ w[i] = s[i]
  BY ONLY <1>2, <1>3
<1>6. \A i \in DOMAIN t : Len(s) + i \in DOMAIN w /\ w[Len(s) + i] = t[i]
  BY ONLY <1>2, <1>3
<1>7. Range(w) = Range(s) \cup Range(t)
  BY ONLY <1>4, <1>5, <1>6 DEF Range
<1>8. ASSUME NEW i \in DOMAIN w, NEW j \in DOMAIN w, w[i] = w[j] PROVE i = j
  <2>1. \A a \in DOMAIN s, b \in DOMAIN t : s[a] # t[b]
    BY DEF Range
  <2>2. \A a, b \in DOMAIN s : s[a] = s[b] => a = b
    BY DEF IsInjective
  <2>3. \A a, b \in DOMAIN t : t[a] = t[b] => a = b
    BY DEF IsInjective
  <2>4. i \in DOMAIN s <=> j \in DOMAIN s
    BY ONLY <1>3, <1>4, <1>8, <2>1, i \in DOMAIN w, j \in DOMAIN w
  <2>5. CASE i \in DOMAIN s
    BY ONLY <1>5, <1>8, <2>2, <2>4, <2>5
  <2>6. CASE i \notin DOMAIN s
    <3>1. /\ i - Len(s) \in DOMAIN t /\ w[i] = t[i - Len(s)]
          /\ j - Len(s) \in DOMAIN t /\ w[j] = t[j - Len(s)]
      BY ONLY <1>4, <2>4, <2>6, i \in DOMAIN w, j \in DOMAIN w
    <3>2. i - Len(s) = j - Len(s)
      BY ONLY <1>8, <2>3, <3>1
    <3> QED BY ONLY <1>3, <3>2, i \in DOMAIN w, j \in DOMAIN w
  <2> QED BY <2>5, <2>6
<1> QED BY <1>1, <1>2, <1>7, <1>8 DEF IsInjective

LEMMA NodesAre ==
  ASSUME Chosen, NEW us \in Seq(UnitSet)
  PROVE  /\ NodesOf(us) \in Seq(Prepared)
         /\ IsInjective(us) =>
              /\ IsInjective(NodesOf(us))
              /\ \A x : x \in Range(NodesOf(us)) <=> \E k \in DOMAIN us : x \in Members(us[k])
<1> DEFINE n == Len(us)
           blocks == [k \in DOMAIN us |-> InOrderOfPosition(Members(us[k]))]
<1>1. n \in Nat /\ DOMAIN us = 1..n
  OBVIOUS
<1>2. NodesOf(us) = FlattenSeq(blocks)
  BY DEF NodesOf
<1>3. Len(blocks) = n
  BY <1>1
<1>4. ASSUME NEW k \in DOMAIN us
      PROVE  /\ blocks[k] \in Seq(Prepared) /\ IsInjective(blocks[k])
             /\ Range(blocks[k]) = Members(us[k])
  <2>1. blocks[k] = InOrderOfPosition(Members(us[k]))
    OBVIOUS
  <2>2. /\ blocks[k] \in Seq(Members(us[k])) /\ IsInjective(blocks[k])
        /\ Range(blocks[k]) = Members(us[k])
    <3> HIDE DEF blocks
    <3> QED BY <2>1, MembersAre, InOrderOnce
  <2>3. blocks[k] \in Seq(Prepared)
    <3> HIDE DEF blocks
    <3>1. Members(us[k]) \in SUBSET Prepared
      BY MembersAre
    <3> QED BY <2>2, <3>1
  <2> QED BY <2>2, <2>3
<1>5. CASE n = 0
  <2>1. FlattenSeq(blocks) = blocks
    BY <1>3, <1>5 DEF FlattenSeq
  <2>2. DOMAIN blocks = {} /\ DOMAIN us = {}
    BY <1>1, <1>5
  <2>3. blocks = <<>>
    BY <1>1, <1>5
  <2> HIDE DEF blocks
  <2> QED BY <1>2, <2>1, <2>2, <2>3 DEF IsInjective, Range
<1>6. CASE n # 0
  <2>1. PICK f : /\ FlattenSeq(blocks) = f[n]
                 /\ f[1] = blocks[1]
                 /\ \A i \in 2..n : f[i] = f[i - 1] \o blocks[i]
    <3> HIDE DEF blocks, n
    <3>1. n \in Nat \ {0}
      BY <1>1, <1>6
    <3> QED BY ONLY <1>3, <3>1, FlattenRecursion
  <2> HIDE DEF blocks, n
  <2> DEFINE Sofar(i) == \A x : x \in Range(f[i]) <=> \E k \in 1..i : x \in Members(us[k])
             T == {m \in Nat : m + 1 <= n =>
                     /\ f[m + 1] \in Seq(Prepared)
                     /\ IsInjective(us) => IsInjective(f[m + 1]) /\ Sofar(m + 1)}
  <2>2. 0 \in T
    <3>1. f[1] \in Seq(Prepared) /\ IsInjective(f[1]) /\ Range(f[1]) = Members(us[1])
      BY <1>1, <1>4, <1>6, <2>1
    <3>2. \A k \in 1..1 : k = 1
      OBVIOUS
    <3>3. Sofar(1)
      BY <3>1, <3>2
    <3> HIDE DEF Sofar
    <3> QED BY <3>1, <3>3
  <2>3. ASSUME NEW m \in T PROVE m + 1 \in T
    <3>1. m \in Nat
      OBVIOUS
    <3>2. SUFFICES ASSUME m + 2 <= n
                   PROVE  /\ f[m + 2] \in Seq(Prepared)
                          /\ IsInjective(us) => IsInjective(f[m + 2]) /\ Sofar(m + 2)
      <4> HIDE DEF Sofar
      <4>1. m + 1 + 1 = m + 2 /\ m + 1 \in Nat
        BY <3>1
      <4> QED BY <4>1
    <3>3. m + 2 \in 2..n /\ m + 2 \in DOMAIN us /\ m + 2 - 1 = m + 1
      BY <1>1, <3>1, <3>2
    <3>4. f[m + 2] = f[m + 1] \o blocks[m + 2]
      <4>1. PICK j \in 2..n : j = m + 2
        BY <3>3
      <4>2. PICK i : i = j - 1
        OBVIOUS
      <4>3. f[j] = f[i] \o blocks[j]
        BY <2>1, <4>2
      <4>4. i = m + 1
        BY ONLY <3>1, <4>1, <4>2
      <4> QED BY ONLY <4>1, <4>3, <4>4
    <3>5. PICK s : s = f[m + 1]
      OBVIOUS
    <3>6. PICK t : t = blocks[m + 2]
      OBVIOUS
    <3>7. s \in Seq(Prepared) /\ (IsInjective(us) => IsInjective(s) /\ Sofar(m + 1))
      <4> HIDE DEF Sofar
      <4> QED BY <1>1, <3>1, <3>2, <3>5
    <3>8. t \in Seq(Prepared) /\ IsInjective(t) /\ Range(t) = Members(us[m + 2])
      BY <1>4, <3>3, <3>6
    <3>9. f[m + 2] = s \o t
      BY <3>4, <3>5, <3>6
    <3>10. f[m + 2] \in Seq(Prepared)
      BY <3>7, <3>8, <3>9
    <3>11. ASSUME IsInjective(us) PROVE IsInjective(f[m + 2]) /\ Sofar(m + 2)
      <4>1. \A x \in Range(s) : \E k \in 1..m + 1 : x \in Members(us[k])
        BY <3>5, <3>7, <3>11
      <4>2. ASSUME NEW k \in 1..m + 1 PROVE Members(us[k]) \cap Members(us[m + 2]) = {}
        <5>1. k \in DOMAIN us /\ k # m + 2
          BY <1>1, <3>1, <3>2
        <5>2. us[k] \in UnitSet /\ us[m + 2] \in UnitSet /\ us[k] # us[m + 2]
          BY <3>3, <3>11, <5>1 DEF IsInjective
        <5> QED BY <5>2, UnitsPartition
      <4>3. \A x \in Range(s) : x \notin Range(t)
        BY <3>8, <4>1, <4>2
      <4>4. IsInjective(s \o t) /\ Range(s \o t) = Range(s) \cup Range(t)
        BY <3>7, <3>8, <3>11, <4>3, ConcatOnce
      <4>5. \A k \in Nat : k \in 1..m + 2 <=> k \in 1..m + 1 \/ k = m + 2
        BY <3>1
      <4>6. Sofar(m + 2)
        <5> SUFFICES ASSUME NEW x
                     PROVE  x \in Range(f[m + 2]) <=> \E k \in 1..m + 2 : x \in Members(us[k])
          OBVIOUS
        <5>1. x \in Range(f[m + 2]) <=> x \in Range(s) \/ x \in Members(us[m + 2])
          BY <3>8, <3>9, <4>4
        <5>2. x \in Range(s) <=> \E k \in 1..m + 1 : x \in Members(us[k])
          BY <3>5, <3>7, <3>11
        <5>3. m + 2 \in 1..m + 2 /\ 1..m + 1 \subseteq 1..m + 2
              /\ \A k \in 1..m + 2 : k \in 1..m + 1 \/ k = m + 2
          BY <3>1
        <5> QED BY ONLY <5>1, <5>2, <5>3
      <4> HIDE DEF Sofar
      <4> QED BY <3>9, <4>4, <4>6
    <3> HIDE DEF Sofar
    <3> QED BY <3>10, <3>11
  <2>4. T = Nat
    <3>1. T \in SUBSET Nat
      OBVIOUS
    <3> HIDE DEF T
    <3> QED BY <2>2, <2>3, <3>1, SetInduction
  <2>5. n - 1 \in T /\ n - 1 + 1 = n
    <3> HIDE DEF T
    <3> QED BY <1>1, <1>6, <2>4
  <2>6. /\ f[n] \in Seq(Prepared)
        /\ IsInjective(us) => IsInjective(f[n]) /\ Sofar(n)
    <3> HIDE DEF Sofar
    <3> QED BY <1>1, <2>5
  <2> QED BY <1>1, <1>2, <2>1, <2>6
<1> QED BY <1>5, <1>6


-----------------------------------------------------------------------------
(* The headings a segment stands under.                                    *)

(* What the recursion of Ascent says.                                      *)
LEMMA AscentRecursion ==
  ASSUME Chosen, NEW i
  PROVE  \E f : /\ Ascent(i) = f[Len(text) + 1]
                /\ f[1] = <<i>>
                /\ \A k \in 2..Len(text) + 1 :
                     f[k] = IF Last(f[k - 1]) = 0 THEN f[k - 1]
                            ELSE Append(f[k - 1], text[Last(f[k - 1])].parent)
<1> DEFINE N == Len(text) + 1
           G(f, n) == [k \in 1..n |->
                         IF k = 1 THEN <<i>>
                         ELSE IF Last(f[k - 1]) = 0 THEN f[k - 1]
                              ELSE Append(f[k - 1], text[Last(f[k - 1])].parent)]
           T == {n \in Nat : \E f : f = G(f, n)}
<1>1. 0 \in T
  <2> DEFINE z == [k \in 1..0 |-> 0]
  <2>1. z = G(z, 0)
    OBVIOUS
  <2>2. \E f : f = G(f, 0)
    <3> HIDE DEF G, z
    <3> QED BY <2>1
  <2> HIDE DEF G
  <2> QED BY <2>2
<1>2. ASSUME NEW n \in T PROVE n + 1 \in T
  <2>1. PICK f : f = G(f, n)
    OBVIOUS
  <2> DEFINE step(p) == IF Last(p) = 0 THEN p ELSE Append(p, text[Last(p)].parent)
             e(k) == IF k = 1 THEN <<i>> ELSE step(f[k - 1])
             h == [k \in 1..n + 1 |-> e(k)]
  <2>2. n \in Nat /\ f = [k \in 1..n |-> e(k)]
    BY <2>1
  <2>3. \A k \in 1..n : f[k] = e(k)
    <3> HIDE DEF e
    <3> QED BY <2>2
  <2>4. \A k \in 1..n : h[k] = f[k]
    <3> HIDE DEF e
    <3> QED BY <2>2, <2>3
  <2>5. \A k \in 1..n + 1 : k # 1 => k - 1 \in 1..n
    BY <2>2
  <2>6. \A k \in 1..n + 1 : e(k) = IF k = 1 THEN <<i>> ELSE step(h[k - 1])
    <3> HIDE DEF h, step
    <3> QED BY <2>4, <2>5
  <2>7. h = G(h, n + 1)
    <3> HIDE DEF e
    <3> QED BY <2>6
  <2>8. \E g : g = G(g, n + 1)
    <3> HIDE DEF G, h
    <3> QED BY <2>7
  <2>9. n + 1 \in Nat
    BY <2>2
  <2> HIDE DEF G, h
  <2> QED BY <2>8, <2>9
<1>3. T = Nat
  <2>1. T \in SUBSET Nat
    OBVIOUS
  <2> HIDE DEF T
  <2> QED BY <1>1, <1>2, <2>1, SetInduction
<1>4. N \in Nat /\ N >= 1
  BY PositionsAre
<1>5. \E f : f = G(f, N)
  <2> HIDE DEF G, N
  <2> QED BY <1>3, <1>4
<1> DEFINE c == CHOOSE f : f = G(f, N)
<1>6. c = G(c, N)
  <2> HIDE DEF G
  <2> QED BY <1>5
<1>7. Ascent(i) = c[N]
  BY DEF Ascent
<1> HIDE DEF c, N
<1>8. c[1] = <<i>>
  BY <1>4, <1>6
<1>9. ASSUME NEW k \in 2..N
      PROVE  c[k] = IF Last(c[k - 1]) = 0 THEN c[k - 1]
                    ELSE Append(c[k - 1], text[Last(c[k - 1])].parent)
  <2>1. k \in 1..N /\ k # 1
    BY <1>4
  <2> QED BY <1>6, <2>1
<1> QED BY <1>7, <1>8, <1>9 DEF N

(* A path from i upwards.                                                  *)
Path(p, i) ==
  /\ p \in Seq(Nat) /\ Len(p) >= 1 /\ p[1] = i
  /\ \A j \in 1..Len(p) : p[j] \in 0..Len(text)
  /\ \A j \in 1..Len(p) - 1 : p[j] \in Positions /\ p[j + 1] = text[p[j]].parent

LEMMA PathGrows ==
  ASSUME Chosen, NEW p, NEW i, Path(p, i), Last(p) # 0
  PROVE  Path(Append(p, text[Last(p)].parent), i)
<1>1. PICK n : n = Len(p)
  OBVIOUS
<1>2. PICK x : x = p[n]
  OBVIOUS
<1>3. n \in Nat /\ n >= 1 /\ Last(p) = x /\ x \in Positions /\ x # 0
  <2>1. n \in Nat /\ n >= 1 /\ x \in 0..Len(text) /\ x # 0
    BY <1>1, <1>2 DEF Path, Last
  <2> QED BY <1>1, <1>2, <2>1, PositionsAre DEF Last
<1>4. PICK y : y = text[x].parent
  OBVIOUS
<1>5. y \in 0..Len(text) /\ y \in Nat
  BY <1>3, <1>4, PositionsAre
<1>6. PICK q : q = Append(p, y)
  OBVIOUS
<1>7. /\ q \in Seq(Nat) /\ Len(q) = n + 1 /\ q[n + 1] = y
      /\ \A j \in 1..n : q[j] = p[j]
  BY <1>1, <1>5, <1>6 DEF Path
<1>8. \A j \in 1..n + 1 : j \in 1..n \/ j = n + 1
  BY <1>3
<1>9. \A j \in 1..n + 1 : q[j] \in 0..Len(text)
  BY <1>1, <1>5, <1>7, <1>8 DEF Path
<1>10. ASSUME NEW j \in 1..n PROVE q[j] \in Positions /\ q[j + 1] = text[q[j]].parent
  <2>1. CASE j = n
    BY <1>2, <1>3, <1>4, <1>7, <2>1
  <2>2. CASE j # n
    <3>1. j \in 1..n - 1 /\ j + 1 \in 1..n
      BY <1>3, <2>2
    <3>2. p[j] \in Positions /\ p[j + 1] = text[p[j]].parent
      BY <1>1, <3>1 DEF Path
    <3> QED BY <1>7, <3>1, <3>2
  <2> QED BY <2>1, <2>2
<1>11. Path(q, i)
  <2>1. Len(q) - 1 = n /\ 1 \in 1..n /\ p[1] = i
    BY <1>3, <1>7 DEF Path
  <2>2. q[1] = i
    BY <1>7, <2>1
  <2> QED BY <1>3, <1>7, <1>9, <1>10, <2>1, <2>2 DEF Path
<1> QED BY <1>3, <1>4, <1>6, <1>11

LEMMA AscentIsPath ==
  ASSUME Chosen, NEW i \in Positions
  PROVE  Path(Ascent(i), i)
<1> DEFINE N == Len(text) + 1
<1>1. N \in Nat /\ N >= 1
  BY PositionsAre
<1>2. PICK f : /\ Ascent(i) = f[Len(text) + 1]
               /\ f[1] = <<i>>
               /\ \A k \in 2..Len(text) + 1 :
                    f[k] = IF Last(f[k - 1]) = 0 THEN f[k - 1]
                           ELSE Append(f[k - 1], text[Last(f[k - 1])].parent)
  BY AscentRecursion
<1> DEFINE T == {n \in Nat : n + 1 <= N => Path(f[n + 1], i)}
<1>3. 0 \in T
  <2>1. i \in Nat /\ i \in 0..Len(text)
    BY PositionsAre
  <2>2. Path(<<i>>, i)
    BY <2>1 DEF Path
  <2>3. 0 + 1 = 1
    OBVIOUS
  <2> QED BY <1>2, <2>2, <2>3
<1>4. ASSUME NEW n \in T PROVE n + 1 \in T
  <2>1. n \in Nat /\ n + 1 \in Nat /\ n + 1 + 1 = n + 2
    OBVIOUS
  <2>2. SUFFICES ASSUME n + 2 <= N PROVE Path(f[n + 2], i)
    BY <2>1
  <2>3. Path(f[n + 1], i)
    BY <1>1, <2>1, <2>2
  <2>4. n + 2 \in 2..Len(text) + 1 /\ n + 2 - 1 = n + 1
    BY <1>1, <2>1, <2>2
  <2>5. f[n + 2] = IF Last(f[n + 1]) = 0 THEN f[n + 1]
                   ELSE Append(f[n + 1], text[Last(f[n + 1])].parent)
    BY <1>2, <2>4
  <2> HIDE DEF T
  <2>6. CASE Last(f[n + 1]) = 0
    BY <2>3, <2>5, <2>6
  <2>7. CASE Last(f[n + 1]) # 0
    BY <2>3, <2>5, <2>7, PathGrows
  <2> QED BY <2>6, <2>7
<1>5. T = Nat
  <2>1. T \in SUBSET Nat
    OBVIOUS
  <2> HIDE DEF T
  <2> QED BY <1>3, <1>4, <2>1, SetInduction
<1>6. Len(text) \in T
  <2> HIDE DEF T
  <2> QED BY <1>5, PositionsAre
<1> QED BY <1>1, <1>2, <1>6

(* A path that ends does not meet itself: it would go round for ever.      *)
LEMMA PathOnce ==
  ASSUME Chosen, NEW p, NEW i, Path(p, i), p[Len(p)] = 0,
         NEW a \in 1..Len(p), NEW b \in 1..Len(p), a < b
  PROVE  p[a] # p[b]
<1> SUFFICES ASSUME p[a] = p[b] PROVE FALSE
  OBVIOUS
<1>1. PICK n : n = Len(p)
  OBVIOUS
<1>2. n \in Nat /\ a \in 1..n /\ b \in 1..n
  BY <1>1 DEF Path
<1> DEFINE T == {t \in Nat : b + t <= n => p[a + t] = p[b + t]}
<1>3. 0 \in T
  BY <1>2
<1>4. ASSUME NEW t \in T PROVE t + 1 \in T
  <2>1. t \in Nat /\ t + 1 \in Nat /\ b + t + 1 = b + (t + 1) /\ a + t + 1 = a + (t + 1)
    BY <1>2
  <2>2. SUFFICES ASSUME b + t + 1 <= n PROVE p[a + t + 1] = p[b + t + 1]
    BY <2>1
  <2>3. a + t \in 1..n - 1 /\ b + t \in 1..n - 1 /\ b + t <= n
    BY <1>2, <2>1, <2>2
  <2>4. p[a + t] = p[b + t]
    BY <2>3
  <2>5. /\ p[a + t + 1] = text[p[a + t]].parent
        /\ p[b + t + 1] = text[p[b + t]].parent
    BY <1>1, <2>3 DEF Path
  <2> QED BY <2>4, <2>5
<1>5. T = Nat
  <2>1. T \in SUBSET Nat
    OBVIOUS
  <2> HIDE DEF T
  <2> QED BY <1>3, <1>4, <2>1, SetInduction
<1>6. n - b \in T
  <2> HIDE DEF T
  <2> QED BY <1>2, <1>5
<1>7. b + (n - b) = n /\ a + (n - b) \in 1..n - 1
  BY <1>2
<1>8. p[a + (n - b)] = 0
  BY <1>1, <1>2, <1>6, <1>7
<1>9. p[a + (n - b)] \in Positions
  BY <1>1, <1>7 DEF Path
<1> QED BY <1>8, <1>9, PositionsAre

LEMMA AncestryOnce ==
  ASSUME Chosen, ParentsEnd, NEW i \in Positions
  PROVE  /\ Ancestry(i) \in Seq(Positions) /\ Len(Ancestry(i)) >= 1
         /\ IsInjective(Ancestry(i))
<1>1. PICK p : p = Ascent(i)
  OBVIOUS
<1>2. Path(p, i) /\ p[Len(p)] = 0
  BY <1>1, AscentIsPath DEF ParentsEnd, Last
<1>3. PICK n : n = Len(p) - 1
  OBVIOUS
<1>4. n \in Nat /\ Len(p) = n + 1 /\ n >= 1
  <2>1. Len(p) \in Nat /\ Len(p) >= 1 /\ p[1] = i /\ i # 0
    BY <1>2, PositionsAre DEF Path
  <2>2. Len(p) # 1
    BY <1>2, <2>1
  <2> QED BY <1>3, <2>1, <2>2
<1>5. Ancestry(i) = SubSeq(p, 1, n)
  BY <1>1, <1>3 DEF Ancestry, Front
<1>6. PICK s : s = SubSeq(p, 1, n)
  OBVIOUS
<1>7. Len(s) = n /\ DOMAIN s = 1..n /\ \A j \in 1..n : s[j] = p[j]
  BY <1>2, <1>4, <1>6 DEF Path
<1>8. \A j \in 1..n : p[j] \in Positions
  BY <1>2, <1>3, <1>4 DEF Path
<1>9. s \in Seq(Positions)
  <2>1. s = [j \in 1..n |-> s[j]]
    BY <1>2, <1>4, <1>6, <1>7 DEF Path
  <2> QED BY <1>4, <1>7, <1>8, <2>1
<1>10. ASSUME NEW a \in DOMAIN s, NEW b \in DOMAIN s, s[a] = s[b] PROVE a = b
  <2>1. a \in 1..Len(p) /\ b \in 1..Len(p) /\ p[a] = p[b] /\ a \in Nat /\ b \in Nat
    BY <1>4, <1>7, <1>10
  <2>2. ~ (a < b) /\ ~ (b < a)
    BY <1>2, <2>1, PathOnce
  <2> QED BY <2>1, <2>2
<1> QED BY <1>4, <1>5, <1>6, <1>7, <1>9, <1>10 DEF IsInjective


(* The headings in force after the node i, when before were those before. *)
Stacked(i, before) ==
  IF i \notin Headings THEN before
  ELSE Append(SubSeq(before, 1, IF text[i].level - 1 < Len(before) THEN text[i].level - 1
                                ELSE Len(before)), i)

(* What the recursion of HeadingAncestry says.                             *)
LEMMA HeadingRecursion ==
  ASSUME Chosen, NEW first \in Positions
  PROVE  \E f : /\ HeadingAncestry(first)
                     \in {Keep(Reverse(Tail(Ancestry(first))), Headings), f[first - 1]}
                /\ f[0] = <<>>
                /\ \A i \in 1..first - 1 : f[i] = Stacked(i, f[i - 1])
<1> DEFINE N == first - 1
           G(f, n) == [i \in 0..n |->
                         IF i = 0 THEN <<>>
                         ELSE LET before == f[i - 1]
                                  kept == IF text[i].level - 1 < Len(before)
                                          THEN text[i].level - 1 ELSE Len(before)
                              IN  IF i \notin Headings THEN before
                                  ELSE Append(SubSeq(before, 1, kept), i)]
           H(f, n) == [i \in 0..n |-> IF i = 0 THEN <<>> ELSE Stacked(i, f[i - 1])]
           T == {n \in Nat : \E f : f = H(f, n)}
<1>1. \A f, n : G(f, n) = H(f, n)
  BY DEF Stacked
<1>2. N \in Nat
  BY PositionsAre
<1>3. 0 \in T
  <2> DEFINE z == [i \in 0..0 |-> <<>>]
  <2>1. \A i \in 0..0 : i = 0
    OBVIOUS
  <2>2. z = H(z, 0)
    <3>1. \A i \in 0..0 : (IF i = 0 THEN <<>> ELSE Stacked(i, z[i - 1])) = <<>>
      BY <2>1
    <3> QED BY <3>1
  <2>3. \E f : f = H(f, 0)
    <3> HIDE DEF H, z
    <3> QED BY <2>2
  <2> HIDE DEF H
  <2> QED BY <2>3
<1>4. ASSUME NEW n \in T PROVE n + 1 \in T
  <2>1. PICK f : f = H(f, n)
    OBVIOUS
  <2> DEFINE e(i) == IF i = 0 THEN <<>> ELSE Stacked(i, f[i - 1])
             h == [i \in 0..n + 1 |-> e(i)]
  <2>2. n \in Nat /\ f = [i \in 0..n |-> e(i)]
    BY <2>1
  <2>3. \A i \in 0..n : f[i] = e(i)
    <3> HIDE DEF e
    <3> QED BY <2>2
  <2>4. \A i \in 0..n : h[i] = f[i]
    <3> HIDE DEF e
    <3> QED BY <2>2, <2>3
  <2>5. \A i \in 0..n + 1 : i # 0 => i - 1 \in 0..n
    BY <2>2
  <2>6. \A i \in 0..n + 1 : e(i) = IF i = 0 THEN <<>> ELSE Stacked(i, h[i - 1])
    <3> HIDE DEF h
    <3> QED BY <2>4, <2>5
  <2>7. h = H(h, n + 1)
    <3> HIDE DEF e
    <3> QED BY <2>6
  <2>8. \E g : g = H(g, n + 1)
    <3> HIDE DEF H, h
    <3> QED BY <2>7
  <2>9. n + 1 \in Nat
    BY <2>2
  <2> HIDE DEF H, h
  <2> QED BY <2>8, <2>9
<1>5. T = Nat
  <2>1. T \in SUBSET Nat
    OBVIOUS
  <2> HIDE DEF T
  <2> QED BY <1>3, <1>4, <2>1, SetInduction
<1>6. \E f : f = G(f, N)
  <2>1. \E f : f = H(f, N)
    <3> HIDE DEF H, N
    <3> QED BY <1>2, <1>5
  <2> HIDE DEF G, H, N
  <2> QED BY <1>1, <2>1
<1> DEFINE c == CHOOSE f : f = G(f, N)
<1>7. c = G(c, N)
  <2> HIDE DEF G
  <2> QED BY <1>6
<1>8. HeadingAncestry(first) = IF Keep(Reverse(Tail(Ancestry(first))), Headings) # <<>>
                               THEN Keep(Reverse(Tail(Ancestry(first))), Headings)
                               ELSE c[N]
  BY DEF HeadingAncestry
<1> HIDE DEF c, G
<1>9. c = H(c, N)
  BY <1>1, <1>7
<1> HIDE DEF N
<1>10. c[0] = <<>>
  BY <1>2, <1>9
<1>11. ASSUME NEW i \in 1..N PROVE c[i] = Stacked(i, c[i - 1])
  <2>1. i \in 0..N /\ i # 0
    BY <1>2
  <2> QED BY <1>9, <2>1
<1> QED BY <1>8, <1>10, <1>11 DEF N

(* Positions in ascending order.                                           *)
Climbs(s, n) ==
  /\ s \in Seq(Nat)
  /\ \A k \in DOMAIN s : s[k] <= n
  /\ \A k, l \in DOMAIN s : k < l => s[k] < s[l]

LEMMA StackedClimbs ==
  ASSUME Chosen, NEW i \in Positions, NEW before, Climbs(before, i - 1)
  PROVE  Climbs(Stacked(i, before), i)
<1>1. i \in Nat /\ text[i].level - 1 \in Nat
  <2>1. text[i].level \in Nat \ {0}
    BY PositionsAre
  <2>2. i \in Nat
    BY PositionsAre
  <2> QED BY <2>1, <2>2
<1>2. CASE i \notin Headings
  <2>1. \A k \in DOMAIN before : before[k] \in Nat /\ before[k] <= i - 1
    BY DEF Climbs
  <2>2. \A k \in DOMAIN before : before[k] <= i
    BY <1>1, <2>1
  <2> QED BY <1>2, <2>2 DEF Stacked, Climbs
<1>3. CASE i \in Headings
  <2>1. PICK m : m = IF text[i].level - 1 < Len(before) THEN text[i].level - 1 ELSE Len(before)
    OBVIOUS
  <2>2. m \in Nat /\ m <= Len(before) /\ Len(before) \in Nat
    <3>1. Len(before) \in Nat
      BY DEF Climbs
    <3> QED BY <1>1, <2>1, <3>1
  <2>3. PICK q : q = Append(SubSeq(before, 1, m), i)
    OBVIOUS
  <2>4. /\ q \in Seq(Nat) /\ Len(q) = m + 1 /\ q[m + 1] = i
        /\ \A k \in 1..m : q[k] = before[k]
    <3>1. PICK r : r = SubSeq(before, 1, m)
      OBVIOUS
    <3>2. before \in Seq(Nat) /\ 1..m \subseteq DOMAIN before
      BY <2>2 DEF Climbs
    <3>3. r = [k \in 1..m |-> before[k]]
      BY <2>2, <3>1, <3>2
    <3>4. r \in Seq(Nat) /\ Len(r) = m /\ \A k \in 1..m : r[k] = before[k]
      BY <2>2, <3>2, <3>3
    <3> QED BY <1>1, <2>3, <3>1, <3>4
  <2>5. \A k \in 1..m : before[k] \in Nat /\ before[k] <= i - 1
    BY <2>2 DEF Climbs
  <2>6. \A k, l \in 1..m : k < l => before[k] < before[l]
    BY <2>2 DEF Climbs
  <2>7. \A k \in 1..m : q[k] \in Nat /\ q[k] < i
    <3>1. \A k \in 1..m : q[k] \in Nat /\ q[k] <= i - 1
      BY <2>4, <2>5
    <3> QED BY <1>1, <3>1
  <2>8. DOMAIN q = 1..m + 1 /\ \A k \in 1..m + 1 : k \in 1..m \/ k = m + 1
    BY <2>2, <2>4
  <2>9. \A k \in DOMAIN q : q[k] <= i
    BY ONLY <1>1, <2>4, <2>7, <2>8
  <2>10. \A k, l \in DOMAIN q : k < l => q[k] < q[l]
    <3> SUFFICES ASSUME NEW k \in 1..m + 1, NEW l \in 1..m + 1, k < l PROVE q[k] < q[l]
      BY <2>8
    <3>1. k \in 1..m
      BY <2>2
    <3>2. CASE l \in 1..m
      BY <2>4, <2>6, <3>1, <3>2
    <3>3. CASE l = m + 1
      BY <2>4, <2>7, <3>1, <3>3
    <3> QED BY <2>8, <3>2, <3>3
  <2>11. Climbs(q, i)
    BY <2>4, <2>9, <2>10 DEF Climbs
  <2> QED BY <1>3, <2>1, <2>3, <2>11 DEF Stacked
<1> QED BY <1>2, <1>3

LEMMA HeadingsOnce ==
  ASSUME Chosen, ParentsEnd, NEW first \in Positions
  PROVE  HeadingAncestry(first) \in Seq(Nat) /\ IsInjective(HeadingAncestry(first))
<1>1. PICK f : /\ HeadingAncestry(first)
                    \in {Keep(Reverse(Tail(Ancestry(first))), Headings), f[first - 1]}
               /\ f[0] = <<>>
               /\ \A i \in 1..first - 1 : f[i] = Stacked(i, f[i - 1])
  BY HeadingRecursion
<1>2. /\ Keep(Reverse(Tail(Ancestry(first))), Headings) \in Seq(Nat)
      /\ IsInjective(Keep(Reverse(Tail(Ancestry(first))), Headings))
  <2>1. PICK s : s = Ancestry(first)
    OBVIOUS
  <2>2. s \in Seq(Positions) /\ Len(s) >= 1 /\ IsInjective(s)
    BY <2>1, AncestryOnce
  <2>3. PICK n : n = Len(s) - 1
    OBVIOUS
  <2>4. n \in Nat /\ Len(s) = n + 1 /\ DOMAIN s = 1..n + 1
    BY <2>2, <2>3
  <2>5. PICK t : t = Tail(s)
    OBVIOUS
  <2>6. Len(t) = n /\ DOMAIN t = 1..n /\ \A k \in 1..n : t[k] = s[k + 1]
    BY <2>2, <2>4, <2>5
  <2>7. PICK r : r = [k \in 1..n |-> t[n - k + 1]]
    OBVIOUS
  <2>8. \A k \in 1..n : n - k + 1 \in 1..n /\ n - k + 2 \in 1..n + 1 /\ n - k + 1 + 1 = n - k + 2
    BY <2>4
  <2>9. ASSUME NEW k \in 1..n PROVE r[k] = s[n - k + 2]
    <3>1. PICK l \in 1..n : l = n - k + 1 /\ l + 1 = n - k + 2
      BY <2>8
    <3>2. r[k] = t[l]
      BY <2>7, <3>1
    <3> QED BY ONLY <2>6, <3>1, <3>2
  <2>10. r = Reverse(t)
    BY <2>6, <2>7 DEF Reverse
  <2>11. \A k \in 1..n : r[k] \in Positions
    BY <2>2, <2>4, <2>8, <2>9
  <2>12. r \in Seq(Positions) /\ DOMAIN r = 1..n
    BY <2>4, <2>7, <2>11
  <2>13. ASSUME NEW k \in 1..n, NEW l \in 1..n, r[k] = r[l] PROVE k = l
    <3>1. n - k + 2 = n - l + 2
      BY <2>2, <2>4, <2>8, <2>9, <2>13 DEF IsInjective
    <3> QED BY <2>4, <3>1
  <2>14. IsInjective(r)
    BY <2>12, <2>13 DEF IsInjective
  <2>15. Keep(r, Headings) \in Seq(Headings \cap Positions) /\ IsInjective(Keep(r, Headings))
    BY <2>12, <2>14, KeepOnce
  <2>16. Headings \cap Positions \in SUBSET Nat
    BY PositionsAre
  <2> QED BY <2>1, <2>5, <2>10, <2>15, <2>16
<1>3. f[first - 1] \in Seq(Nat) /\ IsInjective(f[first - 1])
  <2> DEFINE T == {n \in Nat : n <= first - 1 => Climbs(f[n], n)}
  <2>1. first \in Nat /\ first - 1 \in Nat /\ first <= Len(text) /\ Positions = 1..Len(text)
    BY PositionsAre
  <2>2. 0 \in T
    <3>1. Climbs(<<>>, 0)
      BY DEF Climbs
    <3> QED BY <1>1, <3>1
  <2>3. ASSUME NEW n \in T PROVE n + 1 \in T
    <3>1. n \in Nat /\ n + 1 \in Nat
      OBVIOUS
    <3>2. SUFFICES ASSUME n + 1 <= first - 1 PROVE Climbs(f[n + 1], n + 1)
      BY <3>1
    <3>3. Climbs(f[n], n)
      BY <2>1, <3>1, <3>2
    <3>4. n + 1 \in 1..first - 1 /\ n + 1 \in Positions /\ n + 1 - 1 = n
      BY <2>1, <3>1, <3>2, PositionsAre
    <3>5. f[n + 1] = Stacked(n + 1, f[n])
      BY <1>1, <3>4
    <3>6. Climbs(f[n], n + 1 - 1)
      BY <3>3, <3>4
    <3> QED BY <3>4, <3>5, <3>6, StackedClimbs
  <2>4. T = Nat
    <3>1. T \in SUBSET Nat
      OBVIOUS
    <3> HIDE DEF T
    <3> QED BY <2>2, <2>3, <3>1, SetInduction
  <2>5. first - 1 \in T
    <3> HIDE DEF T
    <3> QED BY <2>1, <2>4
  <2>6. PICK s : s = f[first - 1]
    OBVIOUS
  <2>7. Climbs(s, first - 1)
    BY <2>1, <2>5, <2>6
  <2>8. ASSUME NEW k \in DOMAIN s, NEW l \in DOMAIN s, s[k] = s[l] PROVE k = l
    <3>1. k \in Nat /\ l \in Nat /\ s[k] \in Nat /\ s[l] \in Nat
      BY <2>7 DEF Climbs
    <3>2. ~ (k < l) /\ ~ (l < k)
      BY <2>7, <2>8, <3>1 DEF Climbs
    <3> QED BY <3>1, <3>2
  <2> QED BY <2>6, <2>7, <2>8 DEF Climbs, IsInjective
<1> QED BY <1>1, <1>2, <1>3

(* No node appears twice in a segment whose units are different ones.      *)
LEMMA PiecesOnce ==
  ASSUME Chosen, ParentsEnd, NEW draft, draft.overlap \in Seq(UnitSet),
         draft.primary \in Seq(UnitSet), draft.primary # <<>>,
         IsInjective(draft.overlap \o draft.primary)
  PROVE  IsInjective(Pieces(draft))
<1>1. PICK o \in Seq(UnitSet) : o = draft.overlap
  OBVIOUS
<1>2. PICK p \in Seq(UnitSet) : p = draft.primary
  OBVIOUS
<1>3. PICK w : w = o \o p
  OBVIOUS
<1>4. /\ DOMAIN w = 1..Len(o) + Len(p) /\ Len(o) \in Nat /\ Len(p) \in Nat
      /\ DOMAIN o = 1..Len(o) /\ DOMAIN p = 1..Len(p)
      /\ \A k \in 1..Len(o) : w[k] = o[k]
      /\ \A k \in 1..Len(p) : w[Len(o) + k] = p[k]
  BY <1>3
<1>5. \A k, l \in DOMAIN w : w[k] = w[l] => k = l
  BY <1>1, <1>2, <1>3 DEF IsInjective
<1>6. IsInjective(o)
  BY ONLY <1>4, <1>5 DEF IsInjective
<1>7. IsInjective(p)
  <2> SUFFICES ASSUME NEW k \in DOMAIN p, NEW l \in DOMAIN p, p[k] = p[l] PROVE k = l
    BY DEF IsInjective
  <2>1. Len(o) + k \in DOMAIN w /\ Len(o) + l \in DOMAIN w
    BY ONLY <1>4, k \in DOMAIN p, l \in DOMAIN p
  <2>2. w[Len(o) + k] = w[Len(o) + l]
    BY <1>4
  <2>3. Len(o) + k = Len(o) + l
    BY <1>5, <2>1, <2>2
  <2> QED BY ONLY <1>4, <2>3, k \in DOMAIN p, l \in DOMAIN p
<1>8. \A k \in DOMAIN o, l \in DOMAIN p : o[k] # p[l]
  <2> SUFFICES ASSUME NEW k \in DOMAIN o, NEW l \in DOMAIN p, o[k] = p[l] PROVE FALSE
    OBVIOUS
  <2>1. k \in DOMAIN w /\ Len(o) + l \in DOMAIN w /\ k # Len(o) + l
    BY ONLY <1>4, k \in DOMAIN o, l \in DOMAIN p
  <2>2. w[k] = w[Len(o) + l]
    BY <1>4
  <2> QED BY <1>5, <2>1, <2>2
<1>9. /\ NodesOf(o) \in Seq(Prepared) /\ IsInjective(NodesOf(o))
      /\ \A x : x \in Range(NodesOf(o)) <=> \E k \in DOMAIN o : x \in Members(o[k])
  BY <1>6, NodesAre
<1>10. /\ NodesOf(p) \in Seq(Prepared) /\ IsInjective(NodesOf(p))
       /\ \A x : x \in Range(NodesOf(p)) <=> \E k \in DOMAIN p : x \in Members(p[k])
  BY <1>7, NodesAre
<1>11. \A x \in Range(NodesOf(o)) : x \notin Range(NodesOf(p))
  <2> SUFFICES ASSUME NEW x, NEW k \in DOMAIN o, NEW l \in DOMAIN p,
                      x \in Members(o[k]), x \in Members(p[l])
               PROVE  FALSE
    BY <1>9, <1>10
  <2>1. o[k] \in UnitSet /\ p[l] \in UnitSet /\ o[k] # p[l]
    BY <1>8
  <2> QED BY <2>1, UnitsPartition
<1>12. PICK content : content = NodesOf(o) \o NodesOf(p)
  OBVIOUS
<1>13. content \in Seq(Prepared) /\ IsInjective(content)
  BY <1>9, <1>10, <1>11, <1>12, ConcatOnce
<1>14. PICK above : above = IF option.headings THEN HeadingAncestry(p[1]) ELSE <<>>
  OBVIOUS
<1>15. above \in Seq(Nat) /\ IsInjective(above)
  <2>1. CASE option.headings
    <3>1. p[1] \in Positions
      <4>1. 1 \in DOMAIN p
        BY <1>2
      <4>2. p[1] \in UnitSet
        BY <4>1
      <4> QED BY <4>2, PositionsAre DEF UnitSet
    <3> QED BY <1>14, <2>1, <3>1, HeadingsOnce
  <2>2. CASE ~ option.headings
    BY <1>14, <2>2 DEF IsInjective
  <2> QED BY <2>1, <2>2
<1>16. PICK kept : kept = Keep(above, Positions \ Range(content))
  OBVIOUS
<1>17. kept \in Seq(Nat) /\ IsInjective(kept) /\ \A x \in Range(kept) : x \notin Range(content)
  <2>1. kept \in Seq((Positions \ Range(content)) \cap Nat) /\ IsInjective(kept)
    BY <1>15, <1>16, KeepOnce
  <2>2. \A k \in DOMAIN kept : kept[k] \in (Positions \ Range(content)) \cap Nat
    BY <2>1
  <2>3. kept \in Seq(Nat)
    BY <2>1
  <2> QED BY <2>1, <2>2, <2>3 DEF Range
<1>18. content \in Seq(Nat)
  <2>1. Prepared \in SUBSET Nat
    BY PositionsAre
  <2>2. \A k \in DOMAIN content : content[k] \in Prepared
    BY ONLY <1>13
  <2>3. \A k \in DOMAIN content : content[k] \in Nat
    BY <2>1, <2>2
  <2> QED BY ONLY <1>13, <2>3
<1>19. IsInjective(kept \o content)
  BY <1>13, <1>17, <1>18, ConcatOnce
<1>20. Pieces(draft) = kept \o content
  BY <1>1, <1>2, <1>12, <1>14, <1>16 DEF Pieces
<1> QED BY <1>19, <1>20


-----------------------------------------------------------------------------
(* Slices of the units, and how drafts are laid end to end.                *)

Slice(U, a, n) == SubSeq(U, a + 1, n)

LEMMA SliceIs ==
  ASSUME NEW X, NEW U \in Seq(X), NEW n \in 0..Len(U), NEW a \in 0..n
  PROVE  /\ Slice(U, a, n) \in Seq(X) /\ Len(Slice(U, a, n)) = n - a
         /\ \A k \in 1..n - a : Slice(U, a, n)[k] = U[a + k]
<1>1. PICK s : s = [k \in 1..n - a |-> U[a + k]]
  OBVIOUS
<1>2. n \in Nat /\ a \in Nat /\ a <= n /\ n <= Len(U) /\ DOMAIN U = 1..Len(U) /\ Len(U) \in Nat
  OBVIOUS
<1>3. \A k \in 1..n - a : a + k \in DOMAIN U
  BY <1>2
<1>4. n - a \in Nat
  BY <1>2
<1>5. s \in Seq(X) /\ Len(s) = n - a
  <2>1. \A k \in 1..n - a : U[a + k] \in X
    BY <1>3
  <2> QED BY <1>1, <1>4, <2>1
<1>6. Slice(U, a, n) = s
  <2>1. SubSeq(U, a + 1, n) = [k \in 1..n - (a + 1) + 1 |-> U[k + (a + 1) - 1]]
    BY <1>2
  <2>2. n - (a + 1) + 1 = n - a /\ \A k \in 1..n - a : k + (a + 1) - 1 = a + k
    BY <1>2
  <2> QED BY <1>1, <2>1, <2>2 DEF Slice
<1> QED BY <1>1, <1>5, <1>6

LEMMA SliceOnce ==
  ASSUME NEW X, NEW U \in Seq(X), IsInjective(U), NEW n \in 0..Len(U), NEW a \in 0..n
  PROVE  IsInjective(Slice(U, a, n))
<1>1. PICK s : s = Slice(U, a, n)
  OBVIOUS
<1>2. s \in Seq(X) /\ Len(s) = n - a /\ \A k \in 1..n - a : s[k] = U[a + k]
  BY <1>1, SliceIs
<1>3. DOMAIN s = 1..n - a
  BY <1>2
<1>4. ASSUME NEW k \in 1..n - a, NEW l \in 1..n - a, s[k] = s[l] PROVE k = l
  <2>1. a + k \in DOMAIN U /\ a + l \in DOMAIN U
    OBVIOUS
  <2>2. a + k = a + l
    BY <1>2, <1>4, <2>1 DEF IsInjective
  <2> QED BY <2>2
<1> QED BY <1>1, <1>3, <1>4 DEF IsInjective

LEMMA SliceGrows ==
  ASSUME NEW X, NEW U \in Seq(X), NEW n \in 0..Len(U), NEW a \in 0..n, n < Len(U)
  PROVE  Append(Slice(U, a, n), U[n + 1]) = Slice(U, a, n + 1)
<1>1. PICK s : s = Slice(U, a, n)
  OBVIOUS
<1>2. PICK t : t = Slice(U, a, n + 1)
  OBVIOUS
<1>3. PICK m \in Nat : m = n - a
  OBVIOUS
<1>4. s \in Seq(X) /\ Len(s) = m /\ \A k \in 1..m : s[k] = U[a + k]
  BY <1>1, <1>3, SliceIs
<1>5. /\ n + 1 \in 0..Len(U) /\ a \in 0..n + 1 /\ n + 1 - a = m + 1
      /\ a + (m + 1) = n + 1 /\ m + 1 \in 1..m + 1
  BY <1>3
<1>6. t \in Seq(X) /\ Len(t) = m + 1 /\ \A k \in 1..m + 1 : t[k] = U[a + k]
  <2>1. PICK e \in 0..Len(U) : e = n + 1
    BY <1>5
  <2>2. a \in 0..e
    BY <1>5, <2>1
  <2>3. /\ Slice(U, a, e) \in Seq(X) /\ Len(Slice(U, a, e)) = e - a
        /\ \A k \in 1..e - a : Slice(U, a, e)[k] = U[a + k]
    BY <2>2, SliceIs
  <2>4. t = Slice(U, a, e) /\ e - a = m + 1
    BY <1>2, <1>5, <2>1
  <2> QED BY ONLY <2>3, <2>4
<1>7. t[m + 1] = U[n + 1]
  BY <1>5, <1>6
<1>8. ASSUME NEW k \in 1..m PROVE k \in 1..m + 1 /\ t[k] = s[k]
  <2>1. k \in 1..m + 1
    OBVIOUS
  <2> QED BY ONLY <1>4, <1>6, <2>1, k \in 1..m
<1>9. Append(s, t[m + 1]) = t
  BY ONLY <1>3, <1>4, <1>6, <1>8
<1> QED BY <1>1, <1>2, <1>7, <1>9

LEMMA SliceOfSlice ==
  ASSUME NEW X, NEW U \in Seq(X), NEW n \in 0..Len(U), NEW a \in 0..n, NEW c \in 0..n - a
  PROVE  Slice(Slice(U, a, n), c, n - a) = Slice(U, a + c, n)
<1>1. PICK s : s = Slice(U, a, n)
  OBVIOUS
<1>2. PICK m \in Nat : m = n - a
  OBVIOUS
<1>3. s \in Seq(X) /\ Len(s) = m /\ \A k \in 1..m : s[k] = U[a + k]
  BY <1>1, <1>2, SliceIs
<1>4. PICK p : p = Slice(s, c, m)
  OBVIOUS
<1>5. m \in 0..Len(s) /\ c \in 0..m
  BY <1>2, <1>3
<1>6. p \in Seq(X) /\ Len(p) = m - c /\ \A k \in 1..m - c : p[k] = s[c + k]
  <2>1. /\ Slice(s, c, m) \in Seq(X) /\ Len(Slice(s, c, m)) = m - c
        /\ \A k \in 1..m - c : Slice(s, c, m)[k] = s[c + k]
    <3>1. s \in Seq(X) /\ m \in 0..Len(s) /\ c \in 0..m
      BY ONLY <1>3, <1>5
    <3> QED BY ONLY <3>1, SliceIs
  <2> QED BY ONLY <1>4, <2>1
<1>7. PICK b \in 0..n : b = a + c
  OBVIOUS
<1>8. PICK q : q = Slice(U, b, n)
  OBVIOUS
<1>9. q \in Seq(X) /\ Len(q) = n - b /\ \A k \in 1..n - b : q[k] = U[b + k]
  BY <1>8, SliceIs
<1>10. n - b = m - c /\ m - c \in Nat
  BY <1>2, <1>5, <1>7
<1>11. ASSUME NEW k \in 1..m - c PROVE p[k] = q[k]
  <2>1. c + k \in 1..m /\ a + (c + k) = b + k
    BY <1>5, <1>7
  <2>2. p[k] = U[a + (c + k)]
    BY <1>3, <1>6, <2>1
  <2> QED BY <1>9, <1>10, <2>1, <2>2
<1>12. p = q
  <2>1. PICK d \in Nat : d = m - c
    BY ONLY <1>10
  <2>2. p \in Seq(X) /\ q \in Seq(X) /\ Len(p) = d /\ Len(q) = d
    BY ONLY <1>6, <1>9, <1>10, <2>1
  <2>3. \A k \in 1..d : p[k] = q[k]
    BY ONLY <1>11, <2>1
  <2> QED BY ONLY <2>1, <2>2, <2>3
<1> QED BY <1>1, <1>2, <1>4, <1>7, <1>8, <1>12

(* Drafts that are worth finishing.                                        *)
Drafts == [overlap : Seq(UnitSet), primary : Seq(UnitSet) \ {<<>>}]

(* The units of a draft, those it repeats first.                           *)
Content(d) == d.overlap \o d.primary

(* The contents of drafts laid end to end.                                 *)
Laid(ds) == FlattenSeq([k \in DOMAIN ds |-> ds[k].primary])

LEMMA LaidNone == Laid(<<>>) = <<>>
<1>1. [k \in DOMAIN <<>> |-> <<>>[k].primary] = <<>>
  OBVIOUS
<1>2. FlattenSeq(<<>>) = <<>>
  BY DEF FlattenSeq
<1> QED BY <1>1, <1>2 DEF Laid

LEMMA LaidAppend ==
  ASSUME NEW ds \in Seq(Drafts), NEW d \in Drafts
  PROVE  Laid(Append(ds, d)) = Laid(ds) \o d.primary
<1> DEFINE n == Len(ds)
           s == [k \in DOMAIN ds |-> ds[k].primary]
           t == [k \in DOMAIN Append(ds, d) |-> Append(ds, d)[k].primary]
<1>1. n \in Nat /\ DOMAIN ds = 1..n /\ DOMAIN Append(ds, d) = 1..n + 1
  OBVIOUS
<1>2. Len(s) = n /\ Len(t) = n + 1
  BY <1>1
<1>3. t[n + 1] = d.primary /\ \A k \in 1..n : t[k] = s[k]
  BY <1>1
<1>4. Laid(ds) = FlattenSeq(s) /\ Laid(Append(ds, d)) = FlattenSeq(t)
  BY DEF Laid
<1>5. PICK x : x = d.primary
  OBVIOUS
<1>6. x \in Seq(UnitSet)
  BY <1>5 DEF Drafts
<1> HIDE DEF n, s, t
<1>7. PICK g : /\ FlattenSeq(t) = g[n + 1]
               /\ g[1] = t[1]
               /\ \A i \in 2..n + 1 : g[i] = g[i - 1] \o t[i]
  <2>1. n + 1 \in Nat \ {0}
    BY <1>1
  <2> QED BY ONLY <1>2, <2>1, FlattenRecursion
<1>8. CASE n = 0
  <2>1. s = <<>> /\ FlattenSeq(s) = <<>>
    <3>1. s = <<>>
      BY <1>1, <1>8 DEF s
    <3>2. FlattenSeq(<<>>) = <<>>
      BY DEF FlattenSeq
    <3> QED BY <3>1, <3>2
  <2>2. FlattenSeq(t) = x
    BY <1>3, <1>5, <1>7, <1>8
  <2>3. x = <<>> \o x
    BY <1>6
  <2> QED BY <1>4, <1>5, <2>1, <2>2, <2>3
<1>9. CASE n # 0
  <2>1. PICK f : /\ FlattenSeq(s) = f[n]
                 /\ f[1] = s[1]
                 /\ \A i \in 2..n : f[i] = f[i - 1] \o s[i]
    <3>1. n \in Nat \ {0}
      BY <1>1, <1>9
    <3> QED BY ONLY <1>2, <3>1, FlattenRecursion
  <2> DEFINE T == {m \in Nat : m + 1 <= n => f[m + 1] = g[m + 1]}
  <2>2. 0 \in T
    <3>1. 1 \in 1..n
      BY <1>1, <1>9
    <3> QED BY <1>3, <1>7, <2>1, <3>1
  <2>3. ASSUME NEW m \in T PROVE m + 1 \in T
    <3>1. m \in Nat /\ m + 1 \in Nat /\ m + 1 + 1 = m + 2
      OBVIOUS
    <3>2. SUFFICES ASSUME m + 2 <= n PROVE f[m + 2] = g[m + 2]
      BY <3>1
    <3>3. f[m + 1] = g[m + 1]
      BY <1>1, <3>1, <3>2
    <3>4. PICK j \in 2..n : j = m + 2
      BY <1>1, <3>1, <3>2
    <3>5. PICK i : i = j - 1
      OBVIOUS
    <3>6. i = m + 1 /\ j \in 2..n + 1 /\ j \in 1..n
      BY <1>1, <3>1, <3>4, <3>5
    <3>7. f[j] = f[i] \o s[j]
      BY <2>1, <3>5
    <3>8. g[j] = g[i] \o t[j]
      BY <1>7, <3>5, <3>6
    <3>9. t[j] = s[j] /\ f[i] = g[i]
      BY <1>3, <3>3, <3>6
    <3> QED BY ONLY <3>4, <3>7, <3>8, <3>9
  <2>4. T = Nat
    <3>1. T \in SUBSET Nat
      OBVIOUS
    <3> HIDE DEF T
    <3> QED BY <2>2, <2>3, <3>1, SetInduction
  <2>5. n - 1 \in T /\ n - 1 + 1 = n
    <3> HIDE DEF T
    <3> QED BY <1>1, <1>9, <2>4
  <2>6. f[n] = g[n]
    BY <1>1, <2>5
  <2>7. PICK j \in 2..n + 1 : j = n + 1
    BY <1>1, <1>9
  <2>8. PICK i : i = j - 1
    OBVIOUS
  <2>9. i = n
    BY <1>1, <2>7, <2>8
  <2>10. g[j] = g[i] \o t[j]
    BY <1>7, <2>8
  <2>11. t[j] = x
    BY <1>3, <1>5, <2>7
  <2> QED BY ONLY <1>4, <1>5, <1>7, <2>1, <2>6, <2>7, <2>9, <2>10, <2>11
<1> QED BY <1>8, <1>9

(* What the option overlap asks of what is repeated of a draft.            *)
Repeats(d, o) ==
  IF option.overlap = 0 THEN o = <<>>
  ELSE /\ IsSuffix(o, Content(d))
       /\ Len(NodesOf(o)) >= option.overlap \/ o = Content(d)
       /\ Len(NodesOf(Tail(o))) < option.overlap

LEMMA ChoiceRepeats ==
  ASSUME Chosen, NEW d \in Drafts
  PROVE  /\ Repeats(d, ChooseOverlapUnits(d))
         /\ \E c \in 0..Len(Content(d)) :
              ChooseOverlapUnits(d) = Slice(Content(d), c, Len(Content(d)))
<1>1. PICK all : all = Content(d)
  OBVIOUS
<1>2. all \in Seq(UnitSet) /\ Len(all) >= 1
  <2>1. d.overlap \in Seq(UnitSet) /\ d.primary \in Seq(UnitSet) /\ d.primary # <<>>
    BY DEF Drafts
  <2>2. PICK o \in Seq(UnitSet), p \in Seq(UnitSet) : o = d.overlap /\ p = d.primary
    BY <2>1
  <2>3. Len(p) >= 1 /\ Len(p) \in Nat /\ Len(o) \in Nat
    BY <2>1, <2>2
  <2>4. all = o \o p
    BY <1>1, <2>2 DEF Content
  <2> QED BY ONLY <2>3, <2>4, o \in Seq(UnitSet), p \in Seq(UnitSet)
<1>3. PICK n \in Nat : n = Len(all)
  BY <1>2
<1>4. option.overlap \in Nat
  BY SegmentationAssumption DEF Chosen
<1> DEFINE enough == {k \in DOMAIN all : Len(NodesOf(SubSeq(all, k, Len(all)))) >= option.overlap}
           most == CHOOSE k \in enough : \A l \in enough : l <= k
<1>5. ChooseOverlapUnits(d) = IF option.overlap = 0 THEN <<>>
                              ELSE IF enough = {} THEN all
                              ELSE SubSeq(all, most, Len(all))
  BY <1>1 DEF ChooseOverlapUnits, Content
<1>6. DOMAIN all = 1..n
  BY <1>2, <1>3
<1>7. \A c \in 0..n : /\ Slice(all, c, n) \in Seq(UnitSet)
                      /\ Len(Slice(all, c, n)) = n - c
                      /\ \A k \in 1..n - c : Slice(all, c, n)[k] = all[c + k]
  <2> SUFFICES ASSUME NEW c \in 0..n
               PROVE  /\ Slice(all, c, n) \in Seq(UnitSet)
                      /\ Len(Slice(all, c, n)) = n - c
                      /\ \A k \in 1..n - c : Slice(all, c, n)[k] = all[c + k]
    OBVIOUS
  <2>1. n \in 0..Len(all)
    BY <1>3
  <2> QED BY ONLY <1>2, <2>1, SliceIs, c \in 0..n
<1>8. Slice(all, n, n) = <<>> /\ Slice(all, 0, n) = all
  <2>1. Slice(all, n, n) = <<>>
    <3>1. n \in 0..n /\ n - n = 0
      OBVIOUS
    <3>2. Slice(all, n, n) \in Seq(UnitSet) /\ Len(Slice(all, n, n)) = 0
      BY <1>7, <3>1
    <3> QED BY <3>2
  <2>2. PICK s : s = Slice(all, 0, n)
    OBVIOUS
  <2>3. s \in Seq(UnitSet) /\ Len(s) = n /\ \A k \in 1..n : s[k] = all[k]
    <3>1. 0 \in 0..n /\ n - 0 = n /\ \A k \in 1..n : 0 + k = k
      OBVIOUS
    <3>2. /\ Slice(all, 0, n) \in Seq(UnitSet) /\ Len(Slice(all, 0, n)) = n - 0
          /\ \A k \in 1..n - 0 : Slice(all, 0, n)[k] = all[0 + k]
      BY <1>7, <3>1
    <3> QED BY <2>2, <3>1, <3>2
  <2>4. s = all
    BY ONLY <1>2, <1>3, <2>3
  <2> QED BY <2>1, <2>2, <2>4
<1>9. \A c \in 0..n - 1 : Tail(Slice(all, c, n)) = Slice(all, c + 1, n)
  <2> SUFFICES ASSUME NEW c \in 0..n - 1 PROVE Tail(Slice(all, c, n)) = Slice(all, c + 1, n)
    OBVIOUS
  <2>1. PICK s : s = Slice(all, c, n)
    OBVIOUS
  <2>2. PICK t : t = Slice(all, c + 1, n)
    OBVIOUS
  <2>3. c \in 0..n /\ c + 1 \in 0..n /\ n - c \in Nat /\ n - c >= 1 /\ n - (c + 1) = n - c - 1
    OBVIOUS
  <2>4. s \in Seq(UnitSet) /\ Len(s) = n - c /\ \A k \in 1..n - c : s[k] = all[c + k]
    BY <1>7, <2>1, <2>3
  <2>5. t \in Seq(UnitSet) /\ Len(t) = n - c - 1 /\ \A k \in 1..n - c - 1 : t[k] = all[c + 1 + k]
    BY <1>7, <2>2, <2>3
  <2>6. \A k \in 1..n - c - 1 : t[k] = s[k + 1]
    <3> SUFFICES ASSUME NEW k \in 1..n - c - 1 PROVE t[k] = s[k + 1]
      OBVIOUS
    <3>1. k + 1 \in 1..n - c /\ c + 1 + k = c + (k + 1)
      BY <2>3
    <3> QED BY <2>4, <2>5, <3>1
  <2>7. Tail(s) = t
    BY ONLY <2>3, <2>4, <2>5, <2>6
  <2> QED BY <2>1, <2>2, <2>7
<1>10. \A c \in 0..n : IsSuffix(Slice(all, c, n), all)
  <2> SUFFICES ASSUME NEW c \in 0..n PROVE IsSuffix(Slice(all, c, n), all)
    OBVIOUS
  <2>1. PICK s : s = Slice(all, c, n)
    OBVIOUS
  <2>2. PICK m \in Nat : m = n - c
    OBVIOUS
  <2>3. s \in Seq(UnitSet) /\ Len(s) = m /\ \A k \in 1..m : s[k] = all[c + k]
    BY <1>7, <2>1, <2>2
  <2>4. PICK rs : rs = Reverse(s)
    OBVIOUS
  <2>5. PICK ra : ra = Reverse(all)
    OBVIOUS
  <2>6. rs = [i \in 1..m |-> s[m - i + 1]]
    BY <2>3, <2>4 DEF Reverse
  <2>7. ra = [i \in 1..n |-> all[n - i + 1]]
    BY <1>3, <2>5 DEF Reverse
  <2>8. m <= n /\ \A i \in 1..m : /\ m - i + 1 \in 1..m /\ c + (m - i + 1) = n - i + 1
                                  /\ i \in 1..n /\ n - i + 1 \in 1..n
    BY <2>2
  <2>9. \A i \in 1..m : rs[i] = ra[i]
    <3> SUFFICES ASSUME NEW i \in 1..m PROVE rs[i] = ra[i]
      OBVIOUS
    <3>1. PICK j \in 1..m : j = m - i + 1
      BY <2>8
    <3>2. c + j = n - i + 1
      BY <2>8, <3>1
    <3>3. rs[i] = s[j] /\ s[j] = all[c + j]
      BY <2>3, <2>6, <3>1
    <3>4. ra[i] = all[n - i + 1]
      BY <2>7, <2>8
    <3> QED BY ONLY <3>2, <3>3, <3>4
  <2>10. rs \in Seq(UnitSet) /\ Len(rs) = m
    <3>1. \A i \in 1..m : s[m - i + 1] \in UnitSet
      BY <2>3, <2>8
    <3> QED BY <2>6, <3>1
  <2>11. ra \in Seq(UnitSet) /\ Len(ra) = n
    <3>1. \A i \in 1..n : n - i + 1 \in 1..n
      OBVIOUS
    <3>2. \A i \in 1..n : all[n - i + 1] \in UnitSet
      BY <1>2, <1>6, <3>1
    <3> QED BY <2>7, <3>2
  <2>12. SubSeq(rs, 1, m) = SubSeq(ra, 1, m)
    <3>1. SubSeq(rs, 1, m) = [i \in 1..m |-> rs[i]]
      BY <2>10
    <3>2. SubSeq(ra, 1, m) = [i \in 1..m |-> ra[i]]
      BY <2>8, <2>11
    <3> QED BY <2>9, <3>1, <3>2
  <2> QED BY <2>1, <2>4, <2>5, <2>8, <2>10, <2>11, <2>12 DEF IsSuffix, IsPrefix
<1>11. \A us \in Seq(UnitSet) : Len(NodesOf(us)) \in Nat
  BY NodesAre
<1>12. Len(NodesOf(<<>>)) = 0
  <2>1. [k \in DOMAIN <<>> |-> InOrderOfPosition(Members(<<>>[k]))] = <<>>
    OBVIOUS
  <2>2. NodesOf(<<>>) = <<>>
    BY <2>1 DEF NodesOf, FlattenSeq
  <2> QED BY <2>2
<1>13. CASE option.overlap = 0
  <2>1. ChooseOverlapUnits(d) = <<>> /\ n \in 0..n
    BY <1>5, <1>13
  <2> QED BY <1>1, <1>3, <1>8, <1>13, <2>1 DEF Repeats
<1>14. CASE option.overlap # 0
  (* The tail of what is chosen is not enough.                             *)
  <2>1. ASSUME NEW c \in 0..n - 1, \A k \in c + 2..n : k \notin enough
        PROVE  Len(NodesOf(Tail(Slice(all, c, n)))) < option.overlap
    <3>1. Tail(Slice(all, c, n)) = Slice(all, c + 1, n)
      BY <1>9
    <3>2. CASE c + 1 = n
      <4>1. Tail(Slice(all, c, n)) = <<>>
        BY ONLY <1>8, <3>1, <3>2
      <4>2. option.overlap \in Nat /\ option.overlap # 0
        BY <1>4, <1>14
      <4>3. PICK e : e = Tail(Slice(all, c, n))
        OBVIOUS
      <4>4. Len(NodesOf(e)) = 0
        BY ONLY <1>12, <4>1, <4>3
      <4>5. 0 < option.overlap
        BY ONLY <4>2
      <4> QED BY ONLY <4>3, <4>4, <4>5
    <3>3. CASE c + 1 # n
      <4>1. c + 2 \in c + 2..n /\ c + 2 \in DOMAIN all /\ c + 1 \in 0..n /\ c + 1 + 1 = c + 2
        BY <1>6, <3>3
      <4>2. ~ (Len(NodesOf(SubSeq(all, c + 2, Len(all)))) >= option.overlap)
        BY <2>1, <4>1
      <4>3. SubSeq(all, c + 2, Len(all)) = Slice(all, c + 1, n)
        BY <1>3, <4>1 DEF Slice
      <4>4. Slice(all, c + 1, n) \in Seq(UnitSet)
        BY <1>7, <4>1
      <4>5. Len(NodesOf(Slice(all, c + 1, n))) \in Nat
        BY <1>11, <4>4
      <4>6. PICK z : z = Len(NodesOf(Slice(all, c + 1, n)))
        OBVIOUS
      <4>7. z \in Nat /\ ~ (z >= option.overlap) /\ option.overlap \in Nat
        BY ONLY <1>4, <4>2, <4>3, <4>5, <4>6
      <4>8. z < option.overlap
        BY ONLY <4>7
      <4> QED BY ONLY <3>1, <4>6, <4>8
    <3> QED BY <3>2, <3>3
  <2>2. CASE enough = {}
    <3>1. ChooseOverlapUnits(d) = all
      BY <1>5, <1>14, <2>2
    <3>2. 0 \in 0..n - 1 /\ 0 \in 0..n
      BY <1>2, <1>3
    <3>3. Len(NodesOf(Tail(all))) < option.overlap
      BY <1>8, <2>1, <2>2, <3>2
    <3>4. IsSuffix(all, all)
      BY <1>8, <1>10, <3>2
    <3> QED BY <1>1, <1>3, <1>8, <1>14, <3>1, <3>2, <3>3, <3>4 DEF Repeats
  <2>3. CASE enough # {}
    <3>1. \E k \in enough : \A l \in enough : l <= k
      <4>1. enough \in SUBSET (1..n)
        BY <1>6
      <4> HIDE DEF enough
      <4> DEFINE W == {n - k : k \in enough}
      <4>2. W \in SUBSET Nat /\ W # {}
        <5>1. PICK k : k \in enough
          BY <2>3
        <5>2. n - k \in W
          BY <5>1
        <5>3. \A l \in enough : n - l \in Nat
          BY ONLY <4>1, n \in Nat
        <5> QED BY ONLY <5>2, <5>3
      <4>3. PICK w \in W : \A v \in W : w <= v
        <5> HIDE DEF W
        <5> QED BY <4>2, LeastNumber
      <4>4. PICK k \in enough : w = n - k
        BY <4>3
      <4>5. ASSUME NEW l \in enough PROVE l <= k
        <5>1. n - l \in W
          OBVIOUS
        <5>2. n - k <= n - l
          BY ONLY <4>3, <4>4, <5>1
        <5>3. k \in 1..n /\ l \in 1..n
          BY <4>1
        <5> QED BY ONLY <5>2, <5>3, n \in Nat
      <4> QED BY <4>4, <4>5
    <3>2. most \in enough /\ \A l \in enough : l <= most
      <4> HIDE DEF enough
      <4> QED BY <3>1
    <3>3. PICK m \in enough : m = most
      BY <3>2
    <3>4. m \in 1..n /\ \A l \in enough : l <= m
      <4> HIDE DEF most
      <4> QED BY <1>6, <3>2, <3>3
    <3>5. ChooseOverlapUnits(d) = SubSeq(all, m, Len(all))
      <4> HIDE DEF enough, most
      <4> QED BY <1>5, <1>14, <2>3, <3>3
    <3>6. PICK c \in 0..n - 1 : c = m - 1
      BY <3>4
    <3>7. c \in 0..n /\ ChooseOverlapUnits(d) = Slice(all, c, n)
      BY <1>3, <3>4, <3>5, <3>6 DEF Slice
    <3>8. Len(NodesOf(Slice(all, c, n))) >= option.overlap
      <4>1. Len(NodesOf(SubSeq(all, m, Len(all)))) >= option.overlap
        BY <3>3
      <4> QED BY <3>5, <3>7, <4>1
    <3>9. \A k \in c + 2..n : k \notin enough
      <4>1. \A k \in c + 2..n : ~ (k <= m)
        BY <3>4, <3>6
      <4> HIDE DEF enough
      <4> QED BY <3>4, <4>1
    <3>10. Len(NodesOf(Tail(Slice(all, c, n)))) < option.overlap
      BY <2>1, <3>9
    <3> HIDE DEF enough, most
    <3> QED BY <1>1, <1>3, <1>10, <1>14, <3>7, <3>8, <3>10 DEF Repeats
  <2> QED BY <2>2, <2>3
<1> QED BY <1>13, <1>14


-----------------------------------------------------------------------------
(* The document and the options of a call do not change, nor does anything *)
(* that is made of them.                                                   *)

Fixed == text' = text /\ option' = option

LEMMA AncestryFixed == ASSUME Fixed, NEW CONSTANT i PROVE Ancestry(i)' = Ancestry(i)
<1>1. Ascent(i)' = Ascent(i)
  BY DEF Fixed, Ascent, Last
<1> QED BY <1>1 DEF Ancestry, Front

LEMMA PreparedFixed == ASSUME Fixed PROVE Positions' = Positions /\ Prepared' = Prepared
BY DEF Fixed, Positions, Prepared

LEMMA GroupFixed == ASSUME Fixed, NEW CONSTANT i PROVE AtomicGroup(i)' = AtomicGroup(i)
<1>1. ASSUME NEW CONSTANT kind
      PROVE  /\ Above(i, kind)' = Above(i, kind)
             /\ Nearest(i, kind)' = Nearest(i, kind)
             /\ Outermost(i, kind)' = Outermost(i, kind)
  <2>1. Ancestry(i)' = Ancestry(i)
    BY AncestryFixed
  <2>2. Above(i, kind)' = Above(i, kind)
    BY <2>1 DEF Above, Fixed
  <2> QED BY <2>1, <2>2 DEF Nearest, Outermost
<1>2. HasFigure(i)' = HasFigure(i)
  BY DEF Fixed, HasFigure
<1> QED BY <1>1, <1>2 DEF AtomicGroup, Fixed

LEMMA MembersFixed == ASSUME Fixed, NEW CONSTANT u PROVE Members(u)' = Members(u)
<1>1. \A i : AtomicGroup(i)' = AtomicGroup(i)
  BY GroupFixed
<1> QED BY <1>1, PreparedFixed DEF Members

LEMMA UnitsFixed == ASSUME Fixed PROVE UnitSet' = UnitSet /\ Units' = Units
<1>1. \A u : Members(u)' = Members(u)
  BY MembersFixed
<1>2. UnitSet' = UnitSet
  BY <1>1, PreparedFixed DEF UnitSet
<1>3. Units = InOrderOfPosition(UnitSet) /\ Units' = InOrderOfPosition(UnitSet')
  BY DEF Units, UnitSet
<1> QED BY <1>2, <1>3

LEMMA NodesFixed == ASSUME Fixed, NEW CONSTANT us PROVE NodesOf(us)' = NodesOf(us)
<1>1. \A u : Members(u)' = Members(u)
  BY MembersFixed
<1> QED BY <1>1 DEF NodesOf

LEMMA HeadingsFixed ==
  ASSUME Fixed, NEW CONSTANT i PROVE HeadingAncestry(i)' = HeadingAncestry(i)
<1>1. Headings' = Headings
  BY PreparedFixed DEF Fixed, Headings
<1>2. Ancestry(i)' = Ancestry(i)
  BY AncestryFixed
<1> QED BY <1>1, <1>2 DEF HeadingAncestry, Fixed

LEMMA PiecesFixed == ASSUME Fixed, NEW CONSTANT d PROVE Pieces(d)' = Pieces(d)
<1>1. NodesOf(d.overlap)' = NodesOf(d.overlap) /\ NodesOf(d.primary)' = NodesOf(d.primary)
  BY NodesFixed
<1>2. HeadingAncestry(d.primary[1])' = HeadingAncestry(d.primary[1])
  BY HeadingsFixed
<1> QED BY <1>1, <1>2, PreparedFixed DEF Pieces, Fixed

LEMMA SizeFixed == ASSUME Fixed, NEW CONSTANT d PROVE DraftSize(d)' = DraftSize(d)
<1>1. Pieces(d)' = Pieces(d)
  BY PiecesFixed
<1> QED BY <1>1 DEF DraftSize, Fixed, FoldLeft, MapThenFoldSet


-----------------------------------------------------------------------------
(* Where a draft may and must end.                                         *)

(* The first l units of a draft make one that should end there.            *)
Ends(d, l) ==
  /\ PreferredBoundary(d.primary[l])
  /\ DraftSize(Draft(d.overlap, SubSeq(d.primary, 1, l))) >= option.target

(* The draft d has no room for the unit u.                                 *)
TooLarge(d, u) == DraftSize(Draft(d.overlap, Append(d.primary, u))) > option.maximum

(* What is true of each draft by itself ...                                *)
Proper(d) ==
  /\ DraftSize(d) > option.maximum => Len(d.primary) = 1
  /\ \A l \in 1..Len(d.primary) - 1 : ~ Ends(d, l)

(* ... of a draft and the next one ...                                     *)
Linked(d, e) ==
  /\ Ends(d, Len(d.primary)) \/ TooLarge(d, e.primary[1])
  /\ Repeats(d, e.overlap)

(* ... and of all of them.                                                 *)
Chain(ds) ==
  /\ \A k \in 1..Len(ds) : Proper(ds[k])
  /\ \A k \in 1..Len(ds) - 1 : Linked(ds[k], ds[k + 1])
  /\ ds # <<>> => ds[1].overlap = <<>>

(* The draft d may come after the drafts ds.                               *)
MayFollow(ds, d) ==
  IF ds = <<>> THEN d.overlap = <<>> ELSE Linked(ds[Len(ds)], d)

LEMMA EndsFixed ==
  ASSUME Fixed, NEW CONSTANT d, NEW CONSTANT l PROVE Ends(d, l)' = Ends(d, l)
<1>1. ASSUME NEW CONSTANT u PROVE PreferredBoundary(u)' = PreferredBoundary(u)
  <2>1. Members(u)' = Members(u)
    BY MembersFixed
  <2> QED BY <2>1 DEF PreferredBoundary, Fixed
<1>2. PICK e : e = Draft(d.overlap, SubSeq(d.primary, 1, l))
  OBVIOUS
<1>3. DraftSize(e)' = DraftSize(e)
  BY SizeFixed
<1>4. PICK v : v = d.primary[l]
  OBVIOUS
<1>5. PreferredBoundary(v)' = PreferredBoundary(v)
  BY <1>1
<1> QED BY <1>2, <1>3, <1>4, <1>5 DEF Ends, Fixed, Draft

LEMMA ChainFixed == ASSUME Fixed, NEW CONSTANT ds PROVE Chain(ds)' = Chain(ds)
<1>1. \A d, l : Ends(d, l)' = Ends(d, l)
  BY EndsFixed
<1>2. \A us : NodesOf(us)' = NodesOf(us)
  BY NodesFixed
<1>3. \A d : DraftSize(d)' = DraftSize(d)
  BY SizeFixed
<1>4. ASSUME NEW CONSTANT d, NEW CONSTANT e PROVE Linked(d, e)' = Linked(d, e)
  <2>1. TooLarge(d, e.primary[1])' = TooLarge(d, e.primary[1])
    BY <1>3 DEF TooLarge, Fixed, Draft
  <2>2. Repeats(d, e.overlap)' = Repeats(d, e.overlap)
    BY <1>2 DEF Repeats, Fixed, IsSuffix, IsPrefix, Reverse, Content
  <2>3. Ends(d, Len(d.primary))' = Ends(d, Len(d.primary))
    BY EndsFixed
  <2> QED BY <2>1, <2>2, <2>3 DEF Linked
<1>5. \A d : Proper(d)' = Proper(d)
  BY <1>1, <1>3 DEF Proper, Fixed
<1> QED BY <1>4, <1>5 DEF Chain

LEMMA RepeatsFixed ==
  ASSUME Fixed, NEW CONSTANT d, NEW CONSTANT o PROVE Repeats(d, o)' = Repeats(d, o)
<1>1. \A us : NodesOf(us)' = NodesOf(us)
  BY NodesFixed
<1> QED BY <1>1 DEF Repeats, Fixed, IsSuffix, IsPrefix, Reverse, Content

LEMMA ChainGrows ==
  ASSUME NEW X, NEW ds \in Seq(X), NEW d, Chain(ds), Proper(d), MayFollow(ds, d)
  PROVE  Chain(Append(ds, d))
<1>1. PICK n \in Nat : n = Len(ds)
  OBVIOUS
<1>2. PICK es : es = Append(ds, d)
  OBVIOUS
<1>3. /\ Len(es) = n + 1 /\ es[n + 1] = d /\ \A k \in 1..n : es[k] = ds[k]
      /\ es # <<>>
  BY <1>1, <1>2
<1>4. \A k \in 1..n + 1 : k \in 1..n \/ k = n + 1
  OBVIOUS
<1>5. \A k \in 1..n + 1 : Proper(es[k])
  BY <1>1, <1>3, <1>4 DEF Chain
<1>6. n # 0 => ds # <<>> /\ Linked(ds[n], d)
  BY <1>1 DEF MayFollow
<1>7. ASSUME NEW k \in 1..n PROVE Linked(es[k], es[k + 1])
  <2>1. CASE k = n
    BY <1>3, <1>6, <2>1
  <2>2. CASE k # n
    <3>1. k \in 1..n - 1 /\ k + 1 \in 1..n
      BY <2>2
    <3>2. Linked(ds[k], ds[k + 1])
      BY <1>1, <3>1 DEF Chain
    <3> QED BY <1>3, <3>1, <3>2
  <2> QED BY <2>1, <2>2
<1>8. es[1].overlap = <<>>
  <2>1. CASE n = 0
    <3>1. ds = <<>> /\ es[1] = d
      <4>1. ds = <<>>
        <5>1. Len(ds) = 0
          BY <1>1, <2>1
        <5> QED BY ONLY <5>1, ds \in Seq(X)
      <4> QED BY <1>3, <2>1, <4>1
    <3> QED BY <3>1 DEF MayFollow
  <2>2. CASE n # 0
    <3>1. ds # <<>> /\ 1 \in 1..n
      BY <1>1, <2>2
    <3> QED BY <1>3, <3>1 DEF Chain
  <2> QED BY <2>1, <2>2
<1>9. n + 1 - 1 = n
  OBVIOUS
<1> QED BY <1>2, <1>3, <1>5, <1>7, <1>8, <1>9 DEF Chain

LEMMA ChainLess ==
  ASSUME NEW X, NEW ds \in Seq(X), NEW d, Chain(Append(ds, d))
  PROVE  Chain(ds) /\ Proper(d) /\ MayFollow(ds, d)
<1>1. PICK n \in Nat : n = Len(ds)
  OBVIOUS
<1>2. PICK es : es = Append(ds, d)
  OBVIOUS
<1>3. /\ Len(es) = n + 1 /\ es[n + 1] = d /\ \A k \in 1..n : es[k] = ds[k]
      /\ es # <<>>
  BY <1>1, <1>2
<1>4. /\ \A k \in 1..n + 1 : Proper(es[k])
      /\ \A k \in 1..n : Linked(es[k], es[k + 1])
      /\ es[1].overlap = <<>>
  <2>1. n + 1 - 1 = n
    OBVIOUS
  <2> QED BY <1>2, <1>3, <2>1 DEF Chain
<1>5. \A k \in 1..n : k \in 1..n + 1 /\ Proper(ds[k])
  BY <1>3, <1>4
<1>6. ASSUME NEW k \in 1..n - 1 PROVE Linked(ds[k], ds[k + 1])
  <2>1. k \in 1..n /\ k + 1 \in 1..n
    OBVIOUS
  <2>2. Linked(es[k], es[k + 1])
    BY <1>4, <2>1
  <2> QED BY <1>3, <2>1, <2>2
<1>7. Proper(d)
  <2>1. n + 1 \in 1..n + 1
    OBVIOUS
  <2> QED BY <1>3, <1>4, <2>1
<1>8. CASE n = 0
  <2>1. ds = <<>> /\ es[1] = d
    <3>1. ds = <<>>
      <4>1. Len(ds) = 0
        BY <1>1, <1>8
      <4> QED BY ONLY <4>1, ds \in Seq(X)
    <3> QED BY <1>3, <1>8, <3>1
  <2> QED BY <1>1, <1>4, <1>5, <1>6, <1>7, <2>1 DEF Chain, MayFollow
<1>9. CASE n # 0
  <2>1. ds # <<>> /\ 1 \in 1..n /\ n \in 1..n
    BY <1>1, <1>9
  <2>2. ds[1].overlap = <<>>
    BY <1>3, <1>4, <2>1
  <2>3. Linked(ds[n], d)
    BY <1>3, <1>4, <2>1
  <2> QED BY <1>1, <1>5, <1>6, <1>7, <2>1, <2>2, <2>3 DEF Chain, MayFollow
<1> QED BY <1>8, <1>9


-----------------------------------------------------------------------------
(* The invariant. The drafts, and the one under way, are a chain; what was *)
(* repeated and what is new in the latest are consecutive units, the last  *)
(* ones taken.                                                             *)

CoverInv ==
  /\ Chosen
  /\ stage \in {"check", "assemble", "segmented", "refused"}
  /\ unit \in 0..Len(Units)
  /\ overlap \in Seq(UnitSet) /\ primary \in Seq(UnitSet)
  /\ drafts \in Seq(Drafts)
  /\ \A k \in 1..Len(drafts) : IsInjective(Content(drafts[k]))
  /\ stage = "check" => unit = 0 /\ overlap = <<>> /\ primary = <<>> /\ drafts = <<>>
  /\ stage \in {"assemble", "segmented"} => ParentsEnd
  /\ stage = "assemble" =>
       /\ Laid(drafts) \o primary = Slice(Units, 0, unit)
       /\ \E a \in 0..unit : overlap \o primary = Slice(Units, a, unit)
  /\ stage = "segmented" => Laid(drafts) = Units

(* The drafts, with the one under way if it has a unit, are a chain.       *)
TightInv ==
  /\ stage = "assemble" =>
       /\ primary = <<>> =>
            /\ Chain(drafts)
            /\ IF drafts = <<>> THEN overlap = <<>>
               ELSE /\ Ends(drafts[Len(drafts)], Len(drafts[Len(drafts)].primary))
                    /\ Repeats(drafts[Len(drafts)], overlap)
       /\ primary # <<>> =>
            /\ Chain(Append(drafts, Draft(overlap, primary)))
            /\ \A l \in 1..Len(primary) : ~ Ends(Draft(overlap, primary), l)
  /\ stage = "segmented" => Chain(drafts)

SegmentInv == CoverInv /\ TightInv

(* A turn of build_drafts puts one draft d after the finished ones ds.     *)
Turn(ds, d) ==
  /\ ds \in Seq(Drafts) /\ d \in Drafts
  /\ \A k \in 1..Len(ds) : IsInjective(Content(ds[k]))
  /\ Laid(ds) \o d.primary = Slice(Units, 0, unit + 1)
  /\ \E a \in 0..unit + 1 : Content(d) = Slice(Units, a, unit + 1)
  /\ Chain(Append(ds, d))
  /\ \A l \in 1..Len(d.primary) - 1 : ~ Ends(d, l)

EndsTurn(ds, d) ==
  \/ /\ Ends(d, Len(d.primary))
     /\ drafts' = Append(ds, d)
     /\ overlap' = ChooseOverlapUnits(d) /\ primary' = <<>>
  \/ /\ ~ Ends(d, Len(d.primary))
     /\ drafts' = ds /\ overlap' = d.overlap /\ primary' = d.primary

LEMMA AppendConcat ==
  ASSUME NEW X, NEW s \in Seq(X), NEW t \in Seq(X), NEW u \in X
  PROVE  s \o Append(t, u) = Append(s \o t, u)
OBVIOUS

LEMMA DraftIs ==
  ASSUME NEW o, NEW p
  PROVE  Draft(o, p).overlap = o /\ Draft(o, p).primary = p
BY DEF Draft

LEMMA LaidIsSeq ==
  ASSUME NEW ds \in Seq(Drafts)
  PROVE  Laid(ds) \in Seq(UnitSet)
<1> DEFINE T == {n \in Nat : \A es \in Seq(Drafts) : Len(es) = n => Laid(es) \in Seq(UnitSet)}
<1>1. 0 \in T
  <2> SUFFICES ASSUME NEW es \in Seq(Drafts), Len(es) = 0 PROVE Laid(es) \in Seq(UnitSet)
    OBVIOUS
  <2>1. es = <<>>
    BY ONLY Len(es) = 0, es \in Seq(Drafts)
  <2>2. Laid(es) = <<>>
    BY ONLY <2>1, LaidNone
  <2> QED BY <2>2
<1>2. ASSUME NEW n \in T PROVE n + 1 \in T
  <2> SUFFICES ASSUME NEW es \in Seq(Drafts), Len(es) = n + 1 PROVE Laid(es) \in Seq(UnitSet)
    OBVIOUS
  <2>1. n \in Nat
    OBVIOUS
  <2>2. PICK fs : fs = SubSeq(es, 1, n)
    OBVIOUS
  <2>3. PICK d : d = es[n + 1]
    OBVIOUS
  <2>4. fs \in Seq(Drafts) /\ Len(fs) = n /\ d \in Drafts /\ es = Append(fs, d)
    <3>1. fs = [k \in 1..n |-> es[k]] /\ \A k \in 1..n : es[k] \in Drafts
      BY <2>1, <2>2
    <3>2. fs \in Seq(Drafts) /\ Len(fs) = n
      BY <2>1, <3>1
    <3>3. d \in Drafts
      BY <2>1, <2>3
    <3>4. es = Append(fs, d)
      BY <2>1, <2>3, <3>1, <3>2
    <3> QED BY <3>2, <3>3, <3>4
  <2>5. Laid(fs) \in Seq(UnitSet)
    BY <2>4
  <2>6. d.primary \in Seq(UnitSet)
    BY <2>4 DEF Drafts
  <2>7. Laid(es) = Laid(fs) \o d.primary
    BY <2>4, LaidAppend
  <2> QED BY <2>5, <2>6, <2>7
<1>3. T = Nat
  <2>1. T \in SUBSET Nat
    OBVIOUS
  <2> HIDE DEF T
  <2> QED BY <1>1, <1>2, <2>1, SetInduction
<1>4. Len(ds) \in T
  <2> HIDE DEF T
  <2> QED BY <1>3
<1> QED BY <1>4

(* A draft with one more unit.                                             *)
LEMMA OneMore ==
  ASSUME NEW o, NEW p \in Seq(UnitSet), NEW u \in UnitSet,
         \A l \in 1..Len(p) : ~ Ends(Draft(o, p), l)
  PROVE  \A l \in 1..Len(p) : ~ Ends(Draft(o, Append(p, u)), l)
<1> SUFFICES ASSUME NEW l \in 1..Len(p) PROVE ~ Ends(Draft(o, Append(p, u)), l)
  OBVIOUS
<1>1. PICK q : q = Append(p, u)
  OBVIOUS
<1>2. q[l] = p[l]
  BY <1>1
<1>3. SubSeq(q, 1, l) = SubSeq(p, 1, l)
  <2>1. SubSeq(p, 1, l) = [k \in 1..l |-> p[k]]
    OBVIOUS
  <2>2. q \in Seq(UnitSet) /\ Len(q) = Len(p) + 1 /\ \A k \in 1..Len(p) : q[k] = p[k]
    BY <1>1
  <2>3. SubSeq(q, 1, l) = [k \in 1..l |-> q[k]]
    BY <2>2
  <2>4. \A k \in 1..l : q[k] = p[k]
    BY <2>2
  <2> QED BY ONLY <2>1, <2>3, <2>4
<1>4. ~ Ends(Draft(o, p), l)
  OBVIOUS
<1>5. PICK d : d = Draft(o, q)
  OBVIOUS
<1>6. d.overlap = o /\ d.primary = q
  BY <1>5, DraftIs
<1>7. Draft(o, p).overlap = o /\ Draft(o, p).primary = p
  BY DraftIs
<1>8. Ends(Draft(o, p), l) <=> /\ PreferredBoundary(p[l])
                               /\ DraftSize(Draft(o, SubSeq(p, 1, l))) >= option.target
  BY <1>7 DEF Ends
<1>9. Ends(d, l) <=> /\ PreferredBoundary(q[l])
                     /\ DraftSize(Draft(o, SubSeq(q, 1, l))) >= option.target
  BY <1>6 DEF Ends
<1> QED BY <1>1, <1>2, <1>3, <1>4, <1>5, <1>8, <1>9

(* A draft as a whole ends when its last unit says so.                     *)
LEMMA WholeEnds ==
  ASSUME NEW o, NEW p \in Seq(UnitSet), NEW u \in UnitSet
  PROVE  Ends(Draft(o, Append(p, u)), Len(Append(p, u)))
           <=> /\ PreferredBoundary(u)
               /\ DraftSize(Draft(o, Append(p, u))) >= option.target
<1>1. PICK q : q = Append(p, u)
  OBVIOUS
<1>2. q \in Seq(UnitSet) /\ q[Len(q)] = u
  BY <1>1
<1>3. SubSeq(q, 1, Len(q)) = q
  BY <1>2
<1> QED BY <1>1, <1>2, <1>3, DraftIs DEF Ends


(* The facts of TakeUnit's local definitions.                              *)
LEMMA TakeUnitIs ==
  ASSUME TakeUnit
  PROVE  \E u, cut, kept, carried, mine, current :
           /\ u = Units[unit + 1]
           /\ cut = (primary # <<>> /\ TooLarge(Draft(overlap, primary), u))
           /\ kept = IF cut THEN Append(drafts, Draft(overlap, primary)) ELSE drafts
           /\ carried = IF cut THEN ChooseOverlapUnits(Draft(overlap, primary)) ELSE overlap
           /\ mine = Append(IF cut THEN <<>> ELSE primary, u)
           /\ current = Draft(carried, mine)
           /\ IF mine # <<>> /\ DraftSize(current) >= option.target /\ PreferredBoundary(u)
              THEN drafts' = Append(kept, current)
                   /\ overlap' = ChooseOverlapUnits(current) /\ primary' = <<>>
              ELSE drafts' = kept /\ overlap' = carried /\ primary' = mine
<1>1. PICK u : u = Units[unit + 1]
  OBVIOUS
<1>2. PICK cut : cut = (primary # <<>> /\ Exceeds(DraftSize(Draft(overlap, Append(primary, u)))))
  OBVIOUS
<1>3. cut = (primary # <<>> /\ TooLarge(Draft(overlap, primary), u))
  BY <1>2, DraftIs DEF TooLarge, Exceeds
<1>4. PICK kept : kept = IF cut THEN Append(drafts, Draft(overlap, primary)) ELSE drafts
  OBVIOUS
<1>5. PICK carried :
        carried = IF cut THEN ChooseOverlapUnits(Draft(overlap, primary)) ELSE overlap
  OBVIOUS
<1>6. PICK mine : mine = Append(IF cut THEN <<>> ELSE primary, u)
  OBVIOUS
<1>7. PICK current : current = Draft(carried, mine)
  OBVIOUS
<1>8. current.overlap = carried /\ current.primary = mine
  BY <1>7, DraftIs
<1>9. IF mine # <<>> /\ DraftSize(current) >= option.target /\ PreferredBoundary(u)
      THEN drafts' = Append(kept, current)
           /\ overlap' = ChooseOverlapUnits(current) /\ primary' = <<>>
      ELSE drafts' = kept /\ overlap' = carried /\ primary' = mine
  BY <1>1, <1>2, <1>4, <1>5, <1>6, <1>7, <1>8 DEF TakeUnit, AndThis
<1> QED BY <1>1, <1>3, <1>4, <1>5, <1>6, <1>7, <1>9

LEMMA SliceConcat ==
  ASSUME NEW X, NEW U \in Seq(X), NEW n \in 0..Len(U), n < Len(U), NEW a \in 0..n,
         NEW s \in Seq(X), NEW t \in Seq(X), s \o t = Slice(U, a, n)
  PROVE  s \o Append(t, U[n + 1]) = Slice(U, a, n + 1)
<1>1. U[n + 1] \in X
  OBVIOUS
<1>2. s \o Append(t, U[n + 1]) = Append(s \o t, U[n + 1])
  <2>1. PICK u \in X : u = U[n + 1]
    BY <1>1
  <2>2. s \o Append(t, u) = Append(s \o t, u)
    BY ONLY AppendConcat, s \in Seq(X), t \in Seq(X), u \in X
  <2> QED BY ONLY <2>1, <2>2
<1>3. Append(Slice(U, a, n), U[n + 1]) = Slice(U, a, n + 1)
  BY SliceGrows
<1> QED BY ONLY <1>2, <1>3, s \o t = Slice(U, a, n)

LEMMA ConcatNone ==
  ASSUME NEW X, NEW s \in Seq(X) PROVE s \o <<>> = s
OBVIOUS

(* What is chosen to be repeated is the end of what was taken.             *)
LEMMA ChoiceIsSlice ==
  ASSUME Chosen, NEW d \in Drafts, NEW n \in 0..Len(Units), NEW a \in 0..n,
         Content(d) = Slice(Units, a, n)
  PROVE  \E b \in 0..n : ChooseOverlapUnits(d) = Slice(Units, b, n)
<1>1. PICK U : U = Units
  OBVIOUS
<1>2. U \in Seq(UnitSet) /\ n \in 0..Len(U)
  BY <1>1, UnitsAre
<1>3. PICK all : all = Content(d)
  OBVIOUS
<1>4. all = Slice(U, a, n) /\ Len(all) = n - a
  <2>1. Len(Slice(U, a, n)) = n - a
    BY ONLY <1>2, SliceIs, a \in 0..n
  <2> QED BY <1>1, <1>3, <2>1
<1>5. PICK c \in 0..Len(all) : ChooseOverlapUnits(d) = Slice(all, c, Len(all))
  BY <1>3, ChoiceRepeats
<1>6. c \in 0..n - a
  BY <1>4
<1>7. Slice(Slice(U, a, n), c, n - a) = Slice(U, a + c, n)
  BY ONLY <1>2, <1>6, SliceOfSlice, a \in 0..n
<1>8. a + c \in 0..n
  BY <1>6
<1> QED BY <1>1, <1>4, <1>5, <1>7, <1>8

LEMMA TurnHolds ==
  ASSUME SegmentInv, TakeUnit
  PROVE  \E ds, d : Turn(ds, d) /\ EndsTurn(ds, d)
<1>1. PICK u, cut, kept, carried, mine, current :
           /\ u = Units[unit + 1]
           /\ cut = (primary # <<>> /\ TooLarge(Draft(overlap, primary), u))
           /\ kept = IF cut THEN Append(drafts, Draft(overlap, primary)) ELSE drafts
           /\ carried = IF cut THEN ChooseOverlapUnits(Draft(overlap, primary)) ELSE overlap
           /\ mine = Append(IF cut THEN <<>> ELSE primary, u)
           /\ current = Draft(carried, mine)
           /\ IF mine # <<>> /\ DraftSize(current) >= option.target /\ PreferredBoundary(u)
              THEN drafts' = Append(kept, current)
                   /\ overlap' = ChooseOverlapUnits(current) /\ primary' = <<>>
              ELSE drafts' = kept /\ overlap' = carried /\ primary' = mine
  BY TakeUnitIs
<1>2. /\ Chosen /\ stage = "assemble" /\ unit < Len(Units) /\ unit \in 0..Len(Units)
      /\ overlap \in Seq(UnitSet) /\ primary \in Seq(UnitSet) /\ drafts \in Seq(Drafts)
      /\ \A k \in 1..Len(drafts) : IsInjective(Content(drafts[k]))
      /\ Laid(drafts) \o primary = Slice(Units, 0, unit)
      /\ \E a \in 0..unit : overlap \o primary = Slice(Units, a, unit)
  BY DEF SegmentInv, CoverInv, TakeUnit
<1>3. /\ primary = <<>> =>
            /\ Chain(drafts)
            /\ IF drafts = <<>> THEN overlap = <<>>
               ELSE /\ Ends(drafts[Len(drafts)], Len(drafts[Len(drafts)].primary))
                    /\ Repeats(drafts[Len(drafts)], overlap)
      /\ primary # <<>> =>
            /\ Chain(Append(drafts, Draft(overlap, primary)))
            /\ \A l \in 1..Len(primary) : ~ Ends(Draft(overlap, primary), l)
  BY <1>2 DEF SegmentInv, TightInv
<1>4. Units \in Seq(UnitSet) /\ IsInjective(Units) /\ u \in UnitSet
  <2>1. Units \in Seq(UnitSet) /\ IsInjective(Units)
    BY <1>2, UnitsAre
  <2>2. unit + 1 \in 1..Len(Units)
    BY <1>2, <2>1
  <2> QED BY <1>1, <2>1, <2>2
<1>5. PICK a \in 0..unit : overlap \o primary = Slice(Units, a, unit)
  BY <1>2
<1>6. ASSUME NEW s \in Seq(UnitSet), NEW t \in Seq(UnitSet), NEW b \in 0..unit,
             s \o t = Slice(Units, b, unit)
      PROVE  s \o Append(t, u) = Slice(Units, b, unit + 1)
  <2>1. PICK U : U = Units
    OBVIOUS
  <2>2. PICK n \in 0..Len(U) : n = unit
    BY <1>2, <2>1
  <2>3. U \in Seq(UnitSet) /\ n < Len(U) /\ b \in 0..n /\ s \o t = Slice(U, b, n)
    BY <1>2, <1>4, <1>6, <2>1, <2>2
  <2>4. s \o Append(t, U[n + 1]) = Slice(U, b, n + 1)
    BY ONLY <2>3, SliceConcat, n \in 0..Len(U), s \in Seq(UnitSet), t \in Seq(UnitSet)
  <2> QED BY <1>1, <2>1, <2>2, <2>4
<1>7. PICK now : now = Draft(overlap, primary)
  OBVIOUS
<1>8. now.overlap = overlap /\ now.primary = primary
  BY <1>7, DraftIs
<1>9. current.overlap = carried /\ current.primary = mine
  BY <1>1, DraftIs
<1>10. CASE cut
  <2>1. primary # <<>> /\ TooLarge(now, u)
    BY <1>1, <1>7, <1>10
  <2>2. now \in Drafts
    BY <1>2, <1>7, <2>1 DEF Draft, Drafts
  <2>3. kept = Append(drafts, now) /\ carried = ChooseOverlapUnits(now) /\ mine = <<u>>
    <3>1. kept = Append(drafts, now) /\ carried = ChooseOverlapUnits(now)
      BY <1>1, <1>7, <1>10
    <3>2. mine = Append(<<>>, u)
      BY <1>1, <1>10
    <3>3. Append(<<>>, u) = <<u>>
      OBVIOUS
    <3> QED BY <3>1, <3>2, <3>3
  <2>4. Content(now) = Slice(Units, a, unit)
    BY <1>5, <1>8 DEF Content
  <2>5. PICK b \in 0..unit : carried = Slice(Units, b, unit)
    BY <1>2, <2>2, <2>3, <2>4, ChoiceIsSlice
  <2>6. carried \in Seq(UnitSet)
    BY <1>2, <1>4, <2>5, SliceIs
  <2>7. mine \in Seq(UnitSet) /\ mine # <<>> /\ Len(mine) = 1 /\ mine[1] = u
    BY <1>4, <2>3
  <2>8. kept \in Seq(Drafts)
    BY <1>2, <2>2, <2>3
  <2>9. current \in Drafts
    BY <1>1, <2>6, <2>7 DEF Draft, Drafts
  <2>10. \A k \in 1..Len(kept) : IsInjective(Content(kept[k]))
    <3>1. IsInjective(Content(now))
      BY <1>2, <1>4, <2>4, SliceOnce
    <3>2. \A k \in 1..Len(kept) :
             (k \in 1..Len(drafts) /\ kept[k] = drafts[k]) \/ kept[k] = now
      <4>1. PICK ds : ds = drafts
        OBVIOUS
      <4>2. ds \in Seq(Drafts) /\ now \in Drafts
        BY <1>2, <2>2, <4>1
      <4>3. \A k \in 1..Len(Append(ds, now)) :
              (k \in 1..Len(ds) /\ Append(ds, now)[k] = ds[k]) \/ Append(ds, now)[k] = now
        BY ONLY <4>2
      <4> QED BY ONLY <2>3, <4>1, <4>3
    <3> QED BY <1>2, <3>1, <3>2
  <2>11. Laid(kept) = Slice(Units, 0, unit)
    BY <1>2, <1>8, <2>2, <2>3, LaidAppend
  <2>12. Laid(kept) \o mine = Slice(Units, 0, unit + 1)
    <3>1. Laid(kept) \in Seq(UnitSet) /\ <<>> \in Seq(UnitSet) /\ 0 \in 0..unit
      BY <1>2, <2>8, LaidIsSeq
    <3>2. Laid(kept) \o <<>> = Slice(Units, 0, unit)
      BY <2>11, <3>1, ConcatNone
    <3>3. Laid(kept) \o Append(<<>>, u) = Slice(Units, 0, unit + 1)
      BY ONLY <1>6, <3>1, <3>2
    <3>4. mine = Append(<<>>, u)
      BY <2>3
    <3> QED BY ONLY <3>3, <3>4
  <2>13. Content(current) = Slice(Units, b, unit + 1)
    <3>1. <<>> \in Seq(UnitSet)
      OBVIOUS
    <3>2. carried \o <<>> = Slice(Units, b, unit)
      BY <2>5, <2>6, ConcatNone
    <3>3. carried \o Append(<<>>, u) = Slice(Units, b, unit + 1)
      BY ONLY <1>6, <2>6, <3>1, <3>2, b \in 0..unit
    <3>4. mine = Append(<<>>, u)
      BY <2>3
    <3> QED BY ONLY <1>9, <3>3, <3>4 DEF Content
  <2>14. Chain(Append(kept, current))
    <3>1. Chain(kept)
      BY <1>3, <1>7, <2>1, <2>3
    <3>2. Proper(current)
      <4>1. \A l \in 1..Len(mine) - 1 : FALSE
        BY <2>7
      <4> QED BY <1>9, <2>7, <4>1 DEF Proper
    <3>3. Linked(now, current)
      <4>1. Repeats(now, current.overlap)
        BY <1>2, <1>9, <2>2, <2>3, ChoiceRepeats
      <4>2. TooLarge(now, current.primary[1])
        BY <1>9, <2>1, <2>7
      <4> QED BY <4>1, <4>2 DEF Linked
    <3>4. MayFollow(kept, current)
      <4>1. kept # <<>> /\ kept[Len(kept)] = now
        <5>1. drafts \in Seq(Drafts)
          BY <1>2
        <5> QED BY ONLY <2>2, <2>3, <5>1
      <4> QED BY <3>3, <4>1 DEF MayFollow
    <3> QED BY <2>8, <3>1, <3>2, <3>4, ChainGrows
  <2>15. \A l \in 1..Len(current.primary) - 1 : ~ Ends(current, l)
    BY <1>9, <2>7
  <2>16. Turn(kept, current)
    <3>1. b \in 0..unit + 1
      BY <1>2
    <3> QED BY <1>9, <2>8, <2>9, <2>10, <2>12, <2>13, <2>14, <2>15, <3>1 DEF Turn
  <2>17. Ends(current, Len(current.primary))
           <=> PreferredBoundary(u) /\ DraftSize(current) >= option.target
    <3>1. mine = Append(<<>>, u) /\ <<>> \in Seq(UnitSet)
      BY <2>3
    <3>2. current = Draft(carried, Append(<<>>, u)) /\ current.primary = Append(<<>>, u)
      BY ONLY <1>1, <1>9, <3>1
    <3>3. u \in UnitSet
      BY ONLY <1>4
    <3>4. Ends(Draft(carried, Append(<<>>, u)), Len(Append(<<>>, u)))
            <=> /\ PreferredBoundary(u)
                /\ DraftSize(Draft(carried, Append(<<>>, u))) >= option.target
      BY ONLY <3>1, <3>3, WholeEnds
    <3> QED BY ONLY <3>2, <3>4
  <2>18. EndsTurn(kept, current)
    BY <1>1, <1>9, <2>7, <2>17 DEF EndsTurn
  <2> QED BY <2>16, <2>18
<1>11. CASE ~ cut
  <2>1. primary = <<>> \/ ~ TooLarge(now, u)
    BY <1>1, <1>7, <1>11
  <2>2. kept = drafts /\ carried = overlap /\ mine = Append(primary, u)
    BY <1>1, <1>11
  <2>3. PICK n \in Nat : n = Len(primary)
    BY <1>2
  <2>4. mine \in Seq(UnitSet) /\ mine # <<>> /\ Len(mine) = n + 1
    <3>1. PICK q : q = primary
      OBVIOUS
    <3>2. q \in Seq(UnitSet) /\ u \in UnitSet /\ Len(q) = n
      BY <1>2, <1>4, <2>3, <3>1
    <3>3. Append(q, u) \in Seq(UnitSet) /\ Append(q, u) # <<>> /\ Len(Append(q, u)) = n + 1
      BY ONLY <3>2, n \in Nat
    <3> QED BY ONLY <2>2, <3>1, <3>3
  <2>5. current \in Drafts
    BY <1>1, <1>2, <2>2, <2>4 DEF Draft, Drafts
  <2>6. Laid(kept) \o mine = Slice(Units, 0, unit + 1)
    <3>1. Laid(drafts) \in Seq(UnitSet) /\ 0 \in 0..unit
      BY <1>2, LaidIsSeq
    <3>2. primary \in Seq(UnitSet) /\ Laid(drafts) \o primary = Slice(Units, 0, unit)
      BY ONLY <1>2
    <3>3. Laid(drafts) \o Append(primary, u) = Slice(Units, 0, unit + 1)
      BY ONLY <1>6, <3>1, <3>2
    <3> QED BY ONLY <2>2, <3>3
  <2>7. Content(current) = Slice(Units, a, unit + 1)
    <3>1. overlap \o Append(primary, u) = Slice(Units, a, unit + 1)
      BY <1>2, <1>5, <1>6
    <3> QED BY <1>9, <2>2, <3>1 DEF Content
  <2>8. \A l \in 1..n : ~ Ends(current, l)
    <3>1. CASE primary = <<>>
      BY <2>3, <3>1
    <3>2. CASE primary # <<>>
      <4>1. \A l \in 1..Len(primary) : ~ Ends(Draft(overlap, primary), l)
        BY <1>3, <3>2
      <4>2. \A l \in 1..Len(primary) : ~ Ends(Draft(overlap, Append(primary, u)), l)
        BY <1>2, <1>4, <4>1, OneMore
      <4> QED BY <1>1, <2>2, <2>3, <4>2
    <3> QED BY <3>1, <3>2
  <2>9. Proper(current)
    <3>1. CASE primary = <<>>
      <4>1. Len(mine) = 1 /\ \A l \in 1..Len(mine) - 1 : FALSE
        BY <2>3, <2>4, <3>1
      <4> QED BY <1>9, <4>1 DEF Proper
    <3>2. CASE primary # <<>>
      <4>1. ~ TooLarge(now, u)
        BY <2>1, <3>2
      <4>2. ~ (DraftSize(current) > option.maximum)
        BY <1>1, <1>8, <2>2, <4>1 DEF TooLarge
      <4>3. n + 1 - 1 = n
        OBVIOUS
      <4> QED BY <1>9, <2>4, <2>8, <4>2, <4>3 DEF Proper
    <3> QED BY <3>1, <3>2
  <2>10. Chain(kept) /\ MayFollow(kept, current)
    <3>1. CASE primary = <<>>
      <4>1. current.overlap = overlap
        BY <1>9, <2>2
      <4> QED BY <1>3, <2>2, <3>1, <4>1 DEF MayFollow, Linked
    <3>2. CASE primary # <<>>
      <4>1. Chain(drafts) /\ MayFollow(drafts, now)
        BY <1>2, <1>3, <1>7, <3>2, ChainLess
      <4>2. now.overlap = current.overlap /\ now.primary[1] = current.primary[1]
        <5>1. 1 \in 1..n
          BY <1>2, <2>3, <3>2
        <5>2. mine[1] = primary[1]
          BY <1>2, <1>4, <2>2, <2>3, <5>1
        <5> QED BY <1>8, <1>9, <2>2, <5>2
      <4> QED BY <2>2, <4>1, <4>2 DEF MayFollow, Linked
    <3> QED BY <3>1, <3>2
  <2>11. Chain(Append(kept, current))
    BY <1>2, <2>2, <2>9, <2>10, ChainGrows
  <2>12. Turn(kept, current)
    <3>1. a \in 0..unit + 1
      BY <1>2
    <3>2. \A l \in 1..Len(current.primary) - 1 : ~ Ends(current, l)
      BY <1>9, <2>4, <2>8
    <3> QED BY <1>2, <1>9, <2>2, <2>5, <2>6, <2>7, <2>11, <3>1, <3>2 DEF Turn
  <2>13. Ends(current, Len(current.primary))
           <=> PreferredBoundary(u) /\ DraftSize(current) >= option.target
    BY <1>1, <1>2, <1>4, <1>9, <2>2, WholeEnds
  <2>14. EndsTurn(kept, current)
    BY <1>1, <1>9, <2>4, <2>13 DEF EndsTurn
  <2> QED BY <2>12, <2>14
<1>12. cut \in BOOLEAN
  BY <1>1
<1> QED BY <1>10, <1>11


LEMMA AllFixed ==
  ASSUME Fixed
  PROVE  /\ Chosen' = Chosen /\ Units' = Units /\ UnitSet' = UnitSet
         /\ Drafts' = Drafts /\ ParentsEnd' = ParentsEnd
<1>1. ASSUME NEW CONSTANT i PROVE Ascent(i)' = Ascent(i)
  BY DEF Fixed, Ascent, Last
<1>2. ParentsEnd' = ParentsEnd
  BY <1>1, PreparedFixed DEF ParentsEnd, Last
<1>3. Chosen' = Chosen
  BY DEF Fixed, Chosen
<1>4. UnitSet' = UnitSet
  BY UnitsFixed
<1>5. Drafts' = Drafts
  BY <1>4 DEF Drafts
<1> QED BY <1>2, <1>3, <1>4, <1>5, UnitsFixed

LEMMA TightFixed ==
  ASSUME Fixed, NEW CONSTANT ds, NEW CONSTANT o, NEW CONSTANT p,
         drafts' = ds, overlap' = o, primary' = p,
         stage' = "assemble" =>
           /\ p = <<>> =>
                /\ Chain(ds)
                /\ IF ds = <<>> THEN o = <<>>
                   ELSE /\ Ends(ds[Len(ds)], Len(ds[Len(ds)].primary))
                        /\ Repeats(ds[Len(ds)], o)
           /\ p # <<>> =>
                /\ Chain(Append(ds, Draft(o, p)))
                /\ \A l \in 1..Len(p) : ~ Ends(Draft(o, p), l),
         stage' = "segmented" => Chain(ds)
  PROVE  TightInv'
<1>1. \A es : Chain(es)' = Chain(es)
  BY ChainFixed
<1>2. \A d, l : Ends(d, l)' = Ends(d, l)
  BY EndsFixed
<1>3. \A d, r : Repeats(d, r)' = Repeats(d, r)
  BY RepeatsFixed
<1> QED BY <1>1, <1>2, <1>3 DEF TightInv, Draft

LEMMA SegmentStarts == ASSUME SegmentInit PROVE SegmentInv
<1>1. Chosen
  BY DEF SegmentInit, Chosen
<1>2. Units \in Seq(UnitSet)
  BY <1>1, UnitsAre
<1> QED BY <1>1, <1>2 DEF SegmentInit, SegmentInv, CoverInv, TightInv

LEMMA SliceWhole == ASSUME NEW X, NEW U \in Seq(X) PROVE Slice(U, 0, Len(U)) = U
<1>1. PICK n \in Nat : n = Len(U)
  OBVIOUS
<1>2. PICK s : s = Slice(U, 0, n)
  OBVIOUS
<1>3. s \in Seq(X) /\ Len(s) = n - 0 /\ \A k \in 1..n - 0 : s[k] = U[0 + k]
  <2>1. n \in 0..Len(U) /\ 0 \in 0..n
    BY <1>1
  <2> QED BY <1>2, <2>1, SliceIs
<1>4. n - 0 = n /\ \A k \in 1..n : 0 + k = k
  OBVIOUS
<1>5. s = U
  BY ONLY <1>1, <1>3, <1>4, U \in Seq(X)
<1> QED BY <1>1, <1>2, <1>5

LEMMA SegmentCheck == ASSUME SegmentInv, Check PROVE SegmentInv'
<1>1. /\ Chosen /\ unit = 0 /\ overlap = <<>> /\ primary = <<>> /\ drafts = <<>>
  BY DEF SegmentInv, CoverInv, Check
<1>2. /\ Fixed /\ unit' = 0 /\ overlap' = <<>> /\ primary' = <<>> /\ drafts' = <<>>
      /\ \/ stage' = "refused"
         \/ stage' = "assemble" /\ ParentsEnd
  BY <1>1 DEF Check, Fixed
<1>3. Units \in Seq(UnitSet)
  BY <1>1, UnitsAre
<1>4. Slice(Units, 0, 0) = <<>>
  <2>1. 0 \in 0..Len(Units) /\ 0 \in 0..0 /\ 0 - 0 = 0
    BY <1>3
  <2>2. Slice(Units, 0, 0) \in Seq(UnitSet) /\ Len(Slice(Units, 0, 0)) = 0
    BY <1>3, <2>1, SliceIs
  <2> QED BY <2>2
<1>5. CoverInv'
  <2>1. Laid(<<>>) \o <<>> = <<>> /\ <<>> \o <<>> = <<>>
    BY LaidNone
  <2>2. 0 \in 0..Len(Units) /\ 0 \in 0..0
    BY <1>3
  <2>3. \E a \in 0..0 : <<>> \o <<>> = Slice(Units, a, 0)
    BY <1>4, <2>1, <2>2
  <2>4. /\ Chosen' /\ Units' = Units /\ UnitSet' = UnitSet /\ Drafts' = Drafts
        /\ ParentsEnd' = ParentsEnd
    BY <1>1, <1>2, AllFixed
  <2>5. /\ stage' \in {"check", "assemble", "segmented", "refused"}
        /\ stage' # "check" /\ stage' # "segmented"
        /\ stage' = "assemble" => ParentsEnd'
    BY <1>2, <2>4
  <2>6. <<>> \in Seq(UnitSet) /\ <<>> \in Seq(Drafts) /\ Len(<<>>) = 0
    OBVIOUS
  <2> QED BY <1>2, <1>4, <2>1, <2>2, <2>3, <2>4, <2>5, <2>6 DEF CoverInv, Laid
<1>6. Chain(<<>>)
  BY DEF Chain
<1>7. TightInv'
  <2>1. stage' # "segmented"
    BY <1>2
  <2> QED BY <1>2, <1>6, <2>1, TightFixed
<1> QED BY <1>5, <1>7 DEF SegmentInv

LEMMA SegmentTurn == ASSUME SegmentInv, TakeUnit PROVE SegmentInv'
<1>1. PICK ds, d : Turn(ds, d) /\ EndsTurn(ds, d)
  BY TurnHolds
<1>2. /\ Chosen /\ stage = "assemble" /\ unit < Len(Units) /\ unit \in 0..Len(Units)
      /\ ParentsEnd
  BY DEF SegmentInv, CoverInv, TakeUnit
<1>3. Fixed /\ stage' = "assemble" /\ unit' = unit + 1
  BY <1>2 DEF TakeUnit, Fixed
<1>4. /\ ds \in Seq(Drafts) /\ d \in Drafts
      /\ \A k \in 1..Len(ds) : IsInjective(Content(ds[k]))
      /\ Laid(ds) \o d.primary = Slice(Units, 0, unit + 1)
      /\ \E a \in 0..unit + 1 : Content(d) = Slice(Units, a, unit + 1)
      /\ Chain(Append(ds, d))
      /\ \A l \in 1..Len(d.primary) - 1 : ~ Ends(d, l)
  BY <1>1 DEF Turn
<1>5. Units \in Seq(UnitSet) /\ IsInjective(Units)
  BY <1>2, UnitsAre
<1>6. PICK n \in 0..Len(Units) : n = unit + 1
  BY <1>2, <1>5
<1>7. PICK a \in 0..n : Content(d) = Slice(Units, a, n)
  BY <1>4, <1>6
<1>8. /\ d.overlap \in Seq(UnitSet) /\ d.primary \in Seq(UnitSet) /\ d.primary # <<>>
      /\ d = Draft(d.overlap, d.primary)
  BY <1>4 DEF Drafts, Draft
<1>9. /\ Chosen' /\ Units' = Units /\ UnitSet' = UnitSet /\ Drafts' = Drafts
      /\ ParentsEnd' = ParentsEnd
  BY <1>2, <1>3, AllFixed
<1>10. CASE /\ Ends(d, Len(d.primary))
            /\ drafts' = Append(ds, d)
            /\ overlap' = ChooseOverlapUnits(d) /\ primary' = <<>>
  <2>1. PICK es : es = Append(ds, d)
    OBVIOUS
  <2>2. es \in Seq(Drafts) /\ es # <<>> /\ Len(es) = Len(ds) + 1 /\ es[Len(es)] = d
    BY ONLY <1>4, <2>1
  <2>3. \A k \in 1..Len(es) : IsInjective(Content(es[k]))
    <3>1. IsInjective(Content(d))
      BY <1>5, <1>7, SliceOnce
    <3>2. \A k \in 1..Len(es) : (k \in 1..Len(ds) /\ es[k] = ds[k]) \/ es[k] = d
      BY ONLY <1>4, <2>1
    <3> QED BY <1>4, <3>1, <3>2
  <2>4. PICK o : o = ChooseOverlapUnits(d)
    OBVIOUS
  <2>5. PICK b \in 0..n : o = Slice(Units, b, n)
    BY <1>2, <1>4, <1>7, <2>4, ChoiceIsSlice
  <2>6. o \in Seq(UnitSet)
    BY <1>5, <2>5, SliceIs
  <2>7. o \o <<>> = Slice(Units, b, n)
    BY <2>5, <2>6, ConcatNone
  <2>8. Laid(es) \in Seq(UnitSet) /\ Laid(es) = Slice(Units, 0, n)
    BY <1>4, <1>6, <2>1, <2>2, LaidAppend, LaidIsSeq
  <2>9. Laid(es) \o <<>> = Slice(Units, 0, n)
    BY <2>8, ConcatNone
  <2>10. drafts' = es /\ overlap' = o /\ primary' = <<>> /\ <<>> \in Seq(UnitSet)
    BY <1>10, <2>1, <2>4
  <2>11. CoverInv'
    BY <1>2, <1>3, <1>6, <1>9, <2>2, <2>3, <2>6, <2>7, <2>9, <2>10 DEF CoverInv, Laid, Content
  <2>12. Chain(es)
    BY <1>4, <2>1
  <2>13. Repeats(d, o)
    BY <1>2, <1>4, <2>4, ChoiceRepeats
  <2>14. TightInv'
    BY <1>3, <1>10, <2>2, <2>10, <2>12, <2>13, TightFixed
  <2> QED BY <2>11, <2>14 DEF SegmentInv
<1>11. CASE /\ ~ Ends(d, Len(d.primary))
            /\ drafts' = ds /\ overlap' = d.overlap /\ primary' = d.primary
  <2>1. PICK o \in Seq(UnitSet), p \in Seq(UnitSet) : o = d.overlap /\ p = d.primary
    BY <1>8
  <2>2. o \o p = Slice(Units, a, n)
    BY <1>7, <2>1 DEF Content
  <2>3. Laid(ds) \o p = Slice(Units, 0, n)
    BY <1>4, <1>6, <2>1
  <2>4. drafts' = ds /\ overlap' = o /\ primary' = p
    BY <1>11, <2>1
  <2>5. CoverInv'
    BY <1>2, <1>3, <1>4, <1>6, <1>9, <2>2, <2>3, <2>4 DEF CoverInv, Laid, Content
  <2>6. d = Draft(o, p) /\ p # <<>>
    BY <1>8, <2>1
  <2>7. \A l \in 1..Len(p) : ~ Ends(Draft(o, p), l)
    <3>1. \A l \in 1..Len(p) : l \in 1..Len(p) - 1 \/ l = Len(p)
      OBVIOUS
    <3> QED BY <1>4, <1>11, <2>1, <2>6, <3>1
  <2>8. TightInv'
    BY <1>3, <1>4, <2>4, <2>6, <2>7, TightFixed
  <2> QED BY <2>5, <2>8 DEF SegmentInv
<1> QED BY <1>1, <1>10, <1>11 DEF EndsTurn

LEMMA SegmentLast == ASSUME SegmentInv, LastDraft PROVE SegmentInv'
<1>1. /\ Chosen /\ stage = "assemble" /\ unit = Len(Units) /\ ParentsEnd
      /\ overlap \in Seq(UnitSet) /\ primary \in Seq(UnitSet) /\ drafts \in Seq(Drafts)
      /\ \A k \in 1..Len(drafts) : IsInjective(Content(drafts[k]))
      /\ Laid(drafts) \o primary = Slice(Units, 0, unit)
      /\ \E a \in 0..unit : overlap \o primary = Slice(Units, a, unit)
  BY DEF SegmentInv, CoverInv, LastDraft
<1>2. Fixed /\ stage' = "segmented" /\ unit' = unit /\ overlap' = overlap /\ primary' = primary
  BY DEF LastDraft, Fixed
<1>3. Units \in Seq(UnitSet) /\ IsInjective(Units) /\ unit \in 0..Len(Units)
  BY <1>1, UnitsAre
<1>4. Laid(drafts) \o primary = Units
  BY <1>1, <1>3, SliceWhole
<1>5. PICK now : now = Draft(overlap, primary)
  OBVIOUS
<1>6. now.overlap = overlap /\ now.primary = primary
  BY <1>5, DraftIs
<1>7. PICK ds : ds = IF primary = <<>> THEN drafts ELSE Append(drafts, now)
  OBVIOUS
<1>8. drafts' = ds
  BY <1>5, <1>7 DEF LastDraft
<1>9. /\ ds \in Seq(Drafts) /\ Laid(ds) = Units /\ Chain(ds)
      /\ \A k \in 1..Len(ds) : IsInjective(Content(ds[k]))
  <2>1. CASE primary = <<>>
    <3>1. ds = drafts /\ Chain(drafts)
      BY <1>1, <1>7, <2>1 DEF SegmentInv, TightInv
    <3>2. Laid(drafts) \in Seq(UnitSet)
      BY <1>1, LaidIsSeq
    <3>3. Laid(drafts) = Units
      BY <1>4, <2>1, <3>2, ConcatNone
    <3> QED BY <1>1, <3>1, <3>3
  <2>2. CASE primary # <<>>
    <3>1. ds = Append(drafts, now) /\ now \in Drafts
      BY <1>1, <1>5, <1>7, <2>2 DEF Draft, Drafts
    <3>2. Chain(Append(drafts, now))
      BY <1>1, <1>5, <2>2 DEF SegmentInv, TightInv
    <3>3. Laid(ds) = Units
      BY <1>1, <1>4, <1>6, <3>1, LaidAppend
    <3>4. IsInjective(Content(now))
      BY <1>1, <1>3, <1>6, SliceOnce DEF Content
    <3>5. drafts \in Seq(Drafts)
      BY <1>1
    <3>6. \A k \in 1..Len(ds) : (k \in 1..Len(drafts) /\ ds[k] = drafts[k]) \/ ds[k] = now
      BY ONLY <3>1, <3>5
    <3>7. ds \in Seq(Drafts)
      BY ONLY <3>1, <3>5
    <3> QED BY <1>1, <3>1, <3>2, <3>3, <3>4, <3>6, <3>7
  <2> QED BY <2>1, <2>2
<1>10. /\ Chosen' /\ Units' = Units /\ UnitSet' = UnitSet /\ Drafts' = Drafts
       /\ ParentsEnd' = ParentsEnd
  BY <1>1, <1>2, AllFixed
<1>11. CoverInv'
  BY <1>1, <1>2, <1>3, <1>8, <1>9, <1>10 DEF CoverInv, Laid, Content
<1>12. TightInv'
  <2>1. PICK o, p : o = overlap' /\ p = primary'
    OBVIOUS
  <2>2. stage' # "assemble"
    BY <1>2
  <2> QED BY <1>2, <1>8, <1>9, <2>1, <2>2, TightFixed
<1> QED BY <1>11, <1>12 DEF SegmentInv

LEMMA SegmentStays == ASSUME SegmentInv, UNCHANGED segmentVars PROVE SegmentInv'
<1>1. /\ Fixed /\ stage' = stage /\ unit' = unit /\ overlap' = overlap
      /\ primary' = primary /\ drafts' = drafts
  BY DEF segmentVars, Fixed
<1>2. CoverInv'
  BY <1>1, AllFixed DEF SegmentInv, CoverInv, Laid, Content
<1>3. TightInv'
  <2>1. PICK ds, o, p : ds = drafts /\ o = overlap /\ p = primary
    OBVIOUS
  <2> QED BY <1>1, <2>1, TightFixed DEF SegmentInv, TightInv
<1> QED BY <1>2, <1>3 DEF SegmentInv

LEMMA SegmentInductive == SegmentSpec => []SegmentInv
<1>1. ASSUME SegmentInv, [SegmentNext]_segmentVars PROVE SegmentInv'
  BY <1>1, SegmentCheck, SegmentTurn, SegmentLast, SegmentStays DEF SegmentNext
<1> QED BY <1>1, SegmentStarts, PTL DEF SegmentSpec

-----------------------------------------------------------------------------

(* Every prepared node is the content of exactly one segment, in canonical *)
(* order, and no node appears twice in a segment (structural.rs:698-739).  *)
THEOREM SegmentsCoverOnceHolds == SegmentSpec => []SegmentsCoverOnce
<1>1. ASSUME SegmentInv PROVE SegmentsCoverOnce
  <2> SUFFICES ASSUME stage = "segmented" PROVE
        /\ FlattenSeq([k \in DOMAIN drafts |-> drafts[k].primary]) = Units
        /\ Range(NodesOf(Units)) = Prepared /\ IsInjective(NodesOf(Units))
        /\ \A k \in DOMAIN drafts : IsInjective(Pieces(drafts[k]))
    BY DEF SegmentsCoverOnce, Segmented
  <2>1. /\ Chosen /\ ParentsEnd /\ drafts \in Seq(Drafts) /\ Laid(drafts) = Units
        /\ \A k \in 1..Len(drafts) : IsInjective(Content(drafts[k]))
    BY <1>1 DEF SegmentInv, CoverInv
  <2>2. FlattenSeq([k \in DOMAIN drafts |-> drafts[k].primary]) = Units
    BY <2>1 DEF Laid
  <2>3. Units \in Seq(UnitSet) /\ IsInjective(Units) /\ Range(Units) = UnitSet
    BY <2>1, UnitsAre
  <2>4. /\ NodesOf(Units) \in Seq(Prepared) /\ IsInjective(NodesOf(Units))
        /\ \A x : x \in Range(NodesOf(Units)) <=> \E k \in DOMAIN Units : x \in Members(Units[k])
    BY <2>1, <2>3, NodesAre
  <2>5. Range(NodesOf(Units)) = Prepared
    <3>1. ASSUME NEW x \in Prepared PROVE x \in Range(NodesOf(Units))
      <4>1. PICK u \in UnitSet : x \in Members(u)
        BY <2>1, UnitsPartition
      <4>2. PICK k \in DOMAIN Units : Units[k] = u
        BY <2>3 DEF Range
      <4> QED BY <2>4, <4>1, <4>2
    <3>2. \A x \in Range(NodesOf(Units)) : x \in Prepared
      BY <2>1, <2>4, MembersAre
    <3> QED BY <3>1, <3>2
  <2>6. ASSUME NEW k \in DOMAIN drafts PROVE IsInjective(Pieces(drafts[k]))
    <3>1. PICK d \in Drafts : d = drafts[k]
      BY <2>1
    <3>2. IsInjective(d.overlap \o d.primary)
      BY <2>1, <3>1 DEF Content
    <3>3. d.overlap \in Seq(UnitSet) /\ d.primary \in Seq(UnitSet) /\ d.primary # <<>>
      BY DEF Drafts
    <3> QED BY <2>1, <3>1, <3>2, <3>3, PiecesOnce
  <2> QED BY <2>2, <2>4, <2>5, <2>6
<1> QED BY <1>1, SegmentInductive, PTL

(* A segment ends where it must or should, only a single unit is ever too  *)
(* large, and a segment repeats the end of the one before and no more of   *)
(* it than was asked for (structural.rs:698-762).                          *)
THEOREM SegmentsAreTightHolds == SegmentSpec => []SegmentsAreTight
<1>1. ASSUME SegmentInv PROVE SegmentsAreTight
  <2>1. SUFFICES ASSUME stage = "segmented" PROVE SegmentsAreTight
    BY DEF SegmentsAreTight, CutsAreNeeded, OverlapIsTheEnd, Segmented
  <2>2. Chain(drafts) /\ drafts \in Seq(Drafts) /\ DOMAIN drafts = 1..Len(drafts)
    <3>1. Chain(drafts) /\ drafts \in Seq(Drafts)
      BY <1>1, <2>1 DEF SegmentInv, CoverInv, TightInv
    <3> QED BY <3>1
  <2>3. PICK n \in Nat : n = Len(drafts)
    <3> HIDE DEF SegmentInv, Chain, Drafts
    <3>1. drafts \in Seq(Drafts)
      BY ONLY <2>2
    <3>2. Len(drafts) \in Nat
      BY ONLY <3>1
    <3> QED BY ONLY <3>2
  <2>4. CutsAreNeeded
    <3> SUFFICES ASSUME NEW k \in 1..n
                 PROVE  LET d == drafts[k]
                            Part(l) == Draft(d.overlap, SubSeq(d.primary, 1, l))
                            Final(l) == PreferredBoundary(d.primary[l])
                                         /\ DraftSize(Part(l)) >= option.target
                        IN
                        /\ DraftSize(d) > option.maximum => Len(d.primary) = 1
                        /\ \A l \in 1 .. Len(d.primary) - 1 : ~ Final(l)
                        /\ k < Len(drafts) =>
                             \/ Final(Len(d.primary))
                             \/ DraftSize(Draft(d.overlap, Append(d.primary, drafts[k + 1].primary[1])))
                                  > option.maximum
      BY <2>2, <2>3 DEF CutsAreNeeded
    <3>1. Proper(drafts[k])
      BY <2>2, <2>3 DEF Chain
    <3>2. k < n => Linked(drafts[k], drafts[k + 1])
      <4>1. k < n => k \in 1..n - 1
        OBVIOUS
      <4> QED BY <2>2, <2>3, <4>1 DEF Chain
    <3> QED BY <2>3, <3>1, <3>2 DEF Proper, Linked, Ends, TooLarge
  <2>5. OverlapIsTheEnd
    <3> SUFFICES ASSUME NEW k \in 1..n
                 PROVE  LET o == drafts[k].overlap
                            before == drafts[k - 1].overlap \o drafts[k - 1].primary
                        IN
                        IF k = 1 \/ option.overlap = 0 THEN o = <<>>
                        ELSE /\ IsSuffix(o, before)
                             /\ Len(NodesOf(o)) >= option.overlap \/ o = before
                             /\ Len(NodesOf(Tail(o))) < option.overlap
      BY <2>2, <2>3 DEF OverlapIsTheEnd
    <3>1. CASE k = 1
      <4>1. drafts # <<>>
        BY <2>2, <2>3
      <4>2. drafts[1].overlap = <<>>
        BY <2>2, <4>1 DEF Chain
      <4> QED BY <3>1, <4>2
    <3>2. CASE k # 1
      <4>1. PICK j \in 1..n - 1 : j = k - 1
        BY <3>2
      <4>2. j + 1 = k
        BY <4>1
      <4>3. Linked(drafts[j], drafts[j + 1])
        BY <2>2, <2>3 DEF Chain
      <4>4. Repeats(drafts[j], drafts[k].overlap)
        BY <4>2, <4>3 DEF Linked
      <4> QED BY <3>2, <4>1, <4>4 DEF Repeats, Content
    <3> QED BY <3>1, <3>2
  <2> QED BY <2>4, <2>5 DEF SegmentsAreTight
<1> QED BY <1>1, SegmentInductive, PTL

-----------------------------------------------------------------------------
(* Graphs: what leads to what, and the classes of nodes that lead to each  *)
(* other.                                                                  *)

IsGraph(g) ==
  /\ IsFiniteSet(DOMAIN g) /\ DOMAIN g \subseteq Nat
  /\ \A n \in DOMAIN g : g[n] \subseteq DOMAIN g

IsClosed(g, S) == \A k \in S : g[k] \subseteq S

(* By none, one or more edges.                                             *)
Leads(g, n, m) == \A S \in SUBSET DOMAIN g : n \in S /\ IsClosed(g, S) => m \in S
Mutual(g, n, m) == Leads(g, n, m) /\ Leads(g, m, n)
ClassOf(g, n) == {m \in DOMAIN g : Mutual(g, n, m)}
Classes(g) == {ClassOf(g, n) : n \in DOMAIN g}

LEMMA LeadsSelf ==
  ASSUME NEW g, NEW n PROVE Leads(g, n, n)
BY DEF Leads

LEMMA LeadsEdge ==
  ASSUME NEW g, NEW n, NEW m \in g[n] PROVE Leads(g, n, m)
BY DEF Leads, IsClosed

LEMMA LeadsOn ==
  ASSUME NEW g, NEW n, NEW m, NEW k, Leads(g, n, m), Leads(g, m, k) PROVE Leads(g, n, k)
BY DEF Leads

LEMMA LeadsInside ==
  ASSUME NEW g, IsGraph(g), NEW n \in DOMAIN g, NEW m, Leads(g, n, m) PROVE m \in DOMAIN g
BY DEF Leads, IsClosed, IsGraph

(* What leads out of a set does so by an edge.                             *)
LEMMA LeadsOut ==
  ASSUME NEW g, IsGraph(g), NEW S \in SUBSET DOMAIN g, NEW n \in S, NEW m, m \notin S,
         Leads(g, n, m)
  PROVE  \E u \in S : \E w \in g[u] : w \in DOMAIN g \ S /\ Leads(g, n, u) /\ Leads(g, n, w)
<1> DEFINE T == {u \in S : Leads(g, n, u)}
<1>1. n \in T /\ m \notin T /\ T \in SUBSET DOMAIN g
  BY LeadsSelf
<1>2. PICK u \in T : ~ g[u] \subseteq T
  BY <1>1 DEF Leads, IsClosed
<1>3. PICK w \in g[u] : w \notin T
  BY <1>2
<1>4. Leads(g, n, u) /\ Leads(g, n, w) /\ w \in DOMAIN g
  BY LeadsEdge, LeadsOn DEF IsGraph
<1> QED BY <1>3, <1>4

LEMMA LeadsFirst ==
  ASSUME NEW g, IsGraph(g), NEW n \in DOMAIN g, NEW m
  PROVE  Leads(g, n, m) <=> (m = n \/ \E w \in g[n] : Leads(g, w, m))
<1> DEFINE S == {n} \cup {v \in DOMAIN g : \E w \in g[n] : Leads(g, w, v)}
<1>1. S \in SUBSET DOMAIN g /\ n \in S
  OBVIOUS
<1>2. IsClosed(g, S)
  <2> SUFFICES ASSUME NEW k \in S, NEW v \in g[k] PROVE v \in S
    BY DEF IsClosed
  <2>1. v \in DOMAIN g
    BY DEF IsGraph
  <2>2. CASE k = n
    BY <2>1, <2>2, LeadsSelf
  <2>3. CASE k # n
    <3>1. PICK w \in g[n] : Leads(g, w, k)
      BY <2>3
    <3>2. Leads(g, w, v)
      BY <3>1, LeadsEdge, LeadsOn
    <3> QED BY <2>1, <3>2
  <2> QED BY <2>2, <2>3
<1>3. Leads(g, n, m) => m \in S
  BY <1>1, <1>2 DEF Leads
<1>4. m = n \/ (\E w \in g[n] : Leads(g, w, m)) => Leads(g, n, m)
  BY LeadsSelf, LeadsEdge, LeadsOn
<1> QED BY <1>3, <1>4

LEMMA MutualIs ==
  ASSUME NEW g
  PROVE  /\ \A n : Mutual(g, n, n)
         /\ \A n, m : Mutual(g, n, m) => Mutual(g, m, n)
         /\ \A n, m, k : Mutual(g, n, m) /\ Mutual(g, m, k) => Mutual(g, n, k)
BY LeadsSelf, LeadsOn DEF Mutual

LEMMA ClassIs ==
  ASSUME NEW g, NEW n \in DOMAIN g, NEW m \in ClassOf(g, n)
  PROVE  ClassOf(g, m) = ClassOf(g, n) /\ n \in ClassOf(g, n)
BY MutualIs DEF ClassOf

LEMMA ClassesMeet ==
  ASSUME NEW g, NEW c \in Classes(g), NEW n \in c
  PROVE  n \in DOMAIN g /\ c = ClassOf(g, n) /\ c \in SUBSET DOMAIN g
BY ClassIs DEF Classes, ClassOf


-----------------------------------------------------------------------------
(* The first search: f is in the order of leaving, O is still open.        *)

After(f, y, r) == \E i, j \in DOMAIN f : i < j /\ f[i] = r /\ f[j] = y

(* A node that was left leads to no unfinished one but as part of its      *)
(* class; and what leads to a node that was left is of its class, or of a  *)
(* class that has a node left later.                                       *)
Searched(g, O, f) ==
  /\ f \in Seq(DOMAIN g) /\ IsInjective(f)
  /\ O \subseteq DOMAIN g /\ O \cap Range(f) = {}
  /\ \A n \in Range(f) : g[n] \subseteq O \cup Range(f)
  /\ \A x \in Range(f), y \in DOMAIN g \ Range(f) :
       Leads(g, x, y) => \E z \in O : Mutual(g, x, z)
  /\ \A x \in O \cup Range(f), r \in Range(f) :
       Leads(g, x, r) =>
         \/ Leads(g, r, x)
         \/ \E y \in O \cup Range(f) : Mutual(g, x, y) /\ (y \in O \/ After(f, y, r))

LEMMA SearchedNone ==
  ASSUME NEW g PROVE Searched(g, {}, <<>>)
<1>1. Range(<<>>) = {} /\ IsInjective(<<>>) /\ <<>> \in Seq(DOMAIN g)
  BY DEF Range, IsInjective
<1> QED BY <1>1 DEF Searched

LEMMA SearchedMeets ==
  ASSUME NEW g, NEW O, NEW f, Searched(g, O, f), NEW n \in DOMAIN g, n \notin O \cup Range(f)
  PROVE  Searched(g, O \cup {n}, f)
<1>1. \A x \in O \cup {n} \cup Range(f), r \in Range(f) :
        Leads(g, x, r) =>
          \/ Leads(g, r, x)
          \/ \E y \in O \cup {n} \cup Range(f) :
               Mutual(g, x, y) /\ (y \in O \cup {n} \/ After(f, y, r))
  <2> SUFFICES ASSUME NEW x \in O \cup {n} \cup Range(f), NEW r \in Range(f), Leads(g, x, r),
                      ~ Leads(g, r, x)
               PROVE  \E y \in O \cup {n} \cup Range(f) :
                        Mutual(g, x, y) /\ (y \in O \cup {n} \/ After(f, y, r))
    OBVIOUS
  <2>1. CASE x = n
    BY <2>1, MutualIs
  <2>2. CASE x \in O \cup Range(f)
    <3>1. PICK y \in O \cup Range(f) : Mutual(g, x, y) /\ (y \in O \/ After(f, y, r))
      BY <2>2 DEF Searched
    <3> QED BY <3>1
  <2> QED BY <2>1, <2>2
<1>2. /\ f \in Seq(DOMAIN g) /\ IsInjective(f)
      /\ O \cup {n} \subseteq DOMAIN g /\ (O \cup {n}) \cap Range(f) = {}
      /\ \A m \in Range(f) : g[m] \subseteq O \cup {n} \cup Range(f)
  BY DEF Searched
<1>3. \A x \in Range(f), y \in DOMAIN g \ Range(f) :
        Leads(g, x, y) => \E z \in O \cup {n} : Mutual(g, x, z)
  BY DEF Searched
<1> QED BY <1>1, <1>2, <1>3 DEF Searched

(* h is f with y at its end.                                               *)
Extended(h, f, y) ==
  /\ Len(h) = Len(f) + 1 /\ h[Len(h)] = y
  /\ \A i \in DOMAIN f : h[i] = f[i]

LEMMA AppendExtends ==
  ASSUME NEW X, NEW f \in Seq(X), NEW y \in X
  PROVE  Append(f, y) \in Seq(X) /\ Extended(Append(f, y), f, y)
BY DEF Extended

LEMMA FrontExtends ==
  ASSUME NEW X, NEW f \in Seq(X), f # <<>>
  PROVE  Front(f) \in Seq(X) /\ Last(f) \in X /\ Extended(f, Front(f), Last(f))
<1>1. Len(f) \in Nat /\ Len(f) >= 1 /\ f[Len(f)] \in X
  OBVIOUS
<1>2. /\ SubSeq(f, 1, Len(f) - 1) \in Seq(X)
      /\ Len(SubSeq(f, 1, Len(f) - 1)) = Len(f) - 1
      /\ \A i \in 1..(Len(f) - 1) : SubSeq(f, 1, Len(f) - 1)[i] = f[i]
  BY <1>1
<1> QED BY <1>1, <1>2 DEF Front, Last, Extended

(* What an appended element comes after.                                   *)
LEMMA AppendAfter ==
  ASSUME NEW X, NEW f \in Seq(X), IsInjective(f), NEW y \in X, y \notin Range(f),
         NEW h \in Seq(X), Extended(h, f, y)
  PROVE  /\ IsInjective(h) /\ Range(h) = Range(f) \cup {y}
         /\ \A r \in Range(f) : After(h, y, r)
         /\ \A r, z : After(f, z, r) => After(h, z, r)
<1>1. /\ Len(h) = Len(f) + 1 /\ h[Len(f) + 1] = y /\ Len(f) \in Nat
      /\ DOMAIN h = 1..(Len(f) + 1) /\ DOMAIN f = 1..Len(f)
      /\ \A i \in DOMAIN f : h[i] = f[i]
  BY DEF Extended
<1>2. Range(h) = Range(f) \cup {y}
  <2>1. \A i \in DOMAIN h : i \in DOMAIN f \/ i = Len(f) + 1
    BY <1>1
  <2>2. Len(f) + 1 \in DOMAIN h /\ DOMAIN f \subseteq DOMAIN h
    BY <1>1
  <2> QED BY <1>1, <2>1, <2>2 DEF Range
<1>3. IsInjective(h)
  <2> SUFFICES ASSUME NEW i \in DOMAIN h, NEW j \in DOMAIN h, h[i] = h[j] PROVE i = j
    BY DEF IsInjective
  <2>1. i \in DOMAIN f /\ j \in DOMAIN f => i = j
    BY <1>1 DEF IsInjective
  <2> QED BY <1>1, <2>1 DEF Range
<1>4. \A r \in Range(f) : After(h, y, r)
  BY <1>1 DEF After, Range
<1>5. \A r, z : After(f, z, r) => After(h, z, r)
  BY <1>1 DEF After
<1> QED BY <1>2, <1>3, <1>4, <1>5

LEMMA SearchedLeaves ==
  ASSUME NEW g, IsGraph(g), NEW O, NEW f, Searched(g, O, f), NEW y \in O,
         g[y] \subseteq O \cup Range(f), \A z \in O : Leads(g, z, y),
         NEW h \in Seq(DOMAIN g), Extended(h, f, y)
  PROVE  Searched(g, O \ {y}, h)
<1>1. /\ f \in Seq(DOMAIN g) /\ IsInjective(f) /\ y \in DOMAIN g /\ y \notin Range(f)
      /\ O \subseteq DOMAIN g /\ O \cap Range(f) = {}
  BY DEF Searched
<1>2. /\ IsInjective(h) /\ Range(h) = Range(f) \cup {y}
      /\ \A r \in Range(f) : After(h, y, r)
      /\ \A r, z : After(f, z, r) => After(h, z, r)
  BY <1>1, AppendAfter
<1>3. \A n \in Range(h) : g[n] \subseteq (O \ {y}) \cup Range(h)
  BY <1>2 DEF Searched
(* y leads on only to what is of the class of a node below it.             *)
<1>4. ASSUME NEW w \in DOMAIN g \ Range(h), Leads(g, y, w)
      PROVE  \E z \in O \ {y} : Mutual(g, y, z)
  <2>1. Range(h) \in SUBSET DOMAIN g /\ y \in Range(h)
    BY <1>1, <1>2 DEF Range
  <2>2. PICK u \in Range(h) : \E v \in g[u] :
               v \in DOMAIN g \ Range(h) /\ Leads(g, y, u) /\ Leads(g, y, v)
    BY <1>4, <2>1, LeadsOut
  <2>3. PICK v \in g[u] : v \notin Range(h) /\ Leads(g, y, v)
    BY <2>2
  <2>4. v \in O \ {y}
    BY <1>3, <2>3
  <2> QED BY <2>3, <2>4 DEF Mutual
<1>5. ASSUME NEW x \in Range(h), NEW w \in DOMAIN g \ Range(h), Leads(g, x, w)
      PROVE  \E z \in O \ {y} : Mutual(g, x, z)
  <2>1. CASE x = y
    BY <1>4, <1>5, <2>1
  <2>2. CASE x \in Range(f)
    <3>1. PICK z \in O : Mutual(g, x, z)
      BY <1>2, <1>5, <2>2 DEF Searched
    <3>2. CASE z = y
      <4>1. Leads(g, y, w)
        BY <1>5, <3>1, <3>2, LeadsOn DEF Mutual
      <4>2. PICK s \in O \ {y} : Mutual(g, y, s)
        BY <1>4, <4>1
      <4> QED BY <3>1, <3>2, <4>2, MutualIs
    <3> QED BY <3>1, <3>2
  <2> QED BY <1>2, <2>1, <2>2
<1>6. ASSUME NEW x \in (O \ {y}) \cup Range(h), NEW r \in Range(h), Leads(g, x, r),
             ~ Leads(g, r, x)
      PROVE  \E z \in (O \ {y}) \cup Range(h) :
               Mutual(g, x, z) /\ (z \in O \ {y} \/ After(h, z, r))
  <2>1. CASE x \in O \ {y}
    BY <2>1, MutualIs
  <2>2. CASE x = y
    <3>1. r \in Range(f)
      BY <1>2, <1>6, <2>2
    <3> QED BY <1>2, <2>2, <3>1, MutualIs
  <2>3. CASE x \in Range(f) /\ r = y
    <3>1. PICK z \in O : Mutual(g, x, z)
      BY <1>1, <1>6, <2>3 DEF Searched
    <3>2. z # y
      BY <1>6, <2>3, <3>1 DEF Mutual
    <3> QED BY <3>1, <3>2
  <2>4. CASE x \in Range(f) /\ r \in Range(f)
    <3>1. PICK z \in O \cup Range(f) : Mutual(g, x, z) /\ (z \in O \/ After(f, z, r))
      BY <1>6, <2>4 DEF Searched
    <3> QED BY <1>2, <2>4, <3>1
  <2> QED BY <1>2, <1>6, <2>1, <2>2, <2>3, <2>4
<1>7. O \ {y} \subseteq DOMAIN g /\ (O \ {y}) \cap Range(h) = {}
  BY <1>1, <1>2
<1> QED BY <1>2, <1>3, <1>5, <1>6, <1>7 DEF Searched

(* When the search is over, the order of leaving has this for the second   *)
(* search, which takes nodes from its end; k is what it has not taken yet. *)
Finishing(g, f) ==
  /\ f \in Seq(DOMAIN g) /\ IsInjective(f)
  /\ \A x \in DOMAIN g, r \in Range(f) :
       Leads(g, x, r) =>
         \/ Leads(g, r, x)
         \/ \E y \in DOMAIN g : Mutual(g, x, y) /\ (y \notin Range(f) \/ After(f, y, r))

LEMMA SearchedOrders ==
  ASSUME NEW g, NEW f, Searched(g, {}, f), DOMAIN g \subseteq Range(f)
  PROVE  Finishing(g, f)
<1>1. f \in Seq(DOMAIN g) /\ IsInjective(f)
  BY DEF Searched
<1>2. Range(f) = DOMAIN g
  BY <1>1, RangeOfSeq
<1> QED BY <1>1, <1>2 DEF Searched, Finishing

LEMMA OrderedTaken ==
  ASSUME NEW g, NEW f, Finishing(g, f), NEW h \in Seq(DOMAIN g), NEW e, Extended(f, h, e)
  PROVE  /\ Finishing(g, h) /\ Range(f) = Range(h) \cup {e}
         /\ \A x \in DOMAIN g : Leads(g, x, e) =>
              \/ Leads(g, e, x)
              \/ \E y \in DOMAIN g : Mutual(g, x, y) /\ y \notin Range(f)
<1> DEFINE n == Len(f)
<1>0. f \in Seq(DOMAIN g) /\ IsInjective(f)
  BY DEF Finishing
<1>1. /\ n \in Nat /\ n >= 1 /\ DOMAIN f = 1..n /\ f[n] = e
      /\ Len(h) = n - 1 /\ DOMAIN h = 1..(n - 1)
      /\ \A i \in DOMAIN h : h[i] = f[i]
  BY <1>0 DEF Extended
<1> HIDE DEF n
<1>2. DOMAIN h \subseteq DOMAIN f /\ n \in DOMAIN f /\ n \notin DOMAIN h
      /\ \A i \in DOMAIN f : i \in DOMAIN h \/ i = n
  BY <1>1
<1>3. Range(f) = Range(h) \cup {e}
  BY <1>1, <1>2 DEF Range
<1>4. e \notin Range(h) /\ IsInjective(h)
  BY <1>0, <1>1, <1>2 DEF Range, IsInjective
<1>5. ASSUME NEW y, NEW r, After(f, y, r), r # e
      PROVE  y \notin Range(h) \/ After(h, y, r)
  <2>1. PICK i \in DOMAIN f, j \in DOMAIN f : i < j /\ f[i] = r /\ f[j] = y
    BY <1>5 DEF After
  <2>2. CASE j = n
    <3>1. y = e
      BY <1>1, <2>1, <2>2
    <3> QED BY <1>4, <3>1
  <2>3. CASE j \in DOMAIN h
    <3>1. i \in DOMAIN h
      BY <1>1, <2>1, <2>3
    <3> QED BY <1>1, <2>1, <2>3, <3>1 DEF After
  <2> QED BY <1>2, <2>1, <2>2, <2>3
<1>6. ASSUME NEW x \in DOMAIN g, NEW r \in Range(h), Leads(g, x, r), ~ Leads(g, r, x)
      PROVE  \E y \in DOMAIN g : Mutual(g, x, y) /\ (y \notin Range(h) \/ After(h, y, r))
  <2>1. PICK y \in DOMAIN g : Mutual(g, x, y) /\ (y \notin Range(f) \/ After(f, y, r))
    BY <1>3, <1>6 DEF Finishing
  <2> QED BY <1>3, <1>4, <1>5, <1>6, <2>1
<1>7. \A y : ~ After(f, y, e)
  <2> SUFFICES ASSUME NEW i \in DOMAIN f, NEW j \in DOMAIN f, i < j, f[i] = e PROVE FALSE
    BY DEF After
  <2>1. i = n
    BY <1>0, <1>1, <1>2 DEF IsInjective
  <2> QED BY <1>1, <2>1
<1>8. \A x \in DOMAIN g : Leads(g, x, e) =>
        \/ Leads(g, e, x)
        \/ \E y \in DOMAIN g : Mutual(g, x, y) /\ y \notin Range(f)
  BY <1>3, <1>7 DEF Finishing
<1> QED BY <1>1, <1>3, <1>4, <1>6, <1>8 DEF Finishing


-----------------------------------------------------------------------------
(* The frames of the first search: s is its stack, v what it has met.      *)

Open(s) == {s[i].node : i \in DOMAIN s}

Deepening(g, s, f, v) ==
  /\ s \in Seq([node : DOMAIN g, rest : Seq(DOMAIN g)])
  /\ v = Open(s) \cup Range(f)
  /\ Searched(g, Open(s), f)
  /\ \A i, j \in DOMAIN s : i < j => s[i].node # s[j].node /\ Leads(g, s[i].node, s[j].node)
  /\ \A i \in DOMAIN s : g[s[i].node] \subseteq v \cup Range(s[i].rest)
  /\ \A i \in DOMAIN s : Range(s[i].rest) \subseteq g[s[i].node]

LEMMA SeqMember ==
  ASSUME NEW X, NEW s \in Seq(X), NEW i \in DOMAIN s PROVE s[i] \in X
OBVIOUS

LEMMA ExtendedIs ==
  ASSUME NEW X, NEW s \in Seq(X), NEW h \in Seq(X), NEW e, Extended(h, s, e)
  PROVE  /\ Len(s) \in Nat /\ Len(h) = Len(s) + 1 /\ DOMAIN h = 1..Len(h) /\ DOMAIN s = 1..Len(s)
         /\ Len(h) \in DOMAIN h /\ Len(h) \notin DOMAIN s /\ DOMAIN s \subseteq DOMAIN h
         /\ \A i \in DOMAIN h : i \in DOMAIN s \/ i = Len(h)
         /\ h[Len(h)] = e /\ \A i \in DOMAIN s : h[i] = s[i]
<1>1. Len(s) \in Nat /\ Len(h) \in Nat /\ DOMAIN h = 1..Len(h) /\ DOMAIN s = 1..Len(s)
  OBVIOUS
<1>2. Len(h) = Len(s) + 1 /\ h[Len(h)] = e /\ \A i \in DOMAIN s : h[i] = s[i]
  BY DEF Extended
<1> QED BY ONLY <1>1, <1>2

LEMMA OpenExtended ==
  ASSUME NEW X, NEW s \in Seq(X), NEW h \in Seq(X), NEW e, Extended(h, s, e)
  PROVE  Open(h) = Open(s) \cup {e.node}
BY ExtendedIs DEF Open

LEMMA StackedNone ==
  ASSUME NEW g PROVE Deepening(g, <<>>, <<>>, {})
<1>1. Open(<<>>) = {} /\ Range(<<>>) = {} /\ DOMAIN <<>> = {}
  BY DEF Open, Range
<1>2. \A X : <<>> \in Seq(X)
  OBVIOUS
<1>3. Searched(g, Open(<<>>), <<>>)
  BY <1>1, SearchedNone
<1>4. PICK none : none = <<>>
  OBVIOUS
<1>5. Deepening(g, none, none, {})
  BY ONLY <1>1, <1>2, <1>3, <1>4 DEF Deepening
<1> QED BY <1>4, <1>5

LEMMA StackedMeets ==
  ASSUME NEW g, IsGraph(g), NEW s, NEW f, NEW v, Deepening(g, s, f, v), NEW n \in DOMAIN g \ v,
         s = <<>> \/ n \in g[s[Len(s)].node],
         NEW e \in [node : DOMAIN g, rest : Seq(DOMAIN g)], e.node = n, Range(e.rest) = g[n],
         NEW h \in Seq([node : DOMAIN g, rest : Seq(DOMAIN g)]), Extended(h, s, e)
  PROVE  Deepening(g, h, f, v \cup {n})
<1> DEFINE X == [node : DOMAIN g, rest : Seq(DOMAIN g)]
<1>1. s \in Seq(X) /\ v = Open(s) \cup Range(f) /\ Searched(g, Open(s), f)
  BY DEF Deepening
<1>2. Open(h) = Open(s) \cup {n}
  BY <1>1, OpenExtended
<1>3. Searched(g, Open(h), f)
  BY <1>1, <1>2, SearchedMeets
<1>4. /\ Len(s) \in Nat /\ Len(h) = Len(s) + 1 /\ DOMAIN h = 1..Len(h) /\ DOMAIN s = 1..Len(s)
      /\ \A i \in DOMAIN h : i \in DOMAIN s \/ i = Len(h)
      /\ h[Len(h)] = e /\ \A i \in DOMAIN s : h[i] = s[i]
  BY <1>1, ExtendedIs
<1>5. ASSUME NEW i \in DOMAIN h, NEW j \in DOMAIN h, i < j
      PROVE  h[i].node # h[j].node /\ Leads(g, h[i].node, h[j].node)
  <2>1. CASE j \in DOMAIN s
    <3>1. i \in DOMAIN s
      BY <1>4, <1>5, <2>1
    <3> QED BY <1>4, <1>5, <2>1, <3>1 DEF Deepening
  <2>2. CASE j = Len(h)
    <3>1. i \in DOMAIN s /\ h[i] = s[i] /\ h[j] = e
      BY <1>4, <1>5, <2>2
    <3>2. s[i].node \in v
      BY <1>1, <3>1 DEF Open
    <3>3. Len(s) \in DOMAIN s /\ i <= Len(s) /\ i \in Nat /\ s # <<>>
      BY <1>4, <3>1
    <3>4. Leads(g, s[Len(s)].node, n)
      BY <3>3, LeadsEdge
    <3>5. Leads(g, s[i].node, s[Len(s)].node)
      <4>1. CASE i = Len(s)
        BY <4>1, LeadsSelf
      <4>2. CASE i < Len(s)
        BY <3>1, <3>3, <4>2 DEF Deepening
      <4> QED BY <1>4, <3>3, <4>1, <4>2
    <3>6. Leads(g, s[i].node, n)
      BY <3>4, <3>5, LeadsOn
    <3> QED BY <3>1, <3>2, <3>6
  <2> QED BY <1>4, <2>1, <2>2
<1>6. ASSUME NEW i \in DOMAIN h
      PROVE  /\ g[h[i].node] \subseteq v \cup {n} \cup Range(h[i].rest)
             /\ Range(h[i].rest) \subseteq g[h[i].node]
  <2>1. CASE i \in DOMAIN s
    BY <1>4, <2>1 DEF Deepening
  <2>2. CASE i = Len(h)
    BY <1>4, <2>2
  <2> QED BY <1>4, <2>1, <2>2
<1>7. v \cup {n} = Open(h) \cup Range(f)
  BY <1>1, <1>2
<1> QED BY <1>3, <1>5, <1>6, <1>7 DEF Deepening

(* A frame goes on to its next neighbour when the last was met.            *)
Advanced(t, s, i) ==
  /\ DOMAIN t = DOMAIN s
  /\ \A j \in DOMAIN s : t[j].node = s[j].node
  /\ \A j \in DOMAIN s : j # i => t[j].rest = s[j].rest
  /\ t[i].rest = Tail(s[i].rest)

LEMMA StackedAdvances ==
  ASSUME NEW g, NEW s, NEW f, NEW v, Deepening(g, s, f, v),
         NEW i \in DOMAIN s, s[i].rest # <<>>, Head(s[i].rest) \in v,
         NEW t \in Seq([node : DOMAIN g, rest : Seq(DOMAIN g)]), Advanced(t, s, i)
  PROVE  Deepening(g, t, f, v)
<1>0. s \in Seq([node : DOMAIN g, rest : Seq(DOMAIN g)])
  BY DEF Deepening
<1>1. s[i].rest \in Seq(DOMAIN g)
  <2>1. s[i] \in [node : DOMAIN g, rest : Seq(DOMAIN g)]
    BY <1>0, SeqMember
  <2> QED BY <2>1
<1>2. PICK r : r = s[i].rest
  OBVIOUS
<1>3. Range(r) = {Head(r)} \cup Range(Tail(r))
  <2>1. r \in Seq(DOMAIN g) /\ r # <<>>
    BY <1>1, <1>2
  <2>2. /\ Len(r) \in Nat /\ Len(r) >= 1 /\ Head(r) = r[1] /\ DOMAIN r = 1..Len(r)
        /\ Tail(r) \in Seq(DOMAIN g) /\ Len(Tail(r)) = Len(r) - 1
        /\ \A k \in 1..(Len(r) - 1) : Tail(r)[k] = r[k + 1]
    BY <2>1
  <2>3. PICK q \in Seq(DOMAIN g) : q = Tail(r)
    BY <2>2
  <2>4. DOMAIN q = 1..(Len(r) - 1) /\ \A k \in DOMAIN q : q[k] = r[k + 1]
    BY <2>2, <2>3
  <2>5. \A k \in DOMAIN r : k = 1 \/ (k - 1 \in DOMAIN q /\ q[k - 1] = r[k])
    BY <2>2, <2>4
  <2>6. \A k \in DOMAIN q : k + 1 \in DOMAIN r /\ q[k] = r[k + 1]
    BY <2>2, <2>4
  <2>7. 1 \in DOMAIN r
    BY <2>2
  <2>8. Range(r) = {r[1]} \cup Range(q)
    BY ONLY <2>5, <2>6, <2>7 DEF Range
  <2> QED BY <2>2, <2>3, <2>8
<1>4. Open(t) = Open(s)
  BY DEF Open, Advanced
<1>5. ASSUME NEW j \in DOMAIN t
      PROVE  /\ g[t[j].node] \subseteq v \cup Range(t[j].rest)
             /\ Range(t[j].rest) \subseteq g[t[j].node]
  <2>1. j \in DOMAIN s /\ t[j].node = s[j].node
    BY DEF Advanced
  <2>2. /\ g[s[j].node] \subseteq v \cup Range(s[j].rest)
        /\ Range(s[j].rest) \subseteq g[s[j].node]
    BY <2>1 DEF Deepening
  <2>3. CASE j # i
    BY <2>1, <2>2, <2>3 DEF Advanced
  <2>4. CASE j = i
    <3>1. t[j].rest = Tail(r)
      BY <1>2, <2>4 DEF Advanced
    <3> QED BY <1>2, <1>3, <2>1, <2>2, <2>4, <3>1
  <2> QED BY <2>3, <2>4
<1>6. \A j, k \in DOMAIN t : j < k => t[j].node # t[k].node /\ Leads(g, t[j].node, t[k].node)
  BY DEF Deepening, Advanced
<1> QED BY <1>4, <1>5, <1>6 DEF Deepening

LEMMA StackedLeaves ==
  ASSUME NEW g, IsGraph(g), NEW s, NEW f, NEW v, Deepening(g, s, f, v),
         NEW h \in Seq([node : DOMAIN g, rest : Seq(DOMAIN g)]), NEW e, Extended(s, h, e),
         e.rest = <<>>, NEW k \in Seq(DOMAIN g), Extended(k, f, e.node)
  PROVE  Deepening(g, h, k, v)
<1> DEFINE X == [node : DOMAIN g, rest : Seq(DOMAIN g)]
<1>1. s \in Seq(X) /\ v = Open(s) \cup Range(f) /\ Searched(g, Open(s), f)
  BY DEF Deepening
<1>2. /\ Len(h) \in Nat /\ Len(s) = Len(h) + 1 /\ DOMAIN h = 1..Len(h) /\ DOMAIN s = 1..Len(s)
      /\ Len(s) \in DOMAIN s /\ Len(s) \notin DOMAIN h /\ DOMAIN h \subseteq DOMAIN s
      /\ \A i \in DOMAIN s : i \in DOMAIN h \/ i = Len(s)
      /\ s[Len(s)] = e /\ \A i \in DOMAIN h : s[i] = h[i]
  BY <1>1, ExtendedIs
<1>3. \A i \in DOMAIN h : i < Len(s)
  BY <1>2
<1>4. e.node \notin Open(h)
  <2>1. \A i \in DOMAIN h : s[i].node # e.node
    BY <1>2, <1>3 DEF Deepening
  <2> QED BY <1>2, <2>1 DEF Open
<1>5. Open(s) = Open(h) \cup {e.node}
  BY <1>1, OpenExtended
<1>6. Open(h) = Open(s) \ {e.node} /\ e.node \in Open(s)
  BY <1>4, <1>5
<1>7. g[e.node] \subseteq Open(s) \cup Range(f)
  <2>1. g[s[Len(s)].node] \subseteq v \cup Range(s[Len(s)].rest)
    BY <1>2 DEF Deepening
  <2>2. Range(<<>>) = {}
    BY DEF Range
  <2> QED BY <1>1, <1>2, <2>1, <2>2
<1>8. \A z \in Open(s) : Leads(g, z, e.node)
  <2>1. \A i \in DOMAIN h : Leads(g, s[i].node, e.node)
    BY <1>2, <1>3 DEF Deepening
  <2> QED BY <1>2, <1>5, <2>1, LeadsSelf DEF Open
<1>9. Searched(g, Open(h), k)
  <2> HIDE DEF X
  <2>1. Searched(g, Open(s) \ {e.node}, k)
    BY <1>1, <1>6, <1>7, <1>8, SearchedLeaves
  <2> QED BY <1>6, <2>1
<1>10. Range(k) = Range(f) \cup {e.node}
  <2>1. f \in Seq(DOMAIN g)
    BY <1>1 DEF Searched
  <2>2. /\ Len(k) \in DOMAIN k /\ DOMAIN f \subseteq DOMAIN k
        /\ \A i \in DOMAIN k : i \in DOMAIN f \/ i = Len(k)
        /\ k[Len(k)] = e.node /\ \A i \in DOMAIN f : k[i] = f[i]
    BY <2>1, ExtendedIs
  <2> QED BY ONLY <2>2 DEF Range
<1>11. v = Open(h) \cup Range(k)
  BY <1>1, <1>5, <1>10
<1>12. \A i, j \in DOMAIN h : i < j => h[i].node # h[j].node /\ Leads(g, h[i].node, h[j].node)
  BY <1>2 DEF Deepening
<1>13. \A i \in DOMAIN h : /\ g[h[i].node] \subseteq v \cup Range(h[i].rest)
                           /\ Range(h[i].rest) \subseteq g[h[i].node]
  BY <1>2 DEF Deepening
<1> QED BY <1>9, <1>11, <1>12, <1>13 DEF Deepening


-----------------------------------------------------------------------------
(* The second search: f is still to be taken, v is met, cs are the classes *)
(* found, c is what is gathered of the next and s what waits to be looked  *)
(* at. All of it is of one class, whose members lead to nothing new.       *)

Gathers(g, v, cs, c, s, r) ==
  /\ r \in c \cup Range(s) /\ r \notin UNION cs
  /\ c \cup Range(s) \subseteq ClassOf(g, r)
  /\ \A n \in c, x \in DOMAIN g : n \in g[x] => x \in v
  /\ \A x \in DOMAIN g : Leads(g, x, r) => Leads(g, r, x) \/ x \in UNION cs

Gathering(g, f, v, cs, c, s) ==
  /\ Finishing(g, f)
  /\ DOMAIN g \ Range(f) \subseteq v
  /\ cs \subseteq Classes(g) /\ s \in Seq(DOMAIN g)
  /\ v = (UNION cs) \cup c \cup Range(s)
  /\ (c = {} /\ s = <<>>) \/ \E r : Gathers(g, v, cs, c, s, r)

LEMMA GatheringNone ==
  ASSUME NEW g, NEW f, Finishing(g, f), DOMAIN g \subseteq Range(f)
  PROVE  Gathering(g, f, {}, {}, {}, <<>>)
<1>1. Range(<<>>) = {} /\ <<>> \in Seq(DOMAIN g)
  BY DEF Range
<1>2. PICK none : none = <<>>
  OBVIOUS
<1>3. Gathering(g, f, {}, {}, {}, none)
  BY ONLY <1>1, <1>2, Finishing(g, f), DOMAIN g \subseteq Range(f) DEF Gathering
<1> QED BY <1>2, <1>3

LEMMA GatheringSkips ==
  ASSUME NEW g, NEW f, NEW v, NEW cs, Gathering(g, f, v, cs, {}, <<>>),
         NEW h \in Seq(DOMAIN g), NEW e, Extended(f, h, e), e \in v
  PROVE  Gathering(g, h, v, cs, {}, <<>>)
<1>1. Finishing(g, f) /\ DOMAIN g \ Range(f) \subseteq v
  BY DEF Gathering
<1>2. Finishing(g, h) /\ Range(f) = Range(h) \cup {e}
  BY <1>1, OrderedTaken
<1>3. DOMAIN g \ Range(h) \subseteq v
  BY <1>1, <1>2
<1> QED BY <1>2, <1>3 DEF Gathering

LEMMA GatheringTakes ==
  ASSUME NEW g, NEW f, NEW v, NEW cs, Gathering(g, f, v, cs, {}, <<>>),
         NEW h \in Seq(DOMAIN g), NEW e \in DOMAIN g \ v, Extended(f, h, e),
         NEW s \in Seq(DOMAIN g), Range(s) = {e}
  PROVE  Gathering(g, h, v \cup {e}, cs, {}, s)
<1>1. Finishing(g, f) /\ DOMAIN g \ Range(f) \subseteq v /\ cs \subseteq Classes(g)
  BY DEF Gathering
<1>2. v = UNION cs
  <2>1. Range(<<>>) = {}
    BY DEF Range
  <2> QED BY <2>1 DEF Gathering
<1>3. /\ Finishing(g, h) /\ Range(f) = Range(h) \cup {e}
      /\ \A x \in DOMAIN g : Leads(g, x, e) =>
           \/ Leads(g, e, x)
           \/ \E y \in DOMAIN g : Mutual(g, x, y) /\ y \notin Range(f)
  BY <1>1, OrderedTaken
<1>4. ASSUME NEW x \in DOMAIN g, NEW y \in DOMAIN g, Mutual(g, x, y), y \notin Range(f)
      PROVE  x \in UNION cs
  <2>1. PICK c \in cs : y \in c
    BY <1>1, <1>2, <1>4
  <2>2. c = ClassOf(g, y)
    BY <1>1, <2>1, ClassesMeet
  <2>3. x \in c
    BY <1>4, <2>2, MutualIs DEF ClassOf
  <2> QED BY <2>1, <2>3
<1>5. e \in ClassOf(g, e)
  BY MutualIs DEF ClassOf
<1>6. Gathers(g, v \cup {e}, cs, {}, s, e)
  BY <1>2, <1>3, <1>4, <1>5 DEF Gathers
<1>7. DOMAIN g \ Range(h) \subseteq v \cup {e}
  BY <1>1, <1>3
<1> QED BY <1>1, <1>2, <1>3, <1>6, <1>7 DEF Gathering

LEMMA GatheringLooks ==
  ASSUME NEW g, IsGraph(g), NEW f, NEW v, NEW cs, NEW c, NEW s, Gathering(g, f, v, cs, c, s),
         NEW h, NEW t, Range(s) = Range(h) \cup {t}, NEW k \in Seq(DOMAIN g),
         Range(k) = Range(h) \cup ({x \in DOMAIN g : t \in g[x]} \ v)
  PROVE  Gathering(g, f, v \cup ({x \in DOMAIN g : t \in g[x]} \ v), cs, c \cup {t}, k)
<1> DEFINE new == {x \in DOMAIN g : t \in g[x]} \ v
<1>1. PICK r : Gathers(g, v, cs, c, s, r)
  <2>1. s # <<>>
    <3>1. Range(<<>>) = {}
      BY DEF Range
    <3> QED BY <3>1
  <2> QED BY <2>1 DEF Gathering
<1>2. v = (UNION cs) \cup c \cup Range(s)
  BY DEF Gathering
<1>3. t \in ClassOf(g, r)
  BY <1>1 DEF Gathers
<1>4. ASSUME NEW x \in new PROVE x \in ClassOf(g, r)
  <2>1. Leads(g, x, t) /\ Leads(g, t, r)
    BY <1>3, LeadsEdge DEF ClassOf, Mutual
  <2>2. Leads(g, x, r)
    BY <2>1, LeadsOn
  <2>3. Leads(g, r, x)
    BY <1>1, <1>2, <2>2 DEF Gathers
  <2> QED BY <2>2, <2>3 DEF ClassOf, Mutual
<1>5. \A n \in c \cup {t}, x \in DOMAIN g : n \in g[x] => x \in v \cup new
  BY <1>1 DEF Gathers
<1>6. (c \cup {t}) \cup Range(k) = (c \cup Range(s)) \cup new
  OBVIOUS
<1>7. Gathers(g, v \cup new, cs, c \cup {t}, k, r)
  <2> HIDE DEF new
  <2> QED BY <1>1, <1>4, <1>5, <1>6 DEF Gathers
<1>8. v \cup new = (UNION cs) \cup (c \cup {t}) \cup Range(k)
  BY <1>2, <1>6
<1>9. DOMAIN g \ Range(f) \subseteq v \cup new
  BY DEF Gathering
<1> HIDE DEF new
<1>10. Finishing(g, f) /\ cs \subseteq Classes(g)
  BY DEF Gathering
<1>11. Gathering(g, f, v \cup new, cs, c \cup {t}, k)
  BY <1>7, <1>8, <1>9, <1>10 DEF Gathering
<1> QED BY <1>11 DEF new

LEMMA GatheringFinds ==
  ASSUME NEW g, IsGraph(g), NEW f, NEW v, NEW cs, NEW c, c # {},
         Gathering(g, f, v, cs, c, <<>>)
  PROVE  Gathering(g, f, v, cs \cup {c}, {}, <<>>)
<1>1. PICK r : Gathers(g, v, cs, c, <<>>, r)
  BY DEF Gathering
<1>2. Range(<<>>) = {}
  BY DEF Range
<1>3. v = (UNION cs) \cup c /\ cs \subseteq Classes(g)
  BY <1>2 DEF Gathering
<1>4. r \in c /\ r \notin UNION cs /\ c \subseteq ClassOf(g, r) /\ r \in DOMAIN g
  BY <1>1, <1>2 DEF Gathers, ClassOf
<1>5. ASSUME NEW x \in ClassOf(g, r), x \notin c PROVE FALSE
  <2>1. x \in DOMAIN g /\ Leads(g, x, r) /\ Leads(g, r, x)
    BY DEF ClassOf, Mutual
  <2>2. PICK u \in DOMAIN g \ c : \E w \in g[u] :
              w \in DOMAIN g \ (DOMAIN g \ c) /\ Leads(g, x, u) /\ Leads(g, x, w)
    <3> DEFINE S == DOMAIN g \ c
    <3>1. S \in SUBSET DOMAIN g /\ x \in S /\ r \notin S
      BY <1>4, <1>5, <2>1
    <3> HIDE DEF S
    <3>2. \E u \in S : \E w \in g[u] :
              w \in DOMAIN g \ S /\ Leads(g, x, u) /\ Leads(g, x, w)
      BY <2>1, <3>1, LeadsOut
    <3> QED BY <3>2 DEF S
  <2>3. PICK w \in c : w \in g[u] /\ Leads(g, x, u)
    BY <2>2
  <2>4. u \in v
    BY <1>1, <2>3 DEF Gathers
  <2>5. PICK d \in cs : u \in d
    BY <1>3, <2>2, <2>4
  <2>6. Leads(g, w, r)
    BY <1>4, <2>3 DEF ClassOf, Mutual
  <2>7. Leads(g, u, r) /\ Leads(g, r, u)
    BY <2>1, <2>3, <2>6, LeadsEdge, LeadsOn
  <2>8. d = ClassOf(g, u)
    BY <1>3, <2>5, ClassesMeet
  <2>9. r \in d
    BY <1>4, <2>7, <2>8 DEF ClassOf, Mutual
  <2> QED BY <1>4, <2>5, <2>9
<1>6. c = ClassOf(g, r)
  BY <1>4, <1>5
<1>7. cs \cup {c} \subseteq Classes(g)
  BY <1>3, <1>4, <1>6 DEF Classes
<1>8. v = (UNION (cs \cup {c})) \cup {} \cup Range(<<>>)
  BY <1>2, <1>3
<1> QED BY <1>7, <1>8 DEF Gathering

LEMMA GatheringEnds ==
  ASSUME NEW g, NEW v, NEW cs, Gathering(g, <<>>, v, cs, {}, <<>>)
  PROVE  cs = Classes(g)
<1>1. Range(<<>>) = {}
  BY DEF Range
<1>2. DOMAIN g \subseteq UNION cs /\ cs \subseteq Classes(g)
  BY <1>1 DEF Gathering
<1>3. ASSUME NEW n \in DOMAIN g PROVE ClassOf(g, n) \in cs
  <2>1. PICK c \in cs : n \in c
    BY <1>2
  <2>2. c = ClassOf(g, n)
    BY <1>2, <2>1, ClassesMeet
  <2> QED BY <2>1, <2>2
<1> QED BY <1>2, <1>3 DEF Classes

-----------------------------------------------------------------------------
(* The indexed document, and what its nodes reach.                         *)

LEMMA AscendingIs ==
  ASSUME NEW S \in SUBSET Nat, IsFiniteSet(S)
  PROVE  /\ Ascending(S) \in Seq(S) /\ Len(Ascending(S)) = Cardinality(S)
         /\ IsInjective(Ascending(S)) /\ Range(Ascending(S)) = S
         /\ \A k, l \in DOMAIN Ascending(S) : k < l => Ascending(S)[k] < Ascending(S)[l]
<1>1. Ascending(S) = InOrderOfPosition(S)
  BY DEF Ascending, InOrderOfPosition
<1> QED BY <1>1, InOrderIs, InOrderOnce

LEMMA LeastIs ==
  ASSUME NEW S \in SUBSET Nat, S # {}
  PROVE  Least(S) \in S /\ \A m \in S : Least(S) <= m
BY LeastNumber DEF Least

LEMMA NodesAreIds ==
  ASSUME NEW d \in Documents
  PROVE  IsFiniteSet(NodeIds(d)) /\ NodeIds(d) \subseteq Nat
<1>1. d.nodes \in Seq(Ids) /\ Ids \subseteq Nat
  BY GraphAssumption
<1>2. PICK ns : ns = d.nodes
  OBVIOUS
<1>3. ns \in Seq(Ids) /\ Len(ns) \in Nat /\ DOMAIN ns = 1..Len(ns)
  BY <1>1, <1>2
<1>4. Range(ns) \subseteq Ids
  BY <1>3, RangeOfSeq
<1>5. NodeIds(d) = Range(ns)
  BY <1>2 DEF NodeIds, Range
<1>6. IsFiniteSet(1..Len(ns))
  BY <1>3, FS_Interval
<1>7. ns \in Surjection(DOMAIN ns, Range(ns))
  BY <1>3 DEF Surjection, Range
<1>8. IsFiniteSet(Range(ns))
  BY <1>3, <1>6, <1>7, FS_Surjection
<1> QED BY <1>1, <1>4, <1>5, <1>8

LEMMA AdjacencyIsGraph ==
  ASSUME NEW d \in Documents
  PROVE  IsGraph(Adjacency(d)) /\ DOMAIN Adjacency(d) = NodeIds(d)
<1>1. /\ DOMAIN Adjacency(d) = NodeIds(d)
      /\ \A n \in NodeIds(d) : Adjacency(d)[n] \subseteq NodeIds(d)
  BY DEF Adjacency
<1> QED BY <1>1, NodesAreIds DEF IsGraph

LEMMA ReachIs ==
  ASSUME document \in Documents, NEW n \in Vertices
  PROVE  Reach[n] = {m \in Vertices : \E w \in Adjacency(document)[n] :
                                         Leads(Adjacency(document), w, m)}
<1> DEFINE g == Adjacency(document)
           closed == {S \in SUBSET Vertices : \A m \in S : g[m] \subseteq S}
<1>1. IsGraph(g) /\ DOMAIN g = Vertices
  BY AdjacencyIsGraph DEF Vertices
<1>2. Reach[n] = {m \in Vertices : \A S \in closed : g[n] \subseteq S => m \in S}
  BY DEF Reach
<1> HIDE DEF g
<1>3. ASSUME NEW m \in Vertices, NEW w \in g[n], Leads(g, w, m)
      PROVE  \A S \in closed : g[n] \subseteq S => m \in S
  BY <1>1, <1>3 DEF Leads, IsClosed
<1>4. ASSUME NEW m \in Vertices, \A S \in closed : g[n] \subseteq S => m \in S
      PROVE  \E w \in g[n] : Leads(g, w, m)
  <2> DEFINE T == {v \in Vertices : \E w \in g[n] : Leads(g, w, v)}
  <2>1. T \in SUBSET Vertices
    OBVIOUS
  <2>2. ASSUME NEW k \in T, NEW v \in g[k] PROVE v \in T
    <3>1. v \in Vertices
      BY <1>1 DEF IsGraph
    <3>2. PICK w \in g[n] : Leads(g, w, k)
      OBVIOUS
    <3>3. Leads(g, w, v)
      BY <3>2, LeadsEdge, LeadsOn
    <3> QED BY <3>1, <3>3
  <2>3. g[n] \subseteq T
    <3>1. g[n] \subseteq Vertices
      BY <1>1 DEF IsGraph
    <3> QED BY <3>1, LeadsSelf
  <2>4. T \in closed
    BY <2>1, <2>2
  <2>5. m \in T
    BY <1>4, <2>3, <2>4
  <2> QED BY <2>5
<1> QED BY <1>2, <1>3, <1>4 DEF g

LEMMA ClassesAreReached ==
  ASSUME document \in Documents, NEW n \in Vertices
  PROVE  {m \in Vertices : m = n \/ (m \in Reach[n] /\ n \in Reach[m])}
           = ClassOf(Adjacency(document), n)
<1> DEFINE g == Adjacency(document)
<1>1. IsGraph(g) /\ DOMAIN g = Vertices
  BY AdjacencyIsGraph DEF Vertices
<1>2. \A k \in Vertices : Reach[k] = {m \in Vertices : \E w \in g[k] : Leads(g, w, m)}
  BY ReachIs
<1> HIDE DEF g
<1>3. ASSUME NEW m \in Vertices
      PROVE  (m = n \/ (m \in Reach[n] /\ n \in Reach[m])) <=> Mutual(g, n, m)
  <2>1. Leads(g, n, m) <=> (m = n \/ m \in Reach[n])
    BY <1>1, <1>2, LeadsFirst
  <2>2. Leads(g, m, n) <=> (n = m \/ n \in Reach[m])
    BY <1>1, <1>2, LeadsFirst
  <2> QED BY <2>1, <2>2 DEF Mutual
<1> QED BY <1>1, <1>3 DEF ClassOf, g


LEMMA EntryType ==
  ASSUME NEW X, NEW r \in Seq(X), r # <<>> PROVE Head(r) \in X /\ Head(r) \in Range(r) /\ Tail(r) \in Seq(X)
<1>1. Len(r) \in Nat /\ Len(r) >= 1 /\ 1 \in DOMAIN r /\ Head(r) = r[1] /\ r[1] \in X
  OBVIOUS
<1>2. Tail(r) \in Seq(X)
  OBVIOUS
<1> QED BY <1>1, <1>2 DEF Range

LEMMA SeqIs ==
  ASSUME NEW X, NEW s \in Seq(X)
  PROVE  /\ Len(s) \in Nat /\ DOMAIN s = 1..Len(s) /\ \A i \in DOMAIN s : s[i] \in X
         /\ s # <<>> => Len(s) >= 1 /\ Len(s) \in DOMAIN s
OBVIOUS

LEMMA FunctionIsSeq ==
  ASSUME NEW X, NEW n \in Nat, NEW t \in [1..n -> X] PROVE t \in Seq(X) /\ Len(t) = n
OBVIOUS

LEMMA AdvancedIs ==
  ASSUME NEW V, NEW s \in Seq([node : V, rest : Seq(V)]), s # <<>>, s[Len(s)].rest # <<>>,
         NEW e \in [node : V, rest : Seq(V)],
         NEW t, t = [s EXCEPT ![Len(s)].rest = Tail(s[Len(s)].rest)]
  PROVE  /\ t \in Seq([node : V, rest : Seq(V)]) /\ Advanced(t, s, Len(s))
         /\ Append(t, e) \in Seq([node : V, rest : Seq(V)])
         /\ Append(s, e) \in Seq([node : V, rest : Seq(V)])
         /\ Advanced(Append(t, e), Append(s, e), Len(s))
<1> DEFINE X == [node : V, rest : Seq(V)]
           n == Len(s)
<1>1. n \in Nat /\ n >= 1 /\ DOMAIN s = 1..n /\ n \in DOMAIN s /\ \A i \in DOMAIN s : s[i] \in X
  <2>1. s \in Seq(X)
    OBVIOUS
  <2> HIDE DEF X
  <2> QED BY <2>1, SeqIs
<1>2. s[n].node \in V /\ s[n].rest \in Seq(V) /\ DOMAIN s[n] = {"node", "rest"}
  <2>1. s[n] \in X
    BY <1>1
  <2> QED BY <2>1
<1>3. Tail(s[n].rest) \in Seq(V)
  BY <1>2, EntryType
<1>4. PICK w : w = [s[n] EXCEPT !.rest = Tail(s[n].rest)]
  OBVIOUS
<1>5. w \in X /\ w.node = s[n].node /\ w.rest = Tail(s[n].rest)
  <2>1. PICK q : q = Tail(s[n].rest)
    OBVIOUS
  <2>2. q \in Seq(V)
    BY <1>3, <2>1
  <2>3. w = [s[n] EXCEPT !.rest = q]
    BY <1>4, <2>1
  <2>4. s[n] \in X
    BY <1>1
  <2>5. w \in X /\ w.node = s[n].node /\ w.rest = q
    BY ONLY <1>2, <2>2, <2>3, <2>4
  <2> QED BY <2>1, <2>5
<1>6. t = [s EXCEPT ![n] = w]
  BY <1>4
<1>7. /\ DOMAIN t = 1..n /\ t[n] = w /\ \A i \in 1..n : i # n => t[i] = s[i]
      /\ t \in [1..n -> X]
  <2> HIDE DEF n, X
  <2>1. DOMAIN t = DOMAIN s
    BY ONLY <1>6
  <2>2. t[n] = w /\ \A i \in 1..n : i # n => t[i] = s[i]
    BY ONLY <1>1, <1>6
  <2>3. t \in [1..n -> X]
    BY ONLY <1>1, <1>5, <1>6
  <2> QED BY <1>1, <2>1, <2>2, <2>3
<1>8. t \in Seq(X)
  <2> HIDE DEF n, X
  <2> QED BY <1>1, <1>7, FunctionIsSeq
<1>9. Len(t) = n
  <2> HIDE DEF n, X
  <2> QED BY <1>1, <1>7, FunctionIsSeq
<1> HIDE DEF X, n
<1>10. Advanced(t, s, n)
  BY <1>1, <1>5, <1>7 DEF Advanced
<1>11. PICK h, k : h = Append(s, e) /\ k = Append(t, e)
  OBVIOUS
<1>12. /\ h \in Seq(X) /\ k \in Seq(X) /\ Extended(h, s, e) /\ Extended(k, t, e)
  BY <1>8, <1>11, AppendExtends DEF X
<1>13. /\ Len(h) = n + 1 /\ DOMAIN h = 1..(n + 1) /\ h[n + 1] = e
       /\ \A i \in 1..n : h[i] = s[i]
  BY <1>1, <1>12, ExtendedIs DEF n, X
<1>14. /\ Len(k) = n + 1 /\ DOMAIN k = 1..(n + 1) /\ k[n + 1] = e
       /\ \A i \in 1..n : k[i] = t[i]
  <2>1. t \in Seq(X) /\ k \in Seq(X) /\ Extended(k, t, e)
    BY <1>8, <1>12
  <2>2. /\ Len(k) = Len(t) + 1 /\ DOMAIN k = 1..Len(k) /\ DOMAIN t = 1..Len(t)
        /\ k[Len(k)] = e /\ \A i \in DOMAIN t : k[i] = t[i]
    BY ONLY <2>1, ExtendedIs
  <2> QED BY ONLY <1>9, <2>2
<1>15. \A i \in 1..(n + 1) : i \in 1..n \/ i = n + 1
  BY <1>1
<1>16. n \in 1..n /\ n # n + 1 /\ n + 1 \notin 1..n
  BY <1>1
<1>17. \A i \in 1..(n + 1) : k[i].node = h[i].node /\ (i # n => k[i].rest = h[i].rest)
  BY <1>1, <1>10, <1>13, <1>14, <1>15 DEF Advanced
<1>18. k[n].rest = Tail(h[n].rest)
  BY <1>10, <1>13, <1>14, <1>16 DEF Advanced
<1>19. Advanced(k, h, n)
  BY <1>13, <1>14, <1>17, <1>18 DEF Advanced
<1> QED BY <1>8, <1>10, <1>11, <1>12, <1>19 DEF X, n


-----------------------------------------------------------------------------
(* The two searches, step by step.                                         *)

Past == phase \in {"witness", "schedule"} \/ Analysed

IndexPart ==
  /\ document \in Documents /\ request \in Requests
  /\ phase \in {"index", "failed", "search", "gather", "witness", "schedule", "done"}
  /\ phase = "failed" => error # "none"
  /\ phase \in {"search", "gather", "witness", "schedule"} => error = "none"
  /\ phase \in {"search", "gather"} \/ Past => adjacency = Adjacency(document)
  /\ phase = "index" =>
       /\ error = "none" /\ visited = {} /\ stack = <<>> /\ finish = <<>>
       /\ component = {} /\ components = {}

SearchPart ==
  phase = "search" =>
    /\ Deepening(adjacency, stack, finish, visited)
    /\ component = {} /\ components = {}

GatherPart ==
  phase = "gather" => Gathering(adjacency, finish, visited, components, component, stack)

FoundPart == Past => components = Classes(adjacency)

FoundInv == IndexPart /\ SearchPart /\ GatherPart /\ FoundPart

LEMMA AdjacencyIs ==
  ASSUME IndexPart, adjacency = Adjacency(document)
  PROVE  /\ IsGraph(adjacency) /\ DOMAIN adjacency = NodeIds(document)
         /\ Vertices = NodeIds(document)
         /\ \A n \in DOMAIN adjacency :
              /\ Frame(n) \in [node : DOMAIN adjacency, rest : Seq(DOMAIN adjacency)]
              /\ Frame(n).node = n /\ Range(Frame(n).rest) = adjacency[n]
<1>1. IsGraph(adjacency) /\ DOMAIN adjacency = NodeIds(document)
  BY AdjacencyIsGraph DEF IndexPart
<1>2. ASSUME NEW n \in DOMAIN adjacency
      PROVE  /\ Frame(n) \in [node : DOMAIN adjacency, rest : Seq(DOMAIN adjacency)]
             /\ Frame(n).node = n /\ Range(Frame(n).rest) = adjacency[n]
  <2>1. /\ adjacency[n] \in SUBSET DOMAIN adjacency /\ adjacency[n] \in SUBSET Nat
        /\ IsFiniteSet(adjacency[n])
    BY <1>1, FS_Subset DEF IsGraph
  <2>2. Ascending(adjacency[n]) \in Seq(adjacency[n])
        /\ Range(Ascending(adjacency[n])) = adjacency[n]
    BY <2>1, AscendingIs
  <2>3. Ascending(adjacency[n]) \in Seq(DOMAIN adjacency)
    BY <2>1, <2>2, SeqMonotonic
  <2>4. PICK q : q = Ascending(adjacency[n])
    OBVIOUS
  <2>5. Frame(n) = [node |-> n, rest |-> q]
    BY <2>4 DEF Frame
  <2> QED BY <2>2, <2>3, <2>4, <2>5
<1> QED BY <1>1, <1>2 DEF Vertices

LEMMA FoundStarts == ASSUME GraphInit PROVE FoundInv
BY DEF GraphInit, FoundInv, IndexPart, SearchPart, GatherPart, FoundPart, Past, Analysed

LEMMA FoundIndex == ASSUME FoundInv, Index PROVE FoundInv'
<1>1. IndexPart /\ phase = "index"
  BY DEF FoundInv, Index
<1>2. /\ document' = document /\ request' = request /\ visited' = {} /\ stack' = <<>>
      /\ finish' = <<>> /\ component' = {} /\ components' = {}
  BY <1>1 DEF Index, IndexPart, search
<1>3. CASE request.task = "validate" /\ ~request.dag
  <2>1. phase' = "done" /\ error' = error /\ adjacency' = adjacency
    BY <1>3 DEF Index
  <2>2. ~ Past'
    BY <1>2, <1>3, <2>1 DEF Past, Analysed
  <2> QED BY <1>1, <1>2, <2>1, <2>2 DEF FoundInv, IndexPart, SearchPart, GatherPart, FoundPart
<1>4. CASE ~ (request.task = "validate" /\ ~request.dag)
  <2>1. /\ adjacency' = Adjacency(document)
        /\ phase' = IF error' = "none" THEN "search" ELSE "failed"
    BY <1>4 DEF Index
  <2>2. ~ Past'
    BY <2>1 DEF Past, Analysed
  <2>3. IndexPart'
    BY <1>1, <1>2, <2>1, <2>2 DEF IndexPart
  <2>4. SearchPart'
    BY <1>2, StackedNone DEF SearchPart
  <2> QED BY <2>1, <2>2, <2>3, <2>4 DEF FoundInv, GatherPart, FoundPart
<1> QED BY <1>3, <1>4

LEMMA FoundFail == ASSUME FoundInv, Fail PROVE FoundInv'
<1>1. /\ error # "none" /\ error' = error /\ phase' = "done"
  BY DEF FoundInv, IndexPart, Fail
<1>2. ~ Past'
  BY <1>1 DEF Past, Analysed
<1>3. document' = document /\ request' = request /\ IndexPart
  BY DEF Fail, FoundInv
<1> QED BY <1>1, <1>2, <1>3 DEF FoundInv, IndexPart, SearchPart, GatherPart, FoundPart

(* A step within a phase of the searches.                                  *)
Keeps ==
  UNCHANGED <<document, request, adjacency, error>>

LEMMA FoundSearching ==
  ASSUME FoundInv, phase = "search", phase' = "search", Keeps,
         Deepening(adjacency, stack', finish', visited'), component' = {}, components' = {}
  PROVE  FoundInv'
<1>1. ~ Past' /\ IndexPart
  BY DEF Past, Analysed, FoundInv
<1>2. IndexPart'
  BY <1>1 DEF IndexPart, Keeps
<1>3. SearchPart'
  BY DEF SearchPart, Keeps
<1> QED BY <1>1, <1>2, <1>3 DEF FoundInv, GatherPart, FoundPart

LEMMA FoundSearchStart == ASSUME FoundInv, SearchStart PROVE FoundInv'
<1> DEFINE start == Least(NodeIds(document) \ visited)
           X == [node : DOMAIN adjacency, rest : Seq(DOMAIN adjacency)]
<1>1. /\ phase = "search" /\ stack = <<>> /\ NodeIds(document) \ visited # {}
      /\ visited' = visited \cup {start} /\ stack' = <<Frame(start)>>
      /\ phase' = phase /\ Keeps /\ finish' = finish
      /\ component' = component /\ components' = components
  BY DEF SearchStart, Keeps
<1>2. IndexPart /\ SearchPart /\ adjacency = Adjacency(document)
  BY <1>1 DEF FoundInv, IndexPart
<1>3. IsGraph(adjacency) /\ DOMAIN adjacency = NodeIds(document)
  BY <1>2, AdjacencyIs
<1>4. start \in NodeIds(document) \ visited
  <2>1. NodeIds(document) \ visited \in SUBSET Nat
    BY <1>3 DEF IsGraph
  <2> QED BY <1>1, <2>1, LeastIs
<1> HIDE DEF start
<1>5. Frame(start) \in X /\ Frame(start).node = start /\ Range(Frame(start).rest) = adjacency[start]
  BY <1>2, <1>3, <1>4, AdjacencyIs
<1>6. stack' = Append(<<>>, Frame(start))
  BY <1>1
<1> HIDE DEF X
<1>7. stack' \in Seq(X) /\ Extended(stack', <<>>, Frame(start))
  <2>1. <<>> \in Seq(X)
    OBVIOUS
  <2> QED BY <1>5, <1>6, <2>1, AppendExtends
<1>8. Deepening(adjacency, <<>>, finish, visited)
  BY <1>1, <1>2 DEF SearchPart
<1>9. Deepening(adjacency, stack', finish, visited \cup {start})
  BY <1>3, <1>4, <1>5, <1>7, <1>8, StackedMeets DEF X
<1> QED BY <1>1, <1>2, <1>9, FoundSearching DEF SearchPart

LEMMA FoundSearchStep == ASSUME FoundInv, SearchStep PROVE FoundInv'
<1> DEFINE V == DOMAIN adjacency
           X == [node : V, rest : Seq(V)]
           n == Len(stack)
<1>1. /\ phase = "search" /\ stack # <<>> /\ phase' = phase /\ Keeps
      /\ component' = component /\ components' = components
  BY DEF SearchStep, Keeps
<1>2. IndexPart /\ SearchPart /\ adjacency = Adjacency(document)
  BY <1>1 DEF FoundInv, IndexPart
<1>3. IsGraph(adjacency) /\ V = NodeIds(document)
  BY <1>2, AdjacencyIs
<1>4. Deepening(adjacency, stack, finish, visited) /\ stack \in Seq(X)
  BY <1>1, <1>2 DEF SearchPart, Deepening
<1>5. finish \in Seq(V)
  BY <1>4 DEF Deepening, Searched
<1>6. n \in DOMAIN stack /\ stack[n] \in X
  <2> HIDE DEF X
  <2> QED BY <1>1, <1>4, SeqIs
<1>7. stack[n].node \in V /\ stack[n].rest \in Seq(V) /\ Top = stack[n]
  BY <1>6 DEF Top
<1>8. CASE Top.rest = <<>>
  <2>1. stack' = Front(stack) /\ finish' = Append(finish, Top.node) /\ visited' = visited
    BY <1>8 DEF SearchStep, FinishOn
  <2>2. stack' \in Seq(X) /\ Extended(stack, stack', stack[n])
    <3> HIDE DEF X
    <3> QED BY <1>1, <1>4, <2>1, FrontExtends DEF Last
  <2>3. finish' \in Seq(V) /\ Extended(finish', finish, stack[n].node)
    <3> HIDE DEF V
    <3> QED BY <1>5, <1>7, <2>1, AppendExtends
  <2>4. stack[n].rest = <<>>
    BY <1>7, <1>8
  <2> HIDE DEF n
  <2>5. Deepening(adjacency, stack', finish', visited)
    BY <1>3, <1>4, <2>2, <2>3, <2>4, StackedLeaves
  <2> QED BY <1>1, <1>2, <2>1, <2>5, FoundSearching DEF SearchPart
<1>9. CASE Top.rest # <<>>
  <2>1. PICK next : next = Head(stack[n].rest)
    OBVIOUS
  <2>2. PICK rest : rest = [stack EXCEPT ![n].rest = Tail(stack[n].rest)]
    OBVIOUS
  <2>3. /\ visited' = visited \cup {next}
        /\ IF next \in visited
             THEN stack' = rest /\ UNCHANGED finish
             ELSE stack' = Append(rest, Frame(next)) /\ finish' = finish
    BY <1>7, <1>9, <2>1, <2>2 DEF SearchStep, FinishOn
  <2>4. stack[n].rest # <<>>
    BY <1>7, <1>9
  <2>5. next \in V /\ next \in Range(stack[n].rest)
    <3> HIDE DEF V
    <3> QED BY <1>7, <2>1, <2>4, EntryType
  <2>6. next \in adjacency[stack[n].node]
    BY <1>4, <1>6, <2>5 DEF Deepening
  <2>7. Frame(next) \in X /\ Frame(next).node = next /\ Range(Frame(next).rest) = adjacency[next]
    BY <1>2, <2>5, AdjacencyIs
  <2>8. /\ rest \in Seq(X) /\ Advanced(rest, stack, n)
        /\ Append(rest, Frame(next)) \in Seq(X) /\ Append(stack, Frame(next)) \in Seq(X)
        /\ Advanced(Append(rest, Frame(next)), Append(stack, Frame(next)), n)
    <3> HIDE DEF V
    <3>1. PICK e : e = Frame(next)
      OBVIOUS
    <3>2. e \in X
      BY <2>7, <3>1
    <3>3. /\ rest \in Seq(X) /\ Advanced(rest, stack, n)
          /\ Append(rest, e) \in Seq(X) /\ Append(stack, e) \in Seq(X)
          /\ Advanced(Append(rest, e), Append(stack, e), n)
      BY <1>1, <1>4, <2>2, <2>4, <3>2, AdvancedIs
    <3> QED BY <3>1, <3>3
  <2>9. CASE next \in visited
    <3>1. stack' = rest /\ finish' = finish /\ visited' = visited
      BY <2>3, <2>9
    <3>2. Deepening(adjacency, rest, finish, visited)
      <4> HIDE DEF n
      <4> QED BY <1>4, <1>6, <2>1, <2>4, <2>8, <2>9, StackedAdvances
    <3> QED BY <1>1, <1>2, <3>1, <3>2, FoundSearching DEF SearchPart
  <2>10. CASE next \notin visited
    <3>1. /\ stack' = Append(rest, Frame(next)) /\ finish' = finish
          /\ visited' = visited \cup {next}
      BY <2>3, <2>10
    <3>2. PICK h : h = Append(stack, Frame(next))
      OBVIOUS
    <3>3. h \in Seq(X) /\ Extended(h, stack, Frame(next)) /\ Advanced(stack', h, n)
          /\ stack' \in Seq(X)
      <4> HIDE DEF X
      <4> QED BY <1>4, <2>7, <2>8, <3>1, <3>2, AppendExtends
    <3>4. Deepening(adjacency, h, finish, visited \cup {next})
      BY <1>3, <1>4, <2>5, <2>6, <2>7, <2>10, <3>3, StackedMeets
    <3>5. n \in DOMAIN h /\ h[n] = stack[n]
      <4>1. DOMAIN stack \subseteq DOMAIN h /\ \A i \in DOMAIN stack : h[i] = stack[i]
        <5> HIDE DEF X
        <5> QED BY <1>4, <3>3, ExtendedIs
      <4> QED BY <1>6, <4>1
    <3>6. Deepening(adjacency, stack', finish, visited \cup {next})
      <4> HIDE DEF n
      <4> QED BY <2>1, <2>4, <3>3, <3>4, <3>5, StackedAdvances
    <3> QED BY <1>1, <1>2, <3>1, <3>6, FoundSearching DEF SearchPart
  <2> QED BY <2>9, <2>10
<1> QED BY <1>8, <1>9


LEMMA FoundGathering ==
  ASSUME FoundInv, phase' = "gather", Keeps, error = "none", adjacency = Adjacency(document),
         Gathering(adjacency, finish', visited', components', component', stack')
  PROVE  FoundInv'
<1>1. ~ Past' /\ IndexPart
  BY DEF Past, Analysed, FoundInv
<1>2. IndexPart'
  BY <1>1 DEF IndexPart, Keeps
<1>3. GatherPart'
  BY DEF GatherPart, Keeps
<1> QED BY <1>1, <1>2, <1>3 DEF FoundInv, SearchPart, FoundPart

LEMMA FoundSearchEnd == ASSUME FoundInv, SearchEnd PROVE FoundInv'
<1>1. /\ phase = "search" /\ phase' = "gather" /\ stack = <<>> /\ NodeIds(document) \subseteq visited
      /\ visited' = {} /\ stack' = stack /\ finish' = finish /\ Keeps
      /\ component' = component /\ components' = components
  BY DEF SearchEnd, Keeps
<1>2. /\ IndexPart /\ adjacency = Adjacency(document) /\ error = "none"
      /\ Deepening(adjacency, <<>>, finish, visited) /\ component = {} /\ components = {}
  BY <1>1 DEF FoundInv, IndexPart, SearchPart
<1>3. DOMAIN adjacency \subseteq visited
  BY <1>1, <1>2, AdjacencyIs
<1>4. Open(<<>>) = {}
  BY DEF Open
<1>5. Searched(adjacency, {}, finish) /\ visited = Range(finish)
  BY <1>2, <1>4 DEF Deepening
<1>6. Gathering(adjacency, finish, {}, {}, {}, <<>>)
  BY <1>3, <1>5, SearchedOrders, GatheringNone
<1>7. Gathering(adjacency, finish', visited', components', component', stack')
  BY <1>1, <1>2, <1>6
<1> QED BY <1>1, <1>2, <1>7, FoundGathering

LEMMA FoundGatherStart == ASSUME FoundInv, GatherStart PROVE FoundInv'
<1>1. /\ phase = "gather" /\ phase' = "gather" /\ Keeps /\ components' = components
      /\ component' = component /\ stack = <<>> /\ component = {} /\ finish # <<>>
      /\ finish' = Front(finish)
  BY DEF GatherStart, Keeps
<1>2. /\ IndexPart /\ adjacency = Adjacency(document) /\ error = "none"
      /\ Gathering(adjacency, finish, visited, components, {}, <<>>)
  BY <1>1 DEF FoundInv, IndexPart, GatherPart
<1>3. finish \in Seq(DOMAIN adjacency)
  BY <1>2 DEF Gathering, Finishing
<1>4. /\ finish' \in Seq(DOMAIN adjacency) /\ Last(finish) \in DOMAIN adjacency
      /\ Extended(finish, finish', Last(finish))
  BY <1>1, <1>3, FrontExtends
<1>5. CASE Last(finish) \in visited
  <2>1. visited' = visited /\ stack' = <<>>
    BY <1>1, <1>5 DEF GatherStart
  <2>2. Gathering(adjacency, finish', visited, components, {}, <<>>)
    BY <1>2, <1>4, <1>5, GatheringSkips
  <2>3. Gathering(adjacency, finish', visited', components', component', stack')
    BY <1>1, <2>1, <2>2
  <2> QED BY <1>1, <1>2, <2>3, FoundGathering
<1>6. CASE Last(finish) \notin visited
  <2>1. visited' = visited \cup {Last(finish)} /\ stack' = <<Last(finish)>>
    BY <1>6 DEF GatherStart
  <2>2. stack' \in Seq(DOMAIN adjacency) /\ Range(stack') = {Last(finish)}
    BY <1>4, <2>1 DEF Range
  <2>3. Gathering(adjacency, finish', visited \cup {Last(finish)}, components, {}, stack')
    BY <1>2, <1>4, <1>6, <2>2, GatheringTakes
  <2>4. Gathering(adjacency, finish', visited', components', component', stack')
    BY <1>1, <2>1, <2>3
  <2> QED BY <1>1, <1>2, <2>4, FoundGathering
<1> QED BY <1>5, <1>6

LEMMA ReverseIs ==
  ASSUME NEW X, NEW q \in Seq(X)
  PROVE  Reverse(q) \in Seq(X) /\ Range(Reverse(q)) = Range(q)
<1>1. Len(q) \in Nat /\ DOMAIN q = 1..Len(q) /\ \A i \in DOMAIN q : q[i] \in X
  BY SeqIs
<1>2. PICK n \in Nat : n = Len(q)
  BY <1>1
<1>3. PICK r : r = Reverse(q)
  OBVIOUS
<1>4. r = [i \in 1..n |-> q[n - i + 1]]
  BY <1>2, <1>3 DEF Reverse
<1>5. \A i \in 1..n : n - i + 1 \in 1..n /\ n - (n - i + 1) + 1 = i
  BY <1>2
<1>6. r \in [1..n -> X]
  BY <1>1, <1>2, <1>4, <1>5
<1>7. r \in Seq(X)
  BY <1>2, <1>6, FunctionIsSeq
<1>8. Range(r) = Range(q)
  <2>1. DOMAIN r = 1..n /\ \A i \in 1..n : r[i] = q[n - i + 1]
    BY <1>4
  <2>2. DOMAIN q = 1..n
    BY <1>1, <1>2
  <2>3. \A i \in 1..n : \E j \in 1..n : r[i] = q[j]
    BY <1>5, <2>1
  <2>4. \A i \in 1..n : \E j \in 1..n : q[i] = r[j]
    BY <1>5, <2>1
  <2>5. Range(r) \subseteq Range(q)
    <3> SUFFICES ASSUME NEW y \in Range(r) PROVE y \in Range(q)
      OBVIOUS
    <3>1. PICK i \in 1..n : y = r[i]
      BY <2>1 DEF Range
    <3>2. PICK j \in 1..n : r[i] = q[j]
      BY <2>3
    <3> QED BY <2>2, <3>1, <3>2 DEF Range
  <2>6. Range(q) \subseteq Range(r)
    <3> SUFFICES ASSUME NEW y \in Range(q) PROVE y \in Range(r)
      OBVIOUS
    <3>1. PICK i \in 1..n : y = q[i]
      BY <2>2 DEF Range
    <3>2. PICK j \in 1..n : q[i] = r[j]
      BY <2>4
    <3> QED BY <2>1, <3>1, <3>2 DEF Range
  <2> QED BY <2>5, <2>6
<1> QED BY <1>3, <1>7, <1>8

LEMMA FoundGatherStep == ASSUME FoundInv, GatherStep PROVE FoundInv'
<1> DEFINE V == DOMAIN adjacency
           new == reverse[Top] \ visited
<1>1. /\ phase = "gather" /\ phase' = "gather" /\ Keeps /\ components' = components
      /\ stack # <<>> /\ component' = component \cup {Top} /\ visited' = visited \cup new
      /\ stack' = Front(stack) \o Reverse(Ascending(new)) /\ finish' = finish
  BY DEF GatherStep, Keeps
<1>2. /\ IndexPart /\ adjacency = Adjacency(document) /\ error = "none"
      /\ Gathering(adjacency, finish, visited, components, component, stack)
  BY <1>1 DEF FoundInv, IndexPart, GatherPart
<1>3. IsGraph(adjacency) /\ V = NodeIds(document)
  BY <1>2, AdjacencyIs
<1>4. stack \in Seq(V)
  BY <1>2 DEF Gathering
<1>5. PICK h : h = Front(stack)
  OBVIOUS
<1>6. h \in Seq(V) /\ Top \in V /\ Extended(stack, h, Top) /\ Last(stack) = Top
  BY <1>1, <1>4, <1>5, FrontExtends DEF Top, Last
<1>7. Range(stack) = Range(h) \cup {Top}
  <2> HIDE DEF V
  <2>1. /\ Len(stack) \in DOMAIN stack /\ DOMAIN h \subseteq DOMAIN stack
        /\ \A i \in DOMAIN stack : i \in DOMAIN h \/ i = Len(stack)
        /\ stack[Len(stack)] = Top /\ \A i \in DOMAIN h : stack[i] = h[i]
    BY <1>4, <1>6, ExtendedIs
  <2> QED BY ONLY <2>1 DEF Range
<1>8. new = {x \in V : Top \in adjacency[x]} \ visited
  BY <1>3, <1>6 DEF reverse
<1>9. PICK q : q = Reverse(Ascending(new))
  OBVIOUS
<1>10. q \in Seq(V) /\ Range(q) = new
  <2>1. new \in SUBSET V /\ new \in SUBSET Nat /\ IsFiniteSet(new)
    <3>1. new \in SUBSET V
      BY <1>8
    <3> QED BY <1>3, <3>1, FS_Subset DEF IsGraph
  <2> HIDE DEF new
  <2>2. Ascending(new) \in Seq(new) /\ Range(Ascending(new)) = new
    BY <2>1, AscendingIs
  <2>3. Ascending(new) \in Seq(V)
    BY <2>1, <2>2, SeqMonotonic
  <2> QED BY <1>9, <2>2, <2>3, ReverseIs
<1>11. PICK k : k = h \o q
  OBVIOUS
<1>12. k \in Seq(V) /\ Range(k) = Range(h) \cup new
  <2> HIDE DEF V, new
  <2>1. k \in Seq(V)
    BY <1>6, <1>10, <1>11
  <2>2. Range(k) = Range(h) \cup Range(q)
    BY <1>6, <1>10, <1>11, RangeConcatenation
  <2> QED BY <1>10, <2>1, <2>2
<1>13. Gathering(adjacency, finish, visited \cup new, components, component \cup {Top}, k)
  BY <1>2, <1>3, <1>7, <1>8, <1>12, GatheringLooks
<1>14. Gathering(adjacency, finish', visited', components', component', stack')
  BY <1>1, <1>5, <1>9, <1>11, <1>13
<1> QED BY <1>1, <1>2, <1>14, FoundGathering

LEMMA FoundGatherComponent == ASSUME FoundInv, GatherComponent PROVE FoundInv'
<1>1. /\ phase = "gather" /\ phase' = "gather" /\ Keeps /\ finish' = finish
      /\ components' = components \cup {component} /\ component' = {}
      /\ stack = <<>> /\ stack' = <<>> /\ visited' = visited /\ component # {}
  BY DEF GatherComponent, Keeps
<1>2. /\ IndexPart /\ adjacency = Adjacency(document) /\ error = "none"
      /\ Gathering(adjacency, finish, visited, components, component, <<>>)
  BY <1>1 DEF FoundInv, IndexPart, GatherPart
<1>3. IsGraph(adjacency)
  BY <1>2, AdjacencyIs
<1>4. Gathering(adjacency, finish, visited, components \cup {component}, {}, <<>>)
  BY <1>1, <1>2, <1>3, GatheringFinds
<1>5. Gathering(adjacency, finish', visited', components', component', stack')
  BY <1>1, <1>4
<1> QED BY <1>1, <1>2, <1>5, FoundGathering

LEMMA FoundGatherEnd == ASSUME FoundInv, GatherEnd PROVE FoundInv'
<1>1. /\ phase = "gather" /\ phase' = "witness" /\ Keeps /\ components' = components
      /\ stack = <<>> /\ component = {} /\ finish = <<>>
  BY DEF GatherEnd, Keeps
<1>2. /\ IndexPart /\ adjacency = Adjacency(document) /\ error = "none"
      /\ Gathering(adjacency, <<>>, visited, components, {}, <<>>)
  BY <1>1 DEF FoundInv, IndexPart, GatherPart
<1>3. components = Classes(adjacency)
  BY <1>2, GatheringEnds
<1>4. IndexPart'
  BY <1>1, <1>2 DEF IndexPart, Keeps
<1>5. FoundPart'
  BY <1>1, <1>3 DEF FoundPart, Keeps
<1> QED BY <1>1, <1>4, <1>5 DEF FoundInv, SearchPart, GatherPart

LEMMA FoundAfter ==
  ASSUME FoundInv,
         WitnessStart \/ WitnessTry \/ WitnessStep \/ WitnessEnd \/ Layer \/ ScheduleEnd
  PROVE  FoundInv'
<1>1. /\ phase \in {"witness", "schedule"} /\ phase' \in {"witness", "schedule", "done"}
      /\ Keeps /\ components' = components
  BY DEF WitnessStart, WitnessTry, WitnessStep, WitnessEnd, Layer, ScheduleEnd, Keeps, search
<1>2. /\ IndexPart /\ adjacency = Adjacency(document) /\ error = "none"
      /\ components = Classes(adjacency)
  BY <1>1 DEF FoundInv, IndexPart, FoundPart, Past
<1>3. IndexPart'
  BY <1>1, <1>2 DEF IndexPart, Keeps
<1>4. FoundPart'
  BY <1>1, <1>2 DEF FoundPart, Keeps
<1> QED BY <1>1, <1>3, <1>4 DEF FoundInv, SearchPart, GatherPart

LEMMA FoundStays == ASSUME FoundInv, UNCHANGED graphVars PROVE FoundInv'
BY DEF FoundInv, IndexPart, SearchPart, GatherPart, FoundPart, Past, Analysed,
       graphVars, search

LEMMA FoundNext == ASSUME FoundInv, [GraphNext]_graphVars PROVE FoundInv'
BY FoundIndex, FoundFail, FoundSearchStart, FoundSearchStep, FoundSearchEnd, FoundGatherStart,
   FoundGatherStep, FoundGatherComponent, FoundGatherEnd, FoundAfter, FoundStays DEF GraphNext

LEMMA FoundInductive == GraphSpec => []FoundInv
<1>1. GraphInit => FoundInv
  BY FoundStarts
<1>2. FoundInv /\ [GraphNext]_graphVars => FoundInv'
  BY FoundNext
<1> QED BY <1>1, <1>2, PTL DEF GraphSpec

(* The components an analysis reports are, for every document, exactly the *)
(* classes of nodes that reach each other.                                 *)
THEOREM ComponentsAreClassesHolds == GraphSpec => []ComponentsAreClasses
<1>1. FoundInv => ComponentsAreClasses
  <2> SUFFICES ASSUME FoundInv, Analysed PROVE ComponentsAreClasses
    BY DEF ComponentsAreClasses
  <2>1. /\ IndexPart /\ document \in Documents /\ adjacency = Adjacency(document)
        /\ components = Classes(adjacency)
    BY DEF FoundInv, IndexPart, FoundPart, Past
  <2>2. DOMAIN adjacency = Vertices
    BY <2>1, AdjacencyIs
  <2>3. \A n \in Vertices :
          {m \in Vertices : m = n \/ (m \in Reach[n] /\ n \in Reach[m])} = ClassOf(adjacency, n)
    BY <2>1, ClassesAreReached
  <2>4. {{m \in Vertices : m = n \/ (m \in Reach[n] /\ n \in Reach[m])} : n \in Vertices}
          = {ClassOf(adjacency, n) : n \in Vertices}
    BY ONLY <2>3
  <2> QED BY <2>1, <2>2, <2>4 DEF ComponentsAreClasses, Classes
<1> QED BY <1>1, FoundInductive, PTL


-----------------------------------------------------------------------------
(* Walks inside a class, and the breadth first search for one.             *)

Walks(g, c, f, k, u) ==
  \E v \in [1..k -> c] : v[1] = f /\ v[k] = u /\ \A i \in 1..(k - 1) : v[i + 1] \in g[v[i]]

LEMMA WalksOne ==
  ASSUME NEW g, NEW c, NEW f, NEW u, Walks(g, c, f, 1, u) PROVE u = f
BY DEF Walks

LEMMA WalksInside ==
  ASSUME NEW g, NEW c, NEW f, NEW u, NEW k \in Nat, k >= 1, Walks(g, c, f, k, u) PROVE u \in c
<1>1. PICK v \in [1..k -> c] : v[k] = u
  BY DEF Walks
<1>2. k \in 1..k
  OBVIOUS
<1> QED BY <1>1, <1>2

LEMMA WalksLess ==
  ASSUME NEW g, NEW c, NEW f, NEW u, NEW k \in Nat, k >= 1, Walks(g, c, f, k + 1, u)
  PROVE  \E x \in c : Walks(g, c, f, k, x) /\ u \in g[x]
<1>1. PICK v \in [1..(k + 1) -> c] :
         v[1] = f /\ v[k + 1] = u /\ \A i \in 1..(k + 1 - 1) : v[i + 1] \in g[v[i]]
  BY DEF Walks
<1>2. PICK w : w = [i \in 1..k |-> v[i]]
  OBVIOUS
<1>3. 1..k \subseteq 1..(k + 1) /\ k + 1 - 1 = k /\ 1..(k - 1) \subseteq 1..k /\ k \in 1..k
      /\ 1 \in 1..k /\ \A i \in 1..(k - 1) : i + 1 \in 1..k
  OBVIOUS
<1>4. w \in [1..k -> c] /\ \A i \in 1..k : w[i] = v[i]
  BY <1>2, <1>3
<1>5. w[1] = f /\ w[k] = v[k] /\ v[k] \in c
  BY <1>1, <1>3, <1>4
<1>6. \A i \in 1..(k - 1) : w[i + 1] \in g[w[i]]
  BY <1>1, <1>3, <1>4
<1>7. u \in g[v[k]]
  BY <1>1, <1>3
<1> QED BY <1>4, <1>5, <1>6, <1>7 DEF Walks

(* p is a path of c from f along the edges of g.                           *)
Trail(g, c, f, p) ==
  /\ p \in Seq(c) /\ Len(p) >= 1 /\ p[1] = f
  /\ \A i \in 1..(Len(p) - 1) : p[i + 1] \in g[p[i]]

LEMMA PathOn ==
  ASSUME NEW g, NEW c, NEW f, NEW p, Trail(g, c, f, p), NEW u \in c, u \in g[Last(p)],
         NEW q \in Seq(c), Extended(q, p, u)
  PROVE  Trail(g, c, f, q) /\ Len(q) = Len(p) + 1 /\ Last(q) = u
<1>1. p \in Seq(c) /\ Len(p) >= 1 /\ p[1] = f
  BY DEF Trail
<1>2. /\ Len(p) \in Nat /\ Len(q) = Len(p) + 1 /\ DOMAIN p = 1..Len(p)
      /\ q[Len(q)] = u /\ \A i \in DOMAIN p : q[i] = p[i]
  BY <1>1, ExtendedIs
<1>3. q[1] = f
  BY <1>1, <1>2
<1>4. ASSUME NEW i \in 1..(Len(q) - 1) PROVE q[i + 1] \in g[q[i]]
  <2>1. CASE i = Len(p)
    BY <1>1, <1>2, <2>1 DEF Last
  <2>2. CASE i # Len(p)
    <3>0. PICK m \in Nat : m = Len(p) /\ Len(q) = m + 1
      BY <1>2
    <3>1. i \in 1..(Len(p) - 1) /\ i \in 1..Len(p) /\ i + 1 \in 1..Len(p)
      <4>1. i \in 1..(m + 1 - 1) /\ i # m
        BY <2>2, <3>0
      <4>2. i \in 1..(m - 1) /\ i \in 1..m /\ i + 1 \in 1..m
        BY ONLY <3>0, <4>1, m \in Nat
      <4> QED BY <3>0, <4>2
    <3>2. p[i + 1] \in g[p[i]]
      BY <3>1 DEF Trail
    <3> QED BY <1>2, <3>1, <3>2
  <2> QED BY <2>1, <2>2
<1> QED BY <1>1, <1>2, <1>3, <1>4 DEF Trail, Last

(* The queue q holds a shortest path to each node met and not yet looked   *)
(* at, the shorter before the longer; no shorter walk ends outside v.      *)
Waits(q) == {Last(q[i]) : i \in DOMAIN q}

Walking(g, c, start, f, v, q) ==
  /\ f \in v /\ v \subseteq c /\ q \in Seq(Seq(c))
  /\ DOMAIN q = 1..Len(q) /\ Len(q) \in Nat /\ Len(q) >= 1
  /\ \A i \in DOMAIN q : Trail(g, c, f, q[i]) /\ Last(q[i]) \in v
  /\ \A i, j \in DOMAIN q : i < j => Len(q[i]) <= Len(q[j])
  /\ \A i \in DOMAIN q : Len(q[i]) <= Len(q[1]) + 1
  /\ \A x \in v \ Waits(q) : x # start /\ g[x] \cap c \subseteq v
  /\ \A i \in DOMAIN q : \A k \in 1..(Len(q[i]) - 1) : ~ Walks(g, c, f, k, Last(q[i]))
  /\ \A k \in 1..Len(q[1]) : \A x : Walks(g, c, f, k, x) => x \in v

LEMMA WalkingStarts ==
  ASSUME NEW g, NEW c, NEW start, NEW f \in c
  PROVE  Walking(g, c, start, f, {f}, <<<<f>>>>)
<1>1. PICK p : p = <<f>>
  OBVIOUS
<1>2. p \in Seq(c) /\ Len(p) = 1 /\ p[1] = f /\ Last(p) = f
  BY <1>1 DEF Last
<1>3. PICK q : q = <<p>>
  OBVIOUS
<1>4. DOMAIN q = 1..1 /\ Len(q) = 1 /\ q[1] = p
  BY <1>3
<1>5. \A i \in DOMAIN q : i = 1 /\ q[i] = p
  BY <1>4
<1>6. Trail(g, c, f, p)
  BY <1>2 DEF Trail
<1>7. Waits(q) = {f}
  BY <1>2, <1>4, <1>5 DEF Waits
<1>8. \A k \in 1..Len(q[1]) : \A x : Walks(g, c, f, k, x) => x \in {f}
  <2> SUFFICES ASSUME NEW k \in 1..Len(q[1]), NEW x, Walks(g, c, f, k, x) PROVE x = f
    OBVIOUS
  <2>1. Len(q[1]) = 1
    BY <1>2, <1>4
  <2>2. k = 1
    BY <2>1
  <2> QED BY <2>2, WalksOne
<1>9. DOMAIN q = 1..Len(q) /\ Len(q) \in Nat /\ Len(q) >= 1 /\ q \in Seq(Seq(c))
  <2> PICK X : X = Seq(c)
    OBVIOUS
  <2>1. q \in Seq(X)
    BY <1>2, <1>3
  <2> QED BY <1>4, <2>1
<1>10. \A i \in DOMAIN q : Trail(g, c, f, q[i]) /\ Last(q[i]) \in {f}
  BY <1>2, <1>5, <1>6
<1>11. /\ \A i, j \in DOMAIN q : i < j => Len(q[i]) <= Len(q[j])
       /\ \A i \in DOMAIN q : Len(q[i]) <= Len(q[1]) + 1
       /\ \A i \in DOMAIN q : Len(q[i]) - 1 = 0
  BY <1>2, <1>4, <1>5
<1>12. \A i \in DOMAIN q : \A k \in 1..(Len(q[i]) - 1) : ~ Walks(g, c, f, k, Last(q[i]))
  <2> SUFFICES ASSUME NEW i \in DOMAIN q, NEW k \in 1..(Len(q[i]) - 1) PROVE FALSE
    OBVIOUS
  <2>1. Len(q[i]) - 1 = 0
    BY <1>11
  <2>2. k \in 1..0
    BY <2>1
  <2> QED BY <2>2
<1>13. Walking(g, c, start, f, {f}, q)
  BY <1>7, <1>8, <1>9, <1>10, <1>11, <1>12 DEF Walking
<1> QED BY <1>1, <1>3, <1>13

(* The path at the head is looked at: new are the neighbours not met, r is *)
(* the rest of the queue with a path to each of them behind it.            *)
Looked(g, c, v, q, new, r) ==
  /\ new = (g[Last(q[1])] \cap c) \ v /\ r \in Seq(Seq(c))
  /\ DOMAIN r = 1..Len(r) /\ Len(r) \in Nat /\ Len(r) >= Len(q) - 1
  /\ \A i \in 1..(Len(q) - 1) : r[i] = q[i + 1]
  /\ \A i \in DOMAIN r : i > Len(q) - 1 =>
       \E u \in new : r[i] \in Seq(c) /\ Extended(r[i], q[1], u)
  /\ \A u \in new : \E i \in DOMAIN r : i > Len(q) - 1 /\ Last(r[i]) = u

LEMMA WalkingGoes ==
  ASSUME NEW g, IsGraph(g), NEW n \in DOMAIN g, NEW c, c = ClassOf(g, n), NEW start \in c,
         NEW f, NEW v, NEW q, Walking(g, c, start, f, v, q), Last(q[1]) # start,
         NEW new, NEW r, Looked(g, c, v, q, new, r)
  PROVE  Walking(g, c, start, f, v \cup new, r)
<1> DEFINE d == Len(q[1])
           m == Len(q)
           Old(i) == i \in 1..(m - 1)
<1>1. /\ f \in v /\ v \subseteq c /\ m \in Nat /\ m >= 1 /\ DOMAIN q = 1..m /\ 1 \in DOMAIN q
      /\ Trail(g, c, f, q[1]) /\ Last(q[1]) \in v
  BY DEF Walking
<1>2. d \in Nat /\ d >= 1 /\ \A i \in DOMAIN q : Len(q[i]) \in Nat /\ Len(q[i]) >= d
                                  /\ Len(q[i]) <= d + 1
  <2>1. \A i \in DOMAIN q : Len(q[i]) \in Nat /\ Len(q[i]) >= 1
    BY DEF Walking, Trail
  <2>2. \A i \in DOMAIN q : i = 1 \/ 1 < i
    BY <1>1
  <2>3. \A i \in DOMAIN q : Len(q[i]) <= d + 1 /\ (1 < i => d <= Len(q[i]))
    BY <1>1 DEF Walking
  <2> QED BY ONLY <1>1, <2>1, <2>2, <2>3
<1>3. /\ new = (g[Last(q[1])] \cap c) \ v /\ DOMAIN r = 1..Len(r) /\ Len(r) \in Nat
      /\ Len(r) >= m - 1 /\ r \in Seq(Seq(c)) /\ \A i \in 1..(m - 1) : r[i] = q[i + 1]
  BY DEF Looked
<1>4. ASSUME NEW i \in DOMAIN r, i \in 1..(m - 1)
      PROVE  /\ i + 1 \in DOMAIN q /\ r[i] = q[i + 1] /\ Trail(g, c, f, r[i]) /\ Last(r[i]) \in v
             /\ Len(r[i]) \in Nat /\ Len(r[i]) >= d /\ Len(r[i]) <= d + 1
             /\ \A k \in 1..(Len(r[i]) - 1) : ~ Walks(g, c, f, k, Last(r[i]))
  <2>1. i + 1 \in DOMAIN q /\ r[i] = q[i + 1]
    <3>1. i + 1 \in 1..m
      BY <1>1, <1>4
    <3> QED BY <1>1, <1>3, <1>4, <3>1
  <2>2. Trail(g, c, f, q[i + 1]) /\ Last(q[i + 1]) \in v
    BY <2>1 DEF Walking
  <2>3. \A k \in 1..(Len(q[i + 1]) - 1) : ~ Walks(g, c, f, k, Last(q[i + 1]))
    BY <2>1 DEF Walking
  <2> QED BY <1>2, <2>1, <2>2, <2>3
<1>5. ASSUME NEW i \in DOMAIN r, i \notin 1..(m - 1)
      PROVE  /\ Trail(g, c, f, r[i]) /\ Last(r[i]) \in new /\ Len(r[i]) = d + 1
             /\ \A k \in 1..(Len(r[i]) - 1) : ~ Walks(g, c, f, k, Last(r[i]))
  <2>1. i > m - 1
    BY <1>1, <1>3, <1>5
  <2>2. PICK u \in new : r[i] \in Seq(c) /\ Extended(r[i], q[1], u)
    BY <2>1 DEF Looked
  <2>3. u \in c /\ u \in g[Last(q[1])] /\ u \notin v
    BY <1>3
  <2>4. Trail(g, c, f, r[i]) /\ Len(r[i]) = d + 1 /\ Last(r[i]) = u
    BY <1>1, <2>2, <2>3, PathOn
  <2>5. \A k \in 1..d : ~ Walks(g, c, f, k, u)
    BY <2>3 DEF Walking
  <2>6. d + 1 - 1 = d
    BY <1>2
  <2> QED BY <2>2, <2>4, <2>5, <2>6
<1>6. ASSUME NEW i \in DOMAIN r
      PROVE  /\ Trail(g, c, f, r[i]) /\ Last(r[i]) \in v \cup new
             /\ Len(r[i]) \in Nat /\ Len(r[i]) >= d /\ Len(r[i]) <= d + 1
             /\ \A k \in 1..(Len(r[i]) - 1) : ~ Walks(g, c, f, k, Last(r[i]))
  <2>1. CASE i \in 1..(m - 1)
    BY <1>4, <2>1
  <2>2. CASE i \notin 1..(m - 1)
    BY <1>2, <1>5, <2>2
  <2> QED BY <2>1, <2>2
<1>7. ASSUME NEW i \in DOMAIN r, NEW j \in DOMAIN r, i < j PROVE Len(r[i]) <= Len(r[j])
  <2>1. CASE j \in 1..(m - 1)
    <3>1. i \in 1..(m - 1)
      BY <1>1, <1>3, <1>7, <2>1
    <3>2. i + 1 < j + 1 /\ i + 1 \in DOMAIN q /\ j + 1 \in DOMAIN q
          /\ r[i] = q[i + 1] /\ r[j] = q[j + 1]
      BY <1>1, <1>3, <1>4, <1>7, <2>1, <3>1
    <3> QED BY <3>2 DEF Walking
  <2>2. CASE j \notin 1..(m - 1)
    BY <1>2, <1>5, <1>6, <2>2
  <2> QED BY <2>1, <2>2
<1>8. Waits(q) \subseteq Waits(r) \cup {Last(q[1])} /\ new \subseteq Waits(r)
  <2>1. ASSUME NEW i \in DOMAIN q, i # 1 PROVE Last(q[i]) \in Waits(r)
    <3>1. i - 1 \in 1..(m - 1) /\ i - 1 \in DOMAIN r /\ (i - 1) + 1 = i
      BY <1>1, <1>3, <2>1
    <3>2. r[i - 1] = q[i]
      BY <3>1 DEF Looked
    <3> QED BY <3>1, <3>2 DEF Waits
  <2>2. new \subseteq Waits(r)
    BY DEF Looked, Waits
  <2> QED BY <2>1, <2>2 DEF Waits
<1>9. ASSUME NEW x \in (v \cup new) \ Waits(r)
      PROVE  x # start /\ g[x] \cap c \subseteq v \cup new
  <2>1. x \in v
    BY <1>8
  <2>2. CASE x = Last(q[1])
    BY <1>3, <2>2
  <2>3. CASE x # Last(q[1])
    BY <1>8, <2>1, <2>3 DEF Walking
  <2> QED BY <2>2, <2>3
<1>10. v \cup new \subseteq c /\ f \in v \cup new
  BY <1>1, <1>3
(* The queue cannot run dry: start is still to be met.                     *)
<1>11. Len(r) >= 1
  <2> SUFFICES ASSUME Len(r) = 0 PROVE FALSE
    BY <1>3
  <2>1. Waits(r) = {}
    BY <1>3 DEF Waits
  <2> DEFINE T == v \cup new
             S == T \cup {x \in DOMAIN g : ~ Leads(g, x, start)}
  <2>2. \A x \in T : x # start /\ g[x] \cap c \subseteq T
    BY <1>9, <2>1
  <2>3. T \subseteq c /\ f \in T /\ c \subseteq DOMAIN g
    BY <1>10 DEF ClassOf
  <2> HIDE DEF T
  <2>4. S \in SUBSET DOMAIN g /\ f \in S
    BY <2>3
  <2>5. IsClosed(g, S)
    <3> SUFFICES ASSUME NEW x \in S, NEW w \in g[x], Leads(g, w, start) PROVE w \in S
      <4>1. \A x \in S : g[x] \subseteq DOMAIN g
        BY <2>4 DEF IsGraph
      <4> QED BY <4>1 DEF IsClosed
    <3>1. Leads(g, x, w) /\ Leads(g, x, start)
      BY LeadsEdge, LeadsOn
    <3>2. x \in T
      BY <3>1
    <3>3. Mutual(g, n, x) /\ Mutual(g, n, start)
      BY <2>3, <3>2 DEF ClassOf
    <3>4. Leads(g, n, w) /\ Leads(g, w, n)
      BY <3>1, <3>3, LeadsOn DEF Mutual
    <3>5. w \in DOMAIN g
      BY <2>4 DEF IsGraph
    <3>6. w \in c
      BY <3>4, <3>5 DEF ClassOf, Mutual
    <3> QED BY <2>2, <3>2, <3>6
  <2>6. Leads(g, f, start)
    <3>1. Mutual(g, n, f) /\ Mutual(g, n, start)
      BY <2>3 DEF ClassOf
    <3> QED BY <3>1, LeadsOn DEF Mutual
  <2>7. start \notin S
    BY <2>2, LeadsSelf
  <2> QED BY <2>4, <2>5, <2>6, <2>7 DEF Leads
<1>12. 1 \in DOMAIN r
  BY <1>3, <1>11
<1>13. ASSUME NEW k \in 1..Len(r[1]), NEW x, Walks(g, c, f, k, x) PROVE x \in v \cup new
  <2>1. CASE k <= d
    <3>1. k \in 1..d
      BY <1>2, <1>6, <1>12, <2>1
    <3> QED BY <1>13, <3>1 DEF Walking
  <2>2. CASE ~ k <= d
    <3>1. k = d + 1 /\ Len(r[1]) = d + 1
      BY <1>2, <1>6, <1>12, <2>2
    <3>2. PICK y \in c : Walks(g, c, f, d, y) /\ x \in g[y]
      BY <1>2, <1>13, <3>1, WalksLess
    <3>3. y \in v
      <4>1. d \in 1..d
        BY <1>2
      <4> QED BY <3>2, <4>1 DEF Walking
    <3>4. y \notin Waits(r)
      <4> SUFFICES ASSUME NEW i \in DOMAIN r, y = Last(r[i]) PROVE FALSE
        BY DEF Waits
      <4>1. Len(r[i]) >= d + 1 /\ Len(r[i]) \in Nat
        <5>1. i = 1 \/ 1 < i
          BY <1>3
        <5> QED BY <1>2, <1>6, <1>7, <1>12, <3>1, <5>1
      <4>2. d \in 1..(Len(r[i]) - 1)
        BY <1>2, <4>1
      <4> QED BY <1>6, <3>2, <4>2
    <3>5. x \in c
      BY <1>2, <1>13, <3>1, WalksInside
    <3> QED BY <1>9, <3>2, <3>3, <3>4, <3>5
  <2> QED BY <2>1, <2>2
<1>14. \A i \in DOMAIN r : Len(r[i]) <= Len(r[1]) + 1
  BY <1>2, <1>6, <1>12
<1> QED BY <1>3, <1>6, <1>7, <1>9, <1>10, <1>11, <1>13, <1>14 DEF Walking


-----------------------------------------------------------------------------
(* Witnesses of classes.                                                   *)

Witness(g, c, w) ==
  /\ w \in Seq(c) /\ Len(w) > 1
  /\ w[1] = Least(c) /\ w[Len(w)] = Least(c) /\ w[2] = Least(g[w[1]] \cap c)
  /\ \A i \in 1..(Len(w) - 1) : w[i + 1] \in g[w[i]]
  /\ \A k \in 1..(Len(w) - 2) : ~ Walks(g, c, w[2], k, w[1])

Cycles(g, n) == \E w \in g[n] : Leads(g, w, n)

(* What is known of the classes that were looked at.                       *)
Witnessed(g, cs, ws) ==
  /\ \A w \in ws : \E c \in cs : Witness(g, c, w)
  /\ \A c \in cs : (\E n \in c : Cycles(g, n)) => \E w \in ws : Witness(g, c, w)
  /\ \A v, w \in ws : v[1] = w[1] => v = w

LEMMA ClassesAre ==
  ASSUME NEW g, IsGraph(g), NEW c \in Classes(g)
  PROVE  c \in SUBSET Nat /\ c # {} /\ Least(c) \in c /\ c \subseteq DOMAIN g /\ IsFiniteSet(c)
<1>1. c \in SUBSET DOMAIN g /\ c # {}
  BY MutualIs DEF Classes, ClassOf
<1>2. c \in SUBSET Nat /\ IsFiniteSet(c)
  BY <1>1, FS_Subset DEF IsGraph
<1> QED BY <1>1, <1>2, LeastIs

LEMMA ClassesApart ==
  ASSUME NEW g, NEW c \in Classes(g), NEW d \in Classes(g), NEW n, n \in c, n \in d
  PROVE  c = d
BY ClassesMeet

LEMMA WitnessedMore ==
  ASSUME NEW g, IsGraph(g), NEW cs \in SUBSET Classes(g), NEW ws, Witnessed(g, cs, ws),
         NEW c \in Classes(g) \ cs, NEW w, Witness(g, c, w)
  PROVE  Witnessed(g, cs \cup {c}, ws \cup {w})
<1>1. ASSUME NEW v \in ws PROVE v[1] # w[1]
  <2>1. PICK d \in cs : Witness(g, d, v)
    BY DEF Witnessed
  <2>2. v[1] \in d /\ w[1] \in c
    BY <2>1, ClassesAre DEF Witness
  <2> QED BY <2>1, <2>2, ClassesApart
<1>2. \A u, v \in ws \cup {w} : u[1] = v[1] => u = v
  BY <1>1 DEF Witnessed
<1>3. \A v \in ws \cup {w} : \E d \in cs \cup {c} : Witness(g, d, v)
  BY DEF Witnessed
<1>4. \A d \in cs \cup {c} :
        (\E n \in d : Cycles(g, n)) => \E v \in ws \cup {w} : Witness(g, d, v)
  BY DEF Witnessed
<1> QED BY <1>2, <1>3, <1>4 DEF Witnessed

LEMMA WitnessedNone ==
  ASSUME NEW g, NEW cs, NEW ws, Witnessed(g, cs, ws), NEW c, \A n \in c : ~ Cycles(g, n)
  PROVE  Witnessed(g, cs \cup {c}, ws)
BY DEF Witnessed

(* A class of one node has a walk only when the node has an edge to        *)
(* itself.                                                                 *)
LEMMA SingleWitness ==
  ASSUME NEW g, IsGraph(g), NEW c \in Classes(g), NEW n, c = {n}
  PROVE  /\ Least(c) = n
         /\ n \in g[n] => Witness(g, c, <<n, n>>)
         /\ Cycles(g, n) => n \in g[n]
<1>1. Least(c) = n /\ n \in DOMAIN g /\ n \in Nat
  BY ClassesAre
<1>2. ASSUME n \in g[n] PROVE Witness(g, c, <<n, n>>)
  <2>1. g[n] \cap c = c
    BY <1>2
  <2>2. PICK w : w = <<n, n>>
    OBVIOUS
  <2>3. w \in Seq(c) /\ Len(w) = 2 /\ w[1] = n /\ w[2] = n
    BY <2>2
  <2>4. \A i \in 1..(Len(w) - 1) : w[i + 1] \in g[w[i]]
    <3>1. 1..(Len(w) - 1) = {1}
      BY <2>3
    <3> QED BY <1>2, <2>3, <3>1
  <2>5. 1..(Len(w) - 2) = {}
    BY <2>3
  <2>6. w[2] = Least(g[w[1]] \cap c) /\ w[1] = Least(c) /\ w[Len(w)] = Least(c) /\ Len(w) > 1
    <3>1. g[w[1]] \cap c = c
      BY <2>1, <2>3
    <3>2. w[Len(w)] = n /\ Len(w) > 1
      BY <2>3
    <3> QED BY <1>1, <2>3, <3>1, <3>2
  <2>7. Witness(g, c, w)
    BY <2>3, <2>4, <2>5, <2>6 DEF Witness
  <2> QED BY <2>2, <2>7
<1>3. ASSUME Cycles(g, n) PROVE n \in g[n]
  <2>1. PICK w \in g[n] : Leads(g, w, n)
    BY <1>3 DEF Cycles
  <2>2. Leads(g, n, w) /\ w \in DOMAIN g
    BY <1>1, <2>1, LeadsEdge DEF IsGraph
  <2>3. w \in ClassOf(g, n) /\ c = ClassOf(g, n)
    BY <2>1, <2>2, ClassesMeet DEF ClassOf, Mutual
  <2> QED BY <2>1, <2>3
<1> QED BY <1>1, <1>2, <1>3

(* A class of more has a neighbour of its least node.                      *)
LEMMA ClassHasFirst ==
  ASSUME NEW g, IsGraph(g), NEW c \in Classes(g), \A n : c # {n}, NEW n \in c
  PROVE  g[n] \cap c # {}
<1>1. PICK m \in c : m # n
  OBVIOUS
<1>2. n \in DOMAIN g /\ c = ClassOf(g, n)
  BY ClassesMeet
<1>3. Leads(g, n, m) /\ Leads(g, m, n)
  BY <1>2 DEF ClassOf, Mutual
<1>4. PICK w \in g[n] : Leads(g, w, m)
  BY <1>1, <1>2, <1>3, LeadsFirst
<1>5. Leads(g, w, n) /\ Leads(g, n, w) /\ w \in DOMAIN g
  BY <1>2, <1>3, <1>4, LeadsEdge, LeadsOn DEF IsGraph
<1>6. w \in c
  BY <1>2, <1>5 DEF ClassOf, Mutual
<1> QED BY <1>4, <1>6

(* The path that comes to start closes the shortest walk.                  *)
LEMMA WalkingWitness ==
  ASSUME NEW g, IsGraph(g), NEW c \in Classes(g), NEW start, start = Least(c),
         NEW f, f = Least(g[start] \cap c), f \in g[start],
         NEW v, NEW q, Walking(g, c, start, f, v, q), Last(q[1]) = start,
         NEW w \in Seq(c), Len(w) = Len(q[1]) + 1, w[1] = start,
         \A i \in 1..Len(q[1]) : w[i + 1] = q[1][i]
  PROVE  Witness(g, c, w)
<1>1. 1 \in DOMAIN q
  BY DEF Walking
<1>2. PICK p : p = q[1]
  OBVIOUS
<1>3. /\ p \in Seq(c) /\ Len(p) >= 1 /\ p[1] = f
      /\ \A i \in 1..(Len(p) - 1) : p[i + 1] \in g[p[i]]
  BY <1>1, <1>2 DEF Walking, Trail
<1>4. \A k \in 1..(Len(p) - 1) : ~ Walks(g, c, f, k, start)
  BY <1>1, <1>2 DEF Walking
<1>5. PICK d \in Nat : d = Len(p) /\ Len(w) = d + 1 /\ d >= 1
  BY <1>2, <1>3
<1>6. \A i \in 1..d : w[i + 1] = p[i]
  BY <1>2, <1>5
<1>7. p[d] = start
  BY <1>2, <1>5 DEF Last
<1>8. d + 1 > 1 /\ d + 1 - 1 = d /\ d + 1 - 2 = d - 1 /\ 1 \in 1..d /\ d \in 1..d
  BY <1>5
<1>9. w[2] = f /\ w[d + 1] = start
  <2>1. w[1 + 1] = p[1] /\ w[d + 1] = p[d] /\ 1 + 1 = 2
    BY <1>6, <1>8
  <2> QED BY <1>3, <1>7, <2>1
<1>10. ASSUME NEW i \in 1..d PROVE w[i + 1] \in g[w[i]]
  <2>1. CASE i = 1
    BY <1>9, <2>1
  <2>2. CASE i # 1
    <3>1. i - 1 \in 1..(d - 1) /\ i - 1 \in 1..d /\ (i - 1) + 1 = i
      BY <2>2
    <3>2. p[(i - 1) + 1] \in g[p[i - 1]]
      BY <1>3, <1>5, <3>1
    <3>3. w[i] = p[i - 1] /\ w[i + 1] = p[i]
      BY <1>6, <3>1
    <3> QED BY <3>1, <3>2, <3>3
  <2> QED BY <2>1, <2>2
<1>11. Len(w) > 1 /\ Len(w) - 1 = d /\ Len(w) - 2 = d - 1
  BY <1>5, <1>8
<1>12. \A k \in 1..(Len(w) - 2) : ~ Walks(g, c, w[2], k, w[1])
  BY <1>4, <1>5, <1>9, <1>11
<1> QED BY <1>5, <1>9, <1>10, <1>11, <1>12 DEF Witness


(* What a step puts into the queue.                                        *)
LEMMA EnqueueIs ==
  ASSUME NEW g, NEW c, NEW v, NEW q \in Seq(Seq(c)), q # <<>>, q[1] # <<>>,
         NEW new, new = (g[Last(q[1])] \cap c) \ v, new \in SUBSET Nat, IsFiniteSet(new),
         NEW r, r = Tail(q) \o [i \in 1..Cardinality(new) |-> Append(q[1], Ascending(new)[i])]
  PROVE  Looked(g, c, v, q, new, r)
<1> PICK X : X = Seq(c)
  OBVIOUS
<1> PICK p : p = q[1]
  OBVIOUS
<1>1. q \in Seq(X)
  OBVIOUS
<1>2. PICK m \in Nat : m = Len(q) /\ m >= 1
  BY <1>1, SeqIs
<1>3. p \in Seq(c)
  <2>1. q[1] \in X
    BY <1>1, <1>2
  <2> QED BY <2>1
<1>4. PICK a : a = Ascending(new)
  OBVIOUS
<1>5. a \in Seq(new) /\ Len(a) = Cardinality(new) /\ Range(a) = new
  BY <1>4, AscendingIs
<1>6. PICK k \in Nat : k = Cardinality(new)
  BY FS_CardinalityType
<1>7. DOMAIN a = 1..k /\ \A i \in 1..k : a[i] \in new
  BY <1>5, <1>6, SeqIs
<1>8. new \subseteq c
  OBVIOUS
<1>9. PICK b : b = [i \in 1..k |-> Append(p, a[i])]
  OBVIOUS
<1>10. \A i \in 1..k : Append(p, a[i]) \in X /\ Extended(Append(p, a[i]), p, a[i])
  BY <1>3, <1>7, <1>8, AppendExtends
<1>11. b \in [1..k -> X] /\ \A i \in 1..k : b[i] \in X /\ Extended(b[i], p, a[i])
  BY <1>9, <1>10
<1>12. b \in Seq(X) /\ Len(b) = k
  BY <1>11, FunctionIsSeq
<1>13. PICK t : t = Tail(q)
  OBVIOUS
<1>14. t \in Seq(X) /\ Len(t) = m - 1 /\ \A i \in 1..(m - 1) : t[i] = q[i + 1]
  BY ONLY <1>1, <1>2, <1>13
<1>15. r = t \o b
  BY <1>4, <1>6, <1>9, <1>13
<1>16. /\ r \in Seq(X) /\ Len(r) = m - 1 + k /\ \A i \in 1..(m - 1) : r[i] = t[i]
       /\ \A i \in 1..k : r[m - 1 + i] = b[i]
  <2>1. /\ r \in Seq(X) /\ Len(r) = Len(t) + Len(b)
        /\ \A i \in 1..(Len(t) + Len(b)) : r[i] = IF i <= Len(t) THEN t[i] ELSE b[i - Len(t)]
    <3>1. /\ t \o b \in Seq(X) /\ Len(t \o b) = Len(t) + Len(b)
          /\ \A i \in 1..(Len(t) + Len(b)) :
               (t \o b)[i] = IF i <= Len(t) THEN t[i] ELSE b[i - Len(t)]
      BY ONLY <1>12, <1>14, ConcatProperties
    <3> QED BY ONLY <1>15, <3>1
  <2>2. Len(t) = m - 1 /\ Len(b) = k
    BY <1>12, <1>14
  <2>3. \A i \in 1..(m - 1 + k) : r[i] = IF i <= m - 1 THEN t[i] ELSE b[i - (m - 1)]
    BY ONLY <2>1, <2>2
  <2>4. \A i \in 1..(m - 1) : i \in 1..(m - 1 + k) /\ i <= m - 1
    BY <1>2, <1>6
  <2>5. \A i \in 1..k : /\ m - 1 + i \in 1..(m - 1 + k) /\ ~ m - 1 + i <= m - 1
                          /\ m - 1 + i - (m - 1) = i
    BY <1>2, <1>6
  <2>6. ASSUME NEW i \in 1..k PROVE r[m - 1 + i] = b[i]
    <3>1. PICK e : e = m - 1 + i
      OBVIOUS
    <3>2. e \in 1..(m - 1 + k) /\ ~ e <= m - 1 /\ e - (m - 1) = i
      <4>1. /\ m - 1 + i \in 1..(m - 1 + k) /\ ~ (m - 1 + i <= m - 1)
            /\ (m - 1 + i) - (m - 1) = i
        BY <1>2, <1>6
      <4> QED BY ONLY <3>1, <4>1
    <3>3. r[e] = b[i]
      BY ONLY <2>3, <3>2
    <3> QED BY <3>1, <3>3
  <2> QED BY <2>1, <2>2, <2>3, <2>4, <2>5, <2>6
<1>17. DOMAIN r = 1..Len(r) /\ Len(r) \in Nat /\ Len(r) >= Len(q) - 1
  BY <1>2, <1>6, <1>16, SeqIs
<1>18. \A i \in 1..(Len(q) - 1) : r[i] = q[i + 1]
  BY <1>2, <1>14, <1>16
<1>19. ASSUME NEW i \in DOMAIN r, i > Len(q) - 1
       PROVE  \E u \in new : r[i] \in Seq(c) /\ Extended(r[i], q[1], u)
  <2>1. PICK j \in 1..k : i = m - 1 + j
    <3>1. i - (m - 1) \in 1..k /\ i = m - 1 + (i - (m - 1))
      BY <1>2, <1>6, <1>16, <1>17, <1>19
    <3> QED BY <3>1
  <2>2. r[i] = b[j]
    BY <1>16, <2>1
  <2> QED BY <1>7, <1>11, <2>2
<1>20. ASSUME NEW u \in new
       PROVE  \E i \in DOMAIN r : i > Len(q) - 1 /\ Last(r[i]) = u
  <2>1. PICK j \in 1..k : a[j] = u
    BY <1>5, <1>7 DEF Range
  <2>2. m - 1 + j \in DOMAIN r /\ m - 1 + j > Len(q) - 1 /\ r[m - 1 + j] = b[j]
    <3>1. DOMAIN r = 1..(m - 1 + k)
      BY <1>16, <1>17
    <3>2. m - 1 + j \in 1..(m - 1 + k) /\ m - 1 + j > m - 1
      BY <1>2, <1>6
    <3> QED BY <1>2, <1>16, <3>1, <3>2
  <2>3. Last(b[j]) = u
    BY <1>11, <2>1 DEF Extended, Last
  <2> QED BY <2>2, <2>3
<1>21. r \in Seq(Seq(c))
  BY <1>16
<1> QED BY <1>17, <1>18, <1>19, <1>20, <1>21 DEF Looked

LEMMA ConsIs ==
  ASSUME NEW X, NEW p \in Seq(X), NEW x \in X
  PROVE  /\ <<x>> \o p \in Seq(X) /\ Len(<<x>> \o p) = Len(p) + 1 /\ (<<x>> \o p)[1] = x
         /\ \A i \in 1..Len(p) : (<<x>> \o p)[i + 1] = p[i]
OBVIOUS


-----------------------------------------------------------------------------
(* One witness for each cyclic class, step by step.                        *)

FirstOf(c) == Least(adjacency[Least(c)] \cap c)

TryPart ==
  component # {} =>
    IF paths = <<>>
      THEN firsts = adjacency[Least(component)] \cap component
      ELSE Walking(adjacency, component, Least(component), FirstOf(component), visited, paths)

WitnessPart ==
  /\ phase \in {"index", "search", "gather"} => witnesses = {} /\ paths = <<>>
  /\ phase = "witness" =>
       /\ todo \subseteq components
       /\ component = {} \/ component \in components \ todo
       /\ \A n : component # {n}
       /\ component = {} => paths = <<>>
       /\ TryPart
       /\ Witnessed(adjacency, components \ (todo \cup {component}), witnesses)
  /\ phase = "schedule" \/ Analysed => Witnessed(adjacency, components, witnesses)

LEMMA WitnessStarts == ASSUME GraphInit PROVE WitnessPart
BY DEF GraphInit, WitnessPart, Analysed

LEMMA NoneIsNoClass ==
  ASSUME NEW g, IsGraph(g), NEW cs \in SUBSET Classes(g) PROVE cs \ {{}} = cs
BY ClassesAre

LEMMA WitnessBefore ==
  ASSUME FoundInv, WitnessPart,
         \/ Index \/ Fail \/ SearchStart \/ SearchStep \/ SearchEnd
         \/ GatherStart \/ GatherStep \/ GatherComponent
  PROVE  WitnessPart'
<1>1. CASE phase = "failed"
  <2>1. phase' = "done" /\ error' = error /\ error # "none"
    BY <1>1 DEF Index, Fail, SearchStart, SearchStep, SearchEnd, GatherStart, GatherStep,
         GatherComponent, FoundInv, IndexPart
  <2> QED BY <2>1 DEF WitnessPart, Analysed
<1>2. CASE phase \in {"index", "search", "gather"}
  <2>1. witnesses' = {} /\ paths' = <<>>
    BY <1>2 DEF Index, Fail, SearchStart, SearchStep, SearchEnd, GatherStart, GatherStep,
         GatherComponent, walk, WitnessPart
  <2>2. phase' \in {"search", "gather", "failed", "done"} /\ ~ Analysed'
    <3>1. CASE Index
      BY <3>1 DEF Index, Analysed
    <3>2. CASE ~ Index
      BY <1>2, <3>2 DEF Fail, SearchStart, SearchStep, SearchEnd, GatherStart, GatherStep,
           GatherComponent, Analysed
    <3> QED BY <3>1, <3>2
  <2> QED BY <2>1, <2>2 DEF WitnessPart
<1> QED BY <1>1, <1>2 DEF Index, Fail, SearchStart, SearchStep, SearchEnd, GatherStart, GatherStep,
         GatherComponent

(* What a step of the search for witnesses may assume.                     *)
LEMMA WitnessHas ==
  ASSUME FoundInv, WitnessPart, phase = "witness"
  PROVE  /\ IsGraph(adjacency) /\ components = Classes(adjacency) /\ error = "none"
         /\ todo \subseteq components
         /\ component = {} \/ component \in components \ todo
         /\ \A n : component # {n}
         /\ component = {} => paths = <<>>
         /\ TryPart
         /\ Witnessed(adjacency, components \ (todo \cup {component}), witnesses)
<1>1. IndexPart /\ adjacency = Adjacency(document)
  BY DEF FoundInv, IndexPart, Past
<1>2. IsGraph(adjacency)
  BY <1>1, AdjacencyIs
<1> QED BY <1>1, <1>2 DEF WitnessPart, FoundInv, FoundPart, Past, IndexPart

LEMMA WitnessGatherEnd == ASSUME FoundInv, WitnessPart, GatherEnd PROVE WitnessPart'
<1>1. /\ phase = "gather" /\ phase' = "witness" /\ component' = {} /\ paths' = paths
      /\ witnesses' = witnesses /\ components' = components /\ todo' = components
  BY DEF GatherEnd, search
<1>2. witnesses = {} /\ paths = <<>>
  BY <1>1 DEF WitnessPart
<1>3. Witnessed(adjacency', components' \ (todo' \cup {component'}), witnesses')
  <2>1. components' \ (todo' \cup {component'}) = {}
    BY <1>1
  <2>2. Witnessed(adjacency', {}, {})
    BY DEF Witnessed
  <2> QED BY <1>1, <1>2, <2>1, <2>2
<1>4. TryPart'
  BY <1>1 DEF TryPart
<1>5. ~ Analysed'
  BY <1>1 DEF Analysed
<1>6. \A n : component' # {n}
  BY <1>1
<1> QED BY <1>1, <1>2, <1>3, <1>4, <1>5, <1>6 DEF WitnessPart

(* A step within the phase.                                                *)
LEMMA WitnessGoes ==
  ASSUME phase' = "witness",
         todo' \subseteq components',
         component' = {} \/ component' \in components' \ todo',
         \A n : component' # {n},
         component' = {} => paths' = <<>>,
         TryPart',
         Witnessed(adjacency', components' \ (todo' \cup {component'}), witnesses')
  PROVE  WitnessPart'
BY DEF WitnessPart, Analysed

LEMMA WitnessStartStep == ASSUME FoundInv, WitnessPart, WitnessStart PROVE WitnessPart'
<1> DEFINE g == adjacency
           c == CHOOSE x \in todo : \A y \in todo : Least(x) <= Least(y)
           start == Least(c)
<1>1. /\ phase = "witness" /\ phase' = "witness" /\ component = {} /\ todo # {}
      /\ adjacency' = g /\ components' = components /\ paths' = paths /\ todo' = todo \ {c}
      /\ IF Cardinality(c) = 1
           THEN /\ witnesses' = witnesses \cup (IF start \in g[start] THEN {<<start, start>>} ELSE {})
                /\ component' = component /\ firsts' = firsts
           ELSE component' = c /\ firsts' = g[start] \cap c /\ witnesses' = witnesses
  BY DEF WitnessStart
<1>2. /\ IsGraph(g) /\ components = Classes(g) /\ todo \subseteq components /\ paths = <<>>
      /\ Witnessed(g, components \ (todo \cup {{}}), witnesses)
  BY <1>1, WitnessHas
<1>3. c \in todo
  <2> DEFINE T == {Least(x) : x \in todo}
  <2>1. T \in SUBSET Nat /\ T # {}
    BY <1>1, <1>2, ClassesAre
  <2> HIDE DEF T
  <2>2. PICK n \in T : \A m \in T : n <= m
    BY <2>1, LeastNumber
  <2>3. \E x \in todo : \A y \in todo : Least(x) <= Least(y)
    BY <2>2 DEF T
  <2> QED BY <2>3
<1> HIDE DEF c
<1>4. c \in Classes(g) /\ c # {} /\ start \in c /\ IsFiniteSet(c)
  BY <1>2, <1>3, ClassesAre
<1> DEFINE cs == components \ (todo \cup {{}})
<1>5. cs \in SUBSET Classes(g) /\ c \notin cs /\ cs = components \ todo
  BY <1>2, <1>3, NoneIsNoClass
<1>6. CASE Cardinality(c) = 1
  <2>1. component' = {} /\ paths' = <<>>
    BY <1>1, <1>2, <1>6
  <2>2. c = {start}
    <3>1. PICK n : c = {n}
      BY <1>4, <1>6, FS_Singleton
    <3> QED BY <1>4, <3>1
  <2>3. components' \ (todo' \cup {component'}) = cs \cup {c}
    BY <1>1, <1>2, <1>3, <1>4, <2>1
  <2>4. Witnessed(g, cs \cup {c}, witnesses')
    <3>1. CASE start \in g[start]
      <4>1. Witness(g, c, <<start, start>>)
        <5> HIDE DEF start
        <5> QED BY <1>2, <1>4, <2>2, <3>1, SingleWitness
      <4>2. witnesses' = witnesses \cup {<<start, start>>}
        BY <1>1, <1>6, <3>1
      <4> HIDE DEF start, cs
      <4>3. PICK w : w = <<start, start>>
        OBVIOUS
      <4>4. Witnessed(g, cs \cup {c}, witnesses \cup {w})
        BY <1>2, <1>4, <1>5, <4>1, <4>3, WitnessedMore DEF cs
      <4> QED BY <4>2, <4>3, <4>4
    <3>2. CASE start \notin g[start]
      <4>1. ~ Cycles(g, start)
        <5> HIDE DEF start
        <5> QED BY <1>2, <1>4, <2>2, <3>2, SingleWitness
      <4>2. witnesses' = witnesses
        BY <1>1, <1>6, <3>2
      <4>3. \A n \in c : ~ Cycles(g, n)
        BY <2>2, <4>1
      <4> HIDE DEF start
      <4> QED BY <1>2, <4>2, <4>3, WitnessedNone
    <3> QED BY <3>1, <3>2
  <2>5. TryPart'
    BY <2>1 DEF TryPart
  <2>6. todo' \subseteq components'
    BY <1>1, <1>2
  <2> QED BY <1>1, <2>1, <2>3, <2>4, <2>5, <2>6, WitnessGoes
<1>7. CASE Cardinality(c) # 1
  <2>1. component' = c /\ firsts' = g[start] \cap c /\ witnesses' = witnesses /\ paths' = <<>>
    BY <1>1, <1>2, <1>7
  <2>2. component' \in components' \ todo' /\ todo' \subseteq components'
    BY <1>1, <1>2, <1>3, <2>1
  <2>3. components' \ (todo' \cup {component'}) = cs
    BY <1>1, <1>3, <1>5, <2>1
  <2>4. TryPart'
    BY <1>1, <2>1 DEF TryPart
  <2>5. Witnessed(g, cs, witnesses)
    BY <1>2
  <2>6. \A n : c # {n}
    BY <1>7, FS_Singleton
  <2> QED BY <1>1, <1>4, <2>1, <2>2, <2>3, <2>4, <2>5, <2>6, WitnessGoes
<1> QED BY <1>6, <1>7


LEMMA WitnessTryStep == ASSUME FoundInv, WitnessPart, WitnessTry PROVE WitnessPart'
<1> DEFINE g == adjacency
           c == component
           start == Least(c)
           near == g[start] \cap c
<1>1. /\ phase = "witness" /\ phase' = "witness" /\ c # {} /\ paths = <<>>
      /\ g' = g /\ components' = components /\ todo' = todo /\ witnesses' = witnesses
      /\ firsts # {} => /\ visited' = {Least(firsts)} /\ paths' = <<<<Least(firsts)>>>>
                        /\ component' = component
  BY DEF WitnessTry
<1>2. /\ IsGraph(g) /\ components = Classes(g) /\ todo \subseteq components
      /\ c \in components \ todo /\ TryPart /\ \A n : c # {n}
      /\ Witnessed(g, components \ (todo \cup {c}), witnesses)
  BY <1>1, WitnessHas
<1>3. firsts = near /\ c \in SUBSET Nat /\ start \in c
  BY <1>1, <1>2, ClassesAre DEF TryPart
<1>4. ASSUME firsts # {} PROVE WitnessPart'
  <2>1. FirstOf(c) \in near /\ FirstOf(c) = Least(firsts)
    <3>1. near \in SUBSET Nat /\ near # {}
      BY <1>3, <1>4
    <3>2. Least(near) \in near
      BY <3>1, LeastIs
    <3> QED BY <1>3, <3>2 DEF FirstOf
  <2>2. visited' = {FirstOf(c)} /\ paths' = <<<<FirstOf(c)>>>> /\ component' = c
    BY <1>1, <1>4, <2>1
  <2>3. Walking(g, c, start, FirstOf(c), visited', paths')
    <3>1. FirstOf(c) \in c
      BY <2>1
    <3>2. PICK f : f = FirstOf(c)
      OBVIOUS
    <3>3. Walking(g, c, start, f, {f}, <<<<f>>>>)
      BY <3>1, <3>2, WalkingStarts
    <3> QED BY <2>2, <3>2, <3>3
  <2>4. paths' # <<>>
    BY <2>2
  <2>5. TryPart'
    BY <1>1, <2>2, <2>3, <2>4 DEF TryPart, FirstOf
  <2> QED BY <1>1, <1>2, <2>2, <2>5, WitnessGoes
(* A class of more than one node has a neighbour to try.                   *)
<1>5. firsts # {}
  <2> HIDE DEF start
  <2> QED BY <1>2, <1>3, ClassHasFirst
<1> QED BY <1>4, <1>5

LEMMA WitnessStepStep == ASSUME FoundInv, WitnessPart, WitnessStep PROVE WitnessPart'
<1> DEFINE g == adjacency
           c == component
           start == Least(c)
           f == FirstOf(c)
           path == Head(paths)
           new == (g[Last(path)] \cap c) \ visited
           further == [i \in 1 .. Cardinality(new) |-> Append(path, Ascending(new)[i])]
<1>1. /\ phase = "witness" /\ phase' = "witness" /\ paths # <<>>
      /\ g' = g /\ components' = components /\ todo' = todo
      /\ IF Last(path) = start
           THEN /\ witnesses' = witnesses \cup {<<Last(path)>> \o path}
                /\ paths' = <<>> /\ component' = {}
           ELSE /\ visited' = visited \cup new /\ paths' = Tail(paths) \o further
                /\ witnesses' = witnesses /\ component' = component
  BY DEF WitnessStep, Enqueue
<1>2. /\ IsGraph(g) /\ components = Classes(g) /\ todo \subseteq components
      /\ c \in components \ todo /\ TryPart /\ \A n : c # {n}
      /\ Witnessed(g, components \ (todo \cup {c}), witnesses)
  BY <1>1, WitnessHas
<1>3. c # {} /\ c \in SUBSET Nat /\ IsFiniteSet(c) /\ start \in c
  BY <1>2, ClassesAre
<1>4. Walking(g, c, start, f, visited, paths)
  BY <1>1, <1>2, <1>3 DEF TryPart
<1>5. paths \in Seq(Seq(c)) /\ path = paths[1] /\ 1 \in DOMAIN paths
  <2>1. paths \in Seq(Seq(c)) /\ 1 \in DOMAIN paths
    BY <1>4 DEF Walking
  <2> QED BY <2>1
<1>6. Trail(g, c, f, path) /\ path \in Seq(c) /\ Len(path) >= 1
  BY <1>4, <1>5 DEF Walking, Trail
<1> HIDE DEF path
<1>7. CASE Last(path) = start
  <2>1. PICK w : w = <<Last(path)>> \o path
    OBVIOUS
  <2>2. witnesses' = witnesses \cup {w} /\ paths' = <<>> /\ component' = {}
    BY <1>1, <1>7, <2>1
  <2>3. /\ w \in Seq(c) /\ Len(w) = Len(path) + 1 /\ w[1] = start
        /\ \A i \in 1..Len(path) : w[i + 1] = path[i]
    <3> HIDE DEF start, c
    <3> QED BY <1>3, <1>6, <1>7, <2>1, ConsIs
  <2>4. f \in g[start]
    <3>1. g[start] \cap c # {}
      <4> HIDE DEF start
      <4> QED BY <1>2, <1>3, ClassHasFirst
    <3>2. g[start] \cap c \in SUBSET Nat /\ g[start] \cap c # {}
      BY <1>3, <3>1
    <3> QED BY <3>2, LeastIs DEF FirstOf
  <2>5. Witness(g, c, w)
    <3>1. Last(paths[1]) = start /\ Len(w) = Len(paths[1]) + 1
          /\ \A i \in 1..Len(paths[1]) : w[i + 1] = paths[1][i]
      BY <1>5, <1>7, <2>3
    <3>2. PICK s : s = start
      OBVIOUS
    <3>3. PICK e : e = f
      OBVIOUS
    <3>4. e = Least(g[s] \cap c) /\ e \in g[s] /\ s = Least(c)
      BY <2>4, <3>2, <3>3 DEF FirstOf
    <3>5. Walking(g, c, s, e, visited, paths) /\ c \in Classes(g) /\ Last(paths[1]) = s /\ w[1] = s
      BY <1>2, <1>4, <2>3, <3>1, <3>2, <3>3
    <3>6. IsGraph(g) /\ w \in Seq(c)
      BY <1>2, <2>3
    <3> HIDE DEF start, f, c, path
    <3> QED BY ONLY <3>1, <3>4, <3>5, <3>6, WalkingWitness
  <2>6. Witnessed(g, (components \ (todo \cup {c})) \cup {c}, witnesses \cup {w})
    <3>1. PICK cs : cs = components \ (todo \cup {c})
      OBVIOUS
    <3>2. cs \in SUBSET Classes(g) /\ c \in Classes(g) \ cs /\ Witnessed(g, cs, witnesses)
      BY <1>2, <3>1
    <3>3. Witnessed(g, cs \cup {c}, witnesses \cup {w})
      BY <1>2, <2>5, <3>2, WitnessedMore
    <3> QED BY <3>1, <3>3
  <2>7. components' \ (todo' \cup {component'}) = (components \ (todo \cup {c})) \cup {c}
    BY <1>1, <1>2, <2>2, NoneIsNoClass
  <2>8. TryPart'
    BY <2>2 DEF TryPart
  <2> QED BY <1>1, <1>2, <2>2, <2>6, <2>7, <2>8, WitnessGoes
<1>8. CASE Last(path) # start
  <2>1. PICK r : r = Tail(paths) \o further
    OBVIOUS
  <2>2. /\ visited' = visited \cup new /\ paths' = r
        /\ witnesses' = witnesses /\ component' = c
    BY <1>1, <1>8, <2>1
  <2>3. new \in SUBSET Nat /\ IsFiniteSet(new)
    <3>1. new \in SUBSET c
      OBVIOUS
    <3> QED BY <1>3, <3>1, FS_Subset
  <2>4. PICK k : k = new
    OBVIOUS
  <2>5. Looked(g, c, visited, paths, k, r)
    <3>1. k = (g[Last(paths[1])] \cap c) \ visited
      BY <1>5, <2>4
    <3>2. r = Tail(paths) \o [i \in 1..Cardinality(k) |-> Append(paths[1], Ascending(k)[i])]
      BY <1>5, <2>1, <2>4
    <3>3. paths[1] # <<>> /\ paths # <<>>
      BY <1>1, <1>5, <1>6
    <3>4. k \in SUBSET Nat /\ IsFiniteSet(k)
      BY <2>3, <2>4
    <3> HIDE DEF c
    <3> QED BY <1>5, <3>1, <3>2, <3>3, <3>4, EnqueueIs
  <2>6. Walking(g, c, start, f, visited \cup k, r)
    <3>1. PICK n \in DOMAIN g : c = ClassOf(g, n)
      BY <1>2 DEF Classes
    <3>2. PICK s : s = start
      OBVIOUS
    <3>3. PICK e : e = f
      OBVIOUS
    <3>4. Walking(g, c, s, e, visited, paths) /\ s \in c /\ Last(paths[1]) # s
      BY <1>3, <1>4, <1>5, <1>8, <3>2, <3>3
    <3> HIDE DEF c, start, f
    <3>5. Walking(g, c, s, e, visited \cup k, r)
      BY <1>2, <2>5, <3>1, <3>4, WalkingGoes
    <3> QED BY <3>2, <3>3, <3>5
  <2>7. paths' # <<>>
    <3>1. Len(r) >= 1
      BY <2>6 DEF Walking
    <3> QED BY <2>2, <3>1
  <2>8. TryPart'
    BY <1>1, <2>2, <2>4, <2>6, <2>7 DEF TryPart, FirstOf
  <2>9. Witnessed(adjacency', components' \ (todo' \cup {component'}), witnesses')
    BY <1>1, <1>2, <2>2
  <2>10. component' \in components' \ todo' /\ todo' \subseteq components' /\ \A n : component' # {n}
    BY <1>1, <1>2, <2>2
  <2> QED BY <1>1, <1>3, <2>2, <2>7, <2>8, <2>9, <2>10, WitnessGoes
<1> QED BY <1>7, <1>8

LEMMA WitnessAfter ==
  ASSUME FoundInv, WitnessPart, WitnessEnd \/ Layer \/ ScheduleEnd PROVE WitnessPart'
<1>1. /\ adjacency' = adjacency /\ components' = components /\ witnesses' = witnesses
      /\ phase' \in {"schedule", "done"} /\ phase \in {"witness", "schedule"}
  BY DEF WitnessEnd, Layer, ScheduleEnd, search
<1>2. CASE phase = "schedule"
  <2>1. Witnessed(adjacency, components, witnesses)
    BY <1>2 DEF WitnessPart
  <2> QED BY <1>1, <2>1 DEF WitnessPart
<1>3. CASE phase = "witness"
  <2>1. component = {} /\ todo = {}
    BY <1>3 DEF WitnessEnd, Layer, ScheduleEnd
  <2>2. Witnessed(adjacency, components \ {{}}, witnesses)
    BY <1>3, <2>1 DEF WitnessPart
  <2>3. components \ {{}} = components
    BY <1>3, WitnessHas, NoneIsNoClass
  <2> QED BY <1>1, <2>2, <2>3 DEF WitnessPart
<1> QED BY <1>1, <1>2, <1>3

LEMMA WitnessStays == ASSUME WitnessPart, UNCHANGED graphVars PROVE WitnessPart'
BY DEF WitnessPart, TryPart, FirstOf, Analysed, graphVars, search, walk

LEMMA WitnessNext ==
  ASSUME FoundInv, WitnessPart, [GraphNext]_graphVars PROVE WitnessPart'
BY WitnessBefore, WitnessGatherEnd, WitnessStartStep, WitnessTryStep, WitnessStepStep,
   WitnessAfter, WitnessStays DEF GraphNext


LEMMA WitnessesTell ==
  ASSUME FoundInv, WitnessPart, Analysed
  PROVE  /\ WitnessesAreShortest
         /\ witnesses = {} <=> \A n \in Vertices : n \notin Reach[n]
<1> DEFINE g == adjacency
<1>1. /\ document \in Documents /\ g = Adjacency(document) /\ components = Classes(g)
      /\ IndexPart
  BY DEF FoundInv, IndexPart, FoundPart, Past
<1>2. IsGraph(g) /\ DOMAIN g = Vertices
  BY <1>1, AdjacencyIs
<1>3. Witnessed(g, Classes(g), witnesses)
  BY <1>1 DEF WitnessPart
<1>4. ASSUME NEW n \in Vertices PROVE n \in Reach[n] <=> Cycles(g, n)
  BY <1>1, ReachIs DEF Cycles
<1>5. ASSUME NEW c \in Classes(g), NEW w, Witness(g, c, w)
      PROVE  /\ IsWalk(w, c) /\ Len(w) > 1 /\ w[1] = Least(c) /\ Last(w) = Least(c)
             /\ w[2] = Least(adjacency[w[1]] \cap c) /\ w[1] \in Range(w)
             /\ \A k \in 1 .. Len(w) - 2 : \A v \in [1 .. k -> c] :
                  v[1] = w[2] /\ v[k] = w[1] => ~IsWalk(v, c)
  <2>1. w \in Seq(c) /\ Len(w) > 1 /\ \A i \in 1..(Len(w) - 1) : w[i + 1] \in g[w[i]]
    BY <1>5 DEF Witness
  <2>2. Range(w) \subseteq c
    BY <2>1, RangeOfSeq
  <2>3. IsWalk(w, c)
    BY <2>1, <2>2 DEF IsWalk
  <2>4. w[1] = Least(c) /\ Last(w) = Least(c) /\ w[2] = Least(adjacency[w[1]] \cap c)
    BY <1>5 DEF Witness, Last
  <2>5. w[1] \in Range(w)
    <3>1. 1 \in DOMAIN w
      BY <2>1, SeqIs
    <3> QED BY <3>1 DEF Range
  <2>6. ASSUME NEW k \in 1..(Len(w) - 2), NEW v \in [1..k -> c], v[1] = w[2], v[k] = w[1],
               IsWalk(v, c)
        PROVE  FALSE
    <3>1. PICK m \in Nat : m = Len(w)
      BY <2>1, SeqIs
    <3>2. k \in Nat
      BY <3>1
    <3>3. Len(v) = k
      BY <3>2, FunctionIsSeq
    <3>4. Walks(g, c, w[2], k, w[1])
      BY <2>6, <3>3 DEF Walks, IsWalk
    <3> QED BY <1>5, <3>4 DEF Witness
  <2> QED BY <2>1, <2>3, <2>4, <2>5, <2>6
<1>6. ASSUME NEW n \in Vertices
      PROVE  Cycles(g, n) <=> \E c \in Classes(g), w \in witnesses : n \in c /\ Range(w) \subseteq c
  <2>1. ASSUME Cycles(g, n)
        PROVE  \E c \in Classes(g), w \in witnesses : n \in c /\ Range(w) \subseteq c
    <3>1. PICK c \in Classes(g) : n \in c
      <4>1. n \in DOMAIN g /\ Mutual(g, n, n)
        BY <1>2, MutualIs
      <4>2. n \in ClassOf(g, n) /\ ClassOf(g, n) \in Classes(g)
        BY <4>1 DEF ClassOf, Classes
      <4> QED BY <4>2
    <3>2. PICK w \in witnesses : Witness(g, c, w)
      BY <1>3, <2>1, <3>1 DEF Witnessed
    <3>3. IsWalk(w, c)
      BY <1>5, <3>2
    <3>4. Range(w) \subseteq c
      BY <3>3 DEF IsWalk
    <3> QED BY <3>1, <3>2, <3>4
  <2>2. ASSUME NEW c \in Classes(g), NEW w \in witnesses, n \in c, Range(w) \subseteq c
        PROVE  Cycles(g, n)
    <3>1. PICK d \in Classes(g) : Witness(g, d, w)
      BY <1>3 DEF Witnessed
    <3>2. w[1] \in d /\ w[1] \in c
      BY <1>5, <2>2, <3>1 DEF IsWalk
    <3>3. d = c
      BY <3>1, <3>2, ClassesApart
    <3>4. PICK e : e = w[2]
      OBVIOUS
    <3>5. PICK a : a = w[1]
      OBVIOUS
    <3>6. e \in g[a] /\ e \in c /\ a \in c
      <4>1. w \in Seq(c) /\ Len(w) > 1 /\ \A i \in 1..(Len(w) - 1) : w[i + 1] \in g[w[i]]
        BY <3>1, <3>3 DEF Witness
      <4>2. Len(w) \in Nat /\ 1 \in 1..(Len(w) - 1) /\ 2 \in DOMAIN w /\ 1 + 1 = 2
        BY <4>1, SeqIs
      <4>3. w[1 + 1] \in g[w[1]] /\ w[2] \in c
        BY <4>1, <4>2, SeqIs
      <4> QED BY <3>2, <3>4, <3>5, <4>2, <4>3
    <3>7. c = ClassOf(g, n) /\ n \in DOMAIN g
      BY <2>2, ClassesMeet
    <3>8. Leads(g, e, n) /\ Leads(g, n, a) /\ Leads(g, a, n)
      BY <3>6, <3>7 DEF ClassOf, Mutual
    <3>9. CASE a = n
      BY <3>6, <3>8, <3>9 DEF Cycles
    <3>10. CASE a # n
      <4>1. PICK y \in g[n] : Leads(g, y, a)
        BY <1>2, <3>7, <3>8, <3>10, LeadsFirst
      <4>2. Leads(g, y, n)
        BY <3>8, <4>1, LeadsOn
      <4> QED BY <4>1, <4>2 DEF Cycles
    <3> QED BY <3>9, <3>10
  <2> QED BY <2>1, <2>2
<1>7. \A w \in witnesses : \E c \in Classes(g) : Witness(g, c, w)
  BY <1>3 DEF Witnessed
<1>8. WitnessesAreShortest
  <2>1. \A n \in Vertices :
          n \in Reach[n] <=> \E c \in components, w \in witnesses : n \in c /\ Range(w) \subseteq c
    BY <1>1, <1>4, <1>6
  <2>2. \A v, w \in witnesses : v[1] = w[1] => v = w
    BY <1>3 DEF Witnessed
  <2>3. \A w \in witnesses : \E c \in components :
         /\ IsWalk(w, c) /\ Len(w) > 1 /\ w[1] = Least(c) /\ Last(w) = Least(c)
         /\ w[2] = Least(adjacency[w[1]] \cap c)
         /\ \A k \in 1 .. Len(w) - 2 : \A v \in [1 .. k -> c] :
              v[1] = w[2] /\ v[k] = w[1] => ~IsWalk(v, c)
    <3> TAKE w \in witnesses
    <3>1. PICK c \in Classes(g) : Witness(g, c, w)
      BY <1>7
    <3> c \in components
      BY <1>1
    <3> WITNESS c \in components
    <3> QED BY <1>5, <3>1
  <2> QED BY <2>1, <2>2, <2>3 DEF WitnessesAreShortest
<1>9. ASSUME witnesses # {} PROVE \E n \in Vertices : n \in Reach[n]
  <2>1. PICK w \in witnesses : TRUE
    BY <1>9
  <2>2. PICK c \in Classes(g) : Witness(g, c, w)
    BY <1>7
  <2>3. Least(c) \in c /\ c \subseteq Vertices
    BY <1>2, ClassesAre
  <2>4. Range(w) \subseteq c
    BY <1>5, <2>2 DEF IsWalk
  <2> QED BY <1>4, <1>6, <2>3, <2>4
<1>10. witnesses = {} => \A n \in Vertices : n \notin Reach[n]
  BY <1>4, <1>6
<1> QED BY <1>8, <1>9, <1>10


-----------------------------------------------------------------------------
(* The schedule: ls are the layers placed, o their members in order, ind   *)
(* counts what still has to be placed before a node, rd is free of it.     *)

Into(g, n) == {m \in DOMAIN g : n \in g[m]}
Placed(ls) == UNION Range(ls)

Scheduled(g, o, ls, ind, rd) ==
  /\ ls \in Seq(SUBSET DOMAIN g) /\ o \in Seq(DOMAIN g)
  /\ Range(o) = Placed(ls) /\ Len(o) = Cardinality(Placed(ls))
  /\ \A n \in DOMAIN g : ind[n] = Cardinality(Into(g, n) \ Placed(ls))
  /\ rd = {n \in DOMAIN g \ Placed(ls) : Into(g, n) \subseteq Placed(ls)}
  /\ \A i, j \in DOMAIN ls : \A m \in ls[i], n \in ls[j] :
       i < j \/ (i = j /\ m < n) => \E k, l \in DOMAIN o : k < l /\ o[k] = m /\ o[l] = n
  /\ \A i \in DOMAIN ls : \A n \in ls[i] :
       /\ \A m \in Into(g, n) : \E j \in 1..(i - 1) : m \in ls[j]
       /\ i > 1 => Into(g, n) \cap ls[i - 1] # {}
  /\ ls # <<>> => \A n \in rd : Into(g, n) \cap ls[Len(ls)] # {}

LEMMA IntoIs ==
  ASSUME NEW g, IsGraph(g), NEW n, NEW P
  PROVE  /\ IsFiniteSet(Into(g, n) \ P) /\ Cardinality(Into(g, n) \ P) \in Nat
         /\ Cardinality(Into(g, n) \ P) = 0 <=> Into(g, n) \subseteq P
<1>1. Into(g, n) \ P \in SUBSET DOMAIN g
  BY DEF Into
<1>2. IsFiniteSet(Into(g, n) \ P)
  BY <1>1, FS_Subset DEF IsGraph
<1>3. /\ Cardinality(Into(g, n) \ P) \in Nat
      /\ Cardinality(Into(g, n) \ P) = 0 <=> Into(g, n) \ P = {}
  BY <1>2, FS_CardinalityType, FS_EmptySet
<1> QED BY <1>2, <1>3

LEMMA ScheduledNone ==
  ASSUME NEW g, IsGraph(g), NEW ind, \A n \in DOMAIN g : ind[n] = Cardinality(Into(g, n)),
         NEW rd, rd = {n \in DOMAIN g : ind[n] = 0}
  PROVE  Scheduled(g, <<>>, <<>>, ind, rd)
<1>1. PICK none : none = <<>>
  OBVIOUS
<1>2. /\ Placed(none) = {} /\ Range(none) = {} /\ DOMAIN none = {} /\ Len(none) = 0
      /\ \A X : none \in Seq(X)
  BY <1>1 DEF Placed, Range
<1>3. \A n : Into(g, n) \ {} = Into(g, n)
  OBVIOUS
<1>4. \A n \in DOMAIN g : ind[n] = 0 <=> Into(g, n) \subseteq {}
  <2> TAKE n \in DOMAIN g
  <2>1. Cardinality(Into(g, n) \ {}) = 0 <=> Into(g, n) \subseteq {}
    BY IntoIs
  <2>2. ind[n] = Cardinality(Into(g, n) \ {})
    BY <1>3
  <2> QED BY <2>1, <2>2
<1>5. rd = {n \in DOMAIN g \ {} : Into(g, n) \subseteq {}}
  BY <1>4
<1>6. Cardinality({}) = 0
  BY FS_EmptySet
<1>7. Scheduled(g, none, none, ind, rd)
  BY <1>1, <1>2, <1>3, <1>5, <1>6 DEF Scheduled
<1> QED BY <1>1, <1>7

(* The members of a layer in order, and what is left when it is placed.    *)
Lists(a, rd) ==
  /\ a \in Seq(rd) /\ Len(a) = Cardinality(rd) /\ Range(a) = rd
  /\ \A k, l \in DOMAIN a : k < l => a[k] < a[l]

Leaves(g, ind, rd, jnd, sd) ==
  /\ \A n \in DOMAIN g : jnd[n] = ind[n] - Cardinality(Into(g, n) \cap rd)
  /\ sd = {n \in DOMAIN g : jnd[n] = 0 /\ ind[n] > 0}

LEMMA ScheduledMore ==
  ASSUME NEW g, IsGraph(g), NEW o, NEW ls, NEW ind, NEW rd, Scheduled(g, o, ls, ind, rd),
         NEW a, Lists(a, rd), NEW p \in Seq(DOMAIN g), p = o \o a,
         NEW ms \in Seq(SUBSET DOMAIN g), Extended(ms, ls, rd),
         NEW jnd, NEW sd, Leaves(g, ind, rd, jnd, sd)
  PROVE  Scheduled(g, p, ms, jnd, sd)
<1> DEFINE V == DOMAIN g
           P == Placed(ls)
           Q == P \cup rd
<1>1. /\ ls \in Seq(SUBSET V) /\ o \in Seq(V) /\ Range(o) = P /\ Len(o) = Cardinality(P)
      /\ \A n \in V : ind[n] = Cardinality(Into(g, n) \ P)
      /\ rd = {n \in V \ P : Into(g, n) \subseteq P}
  BY DEF Scheduled
<1>a. /\ a \in Seq(rd) /\ Len(a) = Cardinality(rd) /\ Range(a) = rd
      /\ \A k, l \in DOMAIN a : k < l => a[k] < a[l]
  BY DEF Lists
<1>b. /\ \A n \in V : jnd[n] = ind[n] - Cardinality(Into(g, n) \cap rd)
      /\ sd = {n \in V : jnd[n] = 0 /\ ind[n] > 0}
  BY DEF Leaves
<1>2. /\ Len(ls) \in Nat /\ Len(ms) = Len(ls) + 1 /\ DOMAIN ms = 1..Len(ms)
      /\ DOMAIN ls = 1..Len(ls) /\ Len(ms) \in DOMAIN ms /\ DOMAIN ls \subseteq DOMAIN ms
      /\ \A i \in DOMAIN ms : i \in DOMAIN ls \/ i = Len(ms)
      /\ ms[Len(ms)] = rd /\ \A i \in DOMAIN ls : ms[i] = ls[i]
  <2> PICK X : X = SUBSET V
    OBVIOUS
  <2>1. ls \in Seq(X) /\ ms \in Seq(X)
    BY <1>1
  <2> QED BY <2>1, ExtendedIs
<1>3. Range(ms) = Range(ls) \cup {rd}
  BY ONLY <1>2 DEF Range
<1>4. Placed(ms) = Q
  BY <1>3 DEF Placed
<1>5. \A i \in DOMAIN ls : \A n \in ls[i] : n \in P
  BY DEF Placed, Range
<1>6. ASSUME NEW n \in P PROVE \E i \in DOMAIN ls : n \in ls[i]
  BY DEF Placed, Range
<1>7. ASSUME NEW n \in P PROVE Into(g, n) \subseteq P
  <2>1. PICK i \in DOMAIN ls : n \in ls[i]
    BY <1>6
  <2>2. \A m \in Into(g, n) : \E j \in 1..(i - 1) : m \in ls[j]
    BY <2>1 DEF Scheduled
  <2>3. \A j \in 1..(i - 1) : j \in DOMAIN ls
    BY <1>2
  <2> QED BY <1>5, <2>2, <2>3
<1>8. IsFiniteSet(P) /\ IsFiniteSet(rd) /\ P \subseteq V /\ rd \cap P = {}
  <2>1. P \subseteq V /\ rd \subseteq V
    <3>1. Range(o) \subseteq V
      BY <1>1, RangeOfSeq
    <3> QED BY <1>1, <3>1
  <2> HIDE DEF P
  <2> QED BY <1>1, <2>1, FS_Subset DEF IsGraph
<1> HIDE DEF P
<1>9. ASSUME NEW n \in V PROVE jnd[n] = Cardinality(Into(g, n) \ Q)
  <2> DEFINE S == Into(g, n) \ P
  <2>1. IsFiniteSet(S)
    BY IntoIs
  <2>2. S \cap rd = Into(g, n) \cap rd /\ S \ rd = Into(g, n) \ Q
    BY <1>8
  <2> HIDE DEF S
  <2>3. Cardinality(S \ rd) = Cardinality(S) - Cardinality(S \cap rd)
    BY <1>8, <2>1, FS_Difference
  <2> QED BY <1>1, <1>b, <2>2, <2>3 DEF S
<1>10. sd = {n \in V \ Q : Into(g, n) \subseteq Q}
  <2>1. ASSUME NEW n \in V
        PROVE  /\ jnd[n] = 0 <=> Into(g, n) \subseteq Q
               /\ ind[n] > 0 <=> ~ Into(g, n) \subseteq P
    <3>1. /\ Cardinality(Into(g, n) \ P) \in Nat
          /\ Cardinality(Into(g, n) \ P) = 0 <=> Into(g, n) \subseteq P
          /\ Cardinality(Into(g, n) \ Q) = 0 <=> Into(g, n) \subseteq Q
      BY IntoIs
    <3>2. ind[n] = Cardinality(Into(g, n) \ P) /\ jnd[n] = Cardinality(Into(g, n) \ Q)
      BY <1>1, <1>9
    <3>3. PICK x \in Nat : x = Cardinality(Into(g, n) \ P)
      BY <3>1
    <3>4. x > 0 <=> x # 0
      OBVIOUS
    <3> QED BY ONLY <3>1, <3>2, <3>3, <3>4
  <2>2. ASSUME NEW n \in V PROVE n \in Q <=> Into(g, n) \subseteq P
    BY <1>1, <1>7
  <2> HIDE DEF Q
  <2>3. ASSUME NEW n \in V
        PROVE  (jnd[n] = 0 /\ ind[n] > 0) <=> (n \notin Q /\ Into(g, n) \subseteq Q)
    BY <2>1, <2>2
  <2> QED BY <1>b, <2>3
<1>11. Range(p) = Q /\ Len(p) = Cardinality(Q)
  <2>1. a \in Seq(V)
    <3>1. rd \subseteq V
      BY <1>1
    <3> HIDE DEF V
    <3> QED BY <1>a, <3>1, SeqMonotonic
  <2>2. Range(p) = Range(o) \cup Range(a)
    <3> HIDE DEF V
    <3> QED BY <1>1, <2>1, RangeConcatenation
  <2>3. Len(p) = Len(o) + Len(a)
    <3>1. Len(o \o a) = Len(o) + Len(a)
      <4> PICK X : X = V
        OBVIOUS
      <4>1. o \in Seq(X) /\ a \in Seq(X)
        BY <1>1, <2>1
      <4> QED BY ONLY <4>1, ConcatProperties
    <3> QED BY <3>1
  <2>4. Cardinality(P \cup rd) = Cardinality(P) + Cardinality(rd) - Cardinality(P \cap rd)
    BY <1>8, FS_Union
  <2>5. P \cap rd = {} /\ Cardinality({}) = 0
    BY <1>8, FS_EmptySet
  <2>6. Cardinality(P) \in Nat /\ Cardinality(rd) \in Nat
    BY <1>8, FS_CardinalityType
  <2>7. Cardinality(P \cup rd) = Cardinality(P) + Cardinality(rd)
    <3>1. PICK x \in Nat, y \in Nat : x = Cardinality(P) /\ y = Cardinality(rd)
      BY <2>6
    <3>2. Cardinality(P \cap rd) = 0
      BY <2>5
    <3>3. x + y - 0 = x + y
      OBVIOUS
    <3> QED BY ONLY <2>4, <3>1, <3>2, <3>3
  <2> QED BY <1>1, <1>a, <2>2, <2>3, <2>7
<1>12. /\ Len(o) \in Nat /\ DOMAIN o = 1..Len(o) /\ DOMAIN a = 1..Len(a) /\ Len(a) \in Nat
       /\ DOMAIN p = 1..(Len(o) + Len(a))
       /\ \A i \in 1..Len(o) : i \in DOMAIN p /\ p[i] = o[i]
       /\ \A i \in 1..Len(a) : Len(o) + i \in DOMAIN p /\ p[Len(o) + i] = a[i]
  <2>1. Len(o) \in Nat /\ DOMAIN o = 1..Len(o) /\ DOMAIN a = 1..Len(a) /\ Len(a) \in Nat
    BY <1>1, <1>a
  <2>2. DOMAIN p = 1..(Len(o) + Len(a))
    BY ONLY <1>1, <1>a, p = o \o a
  <2>3. \A i \in 1..Len(o) : p[i] = o[i]
    BY ONLY <1>1, <1>a, p = o \o a
  <2>4. \A i \in 1..Len(a) : p[Len(o) + i] = a[i]
    BY ONLY <1>1, <1>a, p = o \o a
  <2>5. /\ \A i \in 1..Len(o) : i \in 1..(Len(o) + Len(a))
        /\ \A i \in 1..Len(a) : Len(o) + i \in 1..(Len(o) + Len(a))
    BY <2>1
  <2> QED BY <2>1, <2>2, <2>3, <2>4, <2>5
<1>13. ASSUME NEW i \in DOMAIN ms, NEW j \in DOMAIN ms, NEW m \in ms[i], NEW n \in ms[j],
              i < j \/ (i = j /\ m < n)
       PROVE  \E k, l \in DOMAIN p : k < l /\ p[k] = m /\ p[l] = n
  <2>1. CASE j \in DOMAIN ls
    <3>1. i \in DOMAIN ls /\ m \in ls[i] /\ n \in ls[j]
      BY <1>2, <1>13, <2>1
    <3>2. PICK k \in DOMAIN o, l \in DOMAIN o : k < l /\ o[k] = m /\ o[l] = n
      BY <1>13, <2>1, <3>1 DEF Scheduled
    <3> QED BY <1>12, <3>2
  <2>2. CASE j = Len(ms) /\ i \in DOMAIN ls
    <3>1. m \in P /\ n \in rd
      BY <1>2, <1>5, <2>2
    <3>2. PICK k \in 1..Len(o) : o[k] = m
      BY <1>1, <1>12, <3>1 DEF Range
    <3>3. PICK l \in 1..Len(a) : a[l] = n
      BY <1>12, <1>a, <3>1 DEF Range
    <3>4. k < Len(o) + l
      BY <1>12
    <3> QED BY <1>12, <3>2, <3>3, <3>4
  <2>3. CASE j = Len(ms) /\ i = Len(ms)
    <3>1. m \in rd /\ n \in rd /\ m < n /\ m \in Nat /\ n \in Nat
      <4>1. m \in rd /\ n \in rd
        BY <1>2, <2>3
      <4>2. m < n
        BY <1>2, <1>13, <2>3
      <4> QED BY <1>1, <4>1, <4>2 DEF IsGraph
    <3>2. PICK k \in 1..Len(a) : a[k] = m
      BY <1>12, <1>a, <3>1 DEF Range
    <3>3. PICK l \in 1..Len(a) : a[l] = n
      BY <1>12, <1>a, <3>1 DEF Range
    <3>4. k < l
      <4>1. k # l
        BY <3>1, <3>2, <3>3
      <4>2. ~ l < k
        <5>1. l < k => a[l] < a[k]
          BY <1>12, <1>a
        <5> QED BY <3>1, <3>2, <3>3, <5>1
      <4> QED BY <1>12, <4>1, <4>2
    <3>5. Len(o) + k < Len(o) + l
      BY <1>12, <3>4
    <3> QED BY <1>12, <3>2, <3>3, <3>5
  <2> QED BY <1>2, <2>1, <2>2, <2>3
<1>14. ASSUME NEW i \in DOMAIN ms, NEW n \in ms[i]
       PROVE  /\ \A m \in Into(g, n) : \E j \in 1..(i - 1) : m \in ms[j]
              /\ i > 1 => Into(g, n) \cap ms[i - 1] # {}
  <2>1. CASE i \in DOMAIN ls
    <3>1. n \in ls[i]
      BY <1>2, <2>1
    <3>2. /\ \A m \in Into(g, n) : \E j \in 1..(i - 1) : m \in ls[j]
          /\ i > 1 => Into(g, n) \cap ls[i - 1] # {}
      BY <2>1, <3>1 DEF Scheduled
    <3>3. \A j \in 1..(i - 1) : ms[j] = ls[j]
      <4>1. i \in 1..Len(ls) /\ Len(ls) \in Nat
        BY <2>1, <1>2
      <4>2. ASSUME NEW j \in 1..(i - 1) PROVE j \in DOMAIN ls
        <5> QED BY ONLY <4>1, <1>2, j \in 1..(i - 1)
      <4> QED BY <1>2, <4>2
    <3>4. i > 1 => i - 1 \in 1..(i - 1)
      BY <1>2, <2>1
    <3> QED BY <3>2, <3>3, <3>4
  <2>2. CASE i = Len(ms)
    <3>1. n \in rd /\ i - 1 = Len(ls)
      BY <1>2, <2>2
    <3>2. Into(g, n) \subseteq P
      BY <1>1, <3>1
    <3>3. \A m \in Into(g, n) : \E j \in 1..Len(ls) : m \in ms[j]
      BY <1>2, <1>6, <3>2
    <3>4. ASSUME i > 1 PROVE Into(g, n) \cap ms[i - 1] # {}
      <4>1. ls # <<>> /\ Len(ls) \in DOMAIN ls
        BY <1>2, <3>1, <3>4
      <4>2. Into(g, n) \cap ls[Len(ls)] # {}
        BY <3>1, <4>1 DEF Scheduled
      <4> QED BY <1>2, <3>1, <4>1, <4>2
    <3> QED BY <3>1, <3>3, <3>4
  <2> QED BY <1>2, <2>1, <2>2
<1>15. \A n \in sd : Into(g, n) \cap ms[Len(ms)] # {}
  <2> SUFFICES ASSUME NEW n \in sd PROVE Into(g, n) \cap rd # {}
    BY <1>2
  <2>1. n \in V /\ n \notin P /\ n \notin rd /\ Into(g, n) \subseteq P \cup rd
    BY <1>10
  <2>2. ~ Into(g, n) \subseteq P
    BY <1>1, <2>1
  <2> QED BY <2>1, <2>2
<1> QED BY <1>4, <1>9, <1>10, <1>11, <1>13, <1>14, <1>15 DEF Scheduled


(* Without a cycle the placing ends only when every node is placed.        *)
LEMMA ScheduledWhole ==
  ASSUME NEW g, IsGraph(g), NEW o, NEW ls, NEW ind, Scheduled(g, o, ls, ind, {}),
         \A n \in DOMAIN g : ~ Cycles(g, n)
  PROVE  Placed(ls) = DOMAIN g
<1> DEFINE V == DOMAIN g
           P == Placed(ls)
           Upon(n) == {m \in V : Leads(g, m, n)}
           T == {Cardinality(Upon(n)) : n \in V \ P}
<1>1. P \subseteq V /\ \A n \in V \ P : ~ Into(g, n) \subseteq P
  <2>1. o \in Seq(V) /\ Range(o) = P /\ {} = {n \in V \ P : Into(g, n) \subseteq P}
    BY DEF Scheduled
  <2>2. Range(o) \subseteq V
    BY <2>1, RangeOfSeq
  <2> QED BY <2>1, <2>2
<1> HIDE DEF P
<1> SUFFICES ASSUME V \ P # {} PROVE FALSE
  BY <1>1 DEF P
<1>2. ASSUME NEW n \in V PROVE IsFiniteSet(Upon(n)) /\ Cardinality(Upon(n)) \in Nat
  <2>1. Upon(n) \in SUBSET V
    OBVIOUS
  <2> HIDE DEF Upon
  <2> QED BY <2>1, FS_Subset, FS_CardinalityType DEF IsGraph
<1>3. T \in SUBSET Nat /\ T # {}
  <2> HIDE DEF Upon
  <2> QED BY <1>2
<1>4. PICK k \in T : \A m \in T : k <= m
  <2> HIDE DEF T
  <2> QED BY <1>3, LeastNumber
<1>5. PICK n \in V \ P : \A m \in V \ P : Cardinality(Upon(n)) <= Cardinality(Upon(m))
  <2> HIDE DEF Upon
  <2> QED BY <1>4
<1>6. PICK m \in V \ P : n \in g[m]
  BY <1>1 DEF Into
<1>7. Upon(m) \subseteq Upon(n)
  BY <1>6, LeadsEdge, LeadsOn
<1>8. n \in Upon(n) /\ n \notin Upon(m)
  <2>1. n \in Upon(n)
    BY LeadsSelf
  <2>2. ASSUME Leads(g, n, m) PROVE FALSE
    <3>1. CASE m = n
      BY <1>6, <3>1, LeadsSelf DEF Cycles
    <3>2. CASE m # n
      <4>1. PICK w \in g[n] : Leads(g, w, m)
        BY <2>2, <3>2, LeadsFirst
      <4>2. Leads(g, w, n)
        BY <1>6, <4>1, LeadsEdge, LeadsOn
      <4> QED BY <4>1, <4>2 DEF Cycles
    <3> QED BY <3>1, <3>2
  <2> QED BY <2>1, <2>2
<1>9. IsFiniteSet(Upon(n)) /\ Upon(m) \in SUBSET Upon(n) /\ Upon(m) # Upon(n)
  BY <1>2, <1>7, <1>8
<1>10. Cardinality(Upon(m)) < Cardinality(Upon(n))
  <2>1. Cardinality(Upon(m)) \in Nat /\ Cardinality(Upon(n)) \in Nat
    BY <1>2
  <2> HIDE DEF Upon
  <2> QED BY <1>9, <2>1, FS_Subset
<1>11. Cardinality(Upon(m)) \in Nat /\ Cardinality(Upon(n)) \in Nat
  BY <1>2
<1>12. Cardinality(Upon(n)) <= Cardinality(Upon(m))
  BY <1>5
<1> PICK x : x = Cardinality(Upon(m))
  OBVIOUS
<1> PICK y : y = Cardinality(Upon(n))
  OBVIOUS
<1>13. x < y /\ y <= x /\ x \in Nat /\ y \in Nat
  BY <1>10, <1>11, <1>12
<1> QED BY ONLY <1>13

-----------------------------------------------------------------------------
(* The schedule, step by step.                                             *)

SchedulePart ==
  /\ phase \in {"index", "search", "gather", "witness"} => order = <<>> /\ layers = <<>>
  /\ phase = "schedule" =>
       /\ witnesses = {}
       /\ Scheduled(adjacency, order, layers, indegree, ready)
  /\ Analysed /\ witnesses = {} => Scheduled(adjacency, order, layers, indegree, {})

LEMMA ReverseIsInto ==
  ASSUME DOMAIN adjacency = NodeIds(document), NEW n \in NodeIds(document)
  PROVE  reverse[n] = Into(adjacency, n)
BY DEF reverse, Into

LEMMA ScheduleStarts == ASSUME GraphInit PROVE SchedulePart
BY DEF GraphInit, SchedulePart, Analysed

LEMMA ScheduleBefore ==
  ASSUME FoundInv, SchedulePart,
         \/ Index \/ Fail \/ SearchStart \/ SearchStep \/ SearchEnd
         \/ GatherStart \/ GatherStep \/ GatherComponent \/ GatherEnd
         \/ WitnessStart \/ WitnessTry \/ WitnessStep
  PROVE  SchedulePart'
<1>1. CASE phase = "failed"
  <2>1. phase' = "done" /\ error' = error /\ error # "none"
    BY <1>1 DEF Index, Fail, SearchStart, SearchStep, SearchEnd, GatherStart, GatherStep,
         GatherComponent, GatherEnd, WitnessStart, WitnessTry, WitnessStep, FoundInv, IndexPart
  <2> QED BY <2>1 DEF SchedulePart, Analysed
<1>2. CASE phase = "index"
  <2>1. Index
    BY <1>2 DEF Fail, SearchStart, SearchStep, SearchEnd, GatherStart, GatherStep,
         GatherComponent, GatherEnd, WitnessStart, WitnessTry, WitnessStep
  <2>2. /\ order' = <<>> /\ layers' = <<>> /\ phase' \in {"search", "failed", "done"}
        /\ ~ Analysed'
    BY <1>2, <2>1 DEF Index, schedule, SchedulePart, Analysed
  <2> QED BY <2>2 DEF SchedulePart
<1>3. CASE phase \in {"search", "gather", "witness"}
  <2>1. order' = <<>> /\ layers' = <<>>
    BY <1>3 DEF Index, Fail, SearchStart, SearchStep, SearchEnd, GatherStart, GatherStep,
         GatherComponent, GatherEnd, WitnessStart, WitnessTry, WitnessStep, schedule, SchedulePart
  <2>2. phase' \in {"search", "gather", "witness"}
    BY <1>3 DEF Index, Fail, SearchStart, SearchStep, SearchEnd, GatherStart, GatherStep,
         GatherComponent, GatherEnd, WitnessStart, WitnessTry, WitnessStep
  <2> QED BY <2>1, <2>2 DEF SchedulePart, Analysed
<1> QED BY <1>1, <1>2, <1>3 DEF Index, Fail, SearchStart, SearchStep, SearchEnd, GatherStart,
     GatherStep, GatherComponent, GatherEnd, WitnessStart, WitnessTry, WitnessStep

LEMMA ScheduleHas ==
  ASSUME FoundInv, phase \in {"witness", "schedule"}
  PROVE  /\ IsGraph(adjacency) /\ DOMAIN adjacency = NodeIds(document) /\ error = "none"
<1>1. IndexPart /\ adjacency = Adjacency(document) /\ error = "none"
  BY DEF FoundInv, IndexPart, Past
<1> QED BY <1>1, AdjacencyIs

LEMMA ScheduleWitnessEnd == ASSUME FoundInv, SchedulePart, WitnessEnd PROVE SchedulePart'
<1>1. /\ phase = "witness" /\ adjacency' = adjacency /\ witnesses' = witnesses
      /\ order' = <<>> /\ layers' = <<>>
  BY DEF WitnessEnd, SchedulePart
<1>2. CASE witnesses = {}
  <2>1. /\ phase' = "schedule"
        /\ indegree' = [n \in NodeIds(document) |-> Indegree(n)]
        /\ ready' = {n \in NodeIds(document) : Indegree(n) = 0}
    BY <1>2 DEF WitnessEnd
  <2>2. IsGraph(adjacency) /\ DOMAIN adjacency = NodeIds(document)
    BY <1>1, ScheduleHas
  <2>3. \A n \in DOMAIN adjacency : indegree'[n] = Cardinality(Into(adjacency, n))
    BY <2>1, <2>2, ReverseIsInto DEF Indegree
  <2>4. ready' = {n \in DOMAIN adjacency : indegree'[n] = 0}
    BY <2>1, <2>2
  <2>5. Scheduled(adjacency, <<>>, <<>>, indegree', ready')
    BY <2>2, <2>3, <2>4, ScheduledNone
  <2> QED BY <1>1, <1>2, <2>1, <2>5 DEF SchedulePart, Analysed
<1>3. CASE witnesses # {}
  <2>1. phase' = "done"
    BY <1>3 DEF WitnessEnd
  <2> QED BY <1>1, <1>3, <2>1 DEF SchedulePart
<1> QED BY <1>2, <1>3

LEMMA ScheduleLayer == ASSUME FoundInv, SchedulePart, Layer PROVE SchedulePart'
<1> DEFINE g == adjacency
           V == DOMAIN adjacency
           a == Ascending(ready)
<1>1. /\ phase = "schedule" /\ phase' = "schedule" /\ g' = g /\ witnesses' = witnesses
      /\ order' = order \o a /\ layers' = Append(layers, ready)
      /\ indegree' = [n \in NodeIds(document) |-> indegree[n] - Cardinality(reverse[n] \cap ready)]
  BY DEF Layer
<1>2. ready' = {n \in NodeIds(document) : indegree'[n] = 0 /\ indegree[n] > 0}
  BY DEF Layer
<1>3. /\ IsGraph(g) /\ V = NodeIds(document) /\ witnesses = {}
      /\ Scheduled(g, order, layers, indegree, ready)
  BY <1>1, ScheduleHas DEF SchedulePart
<1>4. /\ ready \in SUBSET V /\ ready \in SUBSET Nat /\ IsFiniteSet(ready)
      /\ order \in Seq(V) /\ layers \in Seq(SUBSET V)
  <2>1. ready \in SUBSET V /\ order \in Seq(V) /\ layers \in Seq(SUBSET V)
    BY <1>3 DEF Scheduled
  <2> QED BY <1>3, <2>1, FS_Subset DEF IsGraph
<1>5. /\ a \in Seq(ready) /\ Len(a) = Cardinality(ready) /\ Range(a) = ready
      /\ \A k, l \in DOMAIN a : k < l => a[k] < a[l]
  BY <1>4, AscendingIs
<1> HIDE DEF a
<1>6. order' \in Seq(V)
  <2>1. a \in Seq(V)
    BY <1>4, <1>5, SeqMonotonic
  <2> QED BY <1>1, <1>4, <2>1, ConcatProperties
<1>7. layers' \in Seq(SUBSET V) /\ Extended(layers', layers, ready)
  <2> PICK X : X = SUBSET V
    OBVIOUS
  <2>1. layers \in Seq(X) /\ ready \in X
    BY <1>4
  <2>2. Append(layers, ready) \in Seq(X) /\ Extended(Append(layers, ready), layers, ready)
    BY ONLY <2>1, AppendExtends
  <2> QED BY <1>1, <2>2
<1>8. \A n \in V : indegree'[n] = indegree[n] - Cardinality(Into(g, n) \cap ready)
  <2> TAKE n \in V
  <2>1. reverse[n] = Into(g, n)
    BY <1>3, ReverseIsInto
  <2> QED BY <1>1, <1>3, <2>1
<1>9. ready' = {n \in V : indegree'[n] = 0 /\ indegree[n] > 0}
  BY <1>2, <1>3
<1>10. Scheduled(g, order', layers', indegree', ready')
  <2> PICK k : k = order'
    OBVIOUS
  <2> PICK ms : ms = layers'
    OBVIOUS
  <2> PICK jnd : jnd = indegree'
    OBVIOUS
  <2> PICK sd : sd = ready'
    OBVIOUS
  <2>1. k \in Seq(V) /\ k = order \o a /\ ms \in Seq(SUBSET V) /\ Extended(ms, layers, ready)
    BY <1>1, <1>6, <1>7
  <2>2. /\ \A n \in V : jnd[n] = indegree[n] - Cardinality(Into(g, n) \cap ready)
        /\ sd = {n \in V : jnd[n] = 0 /\ indegree[n] > 0}
    BY <1>8, <1>9
  <2>3. Leaves(g, indegree, ready, jnd, sd) /\ Lists(a, ready)
    BY <1>5, <2>2 DEF Leaves, Lists
  <2>4. Scheduled(g, k, ms, jnd, sd)
    BY ONLY <1>3, <2>1, <2>3, ScheduledMore
  <2> QED BY <2>4
<1> QED BY <1>1, <1>3, <1>10 DEF SchedulePart, Analysed

LEMMA ScheduleLast ==
  ASSUME SchedulePart, ScheduleEnd \/ UNCHANGED graphVars PROVE SchedulePart'
<1>1. CASE ScheduleEnd
  <2>1. /\ phase = "schedule" /\ ready = {} /\ phase' = "done" /\ adjacency' = adjacency
        /\ order' = order /\ layers' = layers /\ indegree' = indegree
    BY <1>1 DEF ScheduleEnd, schedule
  <2>2. Scheduled(adjacency, order, layers, indegree, {})
    BY <2>1 DEF SchedulePart
  <2> QED BY <2>1, <2>2 DEF SchedulePart
<1>2. CASE UNCHANGED graphVars
  BY <1>2 DEF SchedulePart, Analysed, graphVars, schedule
<1> QED BY <1>1, <1>2

LEMMA ScheduleNext ==
  ASSUME FoundInv, SchedulePart, [GraphNext]_graphVars PROVE SchedulePart'
BY ScheduleBefore, ScheduleWitnessEnd, ScheduleLayer, ScheduleLast DEF GraphNext

LEMMA ScheduleTells ==
  ASSUME FoundInv, WitnessPart, SchedulePart PROVE ScheduleIsTopological
<1> SUFFICES ASSUME Analysed, witnesses = {} PROVE ScheduleIsTopological
  BY DEF ScheduleIsTopological
<1> DEFINE g == adjacency
<1>1. IndexPart /\ g = Adjacency(document) /\ document \in Documents
  BY DEF FoundInv, IndexPart, Past
<1>2. IsGraph(g) /\ DOMAIN g = NodeIds(document) /\ Vertices = NodeIds(document)
  BY <1>1, AdjacencyIs
<1>3. Scheduled(g, order, layers, indegree, {})
  BY DEF SchedulePart
<1>4. \A n \in DOMAIN g : ~ Cycles(g, n)
  <2> TAKE n \in DOMAIN g
  <2>1. n \in Vertices /\ n \notin Reach[n]
    BY <1>2, WitnessesTell
  <2> QED BY <1>1, <1>2, <2>1, ReachIs DEF Cycles
<1>5. Placed(layers) = Vertices
  BY <1>2, <1>3, <1>4, ScheduledWhole
<1>6. /\ Range(order) = Vertices /\ Len(order) = Cardinality(Vertices)
      /\ UNION Range(layers) = Vertices
  BY <1>3, <1>5 DEF Scheduled, Placed
<1>7. \A i, j \in DOMAIN layers : \A m \in layers[i], n \in layers[j] :
         i < j \/ (i = j /\ m < n) =>
           \E k, l \in DOMAIN order : k < l /\ order[k] = m /\ order[l] = n
  BY <1>3 DEF Scheduled
<1>8. ASSUME NEW i \in DOMAIN layers, NEW n \in layers[i]
      PROVE  /\ \A m \in reverse[n] : \E j \in 1 .. i - 1 : m \in layers[j]
             /\ i > 1 => reverse[n] \cap layers[i - 1] # {}
  <2>1. n \in Vertices
    BY <1>6 DEF Range
  <2>2. reverse[n] = Into(g, n)
    BY <1>2, <2>1, ReverseIsInto
  <2>3. /\ \A m \in Into(g, n) : \E j \in 1..(i - 1) : m \in layers[j]
        /\ i > 1 => Into(g, n) \cap layers[i - 1] # {}
    BY <1>3 DEF Scheduled
  <2> QED BY <2>2, <2>3
<1> QED BY <1>6, <1>7, <1>8 DEF ScheduleIsTopological


-----------------------------------------------------------------------------
(* What validation says.                                                   *)

Noted == IF request.task = "validate" THEN Diagnose(document, request) ELSE {}

DiagnosisPart ==
  /\ phase = "index" => diagnostics = {}
  /\ phase \notin {"index", "done"} => diagnostics = Noted
  /\ phase \in {"search", "gather"} \/ Past => IndexError(document, request) = "none"
  /\ phase = "failed" => error = IndexError(document, request)
  /\ phase = "done" /\ request.task = "validate" /\ request.dag =>
       \/ /\ error = "none"
          /\ diagnostics = Noted \cup (IF witnesses = {} THEN {} ELSE {"cycle"})
       \/ /\ error # "none" /\ error = IndexError(document, request)
          /\ diagnostics = Noted \cup FailureCodes(error)
  /\ phase = "schedule" => witnesses = {}

LEMMA DiagnosisStarts == ASSUME GraphInit PROVE DiagnosisPart
BY DEF GraphInit, DiagnosisPart, Past, Analysed

LEMMA DiagnosisIndex == ASSUME FoundInv, DiagnosisPart, Index PROVE DiagnosisPart'
<1>1. /\ phase = "index" /\ error = "none" /\ document' = document /\ request' = request
  BY DEF Index, FoundInv, IndexPart
<1>2. diagnostics' = Noted /\ Noted' = Noted
  BY <1>1 DEF Index, Noted
<1>3. CASE request.task = "validate" /\ ~request.dag
  <2>1. phase' = "done"
    BY <1>3 DEF Index
  <2>2. ~ Past'
    BY <1>1, <1>3, <2>1 DEF Past, Analysed
  <2> QED BY <1>1, <1>3, <2>1, <2>2 DEF DiagnosisPart
<1>4. CASE ~ (request.task = "validate" /\ ~request.dag)
  <2>1. /\ error' = IndexError(document, request)
        /\ phase' = IF error' = "none" THEN "search" ELSE "failed"
    BY <1>4 DEF Index
  <2>2. ~ Past'
    BY <2>1 DEF Past, Analysed
  <2> QED BY <1>1, <1>2, <2>1, <2>2 DEF DiagnosisPart
<1> QED BY <1>3, <1>4

LEMMA DiagnosisFail == ASSUME FoundInv, DiagnosisPart, Fail PROVE DiagnosisPart'
<1>1. /\ phase = "failed" /\ phase' = "done" /\ document' = document /\ request' = request
      /\ error' = error /\ error # "none"
      /\ request.task = "validate" => diagnostics' = diagnostics \cup FailureCodes(error)
  BY DEF Fail, FoundInv, IndexPart
<1>2. diagnostics = Noted /\ error = IndexError(document, request) /\ Noted' = Noted
  BY <1>1 DEF DiagnosisPart, Noted
<1>3. ~ Past' /\ FailureCodes(error)' = FailureCodes(error)
  BY <1>1 DEF Past, Analysed, FailureCodes
<1> QED BY <1>1, <1>2, <1>3 DEF DiagnosisPart

LEMMA DiagnosisRuns ==
  ASSUME FoundInv, DiagnosisPart,
         \/ SearchStart \/ SearchStep \/ SearchEnd
         \/ GatherStart \/ GatherStep \/ GatherComponent \/ GatherEnd
         \/ WitnessStart \/ WitnessTry \/ WitnessStep \/ Layer
  PROVE  DiagnosisPart'
<1>1. /\ document' = document /\ request' = request /\ diagnostics' = diagnostics
      /\ error' = error
      /\ phase \in {"search", "gather", "witness", "schedule"}
      /\ phase' \in {"search", "gather", "witness", "schedule"}
      /\ phase' = "schedule" => phase = "schedule" /\ witnesses' = witnesses
  BY DEF SearchStart, SearchStep, SearchEnd, GatherStart, GatherStep, GatherComponent, GatherEnd,
         WitnessStart, WitnessTry, WitnessStep, Layer
<1>2. Noted' = Noted /\ diagnostics = Noted /\ IndexError(document, request) = "none"
  BY <1>1 DEF Noted, DiagnosisPart, Past
<1> QED BY <1>1, <1>2 DEF DiagnosisPart

LEMMA DiagnosisWitnessEnd == ASSUME FoundInv, DiagnosisPart, WitnessEnd PROVE DiagnosisPart'
<1>1. /\ document' = document /\ request' = request /\ error' = error /\ error = "none"
      /\ phase = "witness" /\ witnesses' = witnesses
  BY DEF WitnessEnd, FoundInv, IndexPart
<1>2. Noted' = Noted /\ diagnostics = Noted /\ IndexError(document, request) = "none"
  BY <1>1 DEF Noted, DiagnosisPart, Past
<1>3. CASE witnesses = {}
  <2>1. phase' = "schedule" /\ diagnostics' = diagnostics
    BY <1>3 DEF WitnessEnd
  <2> QED BY <1>1, <1>2, <1>3, <2>1 DEF DiagnosisPart
<1>4. CASE witnesses # {}
  <2>1. phase' = "done"
    BY <1>4 DEF WitnessEnd
  <2>2. request.task = "validate" => diagnostics' = diagnostics \cup {"cycle"}
    BY <1>4 DEF WitnessEnd
  <2> QED BY <1>1, <1>2, <1>4, <2>1, <2>2 DEF DiagnosisPart
<1> QED BY <1>3, <1>4

LEMMA DiagnosisEnd == ASSUME FoundInv, DiagnosisPart, ScheduleEnd PROVE DiagnosisPart'
<1>1. /\ document' = document /\ request' = request /\ error' = error /\ error = "none"
      /\ phase = "schedule" /\ phase' = "done" /\ witnesses' = witnesses
      /\ diagnostics' = diagnostics
  BY DEF ScheduleEnd, FoundInv, IndexPart
<1>2. /\ Noted' = Noted /\ diagnostics = Noted /\ IndexError(document, request) = "none"
      /\ witnesses = {}
  BY <1>1 DEF Noted, DiagnosisPart, Past
<1> QED BY <1>1, <1>2 DEF DiagnosisPart

LEMMA DiagnosisStays == ASSUME DiagnosisPart, UNCHANGED graphVars PROVE DiagnosisPart'
BY DEF DiagnosisPart, Noted, Past, Analysed, FailureCodes, graphVars

LEMMA DiagnosisNext ==
  ASSUME FoundInv, DiagnosisPart, [GraphNext]_graphVars PROVE DiagnosisPart'
BY DiagnosisIndex, DiagnosisFail, DiagnosisRuns, DiagnosisWitnessEnd, DiagnosisEnd,
   DiagnosisStays DEF GraphNext

(* The error of an index names a fault of the document.                    *)
LEMMA IndexErrorIs ==
  ASSUME NEW d \in Documents, NEW r, r.task = "validate"
  PROVE  /\ IndexError(d, r) = "none" => \A e \in Edges(d) : e.directed
         /\ IndexError(d, r) # "none" =>
              \/ Diagnose(d, r) # {}
              \/ IndexError(d, r) = "undirected" /\ \E e \in Edges(d) : ~ e.directed
<1> DEFINE F == {j \in DOMAIN d.edges : Faulty(d, r, j)}
<1>1. RequireDirected(r)
  BY DEF RequireDirected
<1>2. ASSUME IndexError(d, r) = "none" PROVE \A e \in Edges(d) : e.directed
  <2>1. IsInjective(d.nodes) /\ F = {}
    <3>1. IsInjective(d.nodes)
      BY <1>2 DEF IndexError
    <3>2. ASSUME F # {} PROVE FALSE
      <4>1. \E i \in DOMAIN d.edges : Faulty(d, r, i)
        BY <3>2
      <4> QED BY <1>2, <3>1, <4>1 DEF IndexError
    <3> QED BY <3>1, <3>2
  <2>2. \A i \in DOMAIN d.edges : d.edges[i].directed
    BY <1>1, <2>1 DEF Faulty
  <2> QED BY <2>2 DEF Edges
<1>3. ASSUME IndexError(d, r) # "none"
      PROVE  \/ Diagnose(d, r) # {}
             \/ IndexError(d, r) = "undirected" /\ \E e \in Edges(d) : ~ e.directed
  <2>1. CASE ~ IsInjective(d.nodes)
    <3>1. "node_id_duplicate" \in Diagnose(d, r)
      BY <2>1 DEF Diagnose
    <3> QED BY <3>1
  <2>2. CASE IsInjective(d.nodes)
    <3>1. \E i \in DOMAIN d.edges : Faulty(d, r, i)
      BY <1>3, <2>2 DEF IndexError
    <3>2. F # {} /\ F \in SUBSET Nat
      <4>1. d.edges \in Seq([source : Ids, target : Ids, directed : BOOLEAN])
        BY GraphAssumption
      <4>2. PICK es, X : es = d.edges /\ X = [source : Ids, target : Ids, directed : BOOLEAN]
        OBVIOUS
      <4>3. DOMAIN es = 1..Len(es)
        BY <4>1, <4>2, SeqIs
      <4> QED BY <3>1, <4>2, <4>3
    <3>3. PICK i : i = Least(F)
      OBVIOUS
    <3>4. i \in DOMAIN d.edges /\ Faulty(d, r, i)
      <4>1. Least(F) \in F
        <5> HIDE DEF F
        <5> QED BY <3>2, LeastIs
      <4> QED BY <3>3, <4>1
    <3>5. IndexError(d, r) = IF RequireDirected(r) /\ ~d.edges[i].directed THEN "undirected"
                             ELSE "unknown"
      BY <2>2, <3>1, <3>3 DEF IndexError
    <3>6. d.edges[i] \in Edges(d)
      BY <3>4 DEF Edges
    <3>7. CASE ~d.edges[i].directed
      BY <1>1, <3>5, <3>6, <3>7
    <3>8. CASE d.edges[i].directed
      <4>1. {d.edges[i].source, d.edges[i].target} \ NodeIds(d) # {}
        BY <3>4, <3>8 DEF Faulty
      <4>2. "edge_endpoint_unknown" \in Diagnose(d, r)
        BY <3>6, <4>1 DEF Diagnose
      <4> QED BY <4>2
    <3> QED BY <3>7, <3>8
  <2> QED BY <2>1, <2>2
<1> QED BY <1>2, <1>3

LEMMA DiagnosisTells ==
  ASSUME FoundInv, WitnessPart, DiagnosisPart PROVE ValidDagIsSchedulable
<1> SUFFICES ASSUME phase = "done", request.task = "validate", request.dag
             PROVE  diagnostics = {} <=> /\ Diagnose(document, request) = {}
                                         /\ \A e \in Edges(document) : e.directed
                                         /\ \A n \in Vertices : n \notin Reach[n]
  BY DEF ValidDagIsSchedulable
<1>1. Noted = Diagnose(document, request) /\ document \in Documents
  BY DEF Noted, FoundInv, IndexPart
<1>2. CASE error = "none"
  <2>1. Analysed
    BY <1>2 DEF Analysed
  <2>2. diagnostics = Diagnose(document, request) \cup (IF witnesses = {} THEN {} ELSE {"cycle"})
    BY <1>1, <1>2 DEF DiagnosisPart
  <2>3. \A e \in Edges(document) : e.directed
    BY <1>1, <2>1, IndexErrorIs DEF DiagnosisPart, Past
  <2>4. witnesses = {} <=> \A n \in Vertices : n \notin Reach[n]
    BY <2>1, WitnessesTell
  <2>5. diagnostics = {} <=> Diagnose(document, request) = {} /\ witnesses = {}
    BY <2>2
  <2> QED BY <2>3, <2>4, <2>5
<1>3. CASE error # "none"
  <2>1. /\ error = IndexError(document, request)
        /\ diagnostics = Diagnose(document, request) \cup FailureCodes(error)
    BY <1>1, <1>3 DEF DiagnosisPart
  <2>2. \/ Diagnose(document, request) # {}
        \/ error = "undirected" /\ \E e \in Edges(document) : ~ e.directed
    BY <1>1, <1>3, <2>1, IndexErrorIs
  <2>3. error = "undirected" => diagnostics # {}
    BY <2>1 DEF FailureCodes
  <2> QED BY <2>1, <2>2, <2>3
<1> QED BY <1>2, <1>3

-----------------------------------------------------------------------------

GraphInv == FoundInv /\ WitnessPart /\ SchedulePart /\ DiagnosisPart

LEMMA GraphInductive == GraphSpec => []GraphInv
<1>1. GraphInit => GraphInv
  BY FoundStarts, WitnessStarts, ScheduleStarts, DiagnosisStarts DEF GraphInv
<1>2. GraphInv /\ [GraphNext]_graphVars => GraphInv'
  BY FoundNext, WitnessNext, ScheduleNext, DiagnosisNext DEF GraphInv
<1> QED BY <1>1, <1>2, PTL DEF GraphSpec

(* An analysis proves what it says, for every document: it has a shortest  *)
(* closed walk for each class with a cycle, or a schedule of every node in *)
(* its earliest layer; and validation for a DAG accepts the documents that *)
(* break no rule and can be scheduled, and no other.                       *)
THEOREM VerdictIsProvedHolds == GraphSpec => []VerdictIsProved
<1>1. GraphInv => VerdictIsProved
  <2> SUFFICES ASSUME GraphInv PROVE VerdictIsProved
    OBVIOUS
  <2>1. FoundInv /\ WitnessPart /\ SchedulePart /\ DiagnosisPart
    BY DEF GraphInv
  <2>2. WitnessesAreShortest
    <3>1. CASE Analysed
      BY <2>1, <3>1, WitnessesTell
    <3>2. CASE ~ Analysed
      BY <3>2 DEF WitnessesAreShortest
    <3> QED BY <3>1, <3>2
  <2>3. ScheduleIsTopological
    BY <2>1, ScheduleTells
  <2>4. ValidDagIsSchedulable
    BY <2>1, DiagnosisTells
  <2> QED BY <2>2, <2>3, <2>4 DEF VerdictIsProved
<1> QED BY <1>1, GraphInductive, PTL

=============================================================================
