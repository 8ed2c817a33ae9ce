------------------------ MODULE ModelOutputStreamProofs ------------------------
(***************************************************************************)
(* For chunks of any bytes cut anywhere, candidates of any kind and any    *)
(* limits: what is retained was admitted, what is told is true, the stream *)
(* as its consumers count it is an event stream, and candidates live the   *)
(* life they are promised.                                                 *)
(*                                                                         *)
(* Four arguments.  UTF-8: a place belongs to a whole scalar or not, and  *)
(* appending bytes changes that only for the scalar that was cut, so the   *)
(* characters of a concatenation are those of its parts and those that     *)
(* NewlyCompleted counts.  Refinement: the n-th counted event is the n-th  *)
(* smallest place, which appending never moves.  The told state: what was  *)
(* told, what the plan has still to tell, and where that will lead, agree  *)
(* at every step; blocks of planned events are reasoned about one by one.  *)
(* The life of candidates: what was handed over and what is planned are    *)
(* one tale, lawful at every event, whose open candidates and last         *)
(* tellings the parser's own record matches.                               *)
(***************************************************************************)
EXTENDS ModelOutputStream, FiniteSetTheorems, SequenceTheorems, WellFoundedInduction, TLAPS

-----------------------------------------------------------------------------
(* Numbers, sets and sequences.                                            *)

(* Every set of numbers that is not empty has a least element: induction   *)
(* over data is argued from it.                                            *)
LEMMA LeastNumber ==
  ASSUME NEW T \in SUBSET Nat, T # {}
  PROVE  \E n \in T : \A m \in T : n <= m
<1> DEFINE R == {ss \in Nat \X Nat : ss[1] < ss[2]}
<1>1. IsWellFoundedOn(R, Nat)
  BY NatLessThanWellFounded DEF OpToRel
<1>2. PICK x \in T : \A y \in T : ~(<<y, x>> \in R)
  <2> HIDE DEF R
  <2> QED BY <1>1, WFMin
<1>3. ASSUME NEW y \in T PROVE x <= y
  <2>1. x \in Nat /\ y \in Nat
    OBVIOUS
  <2>2. ~(y < x)
    BY <1>2, <2>1
  <2> QED BY <2>1, <2>2
<1> QED BY <1>3

LEMMA SetInduction ==
  ASSUME NEW T \in SUBSET Nat, 0 \in T, \A n \in T : n + 1 \in T
  PROVE  T = Nat
<1> SUFFICES ASSUME T # Nat PROVE FALSE
  OBVIOUS
<1>1. PICK n \in Nat \ T : \A m \in Nat \ T : n <= m
  BY LeastNumber
<1>2. n # 0 /\ n - 1 \in Nat
  OBVIOUS
<1>3. n - 1 \in T
  BY <1>1, <1>2
<1> QED BY <1>2, <1>3

(* A bounded set of numbers has a greatest element, and Max is that one.   *)
LEMMA MaxOfBounded ==
  ASSUME NEW n \in Nat, NEW T \in SUBSET (0..n), T # {}
  PROVE  Max(T) \in T /\ \A m \in T : m <= Max(T)
<1> DEFINE U == {u \in Nat : \E m \in T : u = n - m}
<1>1. U # {}
  <2>1. PICK m \in T : TRUE
    OBVIOUS
  <2>2. n - m \in U
    BY <2>1
  <2> QED BY <2>2
<1>2. PICK u \in U : \A v \in U : u <= v
  <2>1. U \in SUBSET Nat
    OBVIOUS
  <2> HIDE DEF U
  <2> QED BY <1>1, <2>1, LeastNumber
<1>3. PICK x \in T : u = n - x
  OBVIOUS
<1>4. \A m \in T : n - m \in U
  OBVIOUS
<1>5. \A m \in T : x >= m
  <2> SUFFICES ASSUME NEW m \in T PROVE x >= m
    OBVIOUS
  <2>1. n - x <= n - m
    BY <1>2, <1>3, <1>4
  <2> HIDE DEF U
  <2> QED BY <2>1
<1>6. \E y \in T : \A m \in T : y >= m
  BY <1>5
<1>7. Max(T) \in T /\ \A m \in T : Max(T) >= m
  <2> HIDE DEF U
  <2> QED BY ONLY <1>6 DEF Max
<1> QED BY <1>7

LEMMA MinOfNumbers ==
  ASSUME NEW T \in SUBSET Nat, T # {}
  PROVE  Min(T) \in T /\ \A m \in T : Min(T) <= m
<1>1. \E x \in T : \A y \in T : x =< y
  BY LeastNumber
<1> QED BY ONLY <1>1 DEF Min

(* FlattenSeq is a recursive function; it is what its recursion says.      *)
LEMMA FlattenRecursion ==
  ASSUME NEW seqs, Len(seqs) \in Nat \ {0}
  PROVE  \E f : /\ f = [i \in 1..Len(seqs) |-> IF i = 1 THEN seqs[i] ELSE f[i - 1] \o seqs[i]]
                /\ FlattenSeq(seqs) = f[Len(seqs)]
<1> DEFINE G(f, n) == [i \in 1..n |-> IF i = 1 THEN seqs[i] ELSE f[i - 1] \o seqs[i]]
           T == {n \in Nat : \E f : f = G(f, n)}
<1>1. 0 \in T
  <2>1. <<>> = G(<<>>, 0)
    OBVIOUS
  <2> QED BY <2>1
<1>2. ASSUME NEW n \in T PROVE n + 1 \in T
  <2>1. PICK f : f = G(f, n)
    OBVIOUS
  <2> DEFINE e(i) == IF i = 1 THEN seqs[i] ELSE f[i - 1] \o seqs[i]
             h == [i \in 1..n + 1 |-> e(i)]
  <2>2. n \in Nat /\ f = [i \in 1..n |-> e(i)]
    BY <2>1
  <2>3. \A i \in 1..n : f[i] = e(i)
    <3> HIDE DEF e
    <3> QED BY <2>2
  <2>4. \A i \in 1..n : h[i] = f[i]
    <3> HIDE DEF e
    <3> QED BY <2>2, <2>3
  <2>5. \A i \in 1..n + 1 : i # 1 => i - 1 \in 1..n
    BY <2>2
  <2>6. \A i \in 1..n + 1 : e(i) = IF i = 1 THEN seqs[i] ELSE h[i - 1] \o seqs[i]
    <3> HIDE DEF h
    <3> QED BY <2>4, <2>5
  <2>7. h = G(h, n + 1)
    <3> HIDE DEF e
    <3> QED BY <2>6
  <2>8. \E g : g = G(g, n + 1)
    <3> HIDE DEF G, h
    <3> QED BY <2>7
  <2>9. n + 1 \in Nat
    BY <2>2
  <2> HIDE DEF G, h
  <2> QED BY <2>8, <2>9
<1>3. T = Nat
  <2>1. T \in SUBSET Nat
    OBVIOUS
  <2> HIDE DEF T
  <2> QED BY <1>1, <1>2, <2>1, SetInduction
<1>4. \E f : f = G(f, Len(seqs))
  <2> HIDE DEF G
  <2> QED BY <1>3
<1> DEFINE c == CHOOSE f : f = G(f, Len(seqs))
<1>5. c = G(c, Len(seqs))
  <2> HIDE DEF G
  <2> QED BY <1>4
<1>6. FlattenSeq(seqs) = c[Len(seqs)]
  BY DEF FlattenSeq
<1> QED BY <1>5, <1>6

(* What holds of nothing, and after each block if it held before it, holds *)
(* of the blocks together.  P[i] is the set of what holds after i blocks.  *)
LEMMA FlattenInduction ==
  ASSUME NEW S, NEW seqs \in Seq(Seq(S)), NEW P, <<>> \in P[0],
         \A i \in 1..Len(seqs), s \in Seq(S) : s \in P[i - 1] => s \o seqs[i] \in P[i]
  PROVE  FlattenSeq(seqs) \in Seq(S) /\ FlattenSeq(seqs) \in P[Len(seqs)]
<1>1. CASE Len(seqs) = 0
  <2>1. FlattenSeq(seqs) = seqs
    BY <1>1 DEF FlattenSeq
  <2>2. seqs = <<>>
    BY <1>1
  <2> QED BY <1>1, <2>1, <2>2
<1>2. CASE Len(seqs) # 0
  <2>1. Len(seqs) \in Nat \ {0}
    BY <1>2
  <2>2. PICK f : /\ f = [i \in 1..Len(seqs) |-> IF i = 1 THEN seqs[i] ELSE f[i - 1] \o seqs[i]]
                 /\ FlattenSeq(seqs) = f[Len(seqs)]
    BY <2>1, FlattenRecursion
  <2>3. \A i \in 1..Len(seqs) : f[i] = IF i = 1 THEN seqs[i] ELSE f[i - 1] \o seqs[i]
    BY <2>2
  <2>4. 1 \in 1..Len(seqs) /\ f[1] = seqs[1] /\ seqs[1] \in Seq(S)
    BY <2>1, <2>3
  <2>5. f[1] = <<>> \o seqs[1]
    BY <2>4
  <2>6. f[1] \in Seq(S) /\ f[1] \in P[1]
    <3>1. <<>> \in Seq(S) /\ <<>> \in P[1 - 1]
      OBVIOUS
    <3> QED BY <3>1, <2>4, <2>5
  <2> DEFINE T == {n \in Nat : n + 1 \in 1..Len(seqs) => f[n + 1] \in Seq(S) /\ f[n + 1] \in P[n + 1]}
  <2>7. 0 \in T
    BY <2>6
  <2>8. ASSUME NEW n \in T PROVE n + 1 \in T
    <3>1. SUFFICES ASSUME n + 2 \in 1..Len(seqs) PROVE f[n + 2] \in Seq(S) /\ f[n + 2] \in P[n + 2]
      OBVIOUS
    <3>2. f[n + 1] \in Seq(S) /\ f[n + 1] \in P[n + 1] /\ seqs[n + 2] \in Seq(S)
      BY <3>1
    <3>3. n \in Nat /\ n + 2 # 1 /\ (n + 2) - 1 = n + 1
      OBVIOUS
    <3>4. f[n + 2] = f[(n + 2) - 1] \o seqs[n + 2]
      BY ONLY <3>1, <3>3, <2>3
    <3>5. f[n + 1] \o seqs[n + 2] \in P[n + 2]
      BY <3>1, <3>2, <3>3
    <3> QED BY <3>2, <3>3, <3>4, <3>5
  <2>9. T = Nat
    <3>1. T \in SUBSET Nat
      OBVIOUS
    <3> HIDE DEF T
    <3> QED BY <2>7, <2>8, <3>1, SetInduction
  <2>10. Len(seqs) - 1 \in T
    <3> HIDE DEF T
    <3> QED BY <2>9, <2>1
  <2> QED BY <2>1, <2>2, <2>10
<1> QED BY <1>1, <1>2

LEMMA FlattenType ==
  ASSUME NEW S, NEW seqs \in Seq(Seq(S))
  PROVE  FlattenSeq(seqs) \in Seq(S)
<1> DEFINE P == [i \in 0..Len(seqs) |-> Seq(S)]
<1>1. Len(seqs) \in Nat
  OBVIOUS
<1>2. <<>> \in P[0]
  BY <1>1
<1>3. \A i \in 1..Len(seqs), s \in Seq(S) : s \in P[i - 1] => s \o seqs[i] \in P[i]
  <2> SUFFICES ASSUME NEW i \in 1..Len(seqs), NEW s \in Seq(S) PROVE s \o seqs[i] \in P[i]
    OBVIOUS
  <2>1. seqs[i] \in Seq(S) /\ P[i] = Seq(S)
    BY <1>1
  <2>2. s \o seqs[i] \in Seq(S)
    BY <2>1, ConcatProperties
  <2> HIDE DEF P
  <2> QED BY <2>1, <2>2
<1> HIDE DEF P
<1> QED BY <1>2, <1>3, FlattenInduction

(* Every rank of a finite set of numbers is that of one element, and a     *)
(* greater element has a greater rank.                                     *)
Below(S, x) == {y \in S : y < x}

LEMMA BelowFinite ==
  ASSUME NEW S, IsFiniteSet(S), NEW x
  PROVE  IsFiniteSet(Below(S, x)) /\ Cardinality(Below(S, x)) \in Nat
<1>1. Below(S, x) \in SUBSET S
  BY DEF Below
<1> QED BY <1>1, FS_Subset, FS_CardinalityType

LEMMA RankGrows ==
  ASSUME NEW S \in SUBSET Nat, IsFiniteSet(S), NEW x \in S, NEW y \in S, x < y
  PROVE  Cardinality(Below(S, x)) < Cardinality(Below(S, y))
<1>1. IsFiniteSet(Below(S, x)) /\ IsFiniteSet(Below(S, y))
      /\ Cardinality(Below(S, x)) \in Nat /\ Cardinality(Below(S, y)) \in Nat
  BY BelowFinite
<1>2. x \notin Below(S, x) /\ Below(S, x) \cup {x} \subseteq Below(S, y)
  <2>1. \A z \in S : z \in Nat
    OBVIOUS
  <2>2. ~(x < x) /\ \A z \in S : z < x => z < y
    BY <2>1
  <2> QED BY <2>2 DEF Below
<1>3. Cardinality(Below(S, x) \cup {x}) = Cardinality(Below(S, x)) + 1
  BY <1>1, <1>2, FS_AddElement
<1>4. Cardinality(Below(S, x) \cup {x}) <= Cardinality(Below(S, y))
  BY <1>1, <1>2, FS_Subset
<1> QED BY <1>1, <1>3, <1>4

LEMMA EveryRank ==
  ASSUME NEW S \in SUBSET Nat, IsFiniteSet(S), NEW n \in 1..Cardinality(S)
  PROVE  \E x \in S : Cardinality(Below(S, x)) = n - 1
<1> DEFINE T == {m \in Nat : m < Cardinality(S) => \E x \in S : Cardinality(Below(S, x)) = m}
<1>0. Cardinality(S) \in Nat
  BY FS_CardinalityType
<1>1. 0 \in T
  <2> SUFFICES ASSUME 0 < Cardinality(S) PROVE \E x \in S : Cardinality(Below(S, x)) = 0
    OBVIOUS
  <2>1. S # {}
    BY FS_EmptySet
  <2>2. PICK x \in S : \A y \in S : x <= y
    BY <2>1, LeastNumber
  <2>3. Below(S, x) = {}
    <3>1. \A y \in S : ~(y < x)
      <4> SUFFICES ASSUME NEW y \in S PROVE ~(y < x)
        OBVIOUS
      <4>1. x \in Nat /\ y \in Nat /\ x <= y
        BY <2>2
      <4> QED BY <4>1
    <3> QED BY <3>1 DEF Below
  <2> QED BY <2>3, FS_EmptySet
<1>2. ASSUME NEW m \in T PROVE m + 1 \in T
  <2> SUFFICES ASSUME m + 1 < Cardinality(S)
               PROVE  \E x \in S : Cardinality(Below(S, x)) = m + 1
    OBVIOUS
  <2>1. PICK x \in S : Cardinality(Below(S, x)) = m
    BY <1>0
  <2> DEFINE B == Below(S, x) \cup {x}
             A == S \ B
  <2>2. IsFiniteSet(B) /\ Cardinality(B) = m + 1
    <3>1. x \notin Below(S, x)
      BY DEF Below
    <3> QED BY <2>1, <3>1, BelowFinite, FS_AddElement
  <2>3. A # {}
    <3> SUFFICES ASSUME S = B PROVE FALSE
      BY DEF Below
    <3> QED BY <2>2, <1>0
  <2>4. PICK y \in A : \A z \in A : y <= z
    <3>1. A \in SUBSET Nat
      OBVIOUS
    <3> HIDE DEF A
    <3> QED BY <2>3, <3>1, LeastNumber
  <2>5. Below(S, y) = B
    <3>1. \A z \in S : z \in Nat
      OBVIOUS
    <3>2. x \in S /\ y \in S /\ y # x /\ ~(y < x) /\ \A z \in S : z = x \/ z < x \/ y <= z
      BY <2>4 DEF Below
    <3>3. \A z \in S : z < y <=> z < x \/ z = x
      BY <3>1, <3>2
    <3> QED BY <3>2, <3>3 DEF Below
  <2> QED BY <2>2, <2>4, <2>5
<1>3. T = Nat
  <2>1. T \in SUBSET Nat
    OBVIOUS
  <2> HIDE DEF T
  <2> QED BY <1>1, <1>2, <2>1, SetInduction
<1>4. n - 1 \in T /\ n - 1 < Cardinality(S)
  <2> HIDE DEF T
  <2> QED BY <1>0, <1>3
<1> QED BY <1>4

LEMMA NthHasRank ==
  ASSUME NEW S \in SUBSET Nat, IsFiniteSet(S), NEW n \in 1..Cardinality(S)
  PROVE  /\ Nth(S, n) \in S /\ Cardinality(Below(S, Nth(S, n))) = n - 1
         /\ \A x \in S : Cardinality(Below(S, x)) = n - 1 => Nth(S, n) = x
<1>1. \E x \in S : Cardinality({y \in S : y < x}) = n - 1
  BY EveryRank DEF Below
<1>2. Nth(S, n) \in S /\ Cardinality({y \in S : y < Nth(S, n)}) = n - 1
  BY <1>1 DEF Nth
<1>3. ASSUME NEW x \in S, Cardinality(Below(S, x)) = n - 1 PROVE Nth(S, n) = x
  <2> DEFINE z == Nth(S, n)
  <2>1. z \in S /\ Cardinality(Below(S, z)) = n - 1
    BY <1>2 DEF Below
  <2> HIDE DEF z
  <2>2. n - 1 \in Int
    <3>1. Cardinality(S) \in Nat
      BY FS_CardinalityType
    <3> QED BY <3>1
  <2>3. ~(x < z) /\ ~(z < x)
    BY <2>1, <2>2, <1>3, RankGrows
  <2>4. x = z
    BY <2>1, <2>3
  <2> QED BY <2>4 DEF z
<1> QED BY <1>2, <1>3 DEF Below

-----------------------------------------------------------------------------
(* UTF-8.                                                                  *)

(* The bytes of b before the v-th belong to whole scalars, the next does   *)
(* not.                                                                    *)
Splits(b, v) ==
  /\ v \in 0..Len(b)
  /\ \A i \in 1..v : Belongs(b, i)
  /\ v < Len(b) => ~ Belongs(b, v + 1)

LEMMA SplitExists ==
  ASSUME NEW b \in Seq(Bytes)
  PROVE  \E v : Splits(b, v) /\ Valid(b) = SubSeq(b, 1, v)
<1> DEFINE T == {n \in 0..Len(b) : \A i \in 1..n : Belongs(b, i)}
           v == Max(T)
<1>1. Len(b) \in Nat /\ 0 \in T
  OBVIOUS
<1>2. v \in T /\ \A m \in T : m <= v
  <2>1. T \in SUBSET (0..Len(b))
    OBVIOUS
  <2> HIDE DEF T
  <2> QED BY <1>1, <2>1, MaxOfBounded
<1>3. v \in 0..Len(b) /\ \A i \in 1..v : Belongs(b, i)
  <2> HIDE DEF v
  <2> QED BY <1>2
<1>4. v < Len(b) => ~ Belongs(b, v + 1)
  <2> HIDE DEF v
  <2> SUFFICES ASSUME v < Len(b), Belongs(b, v + 1) PROVE FALSE
    OBVIOUS
  <2>1. v + 1 \in 0..Len(b)
    BY <1>3, <1>1
  <2>2. \A i \in 1..(v + 1) : Belongs(b, i)
    BY <1>3, <2>1
  <2>3. v + 1 \in T
    BY <2>1, <2>2
  <2> QED BY <1>2, <1>3, <2>3
<1>5. Valid(b) = SubSeq(b, 1, v)
  BY DEF Valid
<1> HIDE DEF v
<1> QED BY <1>3, <1>4, <1>5 DEF Splits

(* There is one such place, and the valid prefix ends there.               *)
LEMMA SplitIsValid ==
  ASSUME NEW b \in Seq(Bytes), NEW v, Splits(b, v)
  PROVE  /\ Valid(b) = SubSeq(b, 1, v) /\ Len(Valid(b)) = v /\ Valid(b) \in Seq(Bytes)
         /\ \A i \in 1..v : Valid(b)[i] = b[i]
<1>1. PICK u : Splits(b, u) /\ Valid(b) = SubSeq(b, 1, u)
  BY SplitExists
<1>2. u \in Nat /\ v \in Nat /\ Len(b) \in Nat /\ u <= Len(b) /\ v <= Len(b)
  BY <1>1 DEF Splits
<1>3. ~(u < v)
  BY <1>1, <1>2 DEF Splits
<1>4. ~(v < u)
  BY <1>1, <1>2 DEF Splits
<1>5. u = v
  BY <1>2, <1>3, <1>4
<1> QED BY <1>1, <1>2, <1>5

(* The places that are counted.                                            *)
Heads(b, m, n) == {i \in m..n : b[i] # "tail"}

LEMMA CharactersAreHeads ==
  ASSUME NEW b \in Seq(Bytes), NEW v, Splits(b, v)
  PROVE  Characters(b) = Cardinality(Heads(b, 1, v)) /\ Characters(b) \in Nat
<1>1. Len(Valid(b)) = v /\ v \in Nat
  BY SplitIsValid DEF Splits
<1>2. Characters(b) = Cardinality(Heads(b, 1, v))
  BY <1>1 DEF Characters, Heads
<1>3. IsFiniteSet(1..v)
  BY <1>1, FS_Interval
<1>4. IsFiniteSet(Heads(b, 1, v))
  BY <1>3, FS_Subset DEF Heads
<1> QED BY <1>2, <1>4, FS_CardinalityType

(* Where b is whole, the scalars of b \o c are those of b and those of c.  *)
LEMMA SplitOfConcat ==
  ASSUME NEW b \in Seq(Bytes), NEW c \in Seq(Bytes), Splits(b, Len(b)), NEW v, Splits(c, v)
  PROVE  Splits(b \o c, Len(b) + v)
<1> DEFINE w == b \o c
<1>1. /\ Len(b) \in Nat /\ Len(c) \in Nat /\ v \in Nat /\ v <= Len(c)
      /\ w \in Seq(Bytes) /\ Len(w) = Len(b) + Len(c)
      /\ \A i \in 1..Len(b) : w[i] = b[i]
      /\ \A i \in 1..Len(c) : w[Len(b) + i] = c[i]
  BY DEF Splits
<1> HIDE DEF w
<1>2. \A i \in 1..Len(b) : ScalarAt(b, i) => ScalarAt(w, i)
  BY <1>1 DEF ScalarAt
<1>3. \A i \in 1..Len(c) : ScalarAt(c, i) <=> ScalarAt(w, Len(b) + i)
  <2> SUFFICES ASSUME NEW i \in 1..Len(c) PROVE ScalarAt(c, i) <=> ScalarAt(w, Len(b) + i)
    OBVIOUS
  <2>1. w[Len(b) + i] = c[i]
    BY <1>1
  <2>2. i + 2 <= Len(c) <=> (Len(b) + i) + 2 <= Len(w)
    BY <1>1
  <2>3. i + 2 <= Len(c) => /\ w[(Len(b) + i) + 1] = c[i + 1]
                           /\ w[(Len(b) + i) + 2] = c[i + 2]
    <3> SUFFICES ASSUME i + 2 <= Len(c)
                 PROVE  w[(Len(b) + i) + 1] = c[i + 1] /\ w[(Len(b) + i) + 2] = c[i + 2]
      OBVIOUS
    <3>1. /\ i + 1 \in 1..Len(c) /\ i + 2 \in 1..Len(c)
          /\ (Len(b) + i) + 1 = Len(b) + (i + 1) /\ (Len(b) + i) + 2 = Len(b) + (i + 2)
      BY <1>1
    <3> QED BY <3>1, <1>1
  <2> QED BY <2>1, <2>2, <2>3 DEF ScalarAt
<1>4. \A i \in 1..Len(b) : Belongs(w, i)
  <2> SUFFICES ASSUME NEW i \in 1..Len(b) PROVE Belongs(w, i)
    OBVIOUS
  <2>1. Belongs(b, i)
    BY DEF Splits
  <2>2. CASE ScalarAt(b, i)
    BY <2>2, <1>2 DEF Belongs
  <2>3. CASE b[i] = "tail" /\ \E j \in {i - 1, i - 2} : j > 0 /\ b[j] = "head" /\ ScalarAt(b, j)
    <3>1. PICK j \in {i - 1, i - 2} : j > 0 /\ b[j] = "head" /\ ScalarAt(b, j)
      BY <2>3
    <3>2. j \in 1..Len(b)
      BY <3>1, <1>1
    <3>3. w[i] = "tail" /\ j > 0 /\ w[j] = "head" /\ ScalarAt(w, j)
      BY <2>3, <3>1, <3>2, <1>1, <1>2
    <3> QED BY <3>3 DEF Belongs
  <2> QED BY <2>1, <2>2, <2>3 DEF Belongs
<1>5. \A i \in 1..Len(c) : Belongs(c, i) => Belongs(w, Len(b) + i)
  <2> SUFFICES ASSUME NEW i \in 1..Len(c), Belongs(c, i) PROVE Belongs(w, Len(b) + i)
    OBVIOUS
  <2>2. CASE ScalarAt(c, i)
    BY <2>2, <1>3 DEF Belongs
  <2>3. CASE c[i] = "tail" /\ \E j \in {i - 1, i - 2} : j > 0 /\ c[j] = "head" /\ ScalarAt(c, j)
    <3>1. PICK j \in {i - 1, i - 2} : j > 0 /\ c[j] = "head" /\ ScalarAt(c, j)
      BY <2>3
    <3>2. j \in 1..Len(c) /\ Len(b) + j > 0
      BY <3>1, <1>1
    <3>4. Len(b) + j \in {Len(b) + i - 1, Len(b) + i - 2}
      BY <3>1, <1>1
    <3>3. w[Len(b) + i] = "tail" /\ w[Len(b) + j] = "head" /\ ScalarAt(w, Len(b) + j)
      BY <2>3, <3>1, <3>2, <1>1, <1>3
    <3> QED BY <3>2, <3>3, <3>4 DEF Belongs
  <2> QED BY <2>2, <2>3 DEF Belongs
<1>6. \A i \in 1..Len(c) : Belongs(w, Len(b) + i) => Belongs(c, i)
  <2> SUFFICES ASSUME NEW i \in 1..Len(c), Belongs(w, Len(b) + i) PROVE Belongs(c, i)
    OBVIOUS
  <2> DEFINE k == Len(b) + i
  <2>2. CASE ScalarAt(w, k)
    BY <2>2, <1>3 DEF Belongs
  <2>3. CASE w[k] = "tail" /\ \E j \in {k - 1, k - 2} : j > 0 /\ w[j] = "head" /\ ScalarAt(w, j)
    <3>1. PICK j \in {k - 1, k - 2} : j > 0 /\ w[j] = "head" /\ ScalarAt(w, j)
      BY <2>3
    <3>2. CASE j <= Len(b)
      <4>1. j \in 1..Len(b) /\ b[j] = "head"
        BY <3>1, <3>2, <1>1
      <4>2. Belongs(b, j)
        BY <4>1 DEF Splits
      <4>3. ScalarAt(b, j)
        BY <4>1, <4>2 DEF Belongs
      <4>4. j + 2 <= Len(b)
        BY <4>1, <4>3 DEF ScalarAt
      <4> QED BY <4>4, <3>1, <1>1
    <3>3. CASE j > Len(b)
      <4>1. j - Len(b) \in 1..Len(c) /\ j - Len(b) \in {i - 1, i - 2} /\ Len(b) + (j - Len(b)) = j
        BY <3>1, <3>3, <1>1
      <4>2. c[i] = "tail" /\ c[j - Len(b)] = "head" /\ ScalarAt(c, j - Len(b)) /\ j - Len(b) > 0
        BY <2>3, <3>1, <4>1, <1>1, <1>3
      <4> QED BY <4>1, <4>2 DEF Belongs
    <3>4. j \in Int
      BY <1>1
    <3> QED BY <3>2, <3>3, <3>4, <1>1
  <2> QED BY <2>2, <2>3 DEF Belongs
<1>7. ASSUME NEW i \in 1..(Len(b) + v) PROVE Belongs(w, i)
  <2>1. CASE i <= Len(b)
    BY <2>1, <1>4, <1>1
  <2>2. CASE i > Len(b)
    <3>1. i - Len(b) \in 1..v /\ i - Len(b) \in 1..Len(c) /\ Len(b) + (i - Len(b)) = i
      BY <2>2, <1>1
    <3> QED BY <3>1, <1>5 DEF Splits
  <2> QED BY <2>1, <2>2, <1>1
<1>8. ASSUME Len(b) + v < Len(w) PROVE ~ Belongs(w, Len(b) + v + 1)
  <2>1. v < Len(c) /\ v + 1 \in 1..Len(c) /\ Len(b) + (v + 1) = Len(b) + v + 1
    BY <1>8, <1>1
  <2> QED BY <2>1, <1>6 DEF Splits
<1>9. Len(b) + v \in 0..Len(w)
  BY <1>1
<1> QED BY <1>7, <1>8, <1>9 DEF Splits, w
(* A set of numbers moved by k has the same size.                          *)
LEMMA MovedSize ==
  ASSUME NEW k \in Nat, NEW S \in SUBSET Nat, IsFiniteSet(S)
  PROVE  /\ IsFiniteSet({k + i : i \in S})
         /\ Cardinality({k + i : i \in S}) = Cardinality(S)
<1> DEFINE T == {k + i : i \in S}
           f == [i \in S |-> k + i]
<1>1. f \in [S -> T]
  OBVIOUS
<1>2. \A i, j \in S : f[i] = f[j] => i = j
  OBVIOUS
<1>3. \A t \in T : \E i \in S : f[i] = t
  OBVIOUS
<1>4. f \in Bijection(S, T)
  <2> HIDE DEF f, T
  <2> QED BY <1>1, <1>2, <1>3 DEF Bijection, Injection, Surjection, IsInjective
<1>5. ExistsBijection(S, T)
  <2> HIDE DEF f, T
  <2> QED BY <1>4 DEF ExistsBijection
<1> HIDE DEF T
<1> QED BY <1>5, FS_Bijection DEF T

(* A whole text has its characters, and those of what follows it.          *)
LEMMA CharactersOfConcat ==
  ASSUME NEW b \in Seq(Bytes), NEW c \in Seq(Bytes), Splits(b, Len(b))
  PROVE  Characters(b \o c) = Characters(b) + Characters(c)
<1> DEFINE w == b \o c
<1>1. PICK v : Splits(c, v)
  BY SplitExists
<1>2. /\ Len(b) \in Nat /\ Len(c) \in Nat /\ v \in Nat /\ v <= Len(c)
      /\ w \in Seq(Bytes) /\ Len(w) = Len(b) + Len(c)
      /\ \A i \in 1..Len(b) : w[i] = b[i]
      /\ \A i \in 1..Len(c) : w[Len(b) + i] = c[i]
  BY <1>1 DEF Splits
<1>3. Splits(w, Len(b) + v)
  BY <1>1, SplitOfConcat
<1> HIDE DEF w
<1> DEFINE A == Heads(b, 1, Len(b))
           C == Heads(c, 1, v)
           D == {Len(b) + i : i \in C}
<1>4. IsFiniteSet(A) /\ IsFiniteSet(C) /\ C \in SUBSET Nat
  <2>1. IsFiniteSet(1..Len(b)) /\ IsFiniteSet(1..v)
    BY <1>2, FS_Interval
  <2> QED BY <2>1, FS_Subset, <1>2 DEF Heads
<1>5. IsFiniteSet(D) /\ Cardinality(D) = Cardinality(C)
  <2> HIDE DEF C
  <2> QED BY <1>4, <1>2, MovedSize
<1>6. Heads(w, 1, Len(b) + v) \subseteq A \cup D
  <2> SUFFICES ASSUME NEW i \in Heads(w, 1, Len(b) + v) PROVE i \in A \cup D
    OBVIOUS
  <2>1. i \in 1..(Len(b) + v) /\ w[i] # "tail"
    BY DEF Heads
  <2>2. CASE i <= Len(b)
    BY <2>1, <2>2, <1>2 DEF Heads
  <2>3. CASE i > Len(b)
    <3>1. i - Len(b) \in 1..v /\ i - Len(b) \in 1..Len(c) /\ Len(b) + (i - Len(b)) = i
      BY <2>1, <2>3, <1>2
    <3>2. i - Len(b) \in C
      BY <3>1, <2>1, <1>2 DEF Heads
    <3> HIDE DEF C
    <3> QED BY <3>1, <3>2
  <2> QED BY <2>1, <2>2, <2>3, <1>2
<1>7. A \subseteq Heads(w, 1, Len(b) + v)
  BY <1>2 DEF Heads
<1>8. D \subseteq Heads(w, 1, Len(b) + v)
  <2> SUFFICES ASSUME NEW i \in C PROVE Len(b) + i \in Heads(w, 1, Len(b) + v)
    OBVIOUS
  <2>1. i \in 1..v /\ i \in 1..Len(c) /\ c[i] # "tail"
    BY <1>2 DEF Heads
  <2>2. Len(b) + i \in 1..(Len(b) + v)
    BY <2>1, <1>2
  <2> QED BY <2>1, <2>2, <1>2 DEF Heads
<1>9. A \cap D = {}
  <2> SUFFICES ASSUME NEW i \in C, Len(b) + i \in A PROVE FALSE
    OBVIOUS
  <2> QED BY <1>2 DEF Heads
<1>10. Cardinality(A \cup D) = Cardinality(A) + Cardinality(D)
  <2> HIDE DEF A, D
  <2>1. Cardinality(A \cup D) = Cardinality(A) + Cardinality(D) - Cardinality(A \cap D)
    BY <1>4, <1>5, FS_Union
  <2>2. Cardinality(A) \in Nat /\ Cardinality(D) \in Nat
    BY <1>4, <1>5, FS_CardinalityType
  <2>3. Cardinality(A \cap D) = 0
    BY <1>9, FS_EmptySet
  <2> QED BY <2>1, <2>2, <2>3
<1>11. Heads(w, 1, Len(b) + v) = A \cup D
  <2> HIDE DEF A, D
  <2> QED BY <1>6, <1>7, <1>8
<1>12. Characters(b) = Cardinality(A) /\ Characters(c) = Cardinality(C)
  BY <1>1, CharactersAreHeads
<1>13. Characters(w) = Cardinality(Heads(w, 1, Len(b) + v))
  BY <1>2, <1>3, CharactersAreHeads
<1> HIDE DEF A, C, D
<1> QED BY <1>5, <1>10, <1>11, <1>12, <1>13 DEF w

(* The valid prefix is whole, and the text is that prefix and the rest.    *)
LEMMA ValidIsWhole ==
  ASSUME NEW b \in Seq(Bytes)
  PROVE  /\ Valid(b) \in Seq(Bytes) /\ Rest(b) \in Seq(Bytes)
         /\ Splits(Valid(b), Len(Valid(b)))
         /\ Characters(Valid(b)) = Characters(b)
         /\ b = Valid(b) \o Rest(b)
         /\ Rest(b) # <<>> => ~ ScalarAt(Rest(b), 1)
<1>1. PICK v : Splits(b, v)
  BY SplitExists
<1> DEFINE p == Valid(b)
<1>2. /\ p = SubSeq(b, 1, v) /\ Len(p) = v /\ p \in Seq(Bytes) /\ \A i \in 1..v : p[i] = b[i]
  BY <1>1, SplitIsValid
<1>3. v \in Nat /\ Len(b) \in Nat /\ v <= Len(b)
  BY <1>1 DEF Splits
<1>4. Rest(b) = SubSeq(b, v + 1, Len(b)) /\ Rest(b) \in Seq(Bytes)
  BY <1>2, <1>3 DEF Rest
<1>5. b = p \o Rest(b)
  <2>1. SubSeq(b, 1, Len(b)) = b
    OBVIOUS
  <2>2. 1 \in 1..(Len(b) + 1) /\ v \in (1 - 1)..Len(b) /\ Len(b) \in v..Len(b)
    BY <1>3
  <2>3. SubSeq(b, 1, v) \o SubSeq(b, v + 1, Len(b)) = SubSeq(b, 1, Len(b))
    BY <2>2, ConcatAdjacentSubSeq
  <2> QED BY <1>2, <1>4, <2>1, <2>3
<1> HIDE DEF p
<1>6. \A i \in 1..v : ScalarAt(b, i) => ScalarAt(p, i)
  <2> SUFFICES ASSUME NEW i \in 1..v, ScalarAt(b, i) PROVE ScalarAt(p, i)
    OBVIOUS
  <2>1. CASE b[i] \in {"blank", "text", "closer"}
    BY <2>1, <1>2 DEF ScalarAt
  <2>2. CASE b[i] = "head" /\ i + 2 <= Len(b) /\ b[i + 1] = "tail" /\ b[i + 2] = "tail"
    <3>1. i + 2 <= v
      <4> SUFFICES ASSUME v < i + 2 PROVE FALSE
        BY <1>3
      <4>1. i \in {(v + 1) - 1, (v + 1) - 2} /\ i > 0 /\ v < Len(b)
        BY <2>2, <1>3
      <4>2. v + 1 = i + 1 \/ v + 1 = i + 2
        BY <1>3
      <4>3. b[v + 1] = "tail" /\ b[i] = "head" /\ ScalarAt(b, i)
        BY <2>2, <4>2
      <4>4. Belongs(b, v + 1)
        BY <4>1, <4>3 DEF Belongs
      <4> QED BY <4>1, <4>4, <1>1 DEF Splits
    <3>2. i + 1 \in 1..v /\ i + 2 \in 1..v
      BY <3>1, <1>3
    <3> QED BY <2>2, <3>1, <3>2, <1>2 DEF ScalarAt
  <2> QED BY <2>1, <2>2 DEF ScalarAt
<1>7. ASSUME NEW i \in 1..v PROVE Belongs(p, i)
  <2>1. Belongs(b, i)
    BY <1>1 DEF Splits
  <2>2. CASE ScalarAt(b, i)
    BY <2>2, <1>6 DEF Belongs
  <2>3. CASE b[i] = "tail" /\ \E j \in {i - 1, i - 2} : j > 0 /\ b[j] = "head" /\ ScalarAt(b, j)
    <3>1. PICK j \in {i - 1, i - 2} : j > 0 /\ b[j] = "head" /\ ScalarAt(b, j)
      BY <2>3
    <3>2. j \in 1..v
      BY <3>1, <1>3
    <3>3. p[i] = "tail" /\ j > 0 /\ p[j] = "head" /\ ScalarAt(p, j)
      BY <2>3, <3>1, <3>2, <1>2, <1>6
    <3> QED BY <3>3 DEF Belongs
  <2> QED BY <2>1, <2>2, <2>3 DEF Belongs
<1>8. Splits(p, Len(p))
  BY <1>2, <1>3, <1>7 DEF Splits
<1>9. Characters(p) = Characters(b)
  <2>1. Heads(p, 1, v) = Heads(b, 1, v)
    BY <1>2 DEF Heads
  <2>2. Characters(p) = Cardinality(Heads(p, 1, v)) /\ Characters(b) = Cardinality(Heads(b, 1, v))
    BY <1>1, <1>2, <1>8, CharactersAreHeads
  <2> QED BY <2>1, <2>2
<1>10. ASSUME Rest(b) # <<>>, ScalarAt(Rest(b), 1) PROVE FALSE
  <2> DEFINE r == Rest(b)
  <2>1. v < Len(b) /\ Len(r) = Len(b) - v /\ \A i \in 1..Len(r) : r[i] = b[v + i]
    BY <1>3, <1>4, <1>10
  <2>2. ScalarAt(b, v + 1)
    <3> HIDE DEF r
    <3>1. ScalarAt(r, 1)
      BY <1>10 DEF r
    <3>2. CASE r[1] \in {"blank", "text", "closer"}
      BY <3>2, <2>1, <1>3 DEF ScalarAt
    <3>3. CASE r[1] = "head" /\ 3 <= Len(r) /\ r[2] = "tail" /\ r[3] = "tail"
      <4>1. b[v + 1] = "head" /\ b[v + 2] = "tail" /\ b[v + 3] = "tail"
        BY <3>3, <2>1, <1>3
      <4>2. (v + 1) + 2 <= Len(b) /\ (v + 1) + 1 = v + 2 /\ (v + 1) + 2 = v + 3
        BY <3>3, <2>1, <1>3
      <4> QED BY <4>1, <4>2 DEF ScalarAt
    <3> QED BY <3>1, <3>2, <3>3 DEF ScalarAt
  <2> QED BY <2>1, <2>2, <1>1 DEF Splits, Belongs
<1> QED BY <1>2, <1>4, <1>5, <1>8, <1>9, <1>10 DEF p

(* A text that does not begin with a scalar has no characters.             *)
LEMMA NoScalarNoCharacters ==
  ASSUME NEW b \in Seq(Bytes), b # <<>>, ~ ScalarAt(b, 1)
  PROVE  Characters(b) = 0
<1>1. ~ Belongs(b, 1)
  BY DEF Belongs
<1>2. Splits(b, 0)
  BY <1>1 DEF Splits
<1>3. Heads(b, 1, 0) = {}
  BY DEF Heads
<1> QED BY <1>2, <1>3, CharactersAreHeads, FS_EmptySet

LEMMA OneScalar ==
  ASSUME NEW b \in Seq(Bytes), Len(b) = 3, b[1] = "head", ScalarAt(b, 1)
  PROVE  Splits(b, Len(b)) /\ Characters(b) = 1
<1>1. b[2] = "tail" /\ b[3] = "tail"
  BY DEF ScalarAt
<1>2. Belongs(b, 1)
  BY DEF Belongs
<1>3. Belongs(b, 2)
  BY <1>1 DEF Belongs
<1>4. Belongs(b, 3)
  BY <1>1 DEF Belongs
<1>5. \A i \in 1..3 : Belongs(b, i)
  BY <1>2, <1>3, <1>4
<1>6. Splits(b, 3)
  BY <1>5 DEF Splits
<1>7. Heads(b, 1, 3) = {1}
  BY <1>1 DEF Heads
<1>8. Characters(b) = Cardinality({1})
  BY <1>6, <1>7, CharactersAreHeads
<1>9. Cardinality({1}) = 1
  BY FS_Singleton
<1> QED BY <1>6, <1>8, <1>9

(* The scalar that a chunk completes is one character.                     *)
LEMMA RestIsCompleted ==
  ASSUME NEW r \in Seq(Bytes), r \in {<<"head">>, <<"head", "tail">>},
         NEW chunk \in Seq(Bytes), NEW needed, needed = 3 - Len(r), Len(chunk) >= needed,
         ScalarAt(r \o SubSeq(chunk, 1, needed), 1)
  PROVE  Characters(r \o chunk) = 1 + Characters(SubSeq(chunk, needed + 1, Len(chunk)))
<1> DEFINE s == SubSeq(chunk, 1, needed)
           after == SubSeq(chunk, needed + 1, Len(chunk))
           scalar == r \o s
<1>1. Len(r) \in {1, 2} /\ r[1] = "head"
  BY Len(<<"head">>) = 1, Len(<<"head", "tail">>) = 2
<1>2. needed \in {1, 2} /\ Len(chunk) \in Nat /\ needed \in 0..Len(chunk)
  <2>1. needed \in {1, 2}
    <3>1. \A k \in {1, 2} : 3 - k \in {1, 2}
      OBVIOUS
    <3> QED BY <1>1, <3>1
  <2>2. Len(chunk) \in Nat
    OBVIOUS
  <2> QED BY <2>1, <2>2
<1>3. s \in Seq(Bytes) /\ Len(s) = needed /\ after \in Seq(Bytes)
  BY <1>2
<1>4. s \o after = chunk
  <2>1. SubSeq(chunk, 1, Len(chunk)) = chunk
    OBVIOUS
  <2>2. 1 \in 1..(Len(chunk) + 1) /\ needed \in (1 - 1)..Len(chunk) /\ Len(chunk) \in needed..Len(chunk)
    BY <1>2
  <2> QED BY <2>1, <2>2, ConcatAdjacentSubSeq
<1> HIDE DEF s, after
<1>5. scalar \in Seq(Bytes) /\ Len(scalar) = 3 /\ scalar[1] = "head"
  BY <1>1, <1>3
<1>6. r \o chunk = scalar \o after
  <2>1. r \o chunk = r \o (s \o after)
    BY <1>4
  <2>2. \A x, y, z \in Seq(Bytes) : (x \o y) \o z = x \o (y \o z)
    BY ConcatAssociative
  <2>3. (r \o s) \o after = r \o (s \o after)
    BY <1>3, <2>2
  <2> QED BY <2>1, <2>3
<1>7. ScalarAt(scalar, 1)
  BY DEF s
<1> HIDE DEF scalar
<1>8. Splits(scalar, Len(scalar)) /\ Characters(scalar) = 1
  BY <1>5, <1>7, OneScalar
<1> QED BY <1>3, <1>5, <1>6, <1>8, CharactersOfConcat DEF after

(* A rest that no chunk can complete, or this one does not, stays without. *)
LEMMA RestStaysOpen ==
  ASSUME NEW r \in Seq(Bytes), r # <<>>, ~ ScalarAt(r, 1), NEW chunk \in Seq(Bytes),
         ~(/\ r \in {<<"head">>, <<"head", "tail">>} /\ Len(chunk) >= 3 - Len(r)
           /\ ScalarAt(r \o SubSeq(chunk, 1, 3 - Len(r)), 1))
  PROVE  Characters(r \o chunk) = 0
<1> DEFINE w == r \o chunk
<1>1. /\ Len(r) \in Nat \ {0} /\ Len(chunk) \in Nat /\ Len(w) = Len(r) + Len(chunk)
      /\ w \in Seq(Bytes)
      /\ \A i \in 1..Len(r) : w[i] = r[i]
      /\ \A i \in 1..Len(chunk) : w[Len(r) + i] = chunk[i]
  OBVIOUS
<1> HIDE DEF w
<1>2. r[1] = w[1] /\ r[1] \notin {"blank", "text", "closer"} /\ w # <<>>
  BY <1>1 DEF ScalarAt
<1>3. ASSUME w[1] = "head", 3 <= Len(w), w[2] = "tail", w[3] = "tail"
      PROVE  FALSE
  <2>1. ~(3 <= Len(r))
    <3> SUFFICES ASSUME 3 <= Len(r) PROVE FALSE
      OBVIOUS
    <3>0. 2 \in 1..Len(r) /\ 3 \in 1..Len(r)
      BY <1>1
    <3>1. r[2] = "tail" /\ r[3] = "tail" /\ r[1] = "head" /\ 3 <= Len(r)
      BY <1>1, <1>2, <1>3, <3>0
    <3>2. r[1 + 1] = "tail" /\ r[1 + 2] = "tail"
      BY <3>1
    <3> QED BY <3>1, <3>2 DEF ScalarAt
  <2>2. r \in {<<"head">>, <<"head", "tail">>} /\ Len(r) \in {1, 2}
    <3>1. CASE Len(r) = 1
      <4>1. r = <<"head">>
        BY <3>1, <1>2, <1>3
      <4> QED BY <4>1, <3>1
    <3>2. CASE Len(r) = 2
      <4>1. r[2] = "tail"
        BY <3>2, <1>1, <1>3
      <4>2. r = <<"head", "tail">>
        BY <3>2, <1>2, <1>3, <4>1
      <4> QED BY <4>2, <3>2
    <3>3. Len(r) = 1 \/ Len(r) = 2
      <4>1. \A k \in Nat \ {0} : ~(3 <= k) => k = 1 \/ k = 2
        OBVIOUS
      <4> QED BY <1>1, <2>1, <4>1
    <3> QED BY <3>1, <3>2, <3>3
  <2>3. Len(chunk) >= 3 - Len(r)
    BY <2>2, <1>1, <1>3
  <2> DEFINE s == SubSeq(chunk, 1, 3 - Len(r))
             scalar == r \o s
  <2>4. s \in Seq(Bytes) /\ Len(s) = 3 - Len(r) /\ \A i \in 1..Len(s) : s[i] = chunk[i]
    <3>1. PICK k : k = 3 - Len(r)
      OBVIOUS
    <3>2. k \in {1, 2} /\ k \in 0..Len(chunk)
      BY <3>1, <2>2, <2>3, <1>1
    <3> QED BY <3>1, <3>2
  <2>5. Len(scalar) = 3 /\ \A i \in 1..3 : scalar[i] = w[i]
    <3> HIDE DEF s
    <3>1. Len(scalar) = 3 /\ \A i \in 1..3 : scalar[i] = IF i <= Len(r) THEN r[i] ELSE s[i - Len(r)]
      BY <2>2, <2>4
    <3>2. ASSUME NEW i \in 1..3 PROVE scalar[i] = w[i]
      <4> HIDE DEF scalar
      <4>1. CASE i <= Len(r)
        BY <4>1, <3>1, <2>2, <1>1
      <4>2. CASE ~(i <= Len(r))
        <5>1. i - Len(r) \in 1..Len(s) /\ i - Len(r) \in 1..Len(chunk) /\ Len(r) + (i - Len(r)) = i
          BY <4>2, <2>2, <2>3, <2>4, <1>1
        <5> QED BY <5>1, <4>2, <3>1, <2>4, <1>1
      <4> QED BY <4>1, <4>2
    <3> QED BY <3>1, <3>2
  <2>6. ScalarAt(scalar, 1)
    <3> HIDE DEF scalar
    <3>1. scalar[1] = "head" /\ scalar[1 + 1] = "tail" /\ scalar[1 + 2] = "tail" /\ 1 + 2 <= Len(scalar)
      BY <2>5, <1>3
    <3> QED BY <3>1 DEF ScalarAt
  <2> QED BY <2>2, <2>3, <2>6
<1>4. ~ ScalarAt(w, 1)
  BY <1>2, <1>3 DEF ScalarAt
<1> QED BY <1>1, <1>2, <1>4, NoScalarNoCharacters DEF w

(* What a chunk completes is what it adds.                                 *)
LEMMA CompletedIsAdded ==
  ASSUME NEW b \in Seq(Bytes), NEW chunk \in Seq(Bytes)
  PROVE  /\ Characters(b \o chunk) = Characters(b) + NewlyCompleted(b, chunk)
         /\ NewlyCompleted(b, chunk) \in Nat
<1>1. /\ Valid(b) \in Seq(Bytes) /\ Rest(b) \in Seq(Bytes) /\ Splits(Valid(b), Len(Valid(b)))
      /\ Characters(Valid(b)) = Characters(b) /\ b = Valid(b) \o Rest(b)
      /\ Rest(b) # <<>> => ~ ScalarAt(Rest(b), 1)
  BY ValidIsWhole
<1>2. PICK r : r = Rest(b)
  OBVIOUS
<1>3. r \o chunk \in Seq(Bytes) /\ b \o chunk = Valid(b) \o (r \o chunk)
  <2>1. b \o chunk = (Valid(b) \o r) \o chunk
    BY <1>1, <1>2
  <2>2. \A x, y, z \in Seq(Bytes) : (x \o y) \o z = x \o (y \o z)
    BY ConcatAssociative
  <2>3. r \o chunk \in Seq(Bytes)
    BY <1>1, <1>2
  <2> QED BY <1>1, <1>2, <2>1, <2>2, <2>3
<1>4. Characters(b \o chunk) = Characters(b) + Characters(r \o chunk)
  BY <1>1, <1>3, CharactersOfConcat
<1>5. Characters(r \o chunk) = NewlyCompleted(b, chunk)
  <2>1. CASE r = <<>>
    BY <2>1, <1>2 DEF NewlyCompleted
  <2>2. CASE r # <<>> /\ r \in {<<"head">>, <<"head", "tail">>} /\ Len(chunk) >= 3 - Len(r)
             /\ ScalarAt(r \o SubSeq(chunk, 1, 3 - Len(r)), 1)
    <3>1. Characters(r \o chunk) = 1 + Characters(SubSeq(chunk, (3 - Len(r)) + 1, Len(chunk)))
      BY <1>1, <1>2, <2>2, RestIsCompleted
    <3>2. Len(r) \in Nat /\ Len(chunk) \in Nat /\ ~(Len(chunk) < 3 - Len(r))
      BY <1>1, <1>2, <2>2
    <3> QED BY <2>2, <1>2, <3>1, <3>2 DEF NewlyCompleted, Pending
  <2>3. CASE r # <<>> /\ ~(/\ r \in {<<"head">>, <<"head", "tail">>} /\ Len(chunk) >= 3 - Len(r)
                           /\ ScalarAt(r \o SubSeq(chunk, 1, 3 - Len(r)), 1))
    <3>1. Characters(r \o chunk) = 0
      BY <1>1, <1>2, <2>3, RestStaysOpen
    <3>2. Len(r) \in Nat /\ Len(chunk) \in Nat
      BY <1>1, <1>2
    <3>3. Len(chunk) >= 3 - Len(r) <=> ~(Len(chunk) < 3 - Len(r))
      BY <3>2
    <3> QED BY <2>3, <1>2, <3>1, <3>3 DEF NewlyCompleted, Pending
  <2> QED BY <2>1, <2>2, <2>3
<1>6. Characters(r \o chunk) \in Nat
  <2>1. PICK v : Splits(r \o chunk, v)
    BY <1>3, SplitExists
  <2> QED BY <1>3, <2>1, CharactersAreHeads
<1> QED BY <1>4, <1>5, <1>6

-----------------------------------------------------------------------------
(* The control.                                                            *)

Usages == [Axes -> Nat]

Charge == Seq(Axes \X Nat)

LEMMA UsedGrows ==
  ASSUME usage \in Usages, NEW a \in Axes, NEW n \in Nat
  PROVE  /\ Used(a, n) \in Nat /\ Used(a, n) >= usage[a] /\ Used(a, n) >= n
         /\ a \in SumAxes => Used(a, n) = usage[a] + n
<1>1. usage[a] \in Nat
  BY DEF Usages
<1>2. Max({usage[a], n}) \in {usage[a], n} /\ \A m \in {usage[a], n} : m <= Max({usage[a], n})
  <2>1. PICK k \in Nat : usage[a] <= k /\ n <= k
    BY <1>1
  <2>2. {usage[a], n} \in SUBSET (0..k) /\ {usage[a], n} # {}
    BY <1>1, <2>1
  <2> QED BY <2>2, MaxOfBounded
<1> QED BY <1>1, <1>2 DEF Used

(* Charges only raise what is used, and of their own axes only; what is    *)
(* afforded is all charged, and stays within the limits.                   *)
LEMMA SpendGrows ==
  ASSUME usage \in Usages, NEW charges \in Charge, Spend(charges)
  PROVE  /\ usage' \in Usages
         /\ \A a \in Axes : usage'[a] >= usage[a]
         /\ \A a \in Axes : (\A i \in 1..Len(charges) : charges[i][1] # a) => usage'[a] = usage[a]
         /\ \A i \in 1..Len(charges) :
              /\ Affordable(charges)
              /\ \A j \in 1..Len(charges) : charges[j][1] = charges[i][1] => j = i
              => usage'[charges[i][1]] = Used(charges[i][1], charges[i][2])
<1> DEFINE refused == {i \in 1..Len(charges) : ~ Accepts(charges[i][1], charges[i][2])}
           made == 1..(IF refused = {} THEN Len(charges) ELSE Min(refused))
           which(a) == CHOOSE i \in made : charges[i][1] = a
<1>1. usage' = [a \in Axes |-> IF \E i \in made : charges[i][1] = a
                               THEN Used(a, charges[which(a)][2]) ELSE usage[a]]
  BY DEF Spend
<1>2. \A i \in 1..Len(charges) : charges[i][1] \in Axes /\ charges[i][2] \in Nat
  BY DEF Charge
<1>3. made \subseteq 1..Len(charges)
  <2>1. CASE refused = {}
    BY <2>1
  <2>2. CASE refused # {}
    <3>1. refused \in SUBSET Nat /\ Len(charges) \in Nat
      BY DEF Charge
    <3>2. Min(refused) \in refused
      <4> HIDE DEF refused
      <4> QED BY <2>2, <3>1, MinOfNumbers
    <3>3. Min(refused) \in 1..Len(charges)
      BY <3>2
    <3> HIDE DEF refused
    <3> QED BY <2>2, <3>1, <3>3
  <2> QED BY <2>1, <2>2
<1>4. Affordable(charges) => made = 1..Len(charges)
  BY DEF Affordable
<1> HIDE DEF made
<1>5. ASSUME NEW a \in Axes, \E i \in made : charges[i][1] = a
      PROVE  which(a) \in made /\ charges[which(a)][1] = a
  BY <1>5
<1>6. \A a \in Axes : usage'[a] \in Nat /\ usage'[a] >= usage[a]
  <2> SUFFICES ASSUME NEW a \in Axes PROVE usage'[a] \in Nat /\ usage'[a] >= usage[a]
    OBVIOUS
  <2>1. CASE \E i \in made : charges[i][1] = a
    <3>1. which(a) \in 1..Len(charges)
      BY <1>3, <1>5, <2>1
    <3>2. charges[which(a)][2] \in Nat
      BY <1>2, <3>1
    <3> HIDE DEF which
    <3> QED BY <1>1, <2>1, <3>2, UsedGrows
  <2>2. CASE ~ \E i \in made : charges[i][1] = a
    <3>1. usage'[a] = usage[a]
      BY <1>1, <2>2
    <3> QED BY <3>1 DEF Usages
  <2> QED BY <2>1, <2>2
<1>7. usage' \in Usages
  <2> HIDE DEF which
  <2> QED BY <1>1, <1>6 DEF Usages
<1>8. ASSUME NEW a \in Axes, \A i \in 1..Len(charges) : charges[i][1] # a
      PROVE  usage'[a] = usage[a]
  <2>1. ~ \E i \in made : charges[i][1] = a
    BY <1>3, <1>8
  <2> HIDE DEF which
  <2> QED BY <1>1, <2>1
<1>9. ASSUME NEW i \in 1..Len(charges), Affordable(charges),
             \A j \in 1..Len(charges) : charges[j][1] = charges[i][1] => j = i
      PROVE  usage'[charges[i][1]] = Used(charges[i][1], charges[i][2])
  <2> DEFINE a == charges[i][1]
  <2>1. a \in Axes /\ i \in made
    BY <1>2, <1>4, <1>9
  <2>2. which(a) \in made /\ charges[which(a)][1] = a
    BY <2>1, <1>5
  <2>3. which(a) = i
    <3> HIDE DEF which
    <3> QED BY <2>2, <1>3, <1>9
  <2> HIDE DEF which
  <2> QED BY <1>1, <2>1, <2>3
<1> QED BY <1>6, <1>7, <1>8, <1>9

LEMMA AffordedIsWithin ==
  ASSUME usage \in Usages, NEW charges \in Charge, Affordable(charges),
         NEW i \in 1..Len(charges), charges[i][1] \in DOMAIN Limit
  PROVE  Used(charges[i][1], charges[i][2]) <= Limit[charges[i][1]]
BY DEF Affordable, Accepts

-----------------------------------------------------------------------------
(* Types.                                                                  *)

StateNames ==
  {"empty", "accumulating", "candidate_detected", "complete", "incomplete", "malformed",
   "ambiguous", "unparsed", "cancelled", "failed"}

Statuses == {"complete", "partial", "failed", "cancelled"}

Starts == [event : {"candidate_started"}, candidate_id : Nat]
Tellings == [event : {"candidate_updated"}, candidate_id : Nat, bytes_seen : Nat]
Completions == [event : {"candidate_completed"}, candidate_id : Nat]
Changes == [event : {"parser_state_changed"}, state : StateNames]
Terminals == [event : {"terminal"}, status : Statuses, emitted_items : Nat]

Planned == Starts \cup Tellings \cup Completions \cup Changes

Events == Planned \cup {Diagnostic} \cup Terminals

CandidatesOK(c) ==
  /\ IsFiniteSet(DOMAIN c) /\ DOMAIN c \subseteq Nat
  /\ c = [x \in DOMAIN c |-> c[x]]
  /\ \A x \in DOMAIN c : c[x] \in Nat

TypeOK ==
  /\ buffer \in Seq(Bytes) /\ decoded \in Nat /\ emitted \in Nat
  /\ state \in StateNames
  /\ CandidatesOK(candidates)
  /\ termination \in {"none", "cancelled", "budget", "failed", "lost"}
  /\ closed \in BOOLEAN /\ cancelled \in BOOLEAN /\ late \in BOOLEAN
  /\ usage \in Usages
  /\ phase \in {"idle", "scan", "update", "emit", "finish", "ending", "done"}
  /\ plan \in Seq(Planned) /\ events \in Seq(Events)
  /\ report \in [status : {"none", "complete", "partial"}, state : {"none"} \cup StateNames]
  /\ envelope \in {"none"} \cup Statuses

(* What a call has still to do goes with where it is: a stop leaves        *)
(* nothing planned and closes the stream, and only the end does otherwise. *)
CallOK ==
  /\ termination # "none" => closed /\ plan = <<>> /\ phase \in {"idle", "ending", "done"}
  /\ phase = "idle" => plan = <<>>
  /\ phase \in {"ending", "done"} => closed /\ plan = <<>>
  /\ closed => termination # "none" \/ phase \in {"ending", "done"}
  /\ phase = "finish" \/ (closed /\ termination = "none") => report.status # "none"

LEMMA EventTypes ==
  ASSUME TypeOK
  PROVE  /\ \A id \in Nat : Started(id) \in Starts /\ Updated(id) \in Tellings
                            /\ Completed(id) \in Completions
         /\ \A s \in StateNames : StateChanged(s) \in Changes
         /\ \A s \in Statuses : Terminal(s) \in Terminals
BY DEF TypeOK, Started, Updated, Completed, StateChanged, Terminal, Starts, Tellings,
       Completions, Changes, Terminals

LEMMA StopTypes ==
  ASSUME TypeOK, NEW reason \in {"cancelled", "budget", "failed", "lost"}
  PROVE  /\ StateOf(reason) \in StateNames /\ StatusOf(reason) \in Statuses
         /\ TerminationEvents(reason) \in Seq(Events)
<1>1. StateOf(reason) \in StateNames /\ StatusOf(reason) \in Statuses
  BY DEF StateOf, StatusOf, StateNames, Statuses
<1>2. /\ Diagnostic \in Events /\ StateChanged(StateOf(reason)) \in Events
      /\ Terminal(StatusOf(reason)) \in Events
  BY <1>1, EventTypes DEF Events, Planned
<1>3. TerminationEvents(reason) =
        IF closed THEN <<>>
        ELSE <<Diagnostic, StateChanged(StateOf(reason)), Terminal(StatusOf(reason))>>
  BY DEF TerminationEvents
<1> QED BY <1>1, <1>2, <1>3

LEMMA UpdatesType ==
  ASSUME TypeOK, NEW ids \in SUBSET DOMAIN candidates
  PROVE  /\ Updates(ids) \in Seq(Planned)
         /\ \A i \in 1..Len(Updates(ids)) : \E id \in ids : Updates(ids)[i] = Updated(id)
<1>1. ids \in SUBSET Nat /\ IsFiniteSet(ids) /\ Cardinality(ids) \in Nat
  BY FS_Subset, FS_CardinalityType DEF TypeOK, CandidatesOK
<1>2. \A i \in 1..Cardinality(ids) : Nth(ids, i) \in ids
  BY <1>1, NthHasRank
<1>3. \A i \in 1..Cardinality(ids) : Updated(Nth(ids, i)) \in Planned
  BY <1>1, <1>2, EventTypes DEF Planned
<1>4. Updates(ids) \in Seq(Planned) /\ Len(Updates(ids)) = Cardinality(ids)
  BY <1>1, <1>3 DEF Updates
<1> QED BY <1>1, <1>2, <1>4 DEF Updates

LEMMA LifeType ==
  ASSUME TypeOK, NEW found \in Seq(Nat), NEW i \in 1..Len(found)
  PROVE  Life(found, i) \in Seq(Planned)
<1> DEFINE id == found[i]
           fresh == id \notin DOMAIN candidates \/ \E j \in 1..(i - 1) : found[j] = id
           detects == i = 1 /\ state # "candidate_detected"
           a == IF fresh THEN <<Started(id)>> ELSE <<>>
           b == IF detects THEN <<StateChanged("candidate_detected")>> ELSE <<>>
           c == IF fresh \/ candidates[id] # Len(buffer) THEN <<Updated(id)>> ELSE <<>>
           d == <<Completed(id)>>
<1>1. /\ Started(id) \in Planned /\ StateChanged("candidate_detected") \in Planned
      /\ Updated(id) \in Planned /\ Completed(id) \in Planned
  BY EventTypes DEF Planned, StateNames
<1>2. a \in Seq(Planned) /\ b \in Seq(Planned) /\ c \in Seq(Planned) /\ d \in Seq(Planned)
  BY <1>1
<1>3. Life(found, i) = ((a \o b) \o c) \o d
  BY DEF Life
<1> HIDE DEF a, b, c, d
<1> QED BY <1>2, <1>3

LEMMA LivesType ==
  ASSUME TypeOK, NEW found \in Seq(Nat)
  PROVE  Lives(found) \in Seq(Planned)
<1> DEFINE blocks == [i \in 1..Len(found) |-> Life(found, i)]
<1>1. blocks \in Seq(Seq(Planned))
  BY LifeType
<1> HIDE DEF blocks
<1>2. FlattenSeq(blocks) \in Seq(Planned)
  BY <1>1, FlattenType
<1> QED BY <1>2 DEF Lives, blocks

(* The block of a place where a scan found something.                      *)
Birth(found, i) ==
  <<Started(found[i])>>
  \o (IF i = Min(Fresh(found)) /\ state # "candidate_detected"
      THEN <<StateChanged("candidate_detected")>> ELSE <<>>)
  \o <<Updated(found[i])>>

BirthOrNone(found, i) == IF i \in Fresh(found) THEN Birth(found, i) ELSE <<>>

LEMMA BirthsAreBlocks ==
  ASSUME NEW found
  PROVE  Births(found) = FlattenSeq([i \in 1..Len(found) |-> BirthOrNone(found, i)])
BY DEF Births, BirthOrNone, Birth

LEMMA BirthType ==
  ASSUME TypeOK, NEW found \in Seq(Nat), NEW i \in 1..Len(found)
  PROVE  Birth(found, i) \in Seq(Planned)
<1> DEFINE a == <<Started(found[i])>>
           b == IF i = Min(Fresh(found)) /\ state # "candidate_detected"
                THEN <<StateChanged("candidate_detected")>> ELSE <<>>
           c == <<Updated(found[i])>>
<1>1. /\ Started(found[i]) \in Planned /\ StateChanged("candidate_detected") \in Planned
      /\ Updated(found[i]) \in Planned
  BY EventTypes DEF Planned, StateNames
<1>2. a \in Seq(Planned) /\ b \in Seq(Planned) /\ c \in Seq(Planned)
  BY <1>1
<1>3. Birth(found, i) = (a \o b) \o c
  BY DEF Birth
<1> HIDE DEF a, b, c
<1> QED BY <1>2, <1>3

LEMMA BirthsType ==
  ASSUME TypeOK, NEW found \in Seq(Nat)
  PROVE  Births(found) \in Seq(Planned)
<1> DEFINE blocks == [i \in 1..Len(found) |-> BirthOrNone(found, i)]
<1>1. blocks \in Seq(Seq(Planned))
  <2>1. \A i \in 1..Len(found) : BirthOrNone(found, i) \in Seq(Planned)
    BY BirthType DEF BirthOrNone
  <2> QED BY <2>1
<1> HIDE DEF blocks
<1>2. FlattenSeq(blocks) \in Seq(Planned)
  BY <1>1, FlattenType
<1> QED BY <1>2, BirthsAreBlocks DEF blocks

-----------------------------------------------------------------------------
(* The steps: every stop is one, whatever made it.                         *)

Reasons == {"cancelled", "budget", "failed", "lost"}

Charged == UNCHANGED usage \/ \E charges \in Charge : Spend(charges)

Stops ==
  /\ ~ closed /\ Charged
  /\ \E reason \in Reasons, next \in {"idle", "ending"} : Stop(reason, next)

ScanFound(found) ==
  /\ phase = "scan" /\ plan = <<>>
  /\ Spend(<< <<"nodes", Len(found)>> >>)
  /\ plan' = Births(found) /\ phase' = "update"
  /\ UNCHANGED <<parser, control, report, envelope, events>>

LEMMA ChargeTypes ==
  ASSUME TypeOK
  PROVE  /\ \A chunk \in Chunks : Charges(chunk) \in Charge /\ chunk \in Seq(Bytes)
         /\ \A found \in Stable \cup Final :
              found \in Seq(Nat) /\ FinalCharges(found) \in Charge
              /\ << <<"nodes", Len(found)>> >> \in Charge
         /\ \A n \in EventSizes : n \in Nat /\ << <<"output_bytes", n>> >> \in Charge
<1>1. ASSUME NEW chunk \in Chunks PROVE Charges(chunk) \in Charge /\ chunk \in Seq(Bytes)
  <2>1. chunk \in Seq(Bytes) /\ buffer \in Seq(Bytes)
    BY ModelOutputStreamAssumption DEF TypeOK
  <2>2. NewlyCompleted(buffer, chunk) \in Nat
    BY <2>1, CompletedIsAdded
  <2>3. Len(chunk) \in Nat /\ Peak(Len(buffer) + Len(chunk)) \in Nat
    BY <2>1 DEF Peak
  <2>4. /\ <<"decoded_characters", NewlyCompleted(buffer, chunk)>> \in Axes \X Nat
        /\ <<"input_bytes", Len(chunk)>> \in Axes \X Nat
        /\ <<"memory_bytes", Peak(Len(buffer) + Len(chunk))>> \in Axes \X Nat
    BY <2>2, <2>3 DEF Axes, SumAxes
  <2> QED BY <2>1, <2>4 DEF Charges, Charge
<1>2. ASSUME NEW found \in Stable \cup Final
      PROVE  /\ found \in Seq(Nat) /\ FinalCharges(found) \in Charge
             /\ << <<"nodes", Len(found)>> >> \in Charge
  <2>1. found \in Seq(Nat)
    BY ModelOutputStreamAssumption
  <2>2. <<"nodes", Len(found)>> \in Axes \X Nat /\ <<"records", Len(found)>> \in Axes \X Nat
    BY <2>1 DEF Axes, SumAxes
  <2> QED BY <2>1, <2>2 DEF FinalCharges, Charge
<1>3. ASSUME NEW n \in EventSizes PROVE n \in Nat /\ << <<"output_bytes", n>> >> \in Charge
  <2>1. n \in Nat
    BY ModelOutputStreamAssumption
  <2>2. <<"output_bytes", n>> \in Axes \X Nat
    BY <2>1 DEF Axes, SumAxes
  <2> QED BY <2>1, <2>2 DEF Charge
<1> QED BY <1>1, <1>2, <1>3

LEMMA StepCases ==
  ASSUME TypeOK, CallOK, Next
  PROVE  \/ Stops
         \/ Cancel \/ Deadline
         \/ \E chunk \in Chunks : PushAccepted(chunk)
         \/ \E n \in EventSizes : EmitEvent(n)
         \/ \E found \in Stable : ScanFound(found)
         \/ Update \/ PushReturns
         \/ FinishTerminated
         \/ \E found \in Final : \E verdict \in Verdicts(found) : FinishParsed(found, verdict)
         \/ FinishSucceeds \/ Return
<1>1. Interruption \in Reasons /\ Ending \in {"idle", "ending"}
  BY DEF Interruption, Reasons, Ending
<1>2. PushChunk => Stops \/ \E chunk \in Chunks : PushAccepted(chunk)
  <2>1. PushStopped => Stops
    BY <1>1 DEF PushStopped, Stops, Charged, Idle, CallOK
  <2>2. ASSUME NEW chunk \in Chunks,
               PushTooLong(chunk) \/ PushRefused(chunk) \/ AllocationFails(chunk)
        PROVE  Stops
    <3>1. Charged
      BY <2>2, ChargeTypes DEF PushTooLong, PushRefused, AllocationFails, Charged
    <3>2. ~ closed
      BY <2>2 DEF PushTooLong, PushRefused, AllocationFails, Idle, CallOK
    <3>3. Stop("failed", "idle") \/ Stop("budget", "idle")
      BY <2>2 DEF PushTooLong, PushRefused, AllocationFails
    <3> QED BY <3>1, <3>2, <3>3 DEF Stops, Reasons
  <2> QED BY <2>1, <2>2 DEF PushChunk
<1>3. Emit => Stops \/ \E n \in EventSizes : EmitEvent(n)
  <2>1. EmitStopped => Stops
    BY <1>1 DEF EmitStopped, Stops, Charged, CallOK
  <2>2. ASSUME NEW n \in EventSizes, EmitRefused(n) PROVE Stops
    BY <1>1, <2>2, ChargeTypes DEF EmitRefused, Stops, Charged, CallOK, Reasons
  <2> QED BY <2>1, <2>2 DEF Emit
<1>4. ASSUME NEW found \in Stable, Scan(found) PROVE Stops \/ ScanFound(found)
  <2>1. << <<"nodes", Len(found)>> >> \in Charge
    BY ChargeTypes
  <2>2. CASE Affordable(<< <<"nodes", Len(found)>> >>)
    BY <1>4, <2>2 DEF Scan, ScanFound
  <2>3. CASE ~ Affordable(<< <<"nodes", Len(found)>> >>)
    BY <1>4, <2>1, <2>3 DEF Scan, Stops, Charged, CallOK, Reasons
  <2> QED BY <2>2, <2>3
<1>5. Fail => Stops
  BY DEF Fail, Stops, Charged, Idle, CallOK, Reasons
<1>6. FinishStopped \/ FinishInvalid \/ CandidateLost => Stops
  BY <1>1 DEF FinishStopped, FinishInvalid, CandidateLost, Stops, Charged, Idle, CallOK, Reasons
<1>7. ASSUME NEW found \in Final, FinishRefused(found) PROVE Stops
  BY <1>7, ChargeTypes DEF FinishRefused, Stops, Charged, Idle, CallOK, Reasons
<1> QED BY <1>2, <1>3, <1>4, <1>5, <1>6, <1>7 DEF Next, Finish

(* What is used is only ever raised.                                       *)
LEMMA ChargedGrows ==
  ASSUME usage \in Usages, Charged
  PROVE  usage' \in Usages /\ \A a \in Axes : usage'[a] >= usage[a]
<1>1. CASE UNCHANGED usage
  BY <1>1 DEF Usages
<1>2. CASE \E charges \in Charge : Spend(charges)
  BY <1>2, SpendGrows
<1> QED BY <1>1, <1>2 DEF Charged

LEMMA HandedTypes ==
  ASSUME TypeOK, plan # <<>>, Handed(Head(plan))
  PROVE  /\ events' \in Seq(Events) /\ state' \in StateNames /\ emitted' \in Nat
         /\ CandidatesOK(candidates')
<1> DEFINE e == Head(plan)
<1>1. e \in Planned
  BY DEF TypeOK
<1>2. events' \in Seq(Events)
  BY <1>1 DEF Handed, TypeOK, Events
<1>3. state' \in StateNames /\ emitted' \in Nat
  BY <1>1 DEF Handed, TypeOK, Planned, Starts, Tellings, Completions, Changes
<1>4. CandidatesOK(candidates')
  <2>1. CASE e.event = "candidate_updated" /\ phase # "finish"
    <3>1. candidates' = Noted(e.candidate_id, e.bytes_seen)
      BY <2>1 DEF Handed
    <3>2. e.candidate_id \in Nat /\ e.bytes_seen \in Nat
      BY <1>1, <2>1 DEF Planned, Starts, Tellings, Completions, Changes
    <3> HIDE DEF e
    <3>3. DOMAIN candidates' = DOMAIN candidates \cup {e.candidate_id}
      BY <3>1 DEF Noted
    <3>4. IsFiniteSet(DOMAIN candidates')
      <4>1. IsFiniteSet(DOMAIN candidates \cup {e.candidate_id})
        BY FS_AddElement DEF TypeOK, CandidatesOK
      <4> QED BY <3>3, <4>1
    <3> QED BY <3>1, <3>2, <3>3, <3>4 DEF TypeOK, CandidatesOK, Noted
  <2>2. CASE ~(e.event = "candidate_updated" /\ phase # "finish")
    BY <2>2 DEF Handed, TypeOK
  <2> QED BY <2>1, <2>2
<1> QED BY <1>2, <1>3, <1>4

LEMMA StopsTypes ==
  ASSUME TypeOK, CallOK, Stops
  PROVE  TypeOK' /\ CallOK'
<1>1. usage' \in Usages
  BY ChargedGrows DEF TypeOK, Stops
<1>2. PICK reason \in Reasons, next \in {"idle", "ending"} : Stop(reason, next)
  BY DEF Stops
<1>3. /\ termination' = reason /\ state' = StateOf(reason) /\ closed' = TRUE
      /\ events' = events \o TerminationEvents(reason)
      /\ plan' = <<>> /\ phase' = next
      /\ UNCHANGED <<buffer, decoded, emitted, candidates, control, report, envelope>>
  BY <1>2 DEF Stop
<1>4. events' \in Seq(Events) /\ state' \in StateNames
  BY <1>3, StopTypes DEF TypeOK, Reasons
<1> QED BY <1>1, <1>3, <1>4 DEF TypeOK, CallOK, Reasons, control

LEMMA TypesKept ==
  ASSUME TypeOK, CallOK, [Next]_vars
  PROVE  TypeOK' /\ CallOK'
<1>1. CASE UNCHANGED vars
  BY <1>1 DEF TypeOK, CallOK, vars, parser, control, call
<1>2. CASE Cancel \/ Deadline
  <2>1. UNCHANGED <<parser, usage, call, events>> /\ cancelled' \in BOOLEAN /\ late' \in BOOLEAN
    BY <1>2 DEF Cancel, Deadline, TypeOK
  <2> QED BY <2>1 DEF TypeOK, CallOK, parser, call
<1>3. ASSUME NEW chunk \in Chunks, PushAccepted(chunk) PROVE TypeOK' /\ CallOK'
  <2>1. usage' \in Usages
    BY <1>3, SpendGrows, ChargeTypes DEF PushAccepted, TypeOK
  <2>2. buffer' = buffer \o chunk /\ buffer' \in Seq(Bytes)
    BY <1>3, ChargeTypes DEF PushAccepted, TypeOK
  <2>3. decoded' \in Nat
    BY <1>3, ChargeTypes, CompletedIsAdded DEF PushAccepted, TypeOK
  <2>4. StateFor(buffer \o chunk) \in StateNames
    BY DEF StateFor, StateNames
  <2>5. plan' \in Seq(Planned) /\ phase' \in {"scan", "update", "emit"}
    <3>1. StateChanged(StateFor(buffer \o chunk)) \in Planned
      BY <2>4, EventTypes DEF Planned
    <3>2. plan' = IF state # StateFor(buffer \o chunk)
                  THEN <<StateChanged(StateFor(buffer \o chunk))>> ELSE <<>>
      BY <1>3 DEF PushAccepted
    <3>3. phase' \in {"scan", "update", "emit"}
      BY <1>3 DEF PushAccepted
    <3> QED BY <3>1, <3>2, <3>3
  <2> QED BY <1>3, <2>1, <2>2, <2>3, <2>5 DEF PushAccepted, Idle, TypeOK, CallOK, control
<1>4. ASSUME NEW n \in EventSizes, EmitEvent(n) PROVE TypeOK' /\ CallOK'
  <2>1. usage' \in Usages
    BY <1>4, SpendGrows, ChargeTypes DEF EmitEvent, TypeOK
  <2>2. /\ events' \in Seq(Events) /\ state' \in StateNames /\ emitted' \in Nat
        /\ CandidatesOK(candidates')
    BY <1>4, HandedTypes DEF EmitEvent
  <2>3. plan' \in Seq(Planned)
    BY <1>4 DEF EmitEvent, TypeOK
  <2> QED BY <1>4, <2>1, <2>2, <2>3 DEF EmitEvent, TypeOK, CallOK, control
<1>5. ASSUME NEW found \in Stable, ScanFound(found) PROVE TypeOK' /\ CallOK'
  <2>1. usage' \in Usages
    BY <1>5, SpendGrows, ChargeTypes DEF ScanFound, TypeOK
  <2>2. plan' \in Seq(Planned)
    BY <1>5, BirthsType, ChargeTypes DEF ScanFound
  <2> QED BY <1>5, <2>1, <2>2 DEF ScanFound, TypeOK, CallOK, parser, control
<1>6. CASE Update
  <2>1. plan' \in Seq(Planned)
    BY <1>6, UpdatesType DEF Update, Stale
  <2> QED BY <1>6, <2>1 DEF Update, TypeOK, CallOK, parser, control
<1>7. CASE PushReturns
  BY <1>7 DEF PushReturns, TypeOK, CallOK, parser, control
<1>8. CASE FinishTerminated
  <2>1. events' \in Seq(Events)
    BY <1>8, StopTypes DEF FinishTerminated, TypeOK
  <2> QED BY <1>8, <2>1 DEF FinishTerminated, TypeOK, CallOK, control
<1>9. ASSUME NEW found \in Final, NEW verdict \in Verdicts(found), FinishParsed(found, verdict)
      PROVE  TypeOK' /\ CallOK'
  <2>1. usage' \in Usages
    BY <1>9, SpendGrows, ChargeTypes DEF FinishParsed, TypeOK
  <2>2. verdict \in StateNames
    BY DEF Verdicts, StateNames
  <2>3. report' \in [status : {"complete", "partial"}, state : StateNames]
    BY <1>9, <2>2 DEF FinishParsed, Parsed
  <2> DEFINE left == DOMAIN candidates \ ToSet(found)
             change == IF left = {} THEN <<StateChanged(verdict)>> ELSE <<>>
  <2>4. plan' = Lives(found) \o change /\ candidates' = Restrict(candidates, left)
    BY <1>9 DEF FinishParsed
  <2>5. Lives(found) \in Seq(Planned)
    BY LivesType, ChargeTypes
  <2>6. change \in Seq(Planned)
    <3>1. StateChanged(verdict) \in Planned
      BY <2>2, EventTypes DEF Planned
    <3> QED BY <3>1
  <2>7. plan' \in Seq(Planned)
    <3> HIDE DEF change
    <3> QED BY <2>4, <2>5, <2>6
  <2>8. CandidatesOK(candidates')
    <3>1. IsFiniteSet(left)
      BY FS_Subset DEF TypeOK, CandidatesOK
    <3>2. left \subseteq DOMAIN candidates
      OBVIOUS
    <3> HIDE DEF left
    <3> QED BY <2>4, <3>1, <3>2 DEF TypeOK, CandidatesOK, Restrict
  <2>9. phase' = "finish" /\ phase = "idle" /\ termination = "none"
        /\ UNCHANGED <<buffer, decoded, state, emitted, termination, closed, control, envelope, events>>
    BY <1>9 DEF FinishParsed, Idle
  <2> QED BY <2>1, <2>3, <2>7, <2>8, <2>9 DEF TypeOK, CallOK, control
<1>10. CASE FinishSucceeds
  <2>1. report.status \in Statuses
    BY <1>10 DEF FinishSucceeds, TypeOK, CallOK, Statuses
  <2>2. events' \in Seq(Events)
    BY <1>10, <2>1, EventTypes DEF FinishSucceeds, TypeOK, Events
  <2> QED BY <1>10, <2>2 DEF FinishSucceeds, TypeOK, CallOK, control
<1>11. CASE Return
  <2>1. envelope' \in Statuses
    BY <1>11, StopTypes DEF Return, TypeOK, CallOK, Statuses
  <2> QED BY <1>11, <2>1 DEF Return, TypeOK, CallOK, parser, control
<1> QED BY <1>1, <1>2, <1>3, <1>4, <1>5, <1>6, <1>7, <1>8, <1>9, <1>10, <1>11, StepCases, StopsTypes

-----------------------------------------------------------------------------
(* What is retained was admitted.                                          *)

(* Charges of other axes leave what admitted the bytes as it is.           *)
LEMMA OtherChargesAdmit ==
  ASSUME TypeOK, RetainedWasAdmitted, NEW charges \in Charge, Spend(charges),
         \A i \in 1..Len(charges) : charges[i][1] \in {"records", "nodes", "output_bytes"},
         UNCHANGED <<buffer, decoded, termination>>
  PROVE  RetainedWasAdmitted'
<1>1. \A a \in {"decoded_characters", "input_bytes", "memory_bytes"} : usage'[a] = usage[a]
  <2> SUFFICES ASSUME NEW a \in {"decoded_characters", "input_bytes", "memory_bytes"}
               PROVE  usage'[a] = usage[a]
    OBVIOUS
  <2>1. a \in Axes /\ \A i \in 1..Len(charges) : charges[i][1] # a
    BY DEF Axes, SumAxes
  <2> QED BY <2>1, SpendGrows DEF TypeOK
<1> QED BY <1>1 DEF RetainedWasAdmitted, CharactersChargedOnce

LEMMA AcceptedIsAdmitted ==
  ASSUME TypeOK, RetainedWasAdmitted, NEW chunk \in Chunks, PushAccepted(chunk)
  PROVE  RetainedWasAdmitted'
<1> DEFINE charges == Charges(chunk)
           added == NewlyCompleted(buffer, chunk)
           n == Len(buffer) + Len(chunk)
<1>1. chunk \in Seq(Bytes) /\ charges \in Charge /\ buffer \in Seq(Bytes)
  BY ChargeTypes DEF TypeOK
<1>2. /\ buffer' = buffer \o chunk /\ decoded' = decoded + added
      /\ termination = "none" /\ termination' = "none"
      /\ Fits(chunk) /\ Affordable(charges) /\ Spend(charges)
  BY DEF PushAccepted, Idle
<1>3. Len(buffer') = n /\ n \in Nat /\ Len(chunk) \in Nat /\ Len(buffer) \in Nat
  BY <1>1, <1>2
<1>4. added \in Nat /\ Characters(buffer \o chunk) = Characters(buffer) + added
  BY <1>1, CompletedIsAdded
<1>5. /\ Len(charges) = 3 /\ charges[1] = <<"decoded_characters", added>>
      /\ charges[2] = <<"input_bytes", Len(chunk)>> /\ charges[3] = <<"memory_bytes", Peak(n)>>
  BY DEF Charges
<1>6. Peak(n) = n + 1
  BY DEF Peak
<1> HIDE DEF charges, added, n
<1>7. \A i \in 1..3 : usage'[charges[i][1]] = Used(charges[i][1], charges[i][2])
  <2>1. \A i, j \in 1..3 : charges[j][1] = charges[i][1] => j = i
    BY <1>5
  <2> QED BY <1>1, <1>2, <1>5, <2>1, SpendGrows DEF TypeOK
<1>8. /\ usage'["decoded_characters"] = usage["decoded_characters"] + added
      /\ usage'["input_bytes"] = usage["input_bytes"] + Len(chunk)
      /\ usage'["memory_bytes"] >= n + 1
  <2>1. /\ usage'["decoded_characters"] = Used("decoded_characters", added)
        /\ usage'["input_bytes"] = Used("input_bytes", Len(chunk))
        /\ usage'["memory_bytes"] = Used("memory_bytes", n + 1)
    BY <1>5, <1>6, <1>7
  <2>2. /\ "decoded_characters" \in Axes /\ "input_bytes" \in Axes /\ "memory_bytes" \in Axes
        /\ "decoded_characters" \in SumAxes /\ "input_bytes" \in SumAxes /\ n + 1 \in Nat
    BY <1>3 DEF Axes, SumAxes
  <2> QED BY <2>1, <2>2, <1>3, <1>4, UsedGrows DEF TypeOK
<1>9. "memory_bytes" \in DOMAIN Limit => Peak(n) <= Limit["memory_bytes"]
  <2> SUFFICES ASSUME "memory_bytes" \in DOMAIN Limit PROVE Peak(n) <= Limit["memory_bytes"]
    OBVIOUS
  <2>1. Used("memory_bytes", n + 1) <= Limit["memory_bytes"]
    <3>1. 3 \in 1..Len(charges) /\ charges[3][1] = "memory_bytes" /\ charges[3][2] = n + 1
      BY <1>5, <1>6
    <3>2. usage \in Usages
      BY DEF TypeOK
    <3>3. Used(charges[3][1], charges[3][2]) <= Limit[charges[3][1]]
      BY <1>1, <1>2, <3>1, <3>2, AffordedIsWithin
    <3> QED BY <3>1, <3>3
  <2>2. Used("memory_bytes", n + 1) >= n + 1 /\ Used("memory_bytes", n + 1) \in Nat
    <3>1. "memory_bytes" \in Axes /\ n + 1 \in Nat /\ usage \in Usages
      BY <1>3 DEF TypeOK, Axes
    <3> QED BY <3>1, UsedGrows
  <2>3. Limit["memory_bytes"] \in Nat
    BY ModelOutputStreamAssumption
  <2> QED BY <1>3, <1>6, <2>1, <2>2, <2>3
<1>10. n <= MaxBuffer
  BY <1>2 DEF Fits, n
<1>11. usage["decoded_characters"] \in Nat /\ usage["input_bytes"] \in Nat
       /\ decoded = Characters(buffer) /\ usage["decoded_characters"] = decoded
       /\ Len(buffer) <= usage["input_bytes"] /\ decoded \in Nat
  BY <1>2 DEF RetainedWasAdmitted, CharactersChargedOnce, TypeOK, Usages, Axes, SumAxes
<1>12. n <= usage'["input_bytes"]
  BY <1>3, <1>8, <1>11 DEF n
<1>13. decoded' = Characters(buffer') /\ usage'["decoded_characters"] = decoded'
  BY <1>2, <1>4, <1>8, <1>11
<1>14. Peak(n) <= usage'["memory_bytes"]
  <2>1. usage' \in Usages
    BY <1>1, <1>2, SpendGrows DEF TypeOK
  <2>2. usage'["memory_bytes"] \in Nat
    BY <2>1 DEF Usages, Axes
  <2> QED BY <1>3, <1>6, <1>8, <2>2
<1> QED BY <1>3, <1>9, <1>10, <1>12, <1>13, <1>14 DEF RetainedWasAdmitted, CharactersChargedOnce

LEMMA AdmittedKept ==
  ASSUME TypeOK, CallOK, RetainedWasAdmitted, [Next]_vars
  PROVE  RetainedWasAdmitted'
<1>1. CASE UNCHANGED <<buffer, decoded, termination, usage>>
  BY <1>1 DEF RetainedWasAdmitted, CharactersChargedOnce
<1>2. CASE Stops
  <2>1. UNCHANGED <<buffer, decoded>> /\ termination' # "none"
    BY <1>2 DEF Stops, Stop, Reasons
  <2>2. usage \in Usages /\ usage' \in Usages /\ \A a \in Axes : usage'[a] >= usage[a]
    BY <1>2, ChargedGrows DEF Stops, TypeOK
  <2>3. \A a \in {"input_bytes", "memory_bytes"} :
          usage[a] \in Nat /\ usage'[a] \in Nat /\ usage'[a] >= usage[a]
    BY <2>2 DEF Usages, Axes, SumAxes
  <2>4. Len(buffer) \in Nat /\ Peak(Len(buffer)) \in Nat
    BY DEF TypeOK, Peak
  <2> QED BY <2>1, <2>3, <2>4 DEF RetainedWasAdmitted, CharactersChargedOnce
<1>3. ASSUME NEW n \in EventSizes, EmitEvent(n) PROVE RetainedWasAdmitted'
  <2> DEFINE charges == << <<"output_bytes", n>> >>
  <2>1. charges \in Charge /\ Spend(charges) /\ UNCHANGED <<buffer, decoded, termination>>
    BY <1>3, ChargeTypes DEF EmitEvent
  <2>2. \A i \in 1..Len(charges) : charges[i][1] \in {"records", "nodes", "output_bytes"}
    OBVIOUS
  <2> HIDE DEF charges
  <2> QED BY <2>1, <2>2, OtherChargesAdmit
<1>4. ASSUME NEW found \in Stable, ScanFound(found) PROVE RetainedWasAdmitted'
  <2> DEFINE charges == << <<"nodes", Len(found)>> >>
  <2>1. charges \in Charge /\ Spend(charges) /\ UNCHANGED <<buffer, decoded, termination>>
    BY <1>4, ChargeTypes DEF ScanFound, parser
  <2>2. \A i \in 1..Len(charges) : charges[i][1] \in {"records", "nodes", "output_bytes"}
    OBVIOUS
  <2> HIDE DEF charges
  <2> QED BY <2>1, <2>2, OtherChargesAdmit
<1>5. ASSUME NEW found \in Final, NEW verdict \in Verdicts(found), FinishParsed(found, verdict)
      PROVE  RetainedWasAdmitted'
  <2> DEFINE charges == FinalCharges(found)
  <2>1. charges \in Charge /\ Spend(charges) /\ UNCHANGED <<buffer, decoded, termination>>
    BY <1>5, ChargeTypes DEF FinishParsed
  <2>2. \A i \in 1..Len(charges) : charges[i][1] \in {"records", "nodes", "output_bytes"}
    BY DEF FinalCharges
  <2> HIDE DEF charges
  <2> QED BY <2>1, <2>2, OtherChargesAdmit
<1>6. CASE Cancel \/ Deadline \/ Update \/ PushReturns \/ FinishTerminated \/ FinishSucceeds \/ Return
  <2>1. UNCHANGED <<buffer, decoded, termination, usage>>
    BY <1>6 DEF Cancel, Deadline, Update, PushReturns, FinishTerminated, FinishSucceeds, Return, parser
  <2> QED BY <2>1, <1>1
<1>7. CASE UNCHANGED vars
  BY <1>7, <1>1 DEF vars, parser
<1> QED BY <1>2, <1>3, <1>4, <1>5, <1>6, <1>7, StepCases, AcceptedIsAdmitted

LEMMA InitTypes == Init => TypeOK /\ CallOK
<1> SUFFICES ASSUME Init PROVE TypeOK /\ CallOK
  OBVIOUS
<1>1. CandidatesOK(candidates)
  <2>1. candidates = <<>> /\ DOMAIN candidates = {}
    BY DEF Init
  <2> QED BY <2>1, FS_EmptySet DEF CandidatesOK
<1>2. usage \in Usages
  BY DEF Init, Usages
<1>3. /\ buffer \in Seq(Bytes) /\ decoded \in Nat /\ emitted \in Nat /\ state \in StateNames
      /\ termination = "none" /\ closed = FALSE /\ cancelled = FALSE /\ late = FALSE
      /\ phase = "idle" /\ plan = <<>> /\ envelope = "none"
      /\ plan \in Seq(Planned) /\ events \in Seq(Events)
  BY DEF Init, StateNames
<1>4. report \in [status : {"none", "complete", "partial"}, state : {"none"} \cup StateNames]
  BY DEF Init
<1> QED BY <1>1, <1>2, <1>3, <1>4 DEF TypeOK, CallOK

LEMMA InitAdmitted == Init => RetainedWasAdmitted
<1> SUFFICES ASSUME Init PROVE RetainedWasAdmitted
  OBVIOUS
<1>1. buffer = <<>> /\ decoded = 0 /\ usage["decoded_characters"] = 0 /\ usage["input_bytes"] = 0
  BY DEF Init, Axes, SumAxes
<1>2. Splits(buffer, 0) /\ buffer \in Seq(Bytes)
  BY <1>1 DEF Splits
<1>3. Heads(buffer, 1, 0) = {}
  BY DEF Heads
<1>4. Characters(buffer) = 0
  BY <1>2, <1>3, CharactersAreHeads, FS_EmptySet
<1> QED BY <1>1, <1>4, ModelOutputStreamAssumption DEF RetainedWasAdmitted, CharactersChargedOnce

(* Wherever a caller cuts the text, whatever the limits are and whichever  *)
(* charge is refused, what push_bytes retains was admitted before: every   *)
(* character is charged once, the bytes fit and are charged, and the peak  *)
(* of finishing them is within the budget.                                 *)
THEOREM RetainedWasAdmittedHolds == Spec => []RetainedWasAdmitted
<1>1. Init => TypeOK /\ CallOK /\ RetainedWasAdmitted
  BY InitTypes, InitAdmitted
<1>2. TypeOK /\ CallOK /\ RetainedWasAdmitted /\ [Next]_vars
        => (TypeOK /\ CallOK /\ RetainedWasAdmitted)'
  BY TypesKept, AdmittedKept
<1> QED BY <1>1, <1>2, PTL DEF Spec

-----------------------------------------------------------------------------
(* The stream that its consumers count.                                    *)

(* An element greater than all comes last and moves no other.              *)
LEMMA TopIsLast ==
  ASSUME NEW S \in SUBSET Nat, IsFiniteSet(S), NEW x \in Nat, \A y \in S : y < x
  PROVE  /\ IsFiniteSet(S \cup {x}) /\ Cardinality(S \cup {x}) = Cardinality(S) + 1
         /\ \A n \in 1..Cardinality(S) : Nth(S \cup {x}, n) = Nth(S, n)
         /\ Nth(S \cup {x}, Cardinality(S) + 1) = x
<1> DEFINE T == S \cup {x}
<1>0. x \notin S /\ T \in SUBSET Nat /\ \A y \in S : y \in Nat
  OBVIOUS
<1>1. IsFiniteSet(T) /\ Cardinality(T) = Cardinality(S) + 1 /\ Cardinality(S) \in Nat
  BY <1>0, FS_AddElement, FS_CardinalityType
<1>2. \A z \in S : Below(T, z) = Below(S, z)
  <2>1. \A z \in S : ~(x < z)
    BY <1>0
  <2> QED BY <2>1 DEF Below
<1>3. Below(T, x) = S
  <2>1. ~(x < x) /\ \A y \in S : y < x
    OBVIOUS
  <2> QED BY <2>1 DEF Below
<1>4. ASSUME NEW n \in 1..Cardinality(S) PROVE Nth(T, n) = Nth(S, n)
  <2>1. Nth(S, n) \in S /\ Cardinality(Below(S, Nth(S, n))) = n - 1
    BY NthHasRank
  <2>2. Nth(S, n) \in T /\ Cardinality(Below(T, Nth(S, n))) = n - 1
    BY <2>1, <1>2
  <2>3. n \in 1..Cardinality(T)
    BY <1>1
  <2>4. \A y \in T : Cardinality(Below(T, y)) = n - 1 => Nth(T, n) = y
    <3> HIDE DEF T
    <3> QED BY <1>0, <1>1, <2>3, NthHasRank
  <2> HIDE DEF T
  <2> QED BY <2>2, <2>4
<1>5. Nth(T, Cardinality(S) + 1) = x
  <2>1. Cardinality(S) + 1 \in 1..Cardinality(T) /\ (Cardinality(S) + 1) - 1 = Cardinality(S)
    BY <1>1
  <2>2. x \in T /\ Cardinality(Below(T, x)) = (Cardinality(S) + 1) - 1
    BY <1>3, <2>1
  <2> HIDE DEF T
  <2> QED BY <1>0, <1>1, <2>1, <2>2, NthHasRank
<1> QED BY <1>1, <1>4, <1>5

Items ==
  [event : {"item"}, sequence : Nat]
  \cup [event : {"terminal"}, status : Statuses, emitted_items : Nat, partial : BOOLEAN]

(* An open stream has told of no stop and has handed over as many          *)
(* completed candidates as it counts; a closed one ends with its terminal. *)
StreamOK ==
  /\ ~ closed =>
       /\ Cardinality(Counted) = emitted
       /\ \A i \in 1..Len(events) : events[i].event \notin {"terminal", "diagnostic"}
  /\ closed => events # <<>> /\ events[Len(events)].event = "terminal"

LEMMA CountedFinite ==
  ASSUME TypeOK
  PROVE  /\ Counted \in SUBSET (1..Len(events)) /\ IsFiniteSet(Counted)
         /\ Cardinality(Counted) \in Nat /\ Len(events) \in Nat
<1>1. Len(events) \in Nat /\ Counted \in SUBSET (1..Len(events))
  BY DEF TypeOK, Counted
<1>2. IsFiniteSet(1..Len(events))
  BY <1>1, FS_Interval
<1> QED BY <1>1, <1>2, FS_Subset, FS_CardinalityType

LEMMA CountedAreEvents ==
  ASSUME TypeOK, NEW n \in 1..Cardinality(Counted)
  PROVE  Nth(Counted, n) \in Counted /\ Nth(Counted, n) \in 1..Len(events)
<1>1. Counted \in SUBSET Nat /\ IsFiniteSet(Counted)
  BY CountedFinite
<1> QED BY <1>1, NthHasRank, CountedFinite

(* The events of an open stream are items; more of them that the consumer  *)
(* does not count change nothing.                                          *)
MappedAt(n) ==
  LET e == events[Nth(Counted, n)]
  IN  IF e.event = "terminal"
      THEN [event |-> "terminal", status |-> e.status, emitted_items |-> e.emitted_items,
            partial |-> \E j \in 1..Len(events) : events[j] = Diagnostic]
      ELSE [event |-> "item", sequence |-> n - 1]

LEMMA MappedIs == Mapped = [n \in 1..Cardinality(Counted) |-> MappedAt(n)]
BY DEF Mapped, MappedAt

LEMMA OpenIsItems ==
  ASSUME TypeOK, StreamOK, ~ closed
  PROVE  /\ Mapped = [n \in 1..emitted |-> [event |-> "item", sequence |-> n - 1]]
         /\ Mapped \in Seq(Items) /\ Len(Mapped) = emitted
<1>1. \A n \in 1..Cardinality(Counted) : MappedAt(n) = [event |-> "item", sequence |-> n - 1]
  BY CountedAreEvents DEF MappedAt, StreamOK
<1>2. Cardinality(Counted) = emitted /\ emitted \in Nat
  BY DEF StreamOK, TypeOK
<1>3. Mapped = [n \in 1..emitted |-> [event |-> "item", sequence |-> n - 1]]
  BY <1>1, <1>2, MappedIs
<1>4. \A n \in 1..emitted : [event |-> "item", sequence |-> n - 1] \in Items
  BY <1>2 DEF Items
<1>5. Mapped \in Seq(Items) /\ Len(Mapped) = emitted
  BY <1>2, <1>3, <1>4
<1> QED BY <1>3, <1>5

(* What is appended is counted when its last is.                           *)
LEMMA CountedGrows ==
  ASSUME TypeOK, TypeOK', NEW s \in Seq(Events), s # <<>>, events' = events \o s,
         \A i \in 1..Len(s) : i < Len(s) => s[i].event \notin {"candidate_completed", "terminal"}
  PROVE  /\ Len(events') \in Nat /\ events'[Len(events')] = s[Len(s)]
         /\ \A y \in Counted : y < Len(events')
         /\ s[Len(s)].event \notin {"candidate_completed", "terminal"} => Counted' = Counted
         /\ s[Len(s)].event \in {"candidate_completed", "terminal"} =>
              Counted' = Counted \cup {Len(events')}
<1> DEFINE k == Len(events)
           m == Len(s)
           K == {"candidate_completed", "terminal"}
<1>1. /\ k \in Nat /\ m \in Nat \ {0} /\ Len(events') = k + m
      /\ \A i \in 1..k : events'[i] = events[i]
      /\ \A i \in 1..m : events'[k + i] = s[i]
  BY DEF TypeOK
<1>2. events'[Len(events')] = s[Len(s)]
  BY <1>1
<1>3. Counted \in SUBSET (1..k)
  BY CountedFinite
<1>4. \A y \in Counted : y < Len(events')
  BY <1>1, <1>3
<1>5. ASSUME NEW y \in 1..(k + m) PROVE y \in Counted' <=> y \in Counted \/ (y = k + m /\ s[m].event \in K)
  <2>1. y \in Counted' <=> events'[y].event \in K
    BY <1>1 DEF Counted
  <2>2. CASE y <= k
    <3>1. events'[y] = events[y] /\ y \in 1..k /\ y # k + m
      BY <1>1, <2>2
    <3> QED BY <2>1, <3>1 DEF Counted
  <2>3. CASE y > k
    <3>1. y - k \in 1..m /\ k + (y - k) = y /\ y \notin 1..k
      BY <1>1, <2>3
    <3>2. events'[y] = s[y - k] /\ y \notin Counted
      BY <1>1, <1>3, <3>1
    <3>3. CASE y = k + m
      BY <2>1, <3>2, <3>3, <1>1
    <3>4. CASE y # k + m
      <4>1. y - k < m
        BY <1>1, <3>1, <3>4
      <4>2. events'[y].event \notin K
        BY <3>1, <3>2, <4>1
      <4> QED BY <2>1, <3>2, <3>4, <4>2
    <3> QED BY <3>3, <3>4
  <2> QED BY <2>2, <2>3, <1>1
<1>6. Counted' \in SUBSET (1..(k + m)) /\ Counted \in SUBSET (1..(k + m))
  BY <1>1, <1>3 DEF Counted
<1>7. s[m].event \notin K => Counted' = Counted
  BY <1>5, <1>6
<1>8. s[m].event \in K => Counted' = Counted \cup {k + m}
  <2> SUFFICES ASSUME s[m].event \in K PROVE Counted' = Counted \cup {k + m}
    OBVIOUS
  <2>1. k + m \in 1..(k + m)
    BY <1>1
  <2>2. \A y \in 1..(k + m) : y \in Counted' <=> y \in Counted \cup {k + m}
    BY <1>5
  <2> HIDE DEF k, m, K
  <2> QED BY <1>6, <2>1, <2>2
<1> QED BY <1>1, <1>2, <1>4, <1>7, <1>8

(* One that is counted is one item more.                                   *)
LEMMA MappedGrows ==
  ASSUME TypeOK, TypeOK', StreamOK, ~ closed,
         NEW s \in Seq(Events), s # <<>>, events' = events \o s,
         \A i \in 1..Len(s) : i < Len(s) => s[i].event \notin {"candidate_completed", "terminal"},
         NEW e, e = s[Len(s)], e.event \in {"candidate_completed", "terminal"}
  PROVE  /\ Len(Mapped') = Len(Mapped) + 1 /\ SubSeq(Mapped', 1, Len(Mapped)) = Mapped
         /\ Len(Mapped) = emitted /\ Cardinality(Counted') = emitted + 1
         /\ \E p \in BOOLEAN :
              /\ p = (\E j \in 1..Len(events') : events'[j] = Diagnostic)
              /\ Mapped'[Len(Mapped')] =
                 IF e.event = "terminal"
                 THEN [event |-> "terminal", status |-> e.status,
                       emitted_items |-> e.emitted_items, partial |-> p]
                 ELSE [event |-> "item", sequence |-> Len(Mapped)]
<1>1. /\ Len(events') \in Nat /\ events'[Len(events')] = e
      /\ \A y \in Counted : y < Len(events') /\ Counted' = Counted \cup {Len(events')}
  BY CountedGrows
<1>2. /\ Mapped = [n \in 1..emitted |-> [event |-> "item", sequence |-> n - 1]]
      /\ Mapped \in Seq(Items) /\ Len(Mapped) = emitted
  BY OpenIsItems
<1>3. emitted \in Nat /\ Cardinality(Counted) = emitted
  BY DEF TypeOK, StreamOK
<1>4. Counted \in SUBSET Nat /\ IsFiniteSet(Counted)
  BY CountedFinite
<1>size. PICK k \in Nat : k = emitted
  BY <1>3
<1>5. Cardinality(Counted') = k + 1 /\ Nth(Counted', k + 1) = Len(events')
      /\ \A n \in 1..k : Nth(Counted', n) = Nth(Counted, n)
  <2>1. \A y \in Counted : y < Len(events')
    BY <1>1
  <2>2. Counted' = Counted \cup {Len(events')}
    BY <1>1, CountedGrows
  <2> QED BY <1>1, <1>3, <1>4, <1>size, <2>1, <2>2, TopIsLast
<1>6. Mapped' = [n \in 1..(k + 1) |-> MappedAt(n)']
  BY <1>5 DEF Mapped, MappedAt
<1>7. ASSUME NEW n \in 1..k
      PROVE  MappedAt(n)' = [event |-> "item", sequence |-> n - 1]
  <2>1. Nth(Counted, n) \in 1..Len(events)
    BY <1>3, <1>size, CountedAreEvents
  <2>2. events'[Nth(Counted, n)] = events[Nth(Counted, n)]
    BY <2>1 DEF TypeOK
  <2>3. events[Nth(Counted, n)].event # "terminal"
    BY <2>1 DEF StreamOK
  <2> QED BY <1>5, <2>2, <2>3 DEF MappedAt
<1>8. PICK p \in BOOLEAN : p = (\E j \in 1..Len(events') : events'[j] = Diagnostic)
  OBVIOUS
<1>9. MappedAt(k + 1)' =
        IF e.event = "terminal"
        THEN [event |-> "terminal", status |-> e.status,
              emitted_items |-> e.emitted_items, partial |-> p]
        ELSE [event |-> "item", sequence |-> k]
  <2>1. (k + 1) - 1 = k
    BY <1>size
  <2>2. events'[Nth(Counted', k + 1)] = e
    BY <1>1, <1>5
  <2>3. CASE e.event = "terminal"
    BY <2>2, <2>3, <1>8 DEF MappedAt
  <2>4. CASE e.event # "terminal"
    BY <2>1, <2>2, <2>4 DEF MappedAt
  <2> QED BY <2>3, <2>4
<1>typed. \A n \in 1..(k + 1) : MappedAt(n)' \in Items
  <2>1. e \in Events
    OBVIOUS
  <2>2. MappedAt(k + 1)' \in Items
    <3>1. CASE e.event = "terminal"
      <4>1. e \in Terminals
        BY <2>1, <3>1 DEF Events, Planned, Starts, Tellings, Completions, Changes, Diagnostic
      <4>2. e.status \in Statuses /\ e.emitted_items \in Nat
        BY <4>1 DEF Terminals
      <4>3. [event |-> "terminal", status |-> e.status, emitted_items |-> e.emitted_items,
             partial |-> p] \in Items
        BY <4>2 DEF Items
      <4> QED BY <3>1, <4>3, <1>9
    <3>2. CASE e.event # "terminal"
      BY <3>2, <1>9, <1>size DEF Items
    <3> QED BY <3>1, <3>2
  <2>3. \A n \in 1..k : MappedAt(n)' \in Items
    BY <1>3, <1>size, <1>7 DEF Items
  <2>4. \A n \in 1..(k + 1) : n \in 1..k \/ n = k + 1
    BY <1>size
  <2> QED BY <2>2, <2>3, <2>4
<1>10. Mapped' \in Seq(Items) /\ Len(Mapped') = k + 1
       /\ Mapped'[k + 1] = MappedAt(k + 1)'
  <2> DEFINE f == [n \in 1..(k + 1) |-> MappedAt(n)']
  <2>1. f \in [1..(k + 1) -> Items]
    BY <1>typed
  <2>2. k + 1 \in Nat /\ k + 1 \in 1..(k + 1)
    BY <1>size
  <2>3. f[k + 1] = MappedAt(k + 1)'
    BY <2>2
  <2>4. Mapped' = f
    BY <1>6
  <2> HIDE DEF f
  <2>5. f \in Seq(Items) /\ Len(f) = k + 1
    BY <2>1, <2>2
  <2> QED BY <2>3, <2>4, <2>5
<1>11. SubSeq(Mapped', 1, k) = Mapped
  <2>1. \A n \in 1..k : Mapped'[n] = Mapped[n]
    <3> SUFFICES ASSUME NEW n \in 1..k PROVE Mapped'[n] = Mapped[n]
      OBVIOUS
    <3>1. Mapped'[n] = MappedAt(n)'
      BY <1>3, <1>size, <1>6
    <3> QED BY <3>1, <1>2, <1>size, <1>7
  <2>2. \A n \in 1..k : Mapped'[n] \in Items
    <3>1. \A n \in 1..k : n \in 1..Len(Mapped')
      BY <1>3, <1>size, <1>10
    <3> QED BY <3>1, <1>10
  <2>3. /\ SubSeq(Mapped', 1, k) \in Seq(Items) /\ Len(SubSeq(Mapped', 1, k)) = k
        /\ \A n \in 1..k : SubSeq(Mapped', 1, k)[n] = Mapped'[n]
    <3>1. 1 \in Int /\ k \in Int
      BY <1>size
    <3>2. /\ SubSeq(Mapped', 1, k) \in Seq(Items)
          /\ Len(SubSeq(Mapped', 1, k)) = IF 1 <= k THEN k - 1 + 1 ELSE 0
          /\ \A n \in 1..(k - 1 + 1) : SubSeq(Mapped', 1, k)[n] = Mapped'[1 + n - 1]
      BY <2>2, <3>1, SubSeqProperties
    <3> QED BY <3>2, <1>3
  <2> QED BY <1>2, <1>size, <2>1, <2>3, SeqEqual
<1> QED BY <1>2, <1>size, <1>5, <1>8, <1>9, <1>10, <1>11

LEMMA StopEvents ==
  ASSUME TypeOK, CallOK, Stops
  PROVE  \E s \in Seq(Events) :
           /\ Len(s) = 3 /\ events' = events \o s /\ phase # "done" /\ phase' # "done"
           /\ s[1] = Diagnostic /\ s[2].event = "parser_state_changed"
           /\ s[3].event = "terminal" /\ s[3].emitted_items = emitted /\ s[3].status # "complete"
           /\ closed'
<1>1. ~ closed
  BY DEF Stops
<1>2. PICK reason \in Reasons, next \in {"idle", "ending"} : Stop(reason, next)
  BY DEF Stops
<1> DEFINE s == <<Diagnostic, StateChanged(StateOf(reason)), Terminal(StatusOf(reason))>>
<1>3. s \in Seq(Events) /\ TerminationEvents(reason) = s
  BY <1>1, StopTypes DEF TerminationEvents, Reasons
<1>4. events' = events \o s /\ phase' = next /\ closed'
  BY <1>2, <1>3 DEF Stop
<1>5. /\ s[1] = Diagnostic /\ s[2].event = "parser_state_changed"
      /\ s[3].event = "terminal" /\ s[3].emitted_items = emitted /\ s[3].status # "complete"
  BY DEF StateChanged, Terminal, StatusOf, Reasons
<1>6. phase # "done" /\ phase' # "done"
  BY <1>1, <1>4 DEF CallOK
<1>7. Len(s) = 3
  OBVIOUS
<1> HIDE DEF s
<1> QED BY <1>3, <1>4, <1>5, <1>6, <1>7

StreamStep == StreamOK' /\ [Promise!Next]_(Promise!vars)

LEMMA QuietStep ==
  ASSUME StreamOK, UNCHANGED <<events, emitted, closed, phase>>
  PROVE  StreamStep
<1>1. Counted' = Counted /\ Mapped' = Mapped
  BY DEF Counted, Mapped
<1> QED BY <1>1 DEF StreamStep, StreamOK, Promise!vars

LEMMA StreamSteps ==
  ASSUME TypeOK, TypeOK', CallOK, StreamOK, [Next]_vars
  PROVE  StreamStep
<1>1. CASE UNCHANGED <<events, emitted, closed, phase>>
  BY <1>1, QuietStep
<1>quiet. ASSUME phase # "done", phase' # "done", UNCHANGED <<events, emitted, closed>>
          PROVE  StreamStep
  <2>1. Counted' = Counted /\ Mapped' = Mapped
    BY <1>quiet DEF Counted, Mapped
  <2> QED BY <1>quiet, <2>1 DEF StreamStep, StreamOK, Promise!vars
<1>2. CASE Stops
  <2>1. PICK s \in Seq(Events) :
           /\ Len(s) = 3 /\ events' = events \o s /\ phase # "done" /\ phase' # "done"
           /\ s[1] = Diagnostic /\ s[2].event = "parser_state_changed"
           /\ s[3].event = "terminal" /\ s[3].emitted_items = emitted /\ s[3].status # "complete"
           /\ closed'
    BY <1>2, StopEvents
  <2>2. ~ closed /\ emitted' = emitted
    BY <1>2 DEF Stops, Stop
  <2>3. \A i \in 1..Len(s) : i < Len(s) => s[i].event \notin {"candidate_completed", "terminal"}
    BY <2>1 DEF Diagnostic
  <2>4. s # <<>> /\ s[Len(s)] = s[3]
    <3>1. Len(s) = 3
      BY <2>1
    <3>2. Len(<<>>) = 0
      OBVIOUS
    <3> QED BY <3>1, <3>2
  <2>5. events' # <<>> /\ events'[Len(events')] = s[3]
    <3>1. events' = events \o s
      BY <2>1
    <3>2. events'[Len(events')] = s[3]
      BY <3>1, <2>3, <2>4, CountedGrows
    <3>3. events' # <<>>
      BY <3>1, <2>4, ConcatSimplifications DEF TypeOK
    <3> QED BY <3>2, <3>3
  <2>6. PICK p \in BOOLEAN :
          /\ Len(Mapped') = Len(Mapped) + 1 /\ SubSeq(Mapped', 1, Len(Mapped)) = Mapped
          /\ Len(Mapped) = emitted
          /\ Mapped'[Len(Mapped')] = [event |-> "terminal", status |-> s[3].status,
                                      emitted_items |-> s[3].emitted_items, partial |-> p]
    BY <2>1, <2>2, <2>3, <2>4, MappedGrows
  <2>7. Promise!Terminate
    <3>1. Promise!Grows
      <4>1. ~ Promise!Terminated
        BY <2>2, <2>6, OpenIsItems DEF Promise!Terminated, Promise!IsTerminal, Promise!Newest, TypeOK
      <4> QED BY <4>1, <2>1, <2>6 DEF Promise!Grows
    <3>2. Mapped'[Len(Mapped')].event = "terminal"
          /\ Mapped'[Len(Mapped')].emitted_items = Len(Mapped)
          /\ Mapped'[Len(Mapped')].status # "complete"
      BY <2>1, <2>6
    <3> QED BY <3>1, <3>2 DEF Promise!Terminate, Promise!IsTerminal, Promise!Newest
  <2>8. StreamOK'
    BY <2>1, <2>5 DEF StreamOK
  <2> QED BY <2>7, <2>8 DEF StreamStep, Promise!Next
<1>3. CASE Cancel \/ Deadline \/ Update \/ PushReturns
  <2>1. UNCHANGED <<events, emitted, closed>> /\ (phase' = "done" <=> phase = "done")
    BY <1>3 DEF Cancel, Deadline, Update, PushReturns, parser, call
  <2>2. CASE phase = "done"
    BY <1>1, <1>3, <2>2 DEF Cancel, Deadline, Update, PushReturns, parser, call
  <2> QED BY <2>1, <2>2, <1>quiet
<1>4. ASSUME NEW chunk \in Chunks, PushAccepted(chunk) PROVE StreamStep
  BY <1>4, <1>quiet DEF PushAccepted, Idle
<1>5. ASSUME NEW found \in Stable, ScanFound(found) PROVE StreamStep
  BY <1>5, <1>quiet DEF ScanFound, parser
<1>6. ASSUME NEW found \in Final, NEW verdict \in Verdicts(found), FinishParsed(found, verdict)
      PROVE  StreamStep
  BY <1>6, <1>quiet DEF FinishParsed, Idle
<1>7. CASE FinishTerminated
  <2>1. closed /\ closed' /\ events' = events /\ UNCHANGED emitted /\ phase # "done" /\ phase' # "done"
    BY <1>7 DEF FinishTerminated, CallOK, TerminationEvents, TypeOK
  <2> QED BY <2>1, <1>quiet
<1>8. CASE Return
  <2>1. closed /\ phase # "done" /\ phase' = "done" /\ UNCHANGED <<events, emitted, closed>>
    BY <1>8 DEF Return, CallOK, parser
  <2>2. Counted' = Counted /\ Mapped' = Mapped
    BY <2>1 DEF Counted, Mapped
  <2>3. Promise!Terminated
    <3>1. events # <<>> /\ events[Len(events)].event = "terminal" /\ Len(events) \in Nat \ {0}
      BY <2>1 DEF StreamOK, TypeOK
    <3>2. Len(events) \in Counted /\ Counted \in SUBSET Nat /\ IsFiniteSet(Counted)
          /\ \A y \in Counted : y <= Len(events)
      BY <3>1, CountedFinite DEF Counted
    <3>3. PICK k \in Nat \ {0} : k = Cardinality(Counted)
      BY <3>2, CountedFinite, FS_EmptySet
    <3>4. Nth(Counted, k) = Len(events)
      <4> DEFINE S == Counted \ {Len(events)}
      <4>1. S \in SUBSET Nat /\ IsFiniteSet(S) /\ Cardinality(S) = k - 1
        BY <3>2, <3>3, FS_RemoveElement
      <4>2. Counted = S \cup {Len(events)} /\ \A y \in S : y < Len(events)
        BY <3>1, <3>2
      <4> HIDE DEF S
      <4>3. Nth(S \cup {Len(events)}, Cardinality(S) + 1) = Len(events)
        BY <3>1, <4>1, <4>2, TopIsLast
      <4> QED BY <4>1, <4>2, <4>3
    <3>5. MappedAt(k).event = "terminal"
      BY <3>1, <3>4 DEF MappedAt
    <3>6. Mapped = [n \in 1..k |-> MappedAt(n)]
      BY <3>3, MappedIs
    <3>7. Len(Mapped) = k /\ Mapped # <<>> /\ Mapped[k] = MappedAt(k)
      BY <3>3, <3>6
    <3> QED BY <3>5, <3>7 DEF Promise!Terminated, Promise!IsTerminal, Promise!Newest
  <2>4. Promise!Close
    BY <2>1, <2>2, <2>3 DEF Promise!Close
  <2>5. StreamOK'
    BY <2>1, <2>2 DEF StreamOK
  <2> QED BY <2>4, <2>5 DEF StreamStep, Promise!Next
<1>9. CASE FinishSucceeds
  <2> DEFINE s == <<Terminal(report.status)>>
  <2>1. ~ closed /\ phase # "done" /\ phase' # "done" /\ closed' /\ UNCHANGED emitted
    BY <1>9 DEF FinishSucceeds, CallOK
  <2>2. Terminal(report.status) \in Events
    <3>1. report.status \in Statuses
      BY <1>9 DEF FinishSucceeds, TypeOK, CallOK, Statuses
    <3> QED BY <3>1, EventTypes DEF Events
  <2>3. s \in Seq(Events) /\ Len(s) = 1 /\ s # <<>> /\ s[Len(s)] = Terminal(report.status)
    BY <2>2
  <2>4. events' = events \o s
    BY <1>9, <2>2 DEF FinishSucceeds, TypeOK
  <2> HIDE DEF s
  <2>5. Terminal(report.status).event = "terminal" /\ Terminal(report.status).emitted_items = emitted
    BY DEF Terminal
  <2>6. \A i \in 1..Len(s) : i < Len(s) => s[i].event \notin {"candidate_completed", "terminal"}
    BY <2>3
  <2>7. events' # <<>> /\ events'[Len(events')] = Terminal(report.status)
    <3>1. events'[Len(events')] = Terminal(report.status)
      BY <2>3, <2>4, <2>6, CountedGrows
    <3>2. events' # <<>>
      BY <2>3, <2>4, ConcatSimplifications DEF TypeOK
    <3> QED BY <3>1, <3>2
  <2>8. PICK p \in BOOLEAN :
          /\ p = (\E j \in 1..Len(events') : events'[j] = Diagnostic)
          /\ Len(Mapped') = Len(Mapped) + 1 /\ SubSeq(Mapped', 1, Len(Mapped)) = Mapped
          /\ Len(Mapped) = emitted
          /\ Mapped'[Len(Mapped')] =
               [event |-> "terminal", status |-> Terminal(report.status).status,
                emitted_items |-> Terminal(report.status).emitted_items, partial |-> p]
    BY <2>1, <2>3, <2>4, <2>5, <2>6, MappedGrows
  <2>9. ~ p
    <3>1. \A j \in 1..Len(events) : events[j].event # "diagnostic"
      BY <2>1 DEF StreamOK
    <3>2. \A j \in 1..Len(events') : events'[j] # Diagnostic
      <4> SUFFICES ASSUME NEW j \in 1..Len(events') PROVE events'[j].event # "diagnostic"
        BY DEF Diagnostic
      <4>1. Len(events') = Len(events) + 1 /\ Len(events) \in Nat
            /\ \A i \in 1..Len(events) : events'[i] = events[i]
        <5>1. events \in Seq(Events) /\ s \in Seq(Events) /\ Len(s) = 1 /\ events' = events \o s
          BY <2>3, <2>4 DEF TypeOK
        <5>2. /\ Len(events \o s) = Len(events) + Len(s)
              /\ \A i \in 1..(Len(events) + Len(s)) :
                   (events \o s)[i] = IF i <= Len(events) THEN events[i] ELSE s[i - Len(events)]
          BY ONLY <5>1, ConcatProperties
        <5>3. Len(events) \in Nat
          BY <5>1
        <5> QED BY ONLY <5>1, <5>2, <5>3
      <4>2. CASE j \in 1..Len(events)
        BY <3>1, <4>1, <4>2
      <4>3. CASE j = Len(events')
        BY <2>5, <2>7, <4>3
      <4> QED BY <4>1, <4>2, <4>3
    <3> QED BY <2>8, <3>2
  <2>10. Promise!Terminate
    <3>1. Promise!Grows
      <4>1. ~ Promise!Terminated
        BY <2>1, <2>8, OpenIsItems DEF Promise!Terminated, Promise!IsTerminal, Promise!Newest, TypeOK
      <4> QED BY <4>1, <2>1, <2>8 DEF Promise!Grows
    <3>2. Mapped'[Len(Mapped')].event = "terminal"
          /\ Mapped'[Len(Mapped')].emitted_items = Len(Mapped)
          /\ ~ Mapped'[Len(Mapped')].partial
      BY <2>5, <2>8, <2>9
    <3> QED BY <3>1, <3>2 DEF Promise!Terminate, Promise!IsTerminal, Promise!Newest
  <2>11. StreamOK'
    BY <2>1, <2>5, <2>7 DEF StreamOK
  <2> QED BY <2>10, <2>11 DEF StreamStep, Promise!Next
<1>10. ASSUME NEW n \in EventSizes, EmitEvent(n) PROVE StreamStep
  <2>0. PICK e \in Planned : e = Head(plan)
    BY <1>10 DEF EmitEvent, TypeOK
  <2> DEFINE s == <<e>>
  <2>1. ~ closed /\ ~ closed' /\ phase # "done" /\ phase' # "done"
        /\ events' = Append(events, e)
        /\ emitted' = IF e.event = "candidate_completed" THEN emitted + 1 ELSE emitted
    BY <1>10, <2>0 DEF EmitEvent, Handed, CallOK
  <2>2. e \in Events /\ e.event \notin {"terminal", "diagnostic"}
    BY DEF Events, Planned, Starts, Tellings, Completions, Changes
  <2>3. s \in Seq(Events) /\ Len(s) = 1 /\ s # <<>> /\ s[Len(s)] = e /\ events' = events \o s
    BY <2>1, <2>2 DEF TypeOK
  <2> HIDE DEF s
  <2>4. \A i \in 1..Len(s) : i < Len(s) => s[i].event \notin {"candidate_completed", "terminal"}
    BY <2>3
  <2>5. \A i \in 1..Len(events') : events'[i].event \notin {"terminal", "diagnostic"}
    <3> SUFFICES ASSUME NEW j \in 1..Len(events') PROVE events'[j].event \notin {"terminal", "diagnostic"}
      OBVIOUS
    <3>1. Len(events') = Len(events) + 1 /\ Len(events) \in Nat
          /\ events'[Len(events')] = e
          /\ \A i \in 1..Len(events) : events'[i] = events[i]
      BY <2>1, <2>2 DEF TypeOK
    <3>2. CASE j \in 1..Len(events)
      BY <2>1, <3>1, <3>2 DEF StreamOK
    <3>3. CASE j = Len(events')
      BY <2>2, <3>1, <3>3
    <3> QED BY <3>1, <3>2, <3>3
  <2>6. CASE e.event = "candidate_completed"
    <3>1. /\ Len(Mapped') = Len(Mapped) + 1 /\ SubSeq(Mapped', 1, Len(Mapped)) = Mapped
          /\ Len(Mapped) = emitted /\ Cardinality(Counted') = emitted + 1
          /\ Mapped'[Len(Mapped')] = [event |-> "item", sequence |-> Len(Mapped)]
      BY <2>1, <2>3, <2>4, <2>6, MappedGrows
    <3>2. Promise!Grows
      <4>1. ~ Promise!Terminated
        BY <2>1, <3>1, OpenIsItems DEF Promise!Terminated, Promise!IsTerminal, Promise!Newest, TypeOK
      <4> QED BY <4>1, <2>1, <3>1 DEF Promise!Grows
    <3>3. Promise!Emit
      BY <3>1, <3>2 DEF Promise!Emit, Promise!IsTerminal, Promise!Newest
    <3>4. StreamOK'
      BY <2>1, <2>5, <2>6, <3>1 DEF StreamOK
    <3> QED BY <3>3, <3>4 DEF StreamStep, Promise!Next
  <2>7. CASE e.event # "candidate_completed"
    <3>1. Counted' = Counted
      BY <2>2, <2>3, <2>4, <2>7, CountedGrows
    <3>2. StreamOK'
      BY <2>1, <2>5, <2>7, <3>1 DEF StreamOK
    <3>3. Mapped' = Mapped
      <4>1. \A i \in 1..Len(events) : events'[i] = events[i]
        BY <2>1, <2>2 DEF TypeOK
      <4>2. ASSUME NEW m \in 1..Cardinality(Counted) PROVE MappedAt(m)' = MappedAt(m)
        <5>1. Nth(Counted, m) \in 1..Len(events)
          BY CountedAreEvents
        <5>2. /\ events'[Nth(Counted', m)] = events[Nth(Counted, m)]
              /\ events[Nth(Counted, m)].event # "terminal"
          BY <2>1, <3>1, <4>1, <5>1 DEF StreamOK
        <5> QED BY <5>2 DEF MappedAt
      <4>3. Mapped' = [m \in 1..Cardinality(Counted) |-> MappedAt(m)']
        BY <3>1 DEF Mapped, MappedAt
      <4> QED BY <4>2, <4>3, MappedIs
    <3> QED BY <2>1, <3>2, <3>3 DEF StreamStep, Promise!vars
  <2> QED BY <2>6, <2>7
<1> QED BY <1>1, <1>2, <1>3, <1>4, <1>5, <1>6, <1>7, <1>8, <1>9, <1>10, StepCases DEF vars, parser, call

LEMMA InitStream == Init => StreamOK /\ Promise!Init
<1> SUFFICES ASSUME Init PROVE StreamOK /\ Promise!Init
  OBVIOUS
<1>1. events = <<>> /\ emitted = 0 /\ closed = FALSE /\ phase = "idle"
  BY DEF Init
<1>2. Counted = {}
  BY <1>1 DEF Counted
<1>3. Cardinality(Counted) = 0
  BY <1>2, FS_EmptySet
<1>4. Mapped = <<>>
  <2>1. 1..Cardinality(Counted) = {}
    BY <1>3
  <2> QED BY <2>1, MappedIs
<1> QED BY <1>1, <1>3, <1>4 DEF StreamOK, Promise!Init

(* Whatever is pushed, wherever a cancellation, the deadline or a refused  *)
(* charge falls, the consumers of the stream count the completed           *)
(* candidates, then see one terminal that says how many there were, then   *)
(* nothing: emit, the stops and finish implement the promise of            *)
(* EventStream.                                                            *)
THEOREM ImplementsEventStreamHolds == Spec => ImplementsEventStream
<1>1. Init => TypeOK /\ CallOK /\ StreamOK /\ Promise!Init
  BY InitTypes, InitStream
<1>2. TypeOK /\ CallOK /\ StreamOK /\ [Next]_vars
        => (TypeOK /\ CallOK /\ StreamOK)' /\ [Promise!Next]_(Promise!vars)
  BY TypesKept, StreamSteps DEF StreamStep
<1> QED BY <1>1, <1>2, PTL DEF Spec, ImplementsEventStream, Promise!Spec

-----------------------------------------------------------------------------
(* The told state.                                                         *)

Changing(w) == Range(w) \cap Changes
Telling(w) == Range(w) \cap Tellings

(* The state in which a push will return: what the bytes and the open      *)
(* candidates make, those counted that are still to be told of.            *)
Target == IF Telling(plan) # {} THEN "candidate_detected" ELSE StateFor(buffer)

PlanTells ==
  /\ Changing(plan) \subseteq {StateChanged(Target)}
  /\ state # Target => Changing(plan) # {}

EndTells ==
  IF plan = <<>> THEN state = report.state ELSE plan[Len(plan)] = StateChanged(report.state)

ClosedTells ==
  /\ events # <<>> /\ events[Len(events)].event = "terminal"
  /\ events[Len(events)].status = IF termination = "none" THEN report.status ELSE StatusOf(termination)
  /\ termination = "none" => state = report.state

ReportOK ==
  report.status # "none" =>
    /\ report.status = "complete" <=> report.state = "complete"
    /\ report.state # "cancelled"

(* Every change of the state is told when it is made; what a call has      *)
(* still to tell brings the state to where the call will leave it.         *)
ToldInv ==
  /\ LastToldState = state
  /\ termination # "none" => state = StateOf(termination)
  /\ closed => ClosedTells
  /\ ReportOK
  /\ phase = "idle" /\ termination = "none" => state = StateFor(buffer)
  /\ phase \in {"scan", "update", "emit"} => PlanTells
  /\ phase = "finish" /\ candidates = <<>> => EndTells
  /\ phase = "done" => envelope = events[Len(events)].status

LEMMA RangeOfFew == Range(<<>>) = {} /\ \A x : Range(<<x>>) = {x}
BY DEF Range

LEMMA RangeOfTail ==
  ASSUME NEW S, NEW s \in Seq(S), s # <<>>
  PROVE  Range(s) = {Head(s)} \cup Range(Tail(s))
<1>1. Len(s) \in Nat \ {0} /\ Tail(s) \in Seq(S) /\ Len(Tail(s)) = Len(s) - 1
      /\ Head(s) = s[1] /\ \A i \in 1..Len(Tail(s)) : Tail(s)[i] = s[i + 1]
  OBVIOUS
<1>2. Range(s) = {s[i] : i \in 1..Len(s)} /\ Range(Tail(s)) = {Tail(s)[i] : i \in 1..Len(Tail(s))}
  BY <1>1, RangeEquality
<1>3. \A i \in 1..Len(s) : s[i] \in {Head(s)} \cup Range(Tail(s))
  <2> SUFFICES ASSUME NEW i \in 1..Len(s), i # 1 PROVE s[i] \in Range(Tail(s))
    BY <1>1
  <2>1. i - 1 \in 1..Len(Tail(s)) /\ (i - 1) + 1 = i
    BY <1>1
  <2>2. s[i] = Tail(s)[i - 1]
    BY <1>1, <2>1
  <2> QED BY <1>2, <2>1, <2>2
<1>4. \A i \in 1..Len(Tail(s)) : Tail(s)[i] \in Range(s)
  <2> SUFFICES ASSUME NEW i \in 1..Len(Tail(s)) PROVE Tail(s)[i] \in Range(s)
    OBVIOUS
  <2>1. i + 1 \in 1..Len(s)
    BY <1>1
  <2> QED BY <1>1, <1>2, <2>1
<1>5. 1 \in 1..Len(s)
  BY <1>1
<1> QED BY <1>1, <1>2, <1>3, <1>4, <1>5

(* The last change told of is the greatest place of one.                   *)
LEMMA LastIsGreatest ==
  ASSUME TypeOK', NEW k \in ToldStates', \A i \in ToldStates' : i <= k
  PROVE  LastToldState' = events'[k].state
<1>1. Len(events') \in Nat /\ ToldStates' \in SUBSET (0..Len(events')) /\ ToldStates' # {}
  BY DEF TypeOK, ToldStates
<1>2. Max(ToldStates') \in ToldStates' /\ \A m \in ToldStates' : m <= Max(ToldStates')
  BY <1>1, MaxOfBounded
<1>3. Max(ToldStates') = k
  <2>1. k <= Max(ToldStates') /\ Max(ToldStates') <= k
    BY <1>2
  <2>2. \A i \in ToldStates' : i \in Nat
    BY <1>1
  <2>3. k \in Nat /\ Max(ToldStates') \in Nat
    BY <1>2, <2>2
  <2> QED BY <2>1, <2>3
<1> QED BY <1>1, <1>3 DEF LastToldState

LEMMA ToldOnAppend ==
  ASSUME TypeOK, TypeOK', NEW e \in Events, events' = Append(events, e)
  PROVE  LastToldState' = IF e.event = "parser_state_changed" THEN e.state ELSE LastToldState
<1>1. /\ Len(events) \in Nat /\ Len(events') = Len(events) + 1 /\ events'[Len(events')] = e
      /\ \A i \in 1..Len(events) : events'[i] = events[i]
  BY DEF TypeOK
<1>2. CASE e.event = "parser_state_changed"
  <2>1. Len(events') \in ToldStates' /\ \A i \in ToldStates' : i <= Len(events')
    BY <1>1, <1>2 DEF ToldStates
  <2> QED BY <1>1, <1>2, <2>1, LastIsGreatest
<1>3. CASE e.event # "parser_state_changed"
  <2>1. ToldStates' = ToldStates
    BY <1>1, <1>3 DEF ToldStates
  <2>2. CASE ToldStates = {}
    BY <1>3, <2>1, <2>2 DEF LastToldState
  <2>3. CASE ToldStates # {}
    <3>1. ToldStates \in SUBSET (0..Len(events))
      BY <1>1 DEF ToldStates
    <3>2. Max(ToldStates) \in ToldStates
      BY <1>1, <2>3, <3>1, MaxOfBounded
    <3>3. events'[Max(ToldStates)] = events[Max(ToldStates)]
      BY <1>1, <3>2 DEF ToldStates
    <3> QED BY <1>3, <2>1, <2>3, <3>3 DEF LastToldState
  <2> QED BY <2>2, <2>3
<1> QED BY <1>2, <1>3

LEMMA ToldByStop ==
  ASSUME TypeOK, TypeOK', CallOK, Stops
  PROVE  \E reason \in Reasons :
           /\ termination' = reason /\ state' = StateOf(reason) /\ LastToldState' = StateOf(reason)
           /\ closed' /\ phase' \in {"idle", "ending"} /\ plan' = <<>>
           /\ UNCHANGED <<buffer, emitted, candidates, report, envelope>>
           /\ events' # <<>> /\ events'[Len(events')] = Terminal(StatusOf(reason))
<1>1. ~ closed
  BY DEF Stops
<1>2. PICK reason \in Reasons, next \in {"idle", "ending"} : Stop(reason, next)
  BY DEF Stops
<1>3. /\ termination' = reason /\ state' = StateOf(reason)
      /\ closed' /\ phase' \in {"idle", "ending"} /\ plan' = <<>>
      /\ UNCHANGED <<buffer, emitted, candidates, report, envelope>>
      /\ events' = events \o TerminationEvents(reason)
  BY <1>2 DEF Stop
<1> DEFINE c == StateChanged(StateOf(reason))
           t == Terminal(StatusOf(reason))
           s == <<Diagnostic, c, t>>
<1>4. s \in Seq(Events) /\ TerminationEvents(reason) = s
  BY <1>1, StopTypes DEF TerminationEvents, Reasons
<1>5. /\ Diagnostic.event # "parser_state_changed" /\ t.event # "parser_state_changed"
      /\ c.event = "parser_state_changed" /\ c.state = StateOf(reason)
  BY DEF Diagnostic, StateChanged, Terminal
<1>6. Len(s) = 3 /\ s[1] = Diagnostic /\ s[2] = c /\ s[3] = t
  OBVIOUS
<1> HIDE DEF s, c, t
<1>7. PICK k \in Nat : k = Len(events)
  BY DEF TypeOK
<1>8. /\ Len(events') = k + 3 /\ events'[k + 1] = Diagnostic /\ events'[k + 2] = c
      /\ events'[k + 3] = t
  <2>1. events \in Seq(Events) /\ s \in Seq(Events) /\ events' = events \o s
    BY <1>3, <1>4 DEF TypeOK
  <2>2. /\ Len(events \o s) = Len(events) + Len(s)
        /\ \A i \in 1..(Len(events) + Len(s)) :
             (events \o s)[i] = IF i <= Len(events) THEN events[i] ELSE s[i - Len(events)]
    BY ONLY <2>1, ConcatProperties
  <2>3. /\ k + 1 \in 1..(k + 3) /\ k + 2 \in 1..(k + 3) /\ k + 3 \in 1..(k + 3)
        /\ (k + 1) - k = 1 /\ (k + 2) - k = 2 /\ (k + 3) - k = 3
        /\ ~(k + 1 <= k) /\ ~(k + 2 <= k) /\ ~(k + 3 <= k)
    OBVIOUS
  <2> QED BY ONLY <1>6, <1>7, <2>1, <2>2, <2>3
<1>9. k + 2 \in ToldStates' /\ \A i \in ToldStates' : i <= k + 2
  <2>1. k + 2 \in ToldStates'
    BY <1>5, <1>8 DEF ToldStates
  <2>2. k + 3 \notin ToldStates' /\ ToldStates' \subseteq 1..(k + 3)
    BY <1>5, <1>8 DEF ToldStates
  <2> QED BY <2>1, <2>2
<1>10. LastToldState' = StateOf(reason)
  BY <1>5, <1>8, <1>9, LastIsGreatest
<1>11. events' # <<>> /\ events'[Len(events')] = t
  <2>1. events' \in Seq(Events) /\ Len(events') # 0
    BY <1>8 DEF TypeOK
  <2>2. Len(<<>>) = 0
    OBVIOUS
  <2> QED BY <1>8, <2>1, <2>2
<1> QED BY <1>3, <1>10, <1>11 DEF t

(* What the births of a scan tell of the state.                            *)
LEMMA BirthRange ==
  ASSUME TypeOK, NEW found \in Seq(Nat), NEW i \in 1..Len(found)
  PROVE  Range(Birth(found, i)) =
           {Started(found[i]), Updated(found[i])}
           \cup (IF i = Min(Fresh(found)) /\ state # "candidate_detected"
                 THEN {StateChanged("candidate_detected")} ELSE {})
<1> DEFINE a == <<Started(found[i])>>
           b == IF i = Min(Fresh(found)) /\ state # "candidate_detected"
                THEN <<StateChanged("candidate_detected")>> ELSE <<>>
           c == <<Updated(found[i])>>
<1>1. /\ Started(found[i]) \in Planned /\ StateChanged("candidate_detected") \in Planned
      /\ Updated(found[i]) \in Planned
  BY EventTypes DEF Planned, StateNames
<1>2. a \in Seq(Planned) /\ b \in Seq(Planned) /\ c \in Seq(Planned)
  BY <1>1
<1>3. /\ Range(a) = {Started(found[i])} /\ Range(c) = {Updated(found[i])}
      /\ Range(b) = IF i = Min(Fresh(found)) /\ state # "candidate_detected"
                    THEN {StateChanged("candidate_detected")} ELSE {}
  BY RangeOfFew
<1>4. Birth(found, i) = (a \o b) \o c
  BY DEF Birth
<1> HIDE DEF a, b, c
<1>5. a \o b \in Seq(Planned) /\ Range(a \o b) = Range(a) \cup Range(b)
  BY <1>2, RangeConcatenation, ConcatProperties
<1>6. Range((a \o b) \o c) = Range(a \o b) \cup Range(c)
  <2>1. \A x, y \in Seq(Planned) : Range(x \o y) = Range(x) \cup Range(y)
    BY RangeConcatenation
  <2> QED BY <1>2, <1>5, <2>1
<1> QED BY <1>3, <1>4, <1>5, <1>6

LEMMA BirthsTell ==
  ASSUME TypeOK, NEW found \in Seq(Nat)
  PROVE  /\ Changing(Births(found)) \subseteq {StateChanged("candidate_detected")}
         /\ Births(found) = <<>> \/ Telling(Births(found)) # {}
         /\ Births(found) # <<>> /\ state # "candidate_detected" => Changing(Births(found)) # {}
<1> DEFINE blocks == [i \in 1..Len(found) |-> BirthOrNone(found, i)]
           cd == StateChanged("candidate_detected")
           m == Min(Fresh(found))
           reached(i) == Fresh(found) # {} /\ m <= i
           Q(s, i) == /\ Changing(s) \subseteq {cd}
                      /\ s # <<>> => Telling(s) # {} /\ reached(i)
                      /\ reached(i) /\ state # "candidate_detected" => Changing(s) # {}
           P == [i \in 0..Len(found) |-> {s \in Seq(Planned) : Q(s, i)}]
<1>1. Len(found) \in Nat /\ blocks \in Seq(Seq(Planned)) /\ Len(blocks) = Len(found)
  <2>1. \A i \in 1..Len(found) : BirthOrNone(found, i) \in Seq(Planned)
    BY BirthType DEF BirthOrNone
  <2> QED BY <2>1
<1>2. Fresh(found) # {} => m \in Fresh(found) /\ \A i \in Fresh(found) : m <= i
  <2>1. Fresh(found) \in SUBSET Nat
    BY DEF Fresh
  <2> QED BY <2>1, MinOfNumbers
<1>3. Fresh(found) \in SUBSET (1..Len(found))
  BY DEF Fresh
<1>4. Range(<<>>) = {}
  BY DEF Range
<1>5. /\ cd \in Changes /\ \A x \in Nat : Started(x) \notin Changes /\ Updated(x) \notin Changes
      /\ \A x \in Nat : Updated(x) \in Tellings
  BY EventTypes DEF Changes, Started, Updated, StateNames
<1> HIDE DEF m, cd
<1>6. <<>> \in P[0]
  <2>1. ~ reached(0)
    BY <1>2, <1>3
  <2>2. Q(<<>>, 0)
    BY <1>4, <2>1 DEF Changing
  <2> HIDE DEF Q
  <2> QED BY <1>1, <2>2
<1>7. ASSUME NEW i \in 1..Len(found), NEW s \in Seq(Planned), s \in P[i - 1]
      PROVE  s \o blocks[i] \in P[i]
  <2>1. i - 1 \in 0..Len(found) /\ i \in 0..Len(found) /\ i - 1 \in Int /\ i \in Int
    BY <1>1
  <2>2. Q(s, i - 1)
    BY <1>7, <2>1
  <2>3. CASE i \notin Fresh(found)
    <3>1. blocks[i] = <<>>
      BY <2>3 DEF BirthOrNone
    <3>2. s \o blocks[i] = s
      BY <3>1
    <3>3. reached(i) <=> reached(i - 1)
      <4>1. Fresh(found) # {} => m \in Int /\ m # i
        BY <1>2, <1>3, <2>3
      <4> QED BY <2>1, <4>1
    <3>4. Q(s, i)
      <4> HIDE DEF reached
      <4> QED BY <2>2, <3>3
    <3> HIDE DEF Q, blocks
    <3> QED BY <2>1, <3>2, <3>4
  <2>4. CASE i \in Fresh(found)
    <3> DEFINE b == Birth(found, i)
    <3>1. blocks[i] = b /\ b \in Seq(Planned)
      BY <2>4, BirthType DEF BirthOrNone
    <3>2. reached(i) /\ m \in Int
      BY <1>2, <1>3, <2>4
    <3>3. Range(b) = {Started(found[i]), Updated(found[i])}
                     \cup (IF i = m /\ state # "candidate_detected" THEN {cd} ELSE {})
      BY BirthRange DEF m, cd
    <3>4. s \o b \in Seq(Planned) /\ Range(s \o b) = Range(s) \cup Range(b)
      <4> HIDE DEF b
      <4> QED BY <3>1, RangeConcatenation, ConcatProperties
    <3> HIDE DEF b
    <3>5. found[i] \in Nat
      OBVIOUS
    <3>6. Changing(s \o b) \subseteq {cd}
      BY <1>5, <2>2, <3>3, <3>4, <3>5 DEF Changing
    <3>7. Telling(s \o b) # {}
      BY <1>5, <3>3, <3>4, <3>5 DEF Telling
    <3>8. state # "candidate_detected" => Changing(s \o b) # {}
      <4>1. CASE i = m
        BY <1>5, <3>3, <3>4, <4>1 DEF Changing
      <4>2. CASE i # m
        <5>1. reached(i - 1)
          BY <2>1, <3>2, <4>2
        <5> HIDE DEF reached
        <5> QED BY <2>2, <3>4, <5>1 DEF Changing
      <4> QED BY <4>1, <4>2
    <3>9. Q(s \o b, i)
      <4> HIDE DEF reached
      <4> QED BY <3>2, <3>6, <3>7, <3>8
    <3> HIDE DEF Q, blocks
    <3> QED BY <2>1, <3>1, <3>4, <3>9
  <2> QED BY <2>3, <2>4
<1>8. FlattenSeq(blocks) \in P[Len(found)]
  <2>1. <<>> \in P[0] /\ \A i \in 1..Len(blocks), s \in Seq(Planned) :
                             s \in P[i - 1] => s \o blocks[i] \in P[i]
    BY <1>1, <1>6, <1>7
  <2> HIDE DEF P, blocks
  <2>2. FlattenSeq(blocks) \in P[Len(blocks)]
    BY <1>1, <2>1, FlattenInduction
  <2> QED BY <1>1, <2>2
<1>9. Q(Births(found), Len(found))
  <2>1. Births(found) = FlattenSeq(blocks)
    BY BirthsAreBlocks
  <2> HIDE DEF Q, blocks
  <2> QED BY <1>1, <1>8, <2>1
<1>10. Births(found) # <<>> => reached(Len(found))
  <2> HIDE DEF reached
  <2> QED BY <1>9
<1> HIDE DEF reached
<1> QED BY <1>9, <1>10 DEF cd

LEMMA QuietTold ==
  ASSUME ToldInv, UNCHANGED <<parser, call, events>>
  PROVE  ToldInv'
<1>1. /\ LastToldState' = LastToldState /\ StateFor(buffer)' = StateFor(buffer)
      /\ Target' = Target
  BY DEF LastToldState, ToldStates, Target, Telling, StateFor, parser, call
<1> QED BY <1>1 DEF ToldInv, ClosedTells, ReportOK, PlanTells, EndTells, Changing, StatusOf, parser, call

LEMMA StopTold ==
  ASSUME TypeOK, TypeOK', CallOK, ToldInv, Stops
  PROVE  ToldInv'
<1>1. PICK reason \in Reasons :
        /\ termination' = reason /\ state' = StateOf(reason) /\ LastToldState' = StateOf(reason)
        /\ closed' /\ phase' \in {"idle", "ending"} /\ plan' = <<>>
        /\ UNCHANGED <<buffer, emitted, candidates, report, envelope>>
        /\ events' # <<>> /\ events'[Len(events')] = Terminal(StatusOf(reason))
  BY ToldByStop
<1>2. StatusOf(termination)' = StatusOf(reason)
  BY <1>1 DEF StatusOf
<1>3. ClosedTells'
  BY <1>1, <1>2 DEF ClosedTells, Terminal, Reasons
<1> QED BY <1>1, <1>3 DEF ToldInv, ReportOK, Reasons

(* Nothing is outstanding at the end of a phase of a push.                 *)
LEMMA NothingOutstanding ==
  ASSUME PlanTells, plan = <<>>
  PROVE  state = StateFor(buffer) /\ Target = StateFor(buffer)
<1>1. Changing(plan) = {} /\ Telling(plan) = {}
  BY RangeOfFew DEF Changing, Telling
<1> QED BY <1>1 DEF PlanTells, Target

LEMMA AcceptedTold ==
  ASSUME TypeOK, CallOK, ToldInv, NEW chunk \in Chunks, PushAccepted(chunk)
  PROVE  ToldInv'
<1> DEFINE x == StateFor(buffer \o chunk)
<1>1. /\ buffer' = buffer \o chunk /\ phase' \in {"scan", "update", "emit"}
      /\ plan' = IF state # x THEN <<StateChanged(x)>> ELSE <<>>
      /\ termination = "none"
      /\ UNCHANGED <<state, emitted, candidates, termination, closed, report, envelope, events>>
  BY DEF PushAccepted, Idle
<1>2. StateFor(buffer)' = x
  BY <1>1 DEF StateFor
<1>3. x \in StateNames
  BY DEF StateFor, StateNames
<1> HIDE DEF x
<1>4. StateChanged(x) \in Changes /\ StateChanged(x) \notin Tellings
  BY <1>3, EventTypes DEF StateChanged, Tellings
<1>5. Telling(plan') = {} /\ Changing(plan') = IF state # x THEN {StateChanged(x)} ELSE {}
  BY <1>1, <1>4, RangeOfFew DEF Telling, Changing
<1>6. Target' = x
  <2>1. Telling(plan)' = {}
    BY <1>5 DEF Telling
  <2> QED BY <1>2, <2>1 DEF Target
<1>7. PlanTells'
  BY <1>1, <1>5, <1>6 DEF PlanTells, Changing, StateChanged
<1>8. LastToldState' = LastToldState
  BY <1>1 DEF LastToldState, ToldStates
<1>9. ~ closed'
  BY <1>1 DEF CallOK, PushAccepted, Idle
<1> QED BY <1>1, <1>7, <1>8, <1>9 DEF ToldInv, ReportOK

LEMMA EmitTold ==
  ASSUME TypeOK, TypeOK', CallOK, ToldInv, NEW n \in EventSizes, EmitEvent(n)
  PROVE  ToldInv'
<1>1. PICK e \in Planned : e = Head(plan)
  BY DEF EmitEvent, TypeOK
<1>2. /\ plan # <<>> /\ plan' = Tail(plan) /\ events' = Append(events, e)
      /\ state' = IF e.event = "parser_state_changed" THEN e.state ELSE state
      /\ candidates' = IF e.event = "candidate_updated" /\ phase # "finish"
                       THEN Noted(e.candidate_id, e.bytes_seen) ELSE candidates
      /\ UNCHANGED <<buffer, termination, closed, phase, report, envelope>>
  BY <1>1 DEF EmitEvent, Handed
<1>3. /\ phase \in {"scan", "update", "emit", "finish"} /\ ~ closed /\ termination = "none"
  BY <1>2 DEF CallOK, TypeOK
<1>4. LastToldState' = state'
  <2>1. e \in Events
    BY DEF Events
  <2> QED BY <1>2, <2>1, ToldOnAppend DEF ToldInv
<1>5. Range(plan) = {e} \cup Range(plan')
  BY <1>1, <1>2, RangeOfTail DEF TypeOK
<1>6. /\ e \in Tellings <=> e.event = "candidate_updated"
      /\ e \in Changes <=> e.event = "parser_state_changed"
  BY DEF Planned, Starts, Tellings, Completions, Changes
<1>7. ASSUME phase # "finish" PROVE PlanTells'
  <2>0. PlanTells
    BY <1>3, <1>7 DEF ToldInv
  <2>1. Target' = Target
    <3>1. CASE e \in Tellings
      <4>1. Target = "candidate_detected"
        BY <1>5, <3>1 DEF Target, Telling
      <4>2. candidates' # <<>>
        BY <1>2, <1>6, <1>7, <3>1 DEF Noted
      <4>3. StateFor(buffer)' = "candidate_detected"
        BY <4>2 DEF StateFor
      <4> QED BY <4>1, <4>3 DEF Target
    <3>2. CASE e \notin Tellings
      <4>1. candidates' = candidates /\ buffer' = buffer
        BY <1>2, <1>6, <3>2
      <4>2. Telling(plan)' = Telling(plan)
        BY <1>5, <3>2 DEF Telling
      <4>3. StateFor(buffer)' = StateFor(buffer)
        BY <4>1 DEF StateFor
      <4> QED BY <4>2, <4>3 DEF Target
    <3> QED BY <3>1, <3>2
  <2>2. CASE e \in Changes
    <3>1. e = StateChanged(Target)
      BY <1>5, <2>0, <2>2 DEF PlanTells, Changing
    <3>2. state' = Target
      BY <1>2, <1>6, <2>2, <3>1 DEF StateChanged
    <3>3. Changing(plan)' \subseteq {StateChanged(Target)}
      BY <1>5, <2>0 DEF PlanTells, Changing
    <3> QED BY <2>1, <3>2, <3>3 DEF PlanTells, StateChanged
  <2>3. CASE e \notin Changes
    <3>1. Changing(plan)' = Changing(plan)
      BY <1>5, <2>3 DEF Changing
    <3>2. state' = state
      BY <1>2, <1>6, <2>3
    <3> QED BY <2>0, <2>1, <3>1, <3>2 DEF PlanTells, StateChanged
  <2> QED BY <2>2, <2>3
<1>8. ASSUME phase = "finish", candidates' = <<>> PROVE EndTells'
  <2>1. candidates = <<>> /\ plan[Len(plan)] = StateChanged(report.state)
    BY <1>2, <1>8 DEF ToldInv, EndTells
  <2>2. plan \in Seq(Planned) /\ Len(plan) \in Nat \ {0} /\ Len(plan') = Len(plan) - 1
        /\ \A i \in 1..Len(plan') : plan'[i] = plan[i + 1]
    BY <1>2 DEF TypeOK
  <2>3. CASE plan' = <<>>
    <3>1. Len(plan) = 1
      BY <2>2, <2>3
    <3>2. e = StateChanged(report.state)
      BY <1>1, <2>1, <2>2, <3>1
    <3>3. state' = report.state
      BY <1>2, <3>2 DEF StateChanged
    <3> QED BY <1>2, <2>3, <3>3 DEF EndTells
  <2>4. CASE plan' # <<>>
    <3>1. Len(plan') \in 1..Len(plan') /\ Len(plan') + 1 = Len(plan)
      BY <1>2, <2>2, <2>4 DEF TypeOK
    <3>2. plan'[Len(plan')] = StateChanged(report.state)
      BY <2>1, <2>2, <3>1
    <3> QED BY <1>2, <2>4, <3>2 DEF EndTells, StateChanged
  <2> QED BY <2>3, <2>4
<1> QED BY <1>2, <1>3, <1>4, <1>7, <1>8 DEF ToldInv, ReportOK

LEMMA ScanTold ==
  ASSUME TypeOK, CallOK, ToldInv, NEW found \in Stable, ScanFound(found)
  PROVE  ToldInv'
<1>1. /\ phase = "scan" /\ plan = <<>> /\ plan' = Births(found) /\ phase' = "update"
      /\ UNCHANGED <<parser, report, envelope, events>> /\ found \in Seq(Nat)
  BY ChargeTypes DEF ScanFound
<1>2. PICK w \in Seq(Planned) :
        /\ w = Births(found)
        /\ Changing(w) \subseteq {StateChanged("candidate_detected")}
        /\ w = <<>> \/ Telling(w) # {}
        /\ w # <<>> /\ state # "candidate_detected" => Changing(w) # {}
  BY <1>1, BirthsTell, BirthsType
<1>3. state = StateFor(buffer)
  BY <1>1, NothingOutstanding DEF ToldInv
<1>4. StateFor(buffer)' = StateFor(buffer) /\ LastToldState' = LastToldState
  BY <1>1 DEF StateFor, LastToldState, ToldStates, parser
<1>5. PlanTells'
  <2>1. CASE w = <<>>
    <3>1. Telling(plan)' = {} /\ Changing(plan)' = {}
      BY <1>1, <1>2, <2>1, RangeOfFew DEF Telling, Changing
    <3>2. Target' = StateFor(buffer)
      BY <1>4, <3>1 DEF Target
    <3> QED BY <1>1, <1>3, <3>1, <3>2 DEF PlanTells, parser
  <2>2. CASE w # <<>>
    <3>1. Target' = "candidate_detected"
      BY <1>1, <1>2, <2>2 DEF Target, Telling
    <3> QED BY <1>1, <1>2, <2>2, <3>1 DEF PlanTells, Changing, StateChanged, parser
  <2> QED BY <2>1, <2>2
<1>6. termination = "none" /\ ~ closed
  BY <1>1 DEF CallOK
<1> QED BY <1>1, <1>4, <1>5, <1>6 DEF ToldInv, ReportOK, parser

LEMMA UpdateTold ==
  ASSUME TypeOK, CallOK, ToldInv, Update
  PROVE  ToldInv'
<1>1. /\ phase = "update" /\ plan = <<>> /\ plan' = Updates(Stale) /\ phase' = "emit"
      /\ UNCHANGED <<parser, report, envelope, events>>
  BY DEF Update
<1>2. PICK w \in Seq(Planned) :
        w = Updates(Stale) /\ \A i \in 1..Len(w) : \E id \in Stale : w[i] = Updated(id)
  BY UpdatesType DEF Stale
<1>3. state = StateFor(buffer)
  BY <1>1, NothingOutstanding DEF ToldInv
<1>4. StateFor(buffer)' = StateFor(buffer) /\ LastToldState' = LastToldState
  BY <1>1 DEF StateFor, LastToldState, ToldStates, parser
<1>5. Changing(w) = {}
  <2>1. Range(w) = {w[i] : i \in 1..Len(w)}
    BY RangeEquality
  <2>2. \A x \in Changes : x.event = "parser_state_changed"
    BY DEF Changes, StateChanged
  <2>3. \A id \in Stale : Updated(id).event = "candidate_updated"
    BY DEF Updated
  <2>4. \A i \in 1..Len(w) : w[i].event = "candidate_updated"
    BY <1>2, <2>3
  <2>5. \A x \in Range(w) : x.event = "candidate_updated"
    BY <2>1, <2>4
  <2> QED BY <2>2, <2>5 DEF Changing
<1>6. Telling(w) # {} => StateFor(buffer) = "candidate_detected"
  <2> SUFFICES ASSUME Telling(w) # {} PROVE candidates # <<>>
    BY DEF StateFor
  <2>1. Range(w) = {w[i] : i \in 1..Len(w)}
    BY RangeEquality
  <2>2. Stale # {}
    BY <1>2, <2>1 DEF Telling
  <2> QED BY <2>2 DEF Stale
<1>7. Target' = StateFor(buffer)
  BY <1>1, <1>2, <1>4, <1>6 DEF Target, Telling
<1>8. PlanTells'
  BY <1>1, <1>2, <1>3, <1>5, <1>7 DEF PlanTells, Changing, parser
<1>9. termination = "none" /\ ~ closed
  BY <1>1 DEF CallOK
<1> QED BY <1>1, <1>4, <1>8, <1>9 DEF ToldInv, ReportOK, parser

LEMMA ParsedTold ==
  ASSUME TypeOK, TypeOK', CallOK, ToldInv,
         NEW found \in Final, NEW verdict \in Verdicts(found), FinishParsed(found, verdict)
  PROVE  ToldInv'
<1> DEFINE left == DOMAIN candidates \ ToSet(found)
           change == IF left = {} THEN <<StateChanged(verdict)>> ELSE <<>>
<1>1. /\ candidates' = Restrict(candidates, left) /\ plan' = Lives(found) \o change
      /\ phase' = "finish" /\ termination = "none" /\ phase = "idle"
      /\ report' = [status |-> IF verdict = "complete" THEN "complete" ELSE "partial",
                    state |-> verdict]
      /\ UNCHANGED <<buffer, state, emitted, termination, closed, envelope, events>>
  BY DEF FinishParsed, Idle, Parsed
<1>2. verdict \in StateNames /\ verdict # "cancelled"
  BY DEF Verdicts, StateNames
<1>3. ReportOK'
  BY <1>1, <1>2 DEF ReportOK
<1>4. Lives(found) \in Seq(Planned)
  BY LivesType, ChargeTypes
<1>5. ASSUME candidates' = <<>> PROVE EndTells'
  <2>1. left = {}
    <3>1. DOMAIN Restrict(candidates, left) = left
      BY DEF Restrict
    <3>2. DOMAIN candidates' = {}
      BY <1>5
    <3> HIDE DEF left
    <3> QED BY <1>1, <3>1, <3>2
  <2>2. plan' = Lives(found) \o <<StateChanged(verdict)>>
    BY <1>1, <2>1
  <2>3. StateChanged(verdict) \in Planned
    BY <1>2, EventTypes DEF Planned
  <2>4. PICK l \in Seq(Planned), x \in Planned : l = Lives(found) /\ x = StateChanged(verdict)
    BY <1>4, <2>3
  <2>5. Len(l \o <<x>>) = Len(l) + 1 /\ (l \o <<x>>)[Len(l) + 1] = x /\ l \o <<x>> # <<>>
    BY ONLY l \in Seq(Planned), x \in Planned
  <2>6. plan' # <<>> /\ plan'[Len(plan')] = StateChanged(verdict)
    BY <2>2, <2>4, <2>5
  <2> QED BY <1>1, <2>6 DEF EndTells, StateChanged
<1>6. LastToldState' = LastToldState
  BY <1>1 DEF LastToldState, ToldStates
<1>7. ~ closed'
  BY <1>1 DEF CallOK
<1> QED BY <1>1, <1>3, <1>5, <1>6, <1>7 DEF ToldInv

LEMMA SucceedsTold ==
  ASSUME TypeOK, TypeOK', CallOK, ToldInv, FinishSucceeds
  PROVE  ToldInv'
<1>1. /\ phase = "finish" /\ plan = <<>> /\ candidates = <<>> /\ phase' = "ending"
      /\ events' = Append(events, Terminal(report.status)) /\ closed'
      /\ UNCHANGED <<buffer, state, emitted, candidates, termination, plan, report, envelope>>
  BY DEF FinishSucceeds
<1>2. termination = "none" /\ state = report.state
  BY <1>1 DEF CallOK, ToldInv, EndTells
<1>3. PICK t \in Events : t = Terminal(report.status)
  <2>1. report.status \in Statuses
    BY <1>1 DEF TypeOK, CallOK, Statuses
  <2> QED BY <2>1, EventTypes DEF Events
<1>4. events' = Append(events, t) /\ t.event = "terminal" /\ t.status = report.status
  BY <1>1, <1>3 DEF Terminal
<1>5. LastToldState' = LastToldState
  BY <1>4, ToldOnAppend
<1>6. events' # <<>> /\ events'[Len(events')] = t
  BY <1>4 DEF TypeOK
<1>7. ClosedTells'
  BY <1>1, <1>2, <1>4, <1>6 DEF ClosedTells
<1> QED BY <1>1, <1>2, <1>5, <1>7 DEF ToldInv, ReportOK

LEMMA ToldKept ==
  ASSUME TypeOK, TypeOK', CallOK, ToldInv, [Next]_vars
  PROVE  ToldInv'
<1>1. CASE UNCHANGED vars \/ Cancel \/ Deadline
  <2>1. UNCHANGED <<parser, call, events>>
    BY <1>1 DEF vars, Cancel, Deadline
  <2> QED BY <2>1, QuietTold
<1>2. CASE PushReturns
  <2>1. state = StateFor(buffer) /\ termination = "none" /\ ~ closed
    BY <1>2, NothingOutstanding DEF PushReturns, ToldInv, CallOK
  <2>2. LastToldState' = LastToldState /\ StateFor(buffer)' = StateFor(buffer)
    BY <1>2 DEF PushReturns, LastToldState, ToldStates, StateFor, parser
  <2> QED BY <1>2, <2>1, <2>2 DEF PushReturns, ToldInv, ReportOK, parser
<1>3. CASE FinishTerminated
  <2>1. closed /\ closed' /\ termination # "none" /\ phase' = "ending" /\ events' = events
        /\ UNCHANGED <<buffer, state, emitted, candidates, termination, plan, report, envelope>>
    BY <1>3 DEF FinishTerminated, CallOK, TerminationEvents, TypeOK
  <2>2. LastToldState' = LastToldState /\ StatusOf(termination)' = StatusOf(termination)
    BY <2>1 DEF LastToldState, ToldStates, StatusOf
  <2> QED BY <2>1, <2>2 DEF ToldInv, ReportOK, ClosedTells, StateOf
<1>4. CASE Return
  <2>1. /\ phase = "ending" /\ phase' = "done" /\ closed
        /\ envelope' = IF termination = "none" THEN report.status ELSE StatusOf(termination)
        /\ UNCHANGED <<parser, plan, report, events>>
    BY <1>4 DEF Return, CallOK
  <2>2. LastToldState' = LastToldState /\ StatusOf(termination)' = StatusOf(termination)
    BY <2>1 DEF LastToldState, ToldStates, StatusOf, parser
  <2>3. ClosedTells /\ envelope' = events'[Len(events')].status
    BY <2>1 DEF ToldInv, ClosedTells
  <2> QED BY <2>1, <2>2, <2>3 DEF ToldInv, ReportOK, ClosedTells, StateOf, parser
<1> QED BY <1>1, <1>2, <1>3, <1>4, StepCases, StopTold, AcceptedTold, EmitTold, ScanTold,
           UpdateTold, ParsedTold, SucceedsTold

LEMMA InitTold == Init => ToldInv
<1> SUFFICES ASSUME Init PROVE ToldInv
  OBVIOUS
<1>1. LastToldState = "empty"
  BY DEF Init, LastToldState, ToldStates
<1>2. Valid(<<>>) = <<>>
  <2>1. Splits(<<>>, 0)
    BY DEF Splits
  <2>2. <<>> \in Seq(Bytes)
    OBVIOUS
  <2>3. Len(Valid(<<>>)) = 0 /\ Valid(<<>>) \in Seq(Bytes)
    BY <2>1, <2>2, SplitIsValid
  <2> QED BY <2>3
<1>3. StateFor(buffer) = "empty"
  BY <1>2 DEF Init, StateFor, Blank
<1> QED BY <1>1, <1>3 DEF Init, ToldInv, ReportOK

LEMMA ToldIsTrue ==
  ASSUME TypeOK, CallOK, ToldInv
  PROVE  ToldStateIsTrue
<1>1. ToldStateIsCurrent
  BY DEF ToldStateIsCurrent, ToldInv
<1>2. ASSUME phase = "done" PROVE EnvelopeEchoesTerminal
  <2>1. /\ ClosedTells /\ envelope = events[Len(events)].status /\ closed
        /\ LastToldState = state
    BY <1>2 DEF ToldInv, CallOK
  <2>2. CASE termination = "none"
    <3>1. envelope = report.status /\ state = report.state /\ report.status # "none"
      BY <2>1, <2>2 DEF ClosedTells, CallOK
    <3>2. report.status \in {"complete", "partial"}
      BY <3>1 DEF TypeOK
    <3> QED BY <2>1, <3>1, <3>2 DEF ToldInv, ReportOK, EnvelopeEchoesTerminal, ClosedTells
  <2>3. CASE termination # "none"
    <3>1. envelope = StatusOf(termination) /\ state = StateOf(termination)
          /\ termination \in {"cancelled", "budget", "failed", "lost"}
      BY <2>1, <2>3 DEF ClosedTells, ToldInv, TypeOK
    <3> QED BY <2>1, <3>1 DEF EnvelopeEchoesTerminal, ClosedTells, StatusOf, StateOf
  <2> QED BY <2>2, <2>3
<1> QED BY <1>1, <1>2 DEF ToldStateIsTrue, EnvelopeEchoesTerminal

(* Whatever is pushed and found, and wherever a stop falls, the state that *)
(* the consumer was last told is, between two calls, the one that the      *)
(* retained bytes and the open candidates make or that of the stop; and    *)
(* the envelope of finish says what the terminal event said, and goes with *)
(* that state.                                                             *)
THEOREM ToldStateIsTrueHolds == Spec => []ToldStateIsTrue
<1>1. Init => TypeOK /\ CallOK /\ ToldInv
  BY InitTypes, InitTold
<1>2. TypeOK /\ CallOK /\ ToldInv /\ [Next]_vars => (TypeOK /\ CallOK /\ ToldInv)'
  BY TypesKept, ToldKept
<1>3. TypeOK /\ CallOK /\ ToldInv => ToldStateIsTrue
  BY ToldIsTrue
<1> QED BY <1>1, <1>2, <1>3, PTL DEF Spec

-----------------------------------------------------------------------------
(* The life of candidates: a sequence of events with the candidates open   *)
(* after it and what was told of each of them last.                        *)

Places(S, kind, id) ==
  {i \in 1..Len(S) : S[i].event = kind /\ S[i].candidate_id = id}

Count(S, kind, id) == Cardinality(Places(S, kind, id))

Open(S, id) == Count(S, "candidate_started", id) = Count(S, "candidate_completed", id) + 1
Shut(S, id) == Count(S, "candidate_started", id) = Count(S, "candidate_completed", id)

(* The last telling of id comes after its last start and says n bytes.     *)
Told(S, id, n) ==
  \E t \in Places(S, "candidate_updated", id) :
    /\ S[t].bytes_seen = n
    /\ \A u \in Places(S, "candidate_updated", id) : u <= t
    /\ \A s \in Places(S, "candidate_started", id) : s < t

(* The event e may come after S when the whole text has n bytes.           *)
Allowed(S, e, n) ==
  /\ e \in Starts => Shut(S, e.candidate_id)
  /\ e \in Tellings => Open(S, e.candidate_id)
  /\ e \in Completions => Open(S, e.candidate_id) /\ Told(S, e.candidate_id, n)

Lawful(S, n) == \A i \in 1..Len(S) : Allowed(SubSeq(S, 1, i - 1), S[i], n)

(* S is lawful, D is open after it, and T is what was told last.           *)
Tale(S, n, D, T) ==
  /\ Lawful(S, n)
  /\ T \subseteq D \X Nat
  /\ \A id \in Nat : IF id \in D THEN Open(S, id) ELSE Shut(S, id)
  /\ \A p \in T : Told(S, p[1], p[2])

LEMMA AppendIs ==
  ASSUME NEW S \in Seq(Events), NEW e \in Events
  PROVE  \E R \in Seq(Events) : /\ R = Append(S, e) /\ Len(R) = Len(S) + 1
                               /\ R[Len(S) + 1] = e /\ \A i \in 1..Len(S) : R[i] = S[i]
<1>1. /\ Append(S, e) \in Seq(Events) /\ Len(Append(S, e)) = Len(S) + 1
      /\ Append(S, e)[Len(S) + 1] = e /\ \A i \in 1..Len(S) : Append(S, e)[i] = S[i]
  OBVIOUS
<1> QED BY ONLY <1>1

LEMMA ConcatIs ==
  ASSUME NEW S \in Seq(Events), NEW w \in Seq(Events)
  PROVE  \E R \in Seq(Events) :
           /\ R = S \o w /\ Len(R) = Len(S) + Len(w)
           /\ \A i \in 1..(Len(S) + Len(w)) : R[i] = IF i <= Len(S) THEN S[i] ELSE w[i - Len(S)]
<1>1. /\ S \o w \in Seq(Events) /\ Len(S \o w) = Len(S) + Len(w)
      /\ \A i \in 1..(Len(S) + Len(w)) : (S \o w)[i] = IF i <= Len(S) THEN S[i] ELSE w[i - Len(S)]
  BY ConcatProperties
<1> QED BY ONLY <1>1

LEMMA PlacesOfAppend ==
  ASSUME NEW S \in Seq(Events), NEW e \in Events, NEW kind, NEW id
  PROVE  /\ Count(S, kind, id) \in Nat
         /\ e.event = kind /\ e.candidate_id = id =>
              /\ Places(Append(S, e), kind, id) = Places(S, kind, id) \cup {Len(S) + 1}
              /\ Count(Append(S, e), kind, id) = Count(S, kind, id) + 1
         /\ ~ (e.event = kind /\ e.candidate_id = id) =>
              /\ Places(Append(S, e), kind, id) = Places(S, kind, id)
              /\ Count(Append(S, e), kind, id) = Count(S, kind, id)
<1>1. PICK R \in Seq(Events) : /\ R = Append(S, e) /\ Len(R) = Len(S) + 1
                               /\ R[Len(S) + 1] = e /\ \A i \in 1..Len(S) : R[i] = S[i]
  BY AppendIs
<1>2. Len(S) \in Nat
  OBVIOUS
<1>3. IsFiniteSet(Places(S, kind, id)) /\ Len(S) + 1 \notin Places(S, kind, id)
  <2>1. Places(S, kind, id) \subseteq 1..Len(S)
    BY DEF Places
  <2>2. IsFiniteSet(1..Len(S))
    BY <1>2, FS_Interval
  <2> QED BY <1>2, <2>1, <2>2, FS_Subset
<1>4. Count(S, kind, id) \in Nat
  BY <1>3, FS_CardinalityType DEF Count
<1>5. ASSUME e.event = kind, e.candidate_id = id
      PROVE  /\ Places(R, kind, id) = Places(S, kind, id) \cup {Len(S) + 1}
             /\ Count(R, kind, id) = Count(S, kind, id) + 1
  <2>1. Places(R, kind, id) = Places(S, kind, id) \cup {Len(S) + 1}
    BY <1>1, <1>2, <1>5 DEF Places
  <2>2. Cardinality(Places(S, kind, id) \cup {Len(S) + 1}) = Cardinality(Places(S, kind, id)) + 1
    BY <1>3, FS_AddElement
  <2> QED BY <2>1, <2>2 DEF Count
<1>6. ASSUME ~ (e.event = kind /\ e.candidate_id = id)
      PROVE  /\ Places(R, kind, id) = Places(S, kind, id)
             /\ Count(R, kind, id) = Count(S, kind, id)
  <2>1. Places(R, kind, id) = Places(S, kind, id)
    BY <1>1, <1>2, <1>6 DEF Places
  <2> QED BY <2>1 DEF Count
<1> QED BY <1>1, <1>4, <1>5, <1>6

LEMMA ToldOfAppend ==
  ASSUME NEW S \in Seq(Events), NEW e \in Events, NEW id, NEW n, Told(S, id, n),
         ~ (e.event \in {"candidate_started", "candidate_updated"} /\ e.candidate_id = id)
  PROVE  Told(Append(S, e), id, n)
<1>1. /\ ~ (e.event = "candidate_updated" /\ e.candidate_id = id)
      /\ ~ (e.event = "candidate_started" /\ e.candidate_id = id)
  OBVIOUS
<1>2. Places(Append(S, e), "candidate_updated", id) = Places(S, "candidate_updated", id)
  BY <1>1, PlacesOfAppend
<1>3. Places(Append(S, e), "candidate_started", id) = Places(S, "candidate_started", id)
  BY <1>1, PlacesOfAppend
<1>4. \A i \in Places(S, "candidate_updated", id) : Append(S, e)[i] = S[i]
  BY DEF Places
<1> QED BY <1>2, <1>3, <1>4 DEF Told

LEMMA LawfulOfAppend ==
  ASSUME NEW S \in Seq(Events), NEW e \in Events, NEW n
  PROVE  Lawful(Append(S, e), n) <=> Lawful(S, n) /\ Allowed(S, e, n)
<1>1. PICK R \in Seq(Events) : /\ R = Append(S, e) /\ Len(R) = Len(S) + 1
                               /\ R[Len(S) + 1] = e /\ \A i \in 1..Len(S) : R[i] = S[i]
  BY AppendIs
<1>2. PICK k \in Nat : k = Len(S)
  OBVIOUS
<1>3. ASSUME NEW i \in 1..(k + 1) PROVE SubSeq(R, 1, i - 1) = SubSeq(S, 1, i - 1)
  <2>1. i - 1 \in 0..k
    OBVIOUS
  <2> QED BY <1>1, <1>2, <2>1
<1>4. SubSeq(S, 1, (k + 1) - 1) = S
  BY <1>2
<1>5. Lawful(R, n) <=> \A i \in 1..(k + 1) : Allowed(SubSeq(S, 1, i - 1), R[i], n)
  BY <1>1, <1>2, <1>3 DEF Lawful
<1>6. \A i \in 1..k : R[i] = S[i] /\ i \in 1..(k + 1)
  BY <1>1, <1>2
<1>7. R[k + 1] = e /\ k + 1 \in 1..(k + 1)
  BY <1>1, <1>2
<1>8. \A i \in 1..(k + 1) : i \in 1..k \/ i = k + 1
  OBVIOUS
<1>9. Lawful(S, n) <=> \A i \in 1..k : Allowed(SubSeq(S, 1, i - 1), S[i], n)
  BY <1>2 DEF Lawful
<1> QED BY ONLY <1>1, <1>4, <1>5, <1>6, <1>7, <1>8, <1>9

LEMMA LawfulPrefix ==
  ASSUME NEW S \in Seq(Events), NEW w \in Seq(Events), NEW n, Lawful(S \o w, n)
  PROVE  Lawful(S, n)
<1>1. PICK R \in Seq(Events) :
        /\ R = S \o w /\ Len(R) = Len(S) + Len(w)
        /\ \A i \in 1..(Len(S) + Len(w)) : R[i] = IF i <= Len(S) THEN S[i] ELSE w[i - Len(S)]
  BY ConcatIs
<1>2. Len(S) \in Nat /\ Len(w) \in Nat
  OBVIOUS
<1>3. \A i \in 1..Len(S) : i \in 1..Len(R) /\ R[i] = S[i] /\ i - 1 \in 0..Len(S)
  BY <1>1, <1>2
<1>4. ASSUME NEW i \in 1..Len(S) PROVE SubSeq(R, 1, i - 1) = SubSeq(S, 1, i - 1)
  <2>1. i - 1 <= Len(S) /\ i - 1 <= Len(R)
    BY <1>1, <1>2
  <2> QED BY <1>3, <2>1
<1> QED BY <1>1, <1>3, <1>4 DEF Lawful

(* One event more, by its kind.                                            *)
LEMMA OthersStay ==
  ASSUME NEW S \in Seq(Events), NEW e \in Events, NEW id,
         e \notin Starts \cup Tellings \cup Completions \/ e.candidate_id # id
  PROVE  /\ Open(Append(S, e), id) <=> Open(S, id)
         /\ Shut(Append(S, e), id) <=> Shut(S, id)
         /\ \A n : Told(S, id, n) => Told(Append(S, e), id, n)
<1>1. \A kind \in {"candidate_started", "candidate_updated", "candidate_completed"} :
        ~ (e.event = kind /\ e.candidate_id = id)
  BY DEF Events, Planned, Starts, Tellings, Completions, Changes, Terminals, Diagnostic
<1>2. /\ Count(Append(S, e), "candidate_started", id) = Count(S, "candidate_started", id)
      /\ Count(Append(S, e), "candidate_completed", id) = Count(S, "candidate_completed", id)
  <2>1. ~ (e.event = "candidate_started" /\ e.candidate_id = id)
    BY <1>1
  <2>2. ~ (e.event = "candidate_completed" /\ e.candidate_id = id)
    BY <1>1
  <2> QED BY <2>1, <2>2, PlacesOfAppend
<1>3. ~ (e.event \in {"candidate_started", "candidate_updated"} /\ e.candidate_id = id)
  BY <1>1
<1>4. \A n : Told(S, id, n) => Told(Append(S, e), id, n)
  BY <1>3, ToldOfAppend
<1> QED BY <1>2, <1>4 DEF Open, Shut

LEMMA TaleOfOther ==
  ASSUME NEW S \in Seq(Events), NEW e \in Events, NEW n, NEW D, NEW T, Tale(S, n, D, T),
         e \notin Starts \cup Tellings \cup Completions
  PROVE  Tale(Append(S, e), n, D, T)
<1>1. Lawful(Append(S, e), n)
  BY LawfulOfAppend DEF Tale, Allowed
<1>2. \A id : /\ Open(Append(S, e), id) <=> Open(S, id)
              /\ Shut(Append(S, e), id) <=> Shut(S, id)
              /\ \A m : Told(S, id, m) => Told(Append(S, e), id, m)
  BY OthersStay
<1> QED BY <1>1, <1>2 DEF Tale

LEMMA TaleOfStart ==
  ASSUME NEW S \in Seq(Events), NEW id \in Nat, NEW n, NEW D, NEW T, Tale(S, n, D, T),
         id \notin D
  PROVE  Tale(Append(S, Started(id)), n, D \cup {id}, T)
<1>1. PICK e \in Starts : e = Started(id)
  BY DEF Starts, Started
<1>2. /\ e \in Events /\ e.event = "candidate_started" /\ e.candidate_id = id
      /\ e \notin Tellings /\ e \notin Completions
  BY <1>1 DEF Started, Events, Planned, Tellings, Completions
<1>3. Lawful(Append(S, e), n)
  BY <1>2, LawfulOfAppend DEF Tale, Allowed
<1>4. Open(Append(S, e), id)
  <2>1. Shut(S, id)
    BY DEF Tale
  <2>2. /\ Count(Append(S, e), "candidate_started", id) = Count(S, "candidate_started", id) + 1
        /\ Count(Append(S, e), "candidate_completed", id) = Count(S, "candidate_completed", id)
    BY <1>2, PlacesOfAppend
  <2> QED BY <2>1, <2>2 DEF Open, Shut
<1>5. ASSUME NEW x, x # id
      PROVE  /\ Open(Append(S, e), x) <=> Open(S, x)
             /\ Shut(Append(S, e), x) <=> Shut(S, x)
             /\ \A m : Told(S, x, m) => Told(Append(S, e), x, m)
  BY <1>2, <1>5, OthersStay
<1>6. \A p \in T : p[1] # id
  BY DEF Tale
<1>7. T \subseteq (D \cup {id}) \X Nat
  BY DEF Tale
<1> QED BY <1>1, <1>3, <1>4, <1>5, <1>6, <1>7 DEF Tale

LEMMA TaleOfTelling ==
  ASSUME NEW S \in Seq(Events), NEW e \in Tellings, NEW n, NEW D, NEW T, Tale(S, n, D, T),
         e.candidate_id \in D
  PROVE  Tale(Append(S, e), n, D,
              {p \in T : p[1] # e.candidate_id} \cup {<<e.candidate_id, e.bytes_seen>>})
<1>1. PICK id \in Nat, b \in Nat : id = e.candidate_id /\ b = e.bytes_seen
  BY DEF Tellings
<1>2. e \in Events /\ e.event = "candidate_updated" /\ e \notin Starts /\ e \notin Completions
  BY DEF Tellings, Events, Planned, Starts, Completions
<1>3. Lawful(Append(S, e), n)
  BY <1>1, <1>2, LawfulOfAppend DEF Tale, Allowed
<1>4. /\ Open(Append(S, e), id) <=> Open(S, id)
      /\ Shut(Append(S, e), id) <=> Shut(S, id)
  <2>1. /\ Count(Append(S, e), "candidate_started", id) = Count(S, "candidate_started", id)
        /\ Count(Append(S, e), "candidate_completed", id) = Count(S, "candidate_completed", id)
    BY <1>2, PlacesOfAppend
  <2> QED BY <2>1 DEF Open, Shut
<1>5. Told(Append(S, e), id, b)
  <2>1. PICK k \in Nat : k = Len(S)
    OBVIOUS
  <2>2. Places(Append(S, e), "candidate_updated", id) = Places(S, "candidate_updated", id) \cup {k + 1}
    BY <1>1, <1>2, <2>1, PlacesOfAppend
  <2>3. Places(Append(S, e), "candidate_started", id) = Places(S, "candidate_started", id)
    BY <1>2, PlacesOfAppend
  <2>4. \A kind : Places(S, kind, id) \subseteq 1..k
    BY <2>1 DEF Places
  <2>5. Append(S, e)[k + 1].bytes_seen = b
    BY <1>1, <1>2, <2>1
  <2>6. /\ \A u \in Places(S, "candidate_updated", id) : u <= k + 1
        /\ \A s \in Places(S, "candidate_started", id) : s < k + 1
    BY <2>4
  <2>7. /\ k + 1 \in Places(Append(S, e), "candidate_updated", id)
        /\ \A u \in Places(Append(S, e), "candidate_updated", id) : u <= k + 1
        /\ \A s \in Places(Append(S, e), "candidate_started", id) : s < k + 1
    BY <2>2, <2>3, <2>6
  <2> QED BY ONLY <2>5, <2>7 DEF Told
<1>6. ASSUME NEW x, x # id
      PROVE  /\ Open(Append(S, e), x) <=> Open(S, x)
             /\ Shut(Append(S, e), x) <=> Shut(S, x)
             /\ \A m : Told(S, x, m) => Told(Append(S, e), x, m)
  BY <1>1, <1>2, <1>6, OthersStay
<1> DEFINE U == {p \in T : p[1] # id} \cup {<<id, b>>}
<1>7. U \subseteq D \X Nat
  BY <1>1 DEF Tale
<1>8. \A p \in U : Told(Append(S, e), p[1], p[2])
  BY <1>5, <1>6 DEF Tale
<1> HIDE DEF U
<1>9. Tale(Append(S, e), n, D, U)
  BY <1>3, <1>4, <1>6, <1>7, <1>8 DEF Tale
<1> QED BY <1>1, <1>9 DEF U

LEMMA TaleOfCompletion ==
  ASSUME NEW S \in Seq(Events), NEW id \in Nat, NEW n, NEW D, NEW T, Tale(S, n, D, T),
         <<id, n>> \in T
  PROVE  Tale(Append(S, Completed(id)), n, D \ {id}, {p \in T : p[1] # id})
<1>1. PICK e \in Completions : e = Completed(id)
  BY DEF Completions, Completed
<1>2. /\ e \in Events /\ e.event = "candidate_completed" /\ e.candidate_id = id
      /\ e \notin Tellings /\ e \notin Starts
  BY <1>1 DEF Completed, Events, Planned, Tellings, Starts
<1>3. id \in D /\ Open(S, id) /\ Told(S, id, n)
  <2>1. Told(S, <<id, n>>[1], <<id, n>>[2])
    BY DEF Tale
  <2> QED BY <2>1 DEF Tale
<1>4. Lawful(Append(S, e), n)
  BY <1>2, <1>3, LawfulOfAppend DEF Tale, Allowed
<1>5. Shut(Append(S, e), id)
  <2>1. /\ Count(Append(S, e), "candidate_completed", id) = Count(S, "candidate_completed", id) + 1
        /\ Count(Append(S, e), "candidate_started", id) = Count(S, "candidate_started", id)
    BY <1>2, PlacesOfAppend
  <2> QED BY <1>3, <2>1 DEF Open, Shut
<1>6. ASSUME NEW x, x # id
      PROVE  /\ Open(Append(S, e), x) <=> Open(S, x)
             /\ Shut(Append(S, e), x) <=> Shut(S, x)
             /\ \A m : Told(S, x, m) => Told(Append(S, e), x, m)
  BY <1>2, <1>6, OthersStay
<1> DEFINE U == {p \in T : p[1] # id}
<1>7. U \subseteq (D \ {id}) \X Nat /\ \A p \in U : Told(Append(S, e), p[1], p[2])
  BY <1>6 DEF Tale
<1> HIDE DEF U
<1>8. Tale(Append(S, e), n, D \ {id}, U)
  BY <1>4, <1>5, <1>6, <1>7 DEF Tale
<1> QED BY <1>1, <1>8 DEF U

(* Pieces of a plan.                                                       *)
Then(S, w) == S \o w

LEMMA PieceAdds ==
  ASSUME NEW S \in Seq(Events), NEW e \in Events, NEW p, p = <<e>>
  PROVE  Then(S, p) = Append(S, e) /\ p \in Seq(Events) /\ Append(S, e) \in Seq(Events)
<1>1. p \in Seq(Events) /\ Len(p) = 1 /\ p[1] = e
  OBVIOUS
<1>2. PICK R \in Seq(Events) : /\ R = Append(S, e) /\ Len(R) = Len(S) + 1
                               /\ R[Len(S) + 1] = e /\ \A i \in 1..Len(S) : R[i] = S[i]
  BY AppendIs
<1>3. PICK Q \in Seq(Events) :
        /\ Q = S \o p /\ Len(Q) = Len(S) + Len(p)
        /\ \A i \in 1..(Len(S) + Len(p)) : Q[i] = IF i <= Len(S) THEN S[i] ELSE p[i - Len(S)]
  BY <1>1, ConcatIs
<1>4. PICK k \in Nat : k = Len(S)
  OBVIOUS
<1>5. \A i \in 1..(k + 1) : Q[i] = R[i]
  <2> SUFFICES ASSUME NEW i \in 1..(k + 1) PROVE Q[i] = R[i]
    OBVIOUS
  <2>1. CASE i \in 1..k
    BY ONLY <1>1, <1>2, <1>3, <1>4, <2>1
  <2>2. CASE i = k + 1
    <3>1. ~ (k + 1 <= k) /\ (k + 1) - k = 1
      OBVIOUS
    <3> QED BY <1>1, <1>2, <1>3, <1>4, <2>2, <3>1
  <2> QED BY <2>1, <2>2
<1>6. Q = R
  BY <1>1, <1>2, <1>3, <1>4, <1>5, SeqEqual
<1> QED BY <1>1, <1>2, <1>3, <1>6 DEF Then

LEMMA NothingAdds ==
  ASSUME NEW S \in Seq(Events), NEW p, p = <<>>
  PROVE  Then(S, p) = S /\ p \in Seq(Events)
BY ConcatEmptySeq DEF Then

LEMMA PiecesInTurn ==
  ASSUME NEW S \in Seq(Events), NEW p \in Seq(Events), NEW q \in Seq(Events)
  PROVE  Then(p, q) \in Seq(Events) /\ Then(S, Then(p, q)) = Then(Then(S, p), q)
<1>1. (S \o p) \o q = S \o (p \o q)
  BY ConcatAssociative
<1>2. p \o q \in Seq(Events)
  BY ConcatProperties
<1> QED BY ONLY <1>1, <1>2 DEF Then

LEMMA FourPieces ==
  ASSUME NEW S \in Seq(Events), NEW p \in Seq(Events), NEW q \in Seq(Events),
         NEW r \in Seq(Events), NEW t \in Seq(Events)
  PROVE  /\ Then(S, Then(Then(p, q), r)) = Then(Then(Then(S, p), q), r)
         /\ Then(S, Then(Then(Then(p, q), r), t)) = Then(Then(Then(Then(S, p), q), r), t)
<1>1. PICK x \in Seq(Events) : x = Then(p, q) /\ Then(S, x) = Then(Then(S, p), q)
  BY PiecesInTurn
<1>2. PICK y \in Seq(Events) : y = Then(x, r) /\ Then(S, y) = Then(Then(S, x), r)
  BY PiecesInTurn
<1>3. Then(S, Then(y, t)) = Then(Then(S, y), t)
  BY PiecesInTurn
<1> QED BY ONLY <1>1, <1>2, <1>3

(* What is known of the candidates once a plan that tells of W is done.    *)
Known(c, W, n) == {<<id, IF id \in W THEN n ELSE c[id]>> : id \in DOMAIN c \cup W}

Subjects(w) == {e.candidate_id : e \in Telling(w)}

LEMMA TaleOfBirth ==
  ASSUME TypeOK, NEW found \in Seq(Nat), NEW i \in 1..Len(found),
         NEW S \in Seq(Events), NEW D, NEW T, Tale(S, Len(buffer), D, T), found[i] \notin D
  PROVE  Tale(Then(S, Birth(found, i)), Len(buffer), D \cup {found[i]}, T \cup {<<found[i], Len(buffer)>>})
<1> DEFINE detects == i = Min(Fresh(found)) /\ state # "candidate_detected"
           a == <<Started(found[i])>>
           b == IF detects THEN <<StateChanged("candidate_detected")>> ELSE <<>>
           c == <<Updated(found[i])>>
<1>1. PICK id \in Nat, n \in Nat : id = found[i] /\ n = Len(buffer)
  BY DEF TypeOK
<1>2. PICK s \in Starts, x \in Changes, u \in Tellings :
        /\ s = Started(id) /\ x = StateChanged("candidate_detected") /\ u = Updated(id)
  BY EventTypes DEF StateNames
<1>3. s \in Events /\ x \in Events /\ u \in Events
  BY DEF Events, Planned
<1>4. u.candidate_id = id /\ u.bytes_seen = n
  BY <1>1, <1>2 DEF Updated
<1>5. x \notin Starts \cup Tellings \cup Completions
  BY DEF Changes, Starts, Tellings, Completions
<1>6. Birth(found, i) = Then(Then(a, b), c)
  BY DEF Birth, Then
<1>7. a = <<s>> /\ (detects => b = <<x>>) /\ (~ detects => b = <<>>) /\ c = <<u>>
  BY <1>1, <1>2
<1>8. Tale(S, n, D, T) /\ id \notin D
  BY <1>1
<1> HIDE DEF a, b, c, detects
<1>9. PICK A \in Seq(Events) : A = Then(S, a) /\ Tale(A, n, D \cup {id}, T) /\ a \in Seq(Events)
  <2>1. Then(S, a) = Append(S, s) /\ a \in Seq(Events) /\ Append(S, s) \in Seq(Events)
    BY <1>3, <1>7, PieceAdds
  <2>2. Tale(Append(S, s), n, D \cup {id}, T)
    BY <1>2, <1>8, TaleOfStart
  <2> QED BY <2>1, <2>2
<1>10. PICK B \in Seq(Events) : B = Then(A, b) /\ Tale(B, n, D \cup {id}, T) /\ b \in Seq(Events)
  <2>1. CASE detects
    <3>1. Then(A, b) = Append(A, x) /\ b \in Seq(Events) /\ Append(A, x) \in Seq(Events)
      BY <1>3, <1>7, <2>1, PieceAdds
    <3>2. Tale(Append(A, x), n, D \cup {id}, T)
      BY <1>3, <1>5, <1>9, TaleOfOther
    <3> QED BY <3>1, <3>2
  <2>2. CASE ~ detects
    <3>1. Then(A, b) = A /\ b \in Seq(Events)
      BY <1>7, <2>2, NothingAdds
    <3> QED BY <1>9, <3>1
  <2> QED BY <2>1, <2>2
<1>11. Then(B, c) = Append(B, u) /\ c \in Seq(Events)
  BY <1>3, <1>7, PieceAdds
<1>12. Tale(Append(B, u), n, D \cup {id}, {p \in T : p[1] # id} \cup {<<id, n>>})
  <2>1. u.candidate_id \in D \cup {id}
    BY <1>4
  <2>2. Tale(Append(B, u), n, D \cup {id},
             {p \in T : p[1] # u.candidate_id} \cup {<<u.candidate_id, u.bytes_seen>>})
    BY <1>10, <2>1, TaleOfTelling
  <2> QED BY <1>4, <2>2
<1>13. {p \in T : p[1] # id} = T
  <2>1. \A p \in T : p[1] \in D
    BY DEF Tale
  <2> QED BY <1>8, <2>1
<1>14. S \in Seq(Events) /\ a \in Seq(Events) /\ b \in Seq(Events) /\ c \in Seq(Events)
  BY <1>9, <1>10, <1>11
<1>15. Then(S, Birth(found, i)) = Append(B, u)
  <2>1. Then(S, Then(Then(a, b), c)) = Then(Then(Then(S, a), b), c)
    BY <1>14, FourPieces
  <2> QED BY ONLY <1>6, <1>9, <1>10, <1>11, <2>1
<1> QED BY <1>1, <1>12, <1>13, <1>15

LEMMA TaleOfLife ==
  ASSUME TypeOK, NEW found \in Seq(Nat), NEW i \in 1..Len(found),
         NEW S \in Seq(Events), NEW D, NEW T, Tale(S, Len(buffer), D, T),
         found[i] \notin D <=>
           (found[i] \notin DOMAIN candidates \/ \E j \in 1..(i - 1) : found[j] = found[i]),
         found[i] \in D => <<found[i], candidates[found[i]]>> \in T
  PROVE  Tale(Then(S, Life(found, i)), Len(buffer), D \ {found[i]}, {p \in T : p[1] # found[i]})
<1> DEFINE fresh == found[i] \notin DOMAIN candidates \/ \E j \in 1..(i - 1) : found[j] = found[i]
           detects == i = 1 /\ state # "candidate_detected"
           a == IF fresh THEN <<Started(found[i])>> ELSE <<>>
           b == IF detects THEN <<StateChanged("candidate_detected")>> ELSE <<>>
           c == IF fresh \/ candidates[found[i]] # Len(buffer) THEN <<Updated(found[i])>> ELSE <<>>
           d == <<Completed(found[i])>>
<1>1. PICK id \in Nat, n \in Nat : id = found[i] /\ n = Len(buffer)
  BY DEF TypeOK
<1>2. PICK s \in Starts, x \in Changes, u \in Tellings, z \in Completions :
        /\ s = Started(id) /\ x = StateChanged("candidate_detected") /\ u = Updated(id)
        /\ z = Completed(id)
  BY EventTypes DEF StateNames
<1>3. s \in Events /\ x \in Events /\ u \in Events /\ z \in Events
  BY DEF Events, Planned
<1>4. u.candidate_id = id /\ u.bytes_seen = n
  BY <1>1, <1>2 DEF Updated
<1>5. x \notin Starts \cup Tellings \cup Completions
  BY DEF Changes, Starts, Tellings, Completions
<1>6. PICK f \in BOOLEAN : f <=> fresh
  OBVIOUS
<1>7. Life(found, i) = Then(Then(Then(a, b), c), d)
  BY DEF Life, Then
<1>8. /\ (f => a = <<s>>) /\ (~ f => a = <<>>)
      /\ (detects => b = <<x>>) /\ (~ detects => b = <<>>)
      /\ (f \/ candidates[id] # n => c = <<u>>) /\ (~ (f \/ candidates[id] # n) => c = <<>>)
      /\ d = <<z>>
  BY <1>1, <1>2, <1>6
<1>9. /\ (id \notin D <=> f) /\ (id \in D => <<id, candidates[id]>> \in T)
      /\ Tale(S, n, D, T)
  BY <1>1, <1>6
<1> HIDE DEF a, b, c, d, fresh, detects
<1>10. PICK A \in Seq(Events) : A = Then(S, a) /\ Tale(A, n, D \cup {id}, T) /\ a \in Seq(Events)
  <2>1. CASE f
    <3>1. Then(S, a) = Append(S, s) /\ Append(S, s) \in Seq(Events) /\ a \in Seq(Events)
      BY <1>3, <1>8, <2>1, PieceAdds
    <3>2. Tale(Append(S, s), n, D \cup {id}, T)
      BY <1>2, <1>9, <2>1, TaleOfStart
    <3> QED BY <3>1, <3>2
  <2>2. CASE ~ f
    <3>1. Then(S, a) = S /\ a \in Seq(Events)
      BY <1>8, <2>2, NothingAdds
    <3>2. D \cup {id} = D
      BY <1>9, <2>2
    <3> QED BY <1>9, <3>1, <3>2
  <2> QED BY <2>1, <2>2
<1>11. PICK B \in Seq(Events) : B = Then(A, b) /\ Tale(B, n, D \cup {id}, T) /\ b \in Seq(Events)
  <2>1. CASE detects
    <3>1. Then(A, b) = Append(A, x) /\ Append(A, x) \in Seq(Events) /\ b \in Seq(Events)
      BY <1>3, <1>8, <2>1, PieceAdds
    <3>2. Tale(Append(A, x), n, D \cup {id}, T)
      BY <1>3, <1>5, <1>10, TaleOfOther
    <3> QED BY <3>1, <3>2
  <2>2. CASE ~ detects
    <3>1. Then(A, b) = A /\ b \in Seq(Events)
      BY <1>8, <2>2, NothingAdds
    <3> QED BY <1>10, <3>1
  <2> QED BY <2>1, <2>2
<1> DEFINE U == {p \in T : p[1] # id}
<1>12. PICK C \in Seq(Events), V \in SUBSET (U \cup T \cup {<<id, n>>}) :
         C = Then(B, c) /\ Tale(C, n, D \cup {id}, V) /\ <<id, n>> \in V /\ {p \in V : p[1] # id} = U
         /\ c \in Seq(Events)
  <2>1. CASE f \/ candidates[id] # n
    <3>1. Then(B, c) = Append(B, u) /\ Append(B, u) \in Seq(Events) /\ c \in Seq(Events)
      BY <1>3, <1>8, <2>1, PieceAdds
    <3>2. Tale(Append(B, u), n, D \cup {id}, U \cup {<<id, n>>})
      <4>1. u.candidate_id \in D \cup {id}
        BY <1>4
      <4>2. Tale(Append(B, u), n, D \cup {id},
                 {p \in T : p[1] # u.candidate_id} \cup {<<u.candidate_id, u.bytes_seen>>})
        BY <1>11, <4>1, TaleOfTelling
      <4> QED BY <1>4, <4>2
    <3>3. <<id, n>>[1] = id
      OBVIOUS
    <3>4. {p \in U \cup {<<id, n>>} : p[1] # id} = U
      BY <3>3
    <3> HIDE DEF U
    <3> QED BY <3>1, <3>2, <3>4
  <2>2. CASE ~ (f \/ candidates[id] # n)
    <3>1. Then(B, c) = B /\ c \in Seq(Events)
      BY <1>8, <2>2, NothingAdds
    <3>2. <<id, n>> \in T
      BY <1>9, <2>2
    <3> QED BY <1>11, <3>1, <3>2
  <2> QED BY <2>1, <2>2
<1>13. Then(C, d) = Append(C, z) /\ d \in Seq(Events)
  BY <1>3, <1>8, PieceAdds
<1>14. Tale(Append(C, z), n, (D \cup {id}) \ {id}, {p \in V : p[1] # id})
  BY <1>2, <1>12, TaleOfCompletion
<1>15. (D \cup {id}) \ {id} = D \ {id}
  OBVIOUS
<1>16. /\ S \in Seq(Events) /\ a \in Seq(Events) /\ b \in Seq(Events) /\ c \in Seq(Events)
      /\ d \in Seq(Events)
  BY <1>10, <1>11, <1>12, <1>13
<1>17. Then(S, Life(found, i)) = Append(C, z)
  <2>1. Then(S, Then(Then(Then(a, b), c), d)) = Then(Then(Then(Then(S, a), b), c), d)
    BY <1>16, FourPieces
  <2> QED BY ONLY <1>7, <1>10, <1>11, <1>12, <1>13, <2>1
<1> QED BY <1>1, <1>12, <1>14, <1>15, <1>17

(* While pushes are made: what was told and what is planned make one tale, *)
(* whose open candidates are those remembered and those still to be told   *)
(* of, and in which nothing was completed.                                 *)
Uncompleted(S) == \A i \in 1..Len(S) : S[i] \notin Completions

PushTale(S, w, c, n) ==
  /\ Tale(Then(S, w), n, DOMAIN c \cup Subjects(w), Known(c, Subjects(w), n))
  /\ Uncompleted(Then(S, w))
  /\ \A e \in Telling(w) : e.bytes_seen = n

LifeInv ==
  /\ termination # "none" => Lawful(events, Len(buffer))
  /\ termination = "none" /\ phase \in {"idle", "scan", "update", "emit"} =>
       PushTale(events, plan, candidates, Len(buffer))
  /\ phase = "finish" => Tale(Then(events, plan), Len(buffer), DOMAIN candidates, {})
  /\ termination = "none" /\ closed => Tale(events, Len(buffer), {}, {})

LEMMA TaleIsMonotone ==
  ASSUME NEW S, NEW n, NEW D, NEW T, Tale(S, n, D, T), NEW U \in SUBSET T
  PROVE  Tale(S, n, D, U)
BY DEF Tale

(* Only a completion asks how long the whole text is.                      *)
LEMMA LawfulAtAnyLength ==
  ASSUME NEW S, NEW n, NEW m, Uncompleted(S), Lawful(S, n)
  PROVE  Lawful(S, m)
<1> SUFFICES ASSUME NEW i \in 1..Len(S) PROVE Allowed(SubSeq(S, 1, i - 1), S[i], m)
  BY DEF Lawful
<1>1. Allowed(SubSeq(S, 1, i - 1), S[i], n) /\ S[i] \notin Completions
  BY DEF Lawful, Uncompleted
<1> QED BY <1>1 DEF Allowed

LEMMA UncompletedOfAppend ==
  ASSUME NEW S \in Seq(Events), NEW e \in Events
  PROVE  Uncompleted(Append(S, e)) <=> Uncompleted(S) /\ e \notin Completions
<1>1. PICK R \in Seq(Events) : /\ R = Append(S, e) /\ Len(R) = Len(S) + 1
                               /\ R[Len(S) + 1] = e /\ \A i \in 1..Len(S) : R[i] = S[i]
  BY AppendIs
<1>2. PICK k \in Nat : k = Len(S)
  OBVIOUS
<1>3. \A i \in 1..(k + 1) : i \in 1..k \/ i = k + 1
  OBVIOUS
<1>4. 1..k \subseteq 1..(k + 1) /\ k + 1 \in 1..(k + 1)
  OBVIOUS
<1> QED BY ONLY <1>1, <1>2, <1>3, <1>4 DEF Uncompleted

LEMMA UncompletedOfThen ==
  ASSUME NEW S \in Seq(Events), NEW w \in Seq(Events)
  PROVE  Uncompleted(Then(S, w)) <=> Uncompleted(S) /\ Uncompleted(w)
<1>1. PICK R \in Seq(Events) :
        /\ R = S \o w /\ Len(R) = Len(S) + Len(w)
        /\ \A i \in 1..(Len(S) + Len(w)) : R[i] = IF i <= Len(S) THEN S[i] ELSE w[i - Len(S)]
  BY ConcatIs
<1>2. PICK k \in Nat, l \in Nat : k = Len(S) /\ l = Len(w)
  OBVIOUS
<1>3. ASSUME Uncompleted(S), Uncompleted(w) PROVE Uncompleted(R)
  <2> SUFFICES ASSUME NEW i \in 1..(k + l) PROVE R[i] \notin Completions
    BY <1>1, <1>2 DEF Uncompleted
  <2>1. CASE i <= k
    <3>1. i \in 1..k
      BY <2>1
    <3> QED BY <1>1, <1>2, <1>3, <2>1, <3>1 DEF Uncompleted
  <2>2. CASE ~ (i <= k)
    <3>1. i - k \in 1..l
      BY <2>2
    <3> QED BY <1>1, <1>2, <1>3, <2>2, <3>1 DEF Uncompleted
  <2> QED BY <2>1, <2>2
<1>4. ASSUME Uncompleted(R) PROVE Uncompleted(S) /\ Uncompleted(w)
  <2>1. ASSUME NEW i \in 1..k PROVE S[i] \notin Completions
    <3>1. i \in 1..(k + l) /\ i <= k
      OBVIOUS
    <3> QED BY <1>1, <1>2, <1>4, <3>1 DEF Uncompleted
  <2>2. ASSUME NEW i \in 1..l PROVE w[i] \notin Completions
    <3>1. k + i \in 1..(k + l) /\ ~ (k + i <= k) /\ (k + i) - k = i
      OBVIOUS
    <3>2. R[k + i] = w[i]
      BY <1>1, <1>2, <3>1
    <3> QED BY <1>1, <1>2, <1>4, <3>1, <3>2 DEF Uncompleted
  <2> QED BY <1>2, <2>1, <2>2 DEF Uncompleted
<1>5. Then(S, w) = R
  BY ONLY <1>1 DEF Then
<1> QED BY <1>3, <1>4, <1>5

(* Handing over the head of what is planned leaves the tale as it is.      *)
LEMMA HandingKeepsStory ==
  ASSUME NEW S \in Seq(Events), NEW w \in Seq(Planned), w # <<>>
  PROVE  Then(Append(S, Head(w)), Tail(w)) = Then(S, w)
<1>1. PICK e \in Events, v \in Seq(Events), p \in Seq(Events) :
        e = Head(w) /\ v = Tail(w) /\ p = <<e>>
  <2>1. w \in Seq(Events)
    BY DEF Events
  <2>2. Head(w) \in Events /\ Tail(w) \in Seq(Events) /\ <<Head(w)>> \in Seq(Events)
    BY <2>1
  <2> QED BY <2>2
<1>2. Then(S, p) = Append(S, e)
  BY <1>1, PieceAdds
<1>3. Then(S, Then(p, v)) = Then(Then(S, p), v)
  BY PiecesInTurn
<1>4. Then(p, v) = w
  <2>1. w \in Seq(Events)
    BY DEF Events
  <2>2. PICK Q \in Seq(Events) :
          /\ Q = p \o v /\ Len(Q) = Len(p) + Len(v)
          /\ \A i \in 1..(Len(p) + Len(v)) : Q[i] = IF i <= Len(p) THEN p[i] ELSE v[i - Len(p)]
    BY ConcatIs
  <2>3. Len(p) = 1 /\ p[1] = e
    BY <1>1
  <2>4. PICK k \in Nat : k = Len(v)
    OBVIOUS
  <2>5. Len(w) = k + 1 /\ w[1] = e /\ \A i \in 1..k : v[i] = w[i + 1]
    BY <1>1, <2>1, <2>4
  <2>6. Len(Q) = k + 1
    BY <2>2, <2>3, <2>4
  <2>7. \A i \in 1..(k + 1) : Q[i] = w[i]
    <3> SUFFICES ASSUME NEW i \in 1..(k + 1) PROVE Q[i] = w[i]
      OBVIOUS
    <3>1. CASE i = 1
      BY <2>2, <2>3, <2>4, <2>5, <3>1
    <3>2. CASE i # 1
      <4>1. i - 1 \in 1..k /\ (i - 1) + 1 = i /\ ~ (i <= 1) /\ i \in 1..(1 + k)
        BY <3>2
      <4>2. Q[i] = v[i - 1]
        BY <2>2, <2>3, <2>4, <4>1
      <4>3. v[i - 1] = w[(i - 1) + 1]
        BY <2>5, <4>1
      <4> QED BY <4>1, <4>2, <4>3
    <3> QED BY <3>1, <3>2
  <2>8. Q = w
    BY <2>1, <2>2, <2>5, <2>6, <2>7, SeqEqual
  <2> QED BY ONLY <2>2, <2>8 DEF Then
<1> QED BY ONLY <1>1, <1>2, <1>3, <1>4

LEMMA NothingToTell ==
  /\ Subjects(<<>>) = {} /\ Telling(<<>>) = {} /\ <<>> \in Seq(Events)
  /\ \A S \in Seq(Events) : Then(S, <<>>) = S
<1>1. Telling(<<>>) = {}
  BY RangeOfFew DEF Telling
<1>2. \A S \in Seq(Events) : Then(S, <<>>) = S
  BY NothingAdds
<1> QED BY <1>1, <1>2 DEF Subjects

(* What is known of the candidates is what the consumer was told last.     *)
LEMMA KnownIsTold ==
  ASSUME NEW c, NEW W, NEW n
  PROVE  /\ Known(c, {}, n) = {<<id, c[id]>> : id \in DOMAIN c}
         /\ DOMAIN c \cup {} = DOMAIN c
BY DEF Known

(* The planned events that belong to no candidate change nothing.          *)
LEMMA ChangesStay ==
  ASSUME NEW S \in Seq(Events), NEW x \in Changes
  PROVE  /\ <<x>> \in Seq(Events) /\ Then(S, <<x>>) = Append(S, x) /\ Append(S, x) \in Seq(Events)
         /\ Telling(<<x>>) = {} /\ Subjects(<<x>>) = {}
         /\ \A n, D, T : Tale(S, n, D, T) => Tale(Append(S, x), n, D, T)
         /\ Uncompleted(S) => Uncompleted(Append(S, x))
<1>1. x \in Events /\ x \notin Starts \cup Tellings \cup Completions
  BY DEF Events, Planned, Changes, Starts, Tellings, Completions
<1>2. PICK p : p = <<x>>
  OBVIOUS
<1>3. Then(S, p) = Append(S, x) /\ p \in Seq(Events) /\ Append(S, x) \in Seq(Events)
  BY <1>1, <1>2, PieceAdds
<1>4. Telling(p) = {}
  BY <1>1, <1>2, RangeOfFew DEF Telling
<1>5. Subjects(p) = {}
  BY <1>4 DEF Subjects
<1>6. \A n, D, T : Tale(S, n, D, T) => Tale(Append(S, x), n, D, T)
  BY <1>1, TaleOfOther
<1>7. Uncompleted(S) => Uncompleted(Append(S, x))
  BY <1>1, UncompletedOfAppend
<1> QED BY <1>2, <1>3, <1>4, <1>5, <1>6, <1>7

LEMMA QuietLife ==
  ASSUME LifeInv, UNCHANGED <<parser, call, events>>
  PROVE  LifeInv'
<1>1. /\ events' = events /\ plan' = plan /\ candidates' = candidates /\ buffer' = buffer
      /\ phase' = phase /\ termination' = termination /\ closed' = closed
  BY DEF parser, call
<1> QED BY <1>1 DEF LifeInv

LEMMA AcceptedLife ==
  ASSUME TypeOK, TypeOK', CallOK, LifeInv, NEW chunk \in Chunks, PushAccepted(chunk)
  PROVE  LifeInv'
<1> DEFINE s == StateFor(buffer \o chunk)
<1>1. /\ phase' \in {"scan", "update", "emit"} /\ phase = "idle" /\ termination = "none"
      /\ plan' = IF state # s THEN <<StateChanged(s)>> ELSE <<>>
      /\ UNCHANGED <<candidates, termination, closed, events>>
  BY DEF PushAccepted, Idle
<1>2. plan = <<>> /\ ~ closed
  BY <1>1 DEF CallOK
<1>3. s \in StateNames
  BY DEF StateFor, StateNames
<1> HIDE DEF s
<1>4. PICK S \in Seq(Events), n \in Nat, m \in Nat, x \in Changes :
        S = events /\ n = Len(buffer) /\ m = Len(buffer)' /\ x = StateChanged(s)
  <2>1. Len(buffer) \in Nat /\ Len(buffer)' \in Nat /\ events \in Seq(Events)
    BY DEF TypeOK
  <2> QED BY <1>3, <2>1, EventTypes
<1>5. PICK c : c = candidates
  OBVIOUS
<1>6. /\ Tale(S, n, DOMAIN c \cup {}, Known(c, {}, n)) /\ Uncompleted(S)
  BY <1>1, <1>2, <1>4, <1>5, NothingToTell DEF LifeInv, PushTale
<1>7. Known(c, {}, n) = Known(c, {}, m)
  BY KnownIsTold
<1>8. Tale(S, m, DOMAIN c \cup {}, Known(c, {}, m))
  <2>1. Lawful(S, m)
    BY <1>6, LawfulAtAnyLength DEF Tale
  <2> QED BY <1>6, <1>7, <2>1 DEF Tale
<1>9. PICK w : w = plan'
  OBVIOUS
<1>10. PushTale(S, w, c, m)
  <2>1. CASE w = <<>>
    BY <1>6, <1>8, <2>1, NothingToTell DEF PushTale
  <2>2. CASE w = <<x>>
    <3>1. Then(S, w) = Append(S, x) /\ Telling(w) = {} /\ Subjects(w) = {}
      BY <2>2, ChangesStay
    <3>2. Tale(Append(S, x), m, DOMAIN c \cup {}, Known(c, {}, m)) /\ Uncompleted(Append(S, x))
      BY <1>6, <1>8, ChangesStay
    <3> QED BY ONLY <3>1, <3>2 DEF PushTale
  <2> QED BY <1>1, <1>4, <1>9, <2>1, <2>2
<1> QED BY <1>1, <1>2, <1>4, <1>5, <1>9, <1>10 DEF LifeInv

(* Handing over a telling during a push remembers it, so nothing is lost   *)
(* of what is known.                                                       *)
LEMMA EmitLife ==
  ASSUME TypeOK, TypeOK', CallOK, LifeInv, NEW size \in EventSizes, EmitEvent(size)
  PROVE  LifeInv'
<1>1. PICK S \in Seq(Events), w \in Seq(Planned), n \in Nat, e \in Planned :
        S = events /\ w = plan /\ n = Len(buffer) /\ e = Head(plan)
  BY DEF EmitEvent, TypeOK
<1>2. PICK c, d : c = candidates /\ d = candidates'
  OBVIOUS
<1>3. w # <<>> /\ plan' = Tail(w) /\ events' = Append(S, e) /\ Len(buffer)' = n
  BY <1>1 DEF EmitEvent, Handed
<1>4. UNCHANGED <<termination, closed, phase>>
  BY DEF EmitEvent
<1>5. /\ e.event = "candidate_updated" /\ phase # "finish" =>
           /\ DOMAIN d = DOMAIN c \cup {e.candidate_id}
           /\ d[e.candidate_id] = e.bytes_seen
           /\ \A x \in DOMAIN c : x # e.candidate_id => d[x] = c[x]
      /\ ~ (e.event = "candidate_updated" /\ phase # "finish") => d = c
  BY <1>1, <1>2 DEF EmitEvent, Handed, Noted
<1>6. /\ phase \in {"scan", "update", "emit", "finish"} /\ ~ closed /\ termination = "none"
  BY <1>1, <1>2, <1>3, <1>4, <1>5 DEF CallOK, TypeOK
<1>7. PICK R, v : R = Append(S, e) /\ v = Tail(w)
  OBVIOUS
<1>8. Then(R, v) = Then(S, w)
  BY <1>1, <1>2, <1>3, <1>4, <1>5, <1>7, HandingKeepsStory
<1>9. CASE phase = "finish"
  <2>1. d = c
    BY <1>3, <1>4, <1>5, <1>9
  <2>2. Tale(Then(R, v), n, DOMAIN d, {})
    BY <1>1, <1>2, <1>8, <1>9, <2>1 DEF LifeInv
  <2> QED BY <1>1, <1>2, <1>3, <1>4, <1>5, <1>6, <1>7, <1>9, <2>2 DEF LifeInv
<1>10. CASE phase # "finish"
  <2>1. PushTale(S, w, c, n)
    BY <1>1, <1>2, <1>6, <1>10 DEF LifeInv
  <2>2. Range(w) = {e} \cup Range(v)
    BY <1>1, <1>2, <1>3, <1>4, <1>5, <1>7, RangeOfTail
  <2>3. e.event = "candidate_updated" <=> e \in Tellings
    BY DEF Planned, Starts, Tellings, Completions, Changes
  <2>4. Telling(v) \subseteq Telling(w)
    BY <2>2 DEF Telling
  <2>5. PushTale(R, v, d, n)
    <3>1. CASE e \in Tellings
      <4>1. Telling(w) = {e} \cup Telling(v)
        BY <2>2, <3>1 DEF Telling
      <4>2. Subjects(w) = Subjects(v) \cup {e.candidate_id}
        BY <4>1 DEF Subjects
      <4>3. e.bytes_seen = n
        BY <2>1, <4>1 DEF PushTale
      <4>4. PICK id, W : id = e.candidate_id /\ W = Subjects(v)
        OBVIOUS
      <4>5. /\ DOMAIN d = DOMAIN c \cup {id} /\ d[id] = n
            /\ \A x \in DOMAIN c : x # id => d[x] = c[x]
        BY <1>3, <1>4, <1>5, <1>10, <2>3, <3>1, <4>3, <4>4
      <4>6. DOMAIN d \cup W = DOMAIN c \cup (W \cup {id}) /\ Known(d, W, n) = Known(c, W \cup {id}, n)
        <5>1. DOMAIN d \cup W = DOMAIN c \cup (W \cup {id})
          BY ONLY <4>5
        <5>2. \A x \in DOMAIN d \cup W :
                (IF x \in W THEN n ELSE d[x]) = (IF x \in W \cup {id} THEN n ELSE c[x])
          BY ONLY <4>5
        <5> QED BY ONLY <5>1, <5>2 DEF Known
      <4>7. Subjects(w) = W \cup {id}
        BY <4>2, <4>4
      <4> QED BY ONLY <1>8, <2>1, <2>4, <4>4, <4>6, <4>7 DEF PushTale
    <3>2. CASE e \notin Tellings
      <4>1. Telling(w) = Telling(v)
        BY <2>2, <3>2 DEF Telling
      <4>2. Subjects(w) = Subjects(v) /\ d = c
        BY <1>3, <1>4, <1>5, <2>3, <3>2, <4>1 DEF Subjects
      <4> QED BY ONLY <1>8, <2>1, <2>4, <4>2 DEF PushTale
    <3> QED BY <3>1, <3>2
  <2> QED BY <1>1, <1>2, <1>3, <1>4, <1>5, <1>6, <1>7, <1>10, <2>5 DEF LifeInv
<1> QED BY <1>9, <1>10

LEMMA UncompletedByRange ==
  ASSUME NEW w \in Seq(Events)
  PROVE  Uncompleted(w) <=> Range(w) \cap Completions = {}
<1>1. Range(w) = {w[i] : i \in 1..Len(w)}
  BY RangeEquality
<1> QED BY <1>1 DEF Uncompleted

(* The candidates started by the blocks up to the i-th.                    *)
Born(found, i) == {found[j] : j \in {k \in Fresh(found) : k <= i}}

BornTale(S, found, i, s) ==
  /\ Tale(Then(S, s), Len(buffer), DOMAIN candidates \cup Born(found, i),
          Known(candidates, Born(found, i), Len(buffer)))
  /\ Range(s) \cap Completions = {}
  /\ Telling(s) = {Updated(id) : id \in Born(found, i)}

LEMMA OneMoreBirth ==
  ASSUME TypeOK, NEW found \in Seq(Nat), NEW i \in 1..Len(found), NEW S \in Seq(Events),
         NEW s \in Seq(Planned), BornTale(S, found, i - 1, s), i \in Fresh(found)
  PROVE  BornTale(S, found, i, s \o Birth(found, i))
<1>1. PICK id \in Nat, n \in Nat, b \in Seq(Planned) :
        id = found[i] /\ n = Len(buffer) /\ b = Birth(found, i)
  <2>1. Birth(found, i) \in Seq(Planned) /\ Len(buffer) \in Nat
    BY BirthType DEF TypeOK
  <2> QED BY <2>1
<1>2. PICK D, F, G, T : /\ D = DOMAIN candidates /\ F = Born(found, i - 1) /\ G = Born(found, i)
                        /\ T = Known(candidates, F, n)
  OBVIOUS
<1>3. G = F \cup {id}
  <2>1. {k \in Fresh(found) : k <= i} = {k \in Fresh(found) : k <= i - 1} \cup {i}
    BY DEF Fresh
  <2> QED BY <1>1, <1>2, <2>1 DEF Born
<1>4. id \notin D \cup F
  BY <1>1, <1>2 DEF Born, Fresh
<1>5. Known(candidates, G, n) = T \cup {<<id, n>>}
  <2>1. D \cup G = (D \cup F) \cup {id}
    BY <1>3
  <2>2. \A x \in D \cup F : (IF x \in G THEN n ELSE candidates[x]) = (IF x \in F THEN n ELSE candidates[x])
    BY <1>3, <1>4
  <2>3. id \in G
    BY <1>3
  <2> QED BY <1>2, <2>1, <2>2, <2>3 DEF Known
<1>6. PICK R \in Seq(Events) : R = Then(S, s)
  <2>1. s \in Seq(Events)
    BY DEF Events
  <2> QED BY <2>1, PiecesInTurn
<1>7. Tale(R, n, D \cup F, T)
  BY <1>1, <1>2, <1>6 DEF BornTale
<1>8. Tale(Then(R, b), n, (D \cup F) \cup {id}, T \cup {<<id, n>>})
  BY <1>1, <1>4, <1>7, TaleOfBirth
<1>9. Then(R, b) = Then(S, Then(s, b))
  <2>1. s \in Seq(Events) /\ b \in Seq(Events)
    BY DEF Events
  <2> QED BY <1>6, <2>1, PiecesInTurn
<1>10. Range(b) = {Started(id), Updated(id)}
                  \cup (IF i = Min(Fresh(found)) /\ state # "candidate_detected"
                        THEN {StateChanged("candidate_detected")} ELSE {})
  BY <1>1, BirthRange
<1>11. PICK w \in Seq(Planned) : w = s \o b /\ Range(w) = Range(s) \cup Range(b)
  BY RangeConcatenation, ConcatProperties
<1>12. /\ Started(id) \notin Completions \cup Tellings /\ Updated(id) \notin Completions
       /\ StateChanged("candidate_detected") \notin Completions \cup Tellings
       /\ Updated(id) \in Tellings
  BY EventTypes DEF Started, Updated, StateChanged, Completions, Tellings
<1>13. Range(w) \cap Completions = {}
  BY <1>10, <1>11, <1>12 DEF BornTale
<1>14. Telling(w) = Telling(s) \cup {Updated(id)}
  BY <1>10, <1>11, <1>12 DEF Telling
<1>15. Telling(w) = {Updated(x) : x \in G}
  BY <1>2, <1>3, <1>14 DEF BornTale
<1>16. Tale(Then(S, w), n, D \cup G, Known(candidates, G, n))
  <2>1. Then(s, b) = w
    BY <1>11 DEF Then
  <2>2. (D \cup F) \cup {id} = D \cup G
    BY <1>3
  <2> QED BY <1>5, <1>8, <1>9, <2>1, <2>2
<1> QED BY <1>1, <1>2, <1>11, <1>13, <1>15, <1>16 DEF BornTale

LEMMA BirthsTale ==
  ASSUME TypeOK, NEW found \in Seq(Nat), NEW S \in Seq(Events),
         Tale(S, Len(buffer), DOMAIN candidates, Known(candidates, {}, Len(buffer)))
  PROVE  /\ Births(found) \in Seq(Planned)
         /\ BornTale(S, found, Len(found), Births(found))
<1> DEFINE blocks == [i \in 1..Len(found) |-> BirthOrNone(found, i)]
           P == [i \in 0..Len(found) |-> {s \in Seq(Planned) : BornTale(S, found, i, s)}]
<1>1. Len(found) \in Nat /\ blocks \in Seq(Seq(Planned)) /\ Len(blocks) = Len(found)
  <2>1. \A i \in 1..Len(found) : BirthOrNone(found, i) \in Seq(Planned)
    BY BirthType DEF BirthOrNone
  <2> QED BY <2>1
<1>2. <<>> \in P[0]
  <2>1. Born(found, 0) = {}
    BY DEF Born, Fresh
  <2>2. Telling(<<>>) = {} /\ Range(<<>>) = {} /\ Then(S, <<>>) = S
    BY NothingToTell, RangeOfFew
  <2>3. BornTale(S, found, 0, <<>>)
    BY <2>1, <2>2 DEF BornTale
  <2>4. <<>> \in Seq(Planned) /\ 0 \in 0..Len(found)
    BY <1>1
  <2> QED BY <2>3, <2>4
<1>3. ASSUME NEW i \in 1..Len(found), NEW s \in Seq(Planned), s \in P[i - 1]
      PROVE  s \o blocks[i] \in P[i]
  <2>1. i - 1 \in 0..Len(found) /\ i \in 0..Len(found)
    BY <1>1
  <2>2. BornTale(S, found, i - 1, s)
    BY <1>3, <2>1
  <2>3. CASE i \notin Fresh(found)
    <3>1. blocks[i] = <<>>
      BY <2>3 DEF BirthOrNone
    <3>2. s \o blocks[i] = s
      BY <3>1
    <3>3. {k \in Fresh(found) : k <= i} = {k \in Fresh(found) : k <= i - 1}
      BY <2>3 DEF Fresh
    <3>4. Born(found, i) = Born(found, i - 1)
      BY <3>3 DEF Born
    <3>5. BornTale(S, found, i, s)
      BY <2>2, <3>4 DEF BornTale
    <3> HIDE DEF blocks
    <3> QED BY <2>1, <3>2, <3>5
  <2>4. CASE i \in Fresh(found)
    <3>1. blocks[i] = Birth(found, i)
      BY <2>4 DEF BirthOrNone
    <3>2. s \o Birth(found, i) \in Seq(Planned)
      BY BirthType, ConcatProperties
    <3>3. BornTale(S, found, i, s \o Birth(found, i))
      BY <2>2, <2>4, OneMoreBirth
    <3> HIDE DEF blocks
    <3> QED BY <2>1, <3>1, <3>2, <3>3
  <2> QED BY <2>3, <2>4
<1>4. FlattenSeq(blocks) \in P[Len(found)]
  <2>1. <<>> \in P[0] /\ \A i \in 1..Len(blocks), s \in Seq(Planned) :
                             s \in P[i - 1] => s \o blocks[i] \in P[i]
    BY <1>1, <1>2, <1>3
  <2> HIDE DEF P, blocks
  <2>2. FlattenSeq(blocks) \in P[Len(blocks)]
    BY <1>1, <2>1, FlattenInduction
  <2> QED BY <1>1, <2>2
<1>5. FlattenSeq(blocks) = Births(found)
  BY BirthsAreBlocks
<1> HIDE DEF blocks
<1> QED BY <1>1, <1>4, <1>5

LEMMA ScanLife ==
  ASSUME TypeOK, CallOK, LifeInv, NEW found \in Stable, ScanFound(found)
  PROVE  LifeInv'
<1>1. /\ phase = "scan" /\ plan = <<>> /\ plan' = Births(found) /\ phase' = "update"
      /\ events' = events /\ candidates' = candidates /\ buffer' = buffer
      /\ termination' = termination /\ closed' = closed /\ found \in Seq(Nat)
  BY ChargeTypes DEF ScanFound, parser
<1>2. termination = "none" /\ ~ closed
  BY <1>1 DEF CallOK
<1>3. PICK S \in Seq(Events), n \in Nat : S = events /\ n = Len(buffer)
  <2>1. events \in Seq(Events) /\ Len(buffer) \in Nat
    BY DEF TypeOK
  <2> QED BY <2>1
<1>4. Tale(S, n, DOMAIN candidates, Known(candidates, {}, n)) /\ Uncompleted(S)
  BY <1>1, <1>2, <1>3, NothingToTell DEF LifeInv, PushTale
<1>5. PICK w \in Seq(Planned) : w = Births(found) /\ BornTale(S, found, Len(found), w)
  BY <1>1, <1>3, <1>4, BirthsTale
<1>6. PICK F : F = Born(found, Len(found))
  OBVIOUS
<1>7. /\ Tale(Then(S, w), n, DOMAIN candidates \cup F, Known(candidates, F, n)) /\ Range(w) \cap Completions = {}
      /\ Telling(w) = {Updated(id) : id \in F}
  BY <1>3, <1>5, <1>6 DEF BornTale
<1>8. Subjects(w) = F /\ \A e \in Telling(w) : e.bytes_seen = n
  <2>1. \A id \in F : Updated(id).candidate_id = id /\ Updated(id).bytes_seen = n
    BY <1>3 DEF Updated
  <2>2. \A e \in Telling(w) : \E id \in F : e = Updated(id)
    BY <1>7
  <2>3. \A id \in F : Updated(id) \in Telling(w)
    BY <1>7
  <2>4. \A e \in Telling(w) : e.candidate_id \in F /\ e.bytes_seen = n
    BY ONLY <2>1, <2>2
  <2>5. \A id \in F : \E e \in Telling(w) : e.candidate_id = id
    BY ONLY <2>1, <2>3
  <2> QED BY ONLY <2>4, <2>5 DEF Subjects
<1>9. Uncompleted(Then(S, w))
  <2>1. w \in Seq(Events)
    BY DEF Events
  <2> QED BY <1>4, <1>7, <2>1, UncompletedByRange, UncompletedOfThen
<1>10. PushTale(S, w, candidates, n)
  BY ONLY <1>7, <1>8, <1>9 DEF PushTale
<1> QED BY <1>1, <1>2, <1>3, <1>5, <1>10 DEF LifeInv

LEMMA ThenAppend ==
  ASSUME NEW S \in Seq(Events), NEW w \in Seq(Events), NEW e \in Events
  PROVE  Then(S, Append(w, e)) = Append(Then(S, w), e) /\ Then(S, w) \in Seq(Events)
<1>1. PICK p \in Seq(Events) : p = <<e>> /\ Then(w, p) = Append(w, e)
  <2>1. PICK p : p = <<e>>
    OBVIOUS
  <2>2. p \in Seq(Events) /\ Then(w, p) = Append(w, e)
    BY <2>1, PieceAdds
  <2> QED BY <2>1, <2>2
<1>2. PICK R \in Seq(Events) : R = Then(S, w)
  BY PiecesInTurn
<1>3. Then(R, p) = Append(R, e)
  BY <1>1, PieceAdds
<1>4. Then(S, Then(w, p)) = Then(Then(S, w), p)
  BY PiecesInTurn
<1> QED BY ONLY <1>1, <1>2, <1>3, <1>4

(* What was told last, once each of W was told of n bytes.                 *)
After(T, W, n) == {p \in T : p[1] \notin W} \cup {<<x, n>> : x \in W}

LEMMA TaleOfTellings ==
  ASSUME NEW S \in Seq(Events), NEW n \in Nat, NEW D, NEW T, Tale(S, n, D, T),
         NEW w \in Seq(Tellings),
         \A i \in 1..Len(w) : w[i].candidate_id \in D /\ w[i].bytes_seen = n
  PROVE  Tale(Then(S, w), n, D, After(T, {w[i].candidate_id : i \in 1..Len(w)}, n))
<1> DEFINE ids(k) == {w[i].candidate_id : i \in 1..k}
           Good(k) == Tale(Then(S, SubSeq(w, 1, k)), n, D, After(T, ids(k), n))
           G == {k \in Nat : k <= Len(w) => Good(k)}
<1>1. 0 \in G
  <2>1. SubSeq(w, 1, 0) = <<>> /\ ids(0) = {}
    OBVIOUS
  <2>2. After(T, {}, n) = T
    BY DEF After
  <2>3. Then(S, <<>>) = S
    BY NothingToTell
  <2> QED BY <2>1, <2>2, <2>3
<1>2. ASSUME NEW k \in G PROVE k + 1 \in G
  <2> SUFFICES ASSUME k + 1 <= Len(w) PROVE Good(k + 1)
    BY DEF G
  <2>1. k \in Nat /\ k <= Len(w) /\ k + 1 \in 1..Len(w) /\ Good(k)
    OBVIOUS
  <2>2. PICK v \in Seq(Tellings), e \in Tellings : v = SubSeq(w, 1, k) /\ e = w[k + 1]
    <3>1. w[k + 1] \in Tellings /\ \A i \in 1..k : w[i] \in Tellings
      BY <2>1
    <3>2. SubSeq(w, 1, k) \in Seq(Tellings)
      BY <2>1, <3>1, SubSeqProperties
    <3> QED BY <3>1, <3>2
  <2>3. SubSeq(w, 1, k + 1) = Append(v, e)
    BY <2>1, <2>2
  <2>4. v \in Seq(Events) /\ e \in Events
    BY DEF Events, Planned
  <2>5. PICK R \in Seq(Events) : R = Then(S, v) /\ Then(S, Append(v, e)) = Append(R, e)
    BY <2>4, ThenAppend
  <2>6. PICK id, W : id = e.candidate_id /\ W = ids(k) /\ id \in D /\ e.bytes_seen = n
    BY <2>1, <2>2
  <2>7. Tale(R, n, D, After(T, W, n))
    BY <2>1, <2>2, <2>5, <2>6
  <2>8. Tale(Append(R, e), n, D, {p \in After(T, W, n) : p[1] # id} \cup {<<id, n>>})
    <3>1. PICK V : V = After(T, W, n)
      OBVIOUS
    <3>2. Tale(Append(R, e), n, D,
               {p \in V : p[1] # e.candidate_id} \cup {<<e.candidate_id, e.bytes_seen>>})
      BY <2>6, <2>7, <3>1, TaleOfTelling
    <3> QED BY ONLY <2>6, <3>1, <3>2
  <2>9. {p \in After(T, W, n) : p[1] # id} \cup {<<id, n>>} = After(T, W \cup {id}, n)
    BY DEF After
  <2>10. ids(k + 1) = W \cup {id}
    <3>1. 1..(k + 1) = 1..k \cup {k + 1}
      BY <2>1
    <3> QED BY <2>2, <2>6, <3>1
  <2> HIDE DEF ids
  <2> QED BY <2>3, <2>5, <2>8, <2>9, <2>10
<1>3. G = Nat
  <2> HIDE DEF G
  <2>1. G \in SUBSET Nat
    BY DEF G
  <2> QED BY <1>1, <1>2, <2>1, SetInduction
<1>4. Len(w) \in Nat /\ SubSeq(w, 1, Len(w)) = w
  OBVIOUS
<1>5. Good(Len(w))
  <2> HIDE DEF Good
  <2> QED BY <1>3, <1>4
<1> QED BY <1>4, <1>5

LEMMA UpdateLife ==
  ASSUME TypeOK, CallOK, LifeInv, Update
  PROVE  LifeInv'
<1>1. /\ phase = "update" /\ plan = <<>> /\ plan' = Updates(Stale) /\ phase' = "emit"
      /\ events' = events /\ candidates' = candidates /\ buffer' = buffer
      /\ termination' = termination /\ closed' = closed
  BY DEF Update, parser
<1>2. termination = "none" /\ ~ closed
  BY <1>1 DEF CallOK
<1>3. PICK S \in Seq(Events), n \in Nat : S = events /\ n = Len(buffer)
  BY DEF TypeOK
<1>4. PICK c, D, T : c = candidates /\ D = DOMAIN c /\ T = Known(c, {}, n) /\ D \subseteq Nat
  BY DEF TypeOK, CandidatesOK
<1>5. Tale(S, n, D, T) /\ Uncompleted(S)
  BY <1>1, <1>2, <1>3, <1>4, NothingToTell DEF LifeInv, PushTale
<1>6. PICK w \in Seq(Tellings) :
        w = Updates(Stale) /\ \A i \in 1..Len(w) : w[i].candidate_id \in D /\ w[i].bytes_seen = n
  <2>1. PICK w \in Seq(Planned) :
          w = Updates(Stale) /\ \A i \in 1..Len(w) : \E id \in Stale : w[i] = Updated(id)
    BY UpdatesType DEF Stale
  <2>2. \A id \in Stale : /\ id \in D /\ Updated(id) \in Tellings
                          /\ Updated(id).candidate_id = id /\ Updated(id).bytes_seen = n
    BY <1>3, <1>4, EventTypes DEF Stale, Updated
  <2>3. \A i \in 1..Len(w) : w[i] \in Tellings /\ w[i].candidate_id \in D /\ w[i].bytes_seen = n
    BY <2>1, <2>2
  <2>4. w \in Seq(Tellings)
    BY <2>1, <2>3
  <2> QED BY <2>1, <2>3, <2>4
<1>7. PICK W : W = {w[i].candidate_id : i \in 1..Len(w)}
  OBVIOUS
<1>8. Range(w) = {w[i] : i \in 1..Len(w)} /\ Range(w) \subseteq Tellings
  <2>1. Range(w) = {w[i] : i \in 1..Len(w)}
    BY RangeEquality
  <2> QED BY <2>1
<1>9. Telling(w) = Range(w) /\ Subjects(w) = W /\ W \subseteq D
  BY <1>6, <1>7, <1>8 DEF Telling, Subjects
<1>10. Tale(Then(S, w), n, D, After(T, W, n))
  BY <1>5, <1>6, <1>7, TaleOfTellings
<1>11. After(T, W, n) = Known(c, W, n)
  <2>1. T = {<<id, c[id]>> : id \in D}
    BY <1>4, KnownIsTold
  <2>2. {p \in T : p[1] \notin W} = {<<id, c[id]>> : id \in D \ W}
    BY <2>1
  <2>3. Known(c, W, n) = {<<id, c[id]>> : id \in D \ W} \cup {<<id, n>> : id \in W}
    <3>1. D \cup W = (D \ W) \cup W
      OBVIOUS
    <3> QED BY <1>4, <3>1 DEF Known
  <2> QED BY <2>2, <2>3 DEF After
<1>12. D \cup W = D
  BY <1>9
<1>13. Uncompleted(Then(S, w))
  <2>1. Range(w) \cap Completions = {}
    BY <1>8 DEF Tellings, Completions
  <2>2. w \in Seq(Events)
    BY DEF Events, Planned
  <2> QED BY <1>5, <2>1, <2>2, UncompletedByRange, UncompletedOfThen
<1>14. PushTale(S, w, c, n)
  <2>1. \A e \in Telling(w) : e.bytes_seen = n
    BY <1>6, <1>8, <1>9
  <2> QED BY ONLY <1>4, <1>9, <1>10, <1>11, <1>12, <1>13, <2>1 DEF PushTale
<1> QED BY <1>1, <1>2, <1>3, <1>4, <1>6, <1>14 DEF LifeInv

(* The candidates open after the lives of the first i of what was found.   *)
Remaining(found, i) == DOMAIN candidates \ {found[j] : j \in 1..i}

LivedTale(S, found, i, s) ==
  Tale(Then(S, s), Len(buffer), Remaining(found, i),
       {p \in Known(candidates, {}, Len(buffer)) : p[1] \in Remaining(found, i)})

LEMMA OneMoreLife ==
  ASSUME TypeOK, NEW found \in Seq(Nat), NEW i \in 1..Len(found), NEW S \in Seq(Events),
         NEW s \in Seq(Planned), LivedTale(S, found, i - 1, s)
  PROVE  LivedTale(S, found, i, s \o Life(found, i))
<1>1. PICK id \in Nat, n \in Nat, l \in Seq(Planned) :
        id = found[i] /\ n = Len(buffer) /\ l = Life(found, i)
  <2>1. Life(found, i) \in Seq(Planned) /\ Len(buffer) \in Nat
    BY LifeType DEF TypeOK
  <2> QED BY <2>1
<1>2. PICK D, E, K, T :
        /\ D = Remaining(found, i - 1) /\ E = Remaining(found, i)
        /\ K = Known(candidates, {}, n) /\ T = {p \in K : p[1] \in D}
  OBVIOUS
<1>3. E = D \ {id}
  <2>1. 1..i = 1..(i - 1) \cup {i}
    OBVIOUS
  <2>2. {found[j] : j \in 1..i} = {found[j] : j \in 1..(i - 1)} \cup {id}
    BY <1>1, <2>1
  <2> QED BY <1>2, <2>2 DEF Remaining
<1>4. PICK R \in Seq(Events) : R = Then(S, s)
  <2>1. s \in Seq(Events)
    BY DEF Events
  <2> QED BY <2>1, PiecesInTurn
<1>5. Tale(R, n, D, T)
  BY <1>1, <1>2, <1>4 DEF LivedTale
<1>6. id \notin D <=> (id \notin DOMAIN candidates \/ \E j \in 1..(i - 1) : found[j] = id)
  BY <1>2 DEF Remaining
<1>7. id \in D => <<id, candidates[id]>> \in T
  <2> SUFFICES ASSUME id \in D PROVE <<id, candidates[id]>> \in T
    OBVIOUS
  <2>1. id \in DOMAIN candidates
    BY <1>6
  <2>2. <<id, candidates[id]>> \in K
    BY <1>2, <2>1, KnownIsTold
  <2> QED BY <1>2, <2>2
<1>8. Tale(Then(R, l), n, D \ {id}, {p \in T : p[1] # id})
  <2>1. Tale(R, Len(buffer), D, T)
    BY <1>1, <1>5
  <2>2. found[i] \notin D <=>
          (found[i] \notin DOMAIN candidates \/ \E j \in 1..(i - 1) : found[j] = found[i])
    BY <1>1, <1>6
  <2>3. found[i] \in D => <<found[i], candidates[found[i]]>> \in T
    BY <1>1, <1>7
  <2>4. Tale(Then(R, Life(found, i)), Len(buffer), D \ {found[i]}, {p \in T : p[1] # found[i]})
    BY <2>1, <2>2, <2>3, TaleOfLife
  <2> QED BY ONLY <1>1, <2>4
<1>9. {p \in T : p[1] # id} = {p \in K : p[1] \in E}
  BY <1>2, <1>3
<1>10. Then(R, l) = Then(S, s \o l)
  <2>1. s \in Seq(Events) /\ l \in Seq(Events)
    BY DEF Events
  <2>2. Then(S, Then(s, l)) = Then(Then(S, s), l)
    BY <2>1, PiecesInTurn
  <2> QED BY ONLY <1>4, <2>2 DEF Then
<1> QED BY <1>1, <1>2, <1>3, <1>8, <1>9, <1>10 DEF LivedTale

LEMMA LivesTale ==
  ASSUME TypeOK, NEW found \in Seq(Nat), NEW S \in Seq(Events),
         Tale(S, Len(buffer), DOMAIN candidates, Known(candidates, {}, Len(buffer)))
  PROVE  /\ Lives(found) \in Seq(Planned)
         /\ Tale(Then(S, Lives(found)), Len(buffer), DOMAIN candidates \ ToSet(found), {})
<1> DEFINE blocks == [i \in 1..Len(found) |-> Life(found, i)]
           P == [i \in 0..Len(found) |-> {s \in Seq(Planned) : LivedTale(S, found, i, s)}]
<1>1. Len(found) \in Nat /\ blocks \in Seq(Seq(Planned)) /\ Len(blocks) = Len(found)
  <2>1. \A i \in 1..Len(found) : Life(found, i) \in Seq(Planned)
    BY LifeType
  <2> QED BY <2>1
<1>2. <<>> \in P[0]
  <2>1. Remaining(found, 0) = DOMAIN candidates
    <3>1. 1..0 = {}
      OBVIOUS
    <3> QED BY <3>1 DEF Remaining
  <2>2. PICK K : K = Known(candidates, {}, Len(buffer))
    OBVIOUS
  <2>3. {p \in K : p[1] \in DOMAIN candidates} = K
    BY <2>2 DEF Tale
  <2>4. Then(S, <<>>) = S
    BY NothingToTell
  <2>5. LivedTale(S, found, 0, <<>>)
    BY <2>1, <2>2, <2>3, <2>4 DEF LivedTale
  <2>6. <<>> \in Seq(Planned) /\ 0 \in 0..Len(found)
    BY <1>1
  <2> QED BY <2>5, <2>6
<1>3. ASSUME NEW i \in 1..Len(found), NEW s \in Seq(Planned), s \in P[i - 1]
      PROVE  s \o blocks[i] \in P[i]
  <2>1. i - 1 \in 0..Len(found) /\ i \in 0..Len(found)
    BY <1>1
  <2>2. LivedTale(S, found, i - 1, s)
    BY <1>3, <2>1
  <2>3. LivedTale(S, found, i, s \o Life(found, i))
    BY <2>2, OneMoreLife
  <2>4. s \o Life(found, i) \in Seq(Planned)
    BY LifeType, ConcatProperties
  <2>5. blocks[i] = Life(found, i)
    OBVIOUS
  <2> HIDE DEF blocks
  <2> QED BY <2>1, <2>3, <2>4, <2>5
<1>4. FlattenSeq(blocks) \in P[Len(found)]
  <2>1. <<>> \in P[0] /\ \A i \in 1..Len(blocks), s \in Seq(Planned) :
                             s \in P[i - 1] => s \o blocks[i] \in P[i]
    BY <1>1, <1>2, <1>3
  <2> HIDE DEF P, blocks
  <2>2. FlattenSeq(blocks) \in P[Len(blocks)]
    BY <1>1, <2>1, FlattenInduction
  <2> QED BY <1>1, <2>2
<1>5. FlattenSeq(blocks) = Lives(found)
  BY DEF Lives
<1>6. Lives(found) \in Seq(Planned) /\ LivedTale(S, found, Len(found), Lives(found))
  <2> HIDE DEF blocks
  <2> QED BY <1>1, <1>4, <1>5
<1>7. Remaining(found, Len(found)) = DOMAIN candidates \ ToSet(found)
  BY DEF Remaining, ToSet
<1> QED BY <1>6, <1>7, TaleIsMonotone DEF LivedTale

LEMMA ParsedLife ==
  ASSUME TypeOK, TypeOK', CallOK, LifeInv,
         NEW found \in Final, NEW verdict \in Verdicts(found), FinishParsed(found, verdict)
  PROVE  LifeInv'
<1> DEFINE left == DOMAIN candidates \ ToSet(found)
           change == IF left = {} THEN <<StateChanged(verdict)>> ELSE <<>>
<1>1. /\ candidates' = Restrict(candidates, left) /\ plan' = Lives(found) \o change
      /\ phase' = "finish" /\ termination = "none" /\ phase = "idle"
      /\ events' = events /\ buffer' = buffer /\ termination' = termination /\ closed' = closed
  BY DEF FinishParsed, Idle
<1>2. plan = <<>> /\ ~ closed
  BY <1>1 DEF CallOK
<1>3. verdict \in StateNames
  BY DEF Verdicts, StateNames
<1>4. PICK S \in Seq(Events), n \in Nat, x \in Changes :
        S = events /\ n = Len(buffer) /\ x = StateChanged(verdict)
  <2>1. events \in Seq(Events) /\ Len(buffer) \in Nat
    BY DEF TypeOK
  <2> QED BY <1>3, <2>1, EventTypes
<1>5. PICK K : K = Known(candidates, {}, n)
  OBVIOUS
<1>6. Tale(S, n, DOMAIN candidates, K)
  BY <1>1, <1>2, <1>4, <1>5, NothingToTell DEF LifeInv, PushTale
<1>7. DOMAIN candidates' = left
  BY <1>1 DEF Restrict
<1>8. PICK l \in Seq(Events) : l = Lives(found) /\ Tale(Then(S, l), n, left, {})
  <2>1. found \in Seq(Nat)
    BY ChargeTypes
  <2>2. Lives(found) \in Seq(Planned) /\ Tale(Then(S, Lives(found)), n, left, {})
    BY <1>4, <1>5, <1>6, <2>1, LivesTale
  <2>3. Lives(found) \in Seq(Events)
    BY <2>2 DEF Events
  <2> QED BY <2>2, <2>3
<1>9. PICK z \in Seq(Events) : z = change
  <2>1. <<x>> \in Seq(Events) /\ <<>> \in Seq(Events)
    BY ChangesStay, NothingToTell
  <2> QED BY <1>4, <2>1
<1>10. PICK L : L = left
  OBVIOUS
<1>11. z = <<x>> \/ z = <<>>
  BY <1>4, <1>9
<1> HIDE DEF left, change
<1>12. PICK R \in Seq(Events) : R = Then(S, l) /\ Then(S, Then(l, z)) = Then(R, z)
  BY PiecesInTurn
<1>13. Tale(Then(R, z), n, L, {})
  <2>1. Tale(R, n, L, {})
    BY <1>8, <1>10, <1>12
  <2>2. CASE z = <<x>>
    <3>1. Tale(Append(R, x), n, L, {}) /\ Then(R, <<x>>) = Append(R, x)
      BY <2>1, ChangesStay
    <3> QED BY ONLY <2>2, <3>1
  <2>3. CASE z = <<>>
    BY <2>1, <2>3, NothingToTell
  <2> QED BY <1>11, <2>2, <2>3
<1>14. plan' = Then(l, z)
  BY <1>1, <1>8, <1>9 DEF Then
<1>15. Tale(Then(events', plan'), Len(buffer)', DOMAIN candidates', {})
  BY <1>1, <1>4, <1>7, <1>10, <1>12, <1>13, <1>14
<1> QED BY <1>1, <1>2, <1>15 DEF LifeInv

LEMMA SucceedsLife ==
  ASSUME TypeOK, CallOK, LifeInv, FinishSucceeds
  PROVE  LifeInv'
<1>1. /\ phase = "finish" /\ plan = <<>> /\ candidates = <<>> /\ phase' = "ending"
      /\ events' = Append(events, Terminal(report.status))
      /\ buffer' = buffer /\ termination' = termination
  BY DEF FinishSucceeds
<1>2. termination = "none"
  BY <1>1 DEF CallOK
<1>3. PICK S \in Seq(Events), n \in Nat, t \in Terminals :
        S = events /\ n = Len(buffer) /\ t = Terminal(report.status)
  <2>1. events \in Seq(Events) /\ Len(buffer) \in Nat /\ report.status \in Statuses
    BY <1>1 DEF TypeOK, CallOK, Statuses
  <2> QED BY <2>1, EventTypes
<1>4. Tale(S, n, {}, {})
  <2>1. DOMAIN candidates = {}
    BY <1>1
  <2> QED BY <1>1, <1>3, <2>1, NothingToTell DEF LifeInv
<1>5. t \in Events /\ t \notin Starts \cup Tellings \cup Completions
  BY DEF Events, Terminals, Starts, Tellings, Completions
<1>6. Tale(Append(S, t), n, {}, {})
  BY <1>4, <1>5, TaleOfOther
<1> QED BY <1>1, <1>2, <1>3, <1>6 DEF LifeInv

(* As long as a call has something to do, what was told so far is lawful.  *)
LEMMA ToldIsLawful ==
  ASSUME TypeOK, CallOK, LifeInv
  PROVE  Lawful(events, Len(buffer))
<1>1. PICK S \in Seq(Events), w \in Seq(Events), n \in Nat :
        S = events /\ w = plan /\ n = Len(buffer)
  <2>1. events \in Seq(Events) /\ plan \in Seq(Planned) /\ Len(buffer) \in Nat
    BY DEF TypeOK
  <2>2. plan \in Seq(Events)
    BY <2>1 DEF Events
  <2> QED BY <2>1, <2>2
<1>2. Lawful(Then(S, w), n) => Lawful(S, n)
  BY LawfulPrefix DEF Then
<1>3. CASE termination # "none"
  BY <1>3 DEF LifeInv
<1>4. CASE termination = "none" /\ phase \in {"idle", "scan", "update", "emit"}
  BY <1>1, <1>2, <1>4 DEF LifeInv, PushTale, Tale
<1>5. CASE phase = "finish"
  BY <1>1, <1>2, <1>5 DEF LifeInv, Tale
<1>6. CASE termination = "none" /\ phase \in {"ending", "done"}
  BY <1>6 DEF LifeInv, CallOK, Tale
<1> QED BY <1>3, <1>4, <1>5, <1>6 DEF TypeOK

LEMMA LawfulOfNeutral ==
  ASSUME NEW S \in Seq(Events), NEW w \in Seq(Events), NEW n, Lawful(S, n),
         \A i \in 1..Len(w) : w[i] \notin Starts \cup Tellings \cup Completions
  PROVE  Lawful(S \o w, n)
<1>1. PICK R \in Seq(Events) :
        /\ R = S \o w /\ Len(R) = Len(S) + Len(w)
        /\ \A i \in 1..(Len(S) + Len(w)) : R[i] = IF i <= Len(S) THEN S[i] ELSE w[i - Len(S)]
  BY ConcatIs
<1>2. PICK k \in Nat, l \in Nat : k = Len(S) /\ l = Len(w)
  OBVIOUS
<1>3. ASSUME NEW i \in 1..(k + l) PROVE Allowed(SubSeq(R, 1, i - 1), R[i], n)
  <2>1. CASE i <= k
    <3>1. i \in 1..k
      BY <2>1
    <3>2. R[i] = S[i]
      BY <1>1, <1>2, <2>1
    <3>3. SubSeq(R, 1, i - 1) = SubSeq(S, 1, i - 1)
      <4>1. i - 1 \in 0..k /\ i - 1 <= Len(R) /\ i - 1 <= Len(S)
        BY <1>1, <1>2, <2>1
      <4>2. \A j \in 1..(i - 1) : R[j] = S[j]
        BY <1>1, <1>2, <2>1
      <4> QED BY <4>1, <4>2
    <3> QED BY <1>2, <3>1, <3>2, <3>3 DEF Lawful
  <2>2. CASE ~ (i <= k)
    <3>1. i - k \in 1..l
      BY <2>2
    <3>2. R[i] = w[i - k]
      BY <1>1, <1>2, <2>2
    <3>3. R[i] \notin Starts \cup Tellings \cup Completions
      BY <1>2, <3>1, <3>2
    <3> QED BY <3>3 DEF Allowed
  <2> QED BY <2>1, <2>2
<1> QED BY <1>1, <1>2, <1>3 DEF Lawful

LEMMA StopLife ==
  ASSUME TypeOK, CallOK, LifeInv, Stops
  PROVE  LifeInv'
<1>1. PICK s \in Seq(Events) :
        /\ Len(s) = 3 /\ events' = events \o s
        /\ s[1] = Diagnostic /\ s[2].event = "parser_state_changed" /\ s[3].event = "terminal"
  BY StopEvents
<1>2. /\ termination' # "none" /\ phase' \in {"idle", "ending"} /\ buffer' = buffer
  BY DEF Stops, Stop, Reasons
<1>3. \A i \in 1..Len(s) : s[i] \notin Starts \cup Tellings \cup Completions
  <2>1. \A i \in 1..Len(s) : i = 1 \/ i = 2 \/ i = 3
    BY <1>1
  <2>2. /\ s[1] \notin Starts \cup Tellings \cup Completions
        /\ s[2] \notin Starts \cup Tellings \cup Completions
        /\ s[3] \notin Starts \cup Tellings \cup Completions
    BY <1>1 DEF Diagnostic, Starts, Tellings, Completions
  <2> QED BY <2>1, <2>2
<1>4. PICK S \in Seq(Events), n \in Nat : S = events /\ n = Len(buffer)
  BY DEF TypeOK
<1>5. Lawful(S \o s, n)
  BY <1>3, <1>4, ToldIsLawful, LawfulOfNeutral
<1> QED BY <1>1, <1>2, <1>4, <1>5 DEF LifeInv

LEMMA LifeKept ==
  ASSUME TypeOK, TypeOK', CallOK, LifeInv, [Next]_vars
  PROVE  LifeInv'
<1>1. CASE UNCHANGED vars \/ Cancel \/ Deadline
  <2>1. UNCHANGED <<parser, call, events>>
    BY <1>1 DEF vars, Cancel, Deadline
  <2> QED BY <2>1, QuietLife
<1>2. CASE PushReturns
  <2>1. /\ events' = events /\ plan' = plan /\ candidates' = candidates /\ buffer' = buffer
        /\ termination' = termination /\ closed' = closed /\ phase = "emit" /\ phase' = "idle"
    BY <1>2 DEF PushReturns, parser
  <2> QED BY <2>1 DEF LifeInv
<1>3. CASE FinishTerminated
  <2>1. /\ termination # "none" /\ phase' = "ending" /\ events' = events
        /\ termination' = termination /\ buffer' = buffer
    BY <1>3 DEF FinishTerminated, CallOK, TerminationEvents, TypeOK
  <2> QED BY <2>1 DEF LifeInv
<1>4. CASE Return
  <2>1. /\ phase = "ending" /\ phase' = "done" /\ events' = events /\ buffer' = buffer
        /\ termination' = termination /\ closed' = closed
    BY <1>4 DEF Return, parser
  <2> QED BY <2>1 DEF LifeInv
<1> QED BY <1>1, <1>2, <1>3, <1>4, StepCases, StopLife, AcceptedLife, EmitLife, ScanLife,
           UpdateLife, ParsedLife, SucceedsLife

LEMMA InitLife == Init => LifeInv
<1> SUFFICES ASSUME Init PROVE LifeInv
  OBVIOUS
<1>1. /\ events = <<>> /\ plan = <<>> /\ candidates = <<>> /\ termination = "none" /\ ~ closed
      /\ phase = "idle"
  BY DEF Init
<1>2. DOMAIN candidates = {}
  BY <1>1
<1>3. Known(candidates, {}, Len(buffer)) = {}
  BY <1>2, KnownIsTold
<1>4. \A kind, id : Count(<<>>, kind, id) = 0
  BY FS_EmptySet DEF Count, Places
<1>5. Tale(<<>>, Len(buffer), {}, {})
  BY <1>4 DEF Tale, Lawful, Shut
<1>6. Uncompleted(<<>>)
  BY DEF Uncompleted
<1>7. PushTale(<<>>, <<>>, candidates, Len(buffer))
  BY <1>2, <1>3, <1>5, <1>6, NothingToTell DEF PushTale
<1> QED BY <1>1, <1>7 DEF LifeInv

LEMMA PrefixIs ==
  ASSUME NEW S \in Seq(Events), NEW m \in 0..Len(S)
  PROVE  \E R \in Seq(Events) : R = SubSeq(S, 1, m) /\ Len(R) = m /\ \A j \in 1..m : R[j] = S[j]
<1>1. m \in Nat /\ m - 1 + 1 = m /\ \A j \in 1..m : S[j] \in Events /\ 1 + j - 1 = j
  OBVIOUS
<1>2. SubSeq(S, 1, m) \in Seq(Events) /\ Len(SubSeq(S, 1, m)) = m
  BY <1>1, SubSeqProperties
<1>3. \A j \in 1..m : SubSeq(S, 1, m)[j] = S[j]
  BY <1>1
<1> QED BY <1>2, <1>3

(* What CandidateLife says of a place is what Allowed says of the events   *)
(* before it.                                                              *)
LEMMA BeforeIsPrefix ==
  ASSUME TypeOK, NEW i \in 1..(Len(events) + 1), NEW kind, NEW id
  PROVE  /\ {j \in At(kind, id) : j < i} = Places(SubSeq(events, 1, i - 1), kind, id)
         /\ Before(At(kind, id), i) = Count(SubSeq(events, 1, i - 1), kind, id)
         /\ Count(SubSeq(events, 1, i - 1), kind, id) \in Nat
<1>1. PICK S \in Seq(Events), k \in Nat : S = events /\ k = Len(S)
  BY DEF TypeOK
<1>2. PICK R \in Seq(Events) : /\ R = SubSeq(S, 1, i - 1) /\ Len(R) = i - 1
                               /\ \A j \in 1..(i - 1) : R[j] = S[j]
  <2>1. i - 1 \in 0..Len(S)
    BY <1>1
  <2> QED BY <2>1, PrefixIs
<1>3. \A j : j \in 1..k /\ j < i <=> j \in 1..(i - 1)
  BY <1>1
<1>4. {j \in At(kind, id) : j < i} = Places(R, kind, id)
  BY <1>1, <1>2, <1>3 DEF At, Places
<1>5. Count(R, kind, id) \in Nat
  <2>1. Places(R, kind, id) \subseteq 1..(i - 1)
    BY <1>2 DEF Places
  <2>2. IsFiniteSet(1..(i - 1))
    BY FS_Interval
  <2> QED BY <2>1, <2>2, FS_Subset, FS_CardinalityType DEF Count
<1> QED BY <1>1, <1>2, <1>4, <1>5 DEF Before, Count

LEMMA LifeIsLawful ==
  ASSUME TypeOK, CallOK, LifeInv
  PROVE  CandidateLife
<1>1. PICK S \in Seq(Events), n \in Nat, k \in Nat :
        S = events /\ n = Len(buffer) /\ k = Len(S) /\ Lawful(S, n)
  <2>1. events \in Seq(Events) /\ Len(buffer) \in Nat /\ Len(events) \in Nat
    BY DEF TypeOK
  <2> QED BY <2>1, ToldIsLawful
<1> SUFFICES ASSUME NEW id \in Identities
             PROVE  /\ \A i \in At("candidate_started", id) : ~ OpenAt(id, i)
                    /\ \A i \in At("candidate_updated", id) : OpenAt(id, i)
                    /\ \A i \in At("candidate_completed", id) :
                         LET begun == {j \in At("candidate_started", id) : j < i}
                             told == {j \in At("candidate_updated", id) : j < i}
                         IN  /\ OpenAt(id, i) /\ told # {} /\ Max(told) > Max(begun)
                             /\ events[Max(told)].bytes_seen = Len(buffer)
                    /\ closed /\ termination = "none" => ~ OpenAt(id, Len(events) + 1)
  BY DEF CandidateLife
<1>2. id \in Nat
  <2>1. PICK s \in Stable \cup Final : id \in ToSet(s)
    BY DEF Identities
  <2> QED BY <2>1, ModelOutputStreamAssumption DEF ToSet
<1>3. ASSUME NEW i \in 1..(k + 1)
      PROVE  /\ Open(SubSeq(S, 1, i - 1), id) <=> OpenAt(id, i)
             /\ Shut(SubSeq(S, 1, i - 1), id) => ~ OpenAt(id, i)
  BY <1>1, BeforeIsPrefix DEF Open, Shut, OpenAt
<1>4. ASSUME NEW kind, NEW i \in At(kind, id)
      PROVE  /\ i \in 1..k /\ i \in 1..(k + 1) /\ S[i] \in Events
             /\ S[i].event = kind /\ S[i].candidate_id = id
             /\ Allowed(SubSeq(S, 1, i - 1), S[i], n)
  BY <1>1 DEF At, Lawful
<1>5. \A e \in Events : /\ e.event = "candidate_started" => e \in Starts
                        /\ e.event = "candidate_updated" => e \in Tellings
                        /\ e.event = "candidate_completed" => e \in Completions
  BY DEF Events, Planned, Starts, Tellings, Completions, Changes, Terminals, Diagnostic
<1>6. ASSUME NEW i \in At("candidate_started", id) PROVE ~ OpenAt(id, i)
  BY <1>3, <1>4, <1>5 DEF Allowed
<1>7. ASSUME NEW i \in At("candidate_updated", id) PROVE OpenAt(id, i)
  BY <1>3, <1>4, <1>5 DEF Allowed
<1>8. ASSUME NEW i \in At("candidate_completed", id), NEW begun, NEW told,
             begun = {j \in At("candidate_started", id) : j < i},
             told = {j \in At("candidate_updated", id) : j < i}
      PROVE  /\ OpenAt(id, i) /\ told # {} /\ Max(told) > Max(begun)
             /\ events[Max(told)].bytes_seen = Len(buffer)
  <2>1. /\ i \in 1..k /\ i \in 1..(k + 1) /\ S[i] \in Completions /\ S[i].candidate_id = id
        /\ Allowed(SubSeq(S, 1, i - 1), S[i], n)
    BY <1>4, <1>5
  <2>2. PICK R \in Seq(Events) : /\ R = SubSeq(S, 1, i - 1) /\ Len(R) = i - 1
                                 /\ \A j \in 1..(i - 1) : R[j] = S[j]
    <3>1. i - 1 \in 0..Len(S)
      BY <1>1, <2>1
    <3> QED BY <3>1, PrefixIs
  <2>3. Open(R, id) /\ Told(R, id, n)
    BY <2>1, <2>2 DEF Allowed
  <2>4. OpenAt(id, i)
    BY <1>3, <2>1, <2>2, <2>3
  <2>5. /\ begun = Places(R, "candidate_started", id) /\ told = Places(R, "candidate_updated", id)
        /\ Count(R, "candidate_completed", id) \in Nat
    BY <1>1, <1>8, <2>1, <2>2, BeforeIsPrefix
  <2>6. begun \in SUBSET (0..k) /\ told \in SUBSET (0..k)
    BY <1>1, <1>8 DEF At
  <2>7. PICK t \in told : /\ R[t].bytes_seen = n /\ \A u \in told : u <= t
                          /\ \A s \in begun : s < t
    BY <2>3, <2>5 DEF Told
  <2>8. Max(told) \in told /\ \A u \in told : u <= Max(told)
    BY <2>6, <2>7, MaxOfBounded
  <2>9. t \in 0..k /\ Max(told) \in 0..k
    BY <2>6, <2>8
  <2>10. Max(told) = t
    <3>1. t <= Max(told) /\ Max(told) <= t
      BY <2>7, <2>8
    <3> QED BY <2>9, <3>1
  <2>11. begun # {}
    <3>1. Cardinality(begun) = Count(R, "candidate_completed", id) + 1
      BY <2>3, <2>5 DEF Open, Count
    <3>2. Cardinality({}) = 0 /\ Count(R, "candidate_completed", id) + 1 # 0
      BY <2>5, FS_EmptySet
    <3> QED BY ONLY <3>1, <3>2
  <2>12. Max(begun) \in begun
    BY <2>6, <2>11, MaxOfBounded
  <2>13. Max(begun) < t /\ Max(begun) \in 0..k
    BY <2>6, <2>7, <2>12
  <2>14. events[t].bytes_seen = n
    <3>1. t \in 1..(i - 1)
      BY <1>1, <1>8, <2>1, <2>7 DEF At
    <3> QED BY <1>1, <2>2, <2>7, <3>1
  <2> QED BY <1>1, <2>4, <2>7, <2>9, <2>10, <2>13, <2>14
<1>9. ASSUME closed, termination = "none" PROVE ~ OpenAt(id, Len(events) + 1)
  <2>1. Shut(S, id)
    BY <1>1, <1>2, <1>9 DEF LifeInv, Tale
  <2>2. SubSeq(S, 1, (k + 1) - 1) = S /\ k + 1 \in 1..(k + 1)
    BY <1>1
  <2> QED BY <1>1, <1>3, <2>1, <2>2
<1> QED BY <1>6, <1>7, <1>8, <1>9

(* However scans and the final parse disagree about what a text holds, and *)
(* wherever a stop falls, a candidate is started when it is not open, told *)
(* of and completed only while it is open, and completed when the last the *)
(* consumer was told of it since its start is the length of the whole      *)
(* text; a stream that was not stopped leaves no candidate open.           *)
THEOREM CandidateLifeHolds == Spec => []CandidateLife
<1>1. Init => TypeOK /\ CallOK /\ LifeInv
  BY InitTypes, InitLife
<1>2. TypeOK /\ CallOK /\ LifeInv /\ [Next]_vars => (TypeOK /\ CallOK /\ LifeInv)'
  BY TypesKept, LifeKept
<1>3. TypeOK /\ CallOK /\ LifeInv => CandidateLife
  BY LifeIsLawful
<1> QED BY <1>1, <1>2, <1>3, PTL DEF Spec
=============================================================================
