---------------------- MODULE ContainerTraversalProofs ----------------------
(***************************************************************************)
(* Proofs about ContainerTraversal, for any decoders, any limits and trees *)
(* of any depth: what is admitted stays within the limits of the root, the *)
(* audit tree is true, and a complete traversal has lost nothing.          *)
(*                                                                         *)
(* The trees of a result are of unbounded depth and no invariant descends  *)
(* into them.  It is enough that there is a set N of nodes, and a relation *)
(* R between the audits and the children among them, such that whatever is *)
(* related is good by itself and the children of related nodes are related *)
(* in their order: closing a member adds one pair to R, and what R relates *)
(* has the same shape at every level.  In the same way a function S gives  *)
(* each node the size of its tree, and what decoders returned is counted   *)
(* by the frames and by the trees of their children.                       *)
(*                                                                         *)
(* And proofs about GraphProjection, for any fragments: the edges and the  *)
(* nodes of a graph match the cells of the fragments it was given, one to  *)
(* one, whatever was refused or finalized on the way; what a finalization  *)
(* answers depends on the cells alone; and nodes and edges sorted by keys  *)
(* that differ have one order.                                             *)
(***************************************************************************)
EXTENDS ContainerTraversal, GraphProjection, SequenceTheorems, FiniteSetTheorems,
        WellFoundedInduction, TLAPS

Usages == [Axes -> Nat]

Entries == [member : Members, rejected : BOOLEAN]

Frames(N) ==
  [depth : Nat, class : Classes \cup {None}, todo : Seq(Entries),
   children : Seq(N), allocations : Seq(N), before : Usages]

(* What AxisIsExhausted says, of the usage so far.                         *)
Exhausted(axis, u, l) ==
  \/ axis = None
  \/ axis = "parse_millis" /\ l
  \/ axis = "archive_members" /\ Declared # {}
  \/ axis \in DOMAIN Limit /\ ~ Within(u, axis)

Sound(node, u, l) ==
  /\ node.before \in Usages /\ node.after \in Usages
  /\ SpansSubtree(node) /\ Exhausted(node.hit, u, l)

Twins(N, R, audits, children) ==
  /\ audits \in Seq(N) /\ children \in Seq(N) /\ Len(audits) = Len(children)
  /\ \A i \in 1..Len(audits) : <<audits[i], children[i]>> \in R

Faithful(N, R, u, l) ==
  /\ R \in SUBSET (N \X N)
  /\ \A a \in N, c \in N : <<a, c>> \in R =>
       /\ Twins(N, R, a.children, c.children)
       /\ Sound(a, u, l) /\ Exhausted(c.axis, u, l)

(* Siblings follow one another, from the usage base and up to u.           *)
Chained(base, audits, u) ==
  \A i \in 1..Len(audits) :
    /\ audits[i].before \in Usages /\ audits[i].after \in Usages
    /\ LeqUsage(IF i = 1 THEN base ELSE audits[i - 1].after, audits[i].before)
    /\ LeqUsage(audits[i].after, u)

FrameOK(f, base, N, R, u) ==
  /\ base \in Usages /\ LeqUsage(base, u)
  /\ Twins(N, R, f.allocations, f.children)
  /\ Chained(base, f.allocations, u)

LastAfter(f, base) ==
  IF f.allocations = <<>> THEN base ELSE f.allocations[Len(f.allocations)].after

(* Frame f is in the middle of a member.                                   *)
Holds(f, base, u) ==
  /\ f.todo # <<>>
  /\ LeqUsage(LastAfter(f, base), f.before) /\ LeqUsage(f.before, u)

Base(st, i) == IF i = 1 THEN Unused ELSE st[i - 1].before

StackOK(st, ph, N, R, u) ==
  /\ st \in Seq(Frames(N))
  /\ st = <<>> <=> ph \notin {"decode", "members", "leaf"}
  /\ \A i \in 1..Len(st) :
       /\ FrameOK(st[i], Base(st, i), N, R, u)
       /\ i < Len(st) \/ ph = "leaf" => Holds(st[i], Base(st, i), u)

(* A result with all its fields.                                           *)
Whole(r) ==
  r = [status |-> r.status, children |-> r.children,
       root |-> Audit(r.root.before, r.root.after, r.root.hit, r.root.children)]

ResultOK(r, ph, N, R, u, l) ==
  /\ ph \in {"output", "done"} =>
       /\ Twins(N, R, r.root.children, r.children)
       /\ r.root.before = Unused /\ r.root.after \in Usages
       /\ Chained(Unused, r.root.children, u)
       /\ Exhausted(r.root.hit, u, l)
  /\ ph = "output" => Whole(r)
  /\ ph = "done" => r.root.after = u

AuditInv ==
  \E N, R : /\ Faithful(N, R, usage, late)
            /\ StackOK(stack, phase, N, R, usage)
            /\ ResultOK(result, phase, N, R, usage, late)

(* What was let through was charged, and was within the limits.            *)
LimitInv ==
  /\ expanded \in Nat
  /\ admitted \in [archive : Nat, artifacts : Nat, bytes : Nat]
  /\ admitted.archive <= usage["archive_members"]
  /\ admitted.artifacts <= usage["child_artifacts"]
  /\ admitted.bytes <= expanded
  /\ AdmittedWithinLimits

TypeInv ==
  /\ rootBytes \in Nat /\ usage \in Usages
  /\ late \in BOOLEAN /\ cancelled \in BOOLEAN /\ discovered \in Nat

TraversalInv == TypeInv /\ LimitInv /\ AuditInv

-----------------------------------------------------------------------------

(* Every set of numbers that is not empty has a least element: induction   *)
(* over data is argued from it.                                            *)
LEMMA LeastNumber ==
  ASSUME NEW T \in SUBSET Nat, T # {}
  PROVE  \E n \in T : \A m \in T : n <= m
<1> DEFINE R == {ss \in Nat \X Nat : ss[1] < ss[2]}
<1>1. IsWellFoundedOn(R, Nat)
  BY NatLessThanWellFounded DEF OpToRel
<1>2. PICK x \in T : \A y \in T : ~(<<y, x>> \in R)
  <2> HIDE DEF R
  <2> QED BY <1>1, WFMin
<1>3. ASSUME NEW y \in T PROVE x <= y
  <2>1. x \in Nat /\ y \in Nat
    OBVIOUS
  <2>2. ~(y < x)
    BY <1>2, <2>1
  <2> QED BY <2>1, <2>2
<1> QED BY <1>3

LEMMA SetInduction ==
  ASSUME NEW T \in SUBSET Nat, 0 \in T, \A n \in T : n + 1 \in T
  PROVE  T = Nat
<1> SUFFICES ASSUME T # Nat PROVE FALSE
  OBVIOUS
<1>1. PICK n \in Nat \ T : \A m \in Nat \ T : n <= m
  BY LeastNumber
<1>2. n # 0 /\ n - 1 \in Nat
  OBVIOUS
<1>3. n - 1 \in T
  BY <1>1, <1>2
<1> QED BY <1>2, <1>3

-----------------------------------------------------------------------------
(* Charges.                                                                *)

Charge == Seq(Axes \X Nat)

LEMMA UsedGrows ==
  ASSUME NEW u \in Usages, NEW a \in Axes, NEW n \in Nat
  PROVE  /\ Used(u, a, n) \in Usages
         /\ \A b \in Axes : u[b] <= Used(u, a, n)[b]
         /\ n <= Used(u, a, n)[a]
         /\ a \in SumAxes => Used(u, a, n)[a] = u[a] + n
<1>1. \A b \in Axes : u[b] \in Nat
  BY DEF Usages
<1> DEFINE m == IF a \in SumAxes THEN u[a] + n ELSE IF n > u[a] THEN n ELSE u[a]
<1>2. m \in Nat /\ u[a] <= m /\ n <= m
  BY <1>1
<1>3. Used(u, a, n) = [u EXCEPT ![a] = m]
  BY DEF Used
<1> HIDE DEF m
<1>4. Used(u, a, n) \in Usages
  BY <1>2, <1>3 DEF Usages
<1>5. \A b \in Axes : Used(u, a, n)[b] = IF b = a THEN m ELSE u[b]
  BY <1>3 DEF Usages
<1>6. \A b \in Axes : u[b] <= Used(u, a, n)[b]
  BY <1>1, <1>2, <1>5
<1> QED BY <1>2, <1>4, <1>5, <1>6 DEF m

(* Tally is a recursive function; it is what its recursion says.           *)
LEMMA TallyRecursion ==
  ASSUME NEW charges \in Charge
  PROVE  \A k \in 0..Len(charges) :
           Tally(charges)[k] = IF k = 0 THEN usage
                               ELSE Used(Tally(charges)[k - 1], charges[k][1], charges[k][2])
<1> DEFINE G(f, n) == [i \in 0..n |-> IF i = 0 THEN usage
                                      ELSE Used(f[i - 1], charges[i][1], charges[i][2])]
           T == {n \in Nat : \E f : f = G(f, n)}
<1>1. 0 \in T
  <2> DEFINE z == [i \in 0..0 |-> usage]
  <2>1. z = G(z, 0)
    OBVIOUS
  <2>2. \E f : f = G(f, 0)
    <3> HIDE DEF G, z
    <3> QED BY <2>1
  <2> HIDE DEF G
  <2> QED BY <2>2
<1>2. ASSUME NEW n \in T PROVE n + 1 \in T
  <2>1. PICK f : f = G(f, n)
    OBVIOUS
  <2> DEFINE e(i) == IF i = 0 THEN usage ELSE Used(f[i - 1], charges[i][1], charges[i][2])
             h == [i \in 0..n + 1 |-> e(i)]
  <2>2. n \in Nat /\ f = [i \in 0..n |-> e(i)]
    BY <2>1
  <2>3. \A i \in 0..n : f[i] = e(i)
    <3> HIDE DEF e
    <3> QED BY <2>2
  <2>4. \A i \in 0..n : h[i] = f[i]
    <3> HIDE DEF e
    <3> QED BY <2>2, <2>3
  <2>5. \A i \in 0..n + 1 : i # 0 => i - 1 \in 0..n
    BY <2>2
  <2>6. \A i \in 0..n + 1 :
          e(i) = IF i = 0 THEN usage ELSE Used(h[i - 1], charges[i][1], charges[i][2])
    <3> HIDE DEF h
    <3> QED BY <2>4, <2>5
  <2>7. h = G(h, n + 1)
    <3> HIDE DEF e
    <3> QED BY <2>6
  <2>8. \E g : g = G(g, n + 1)
    <3> HIDE DEF G, h
    <3> QED BY <2>7
  <2>9. n + 1 \in Nat
    BY <2>2
  <2> HIDE DEF G, h
  <2> QED BY <2>8, <2>9
<1>3. T = Nat
  <2>1. T \in SUBSET Nat
    OBVIOUS
  <2> HIDE DEF T
  <2> QED BY <1>1, <1>2, <2>1, SetInduction
<1>4. Len(charges) \in Nat
  BY DEF Charge
<1>5. \E f : f = G(f, Len(charges))
  <2> HIDE DEF G
  <2> QED BY <1>3, <1>4
<1> DEFINE c == CHOOSE f : f = G(f, Len(charges))
<1>6. c = G(c, Len(charges))
  <2> HIDE DEF G
  <2> QED BY <1>5
<1>7. Tally(charges) = c
  BY DEF Tally
<1> HIDE DEF c
<1> QED BY <1>6, <1>7

LEMMA TallyGrows ==
  ASSUME usage \in Usages, NEW charges \in Charge
  PROVE  \A k \in 0..Len(charges) :
           /\ Tally(charges)[k] \in Usages
           /\ \A j \in 0..k, a \in Axes : Tally(charges)[j][a] <= Tally(charges)[k][a]
<1>1. Len(charges) \in Nat /\ \A k \in 1..Len(charges) : charges[k][1] \in Axes /\ charges[k][2] \in Nat
  BY DEF Charge
<1>2. PICK t : t = Tally(charges)
  OBVIOUS
<1>3. \A k \in 0..Len(charges) :
        t[k] = IF k = 0 THEN usage ELSE Used(t[k - 1], charges[k][1], charges[k][2])
  BY <1>2, TallyRecursion
<1> DEFINE Good(k) == /\ \A j \in 0..k : t[j] \in Usages
                      /\ \A j \in 0..k, a \in Axes : t[j][a] <= t[k][a]
           T == {k \in Nat : k \in 0..Len(charges) => Good(k)}
<1>4. 0 \in T
  <2>1. t[0] = usage
    BY <1>1, <1>3
  <2>2. \A a \in Axes : usage[a] \in Nat
    BY DEF Usages
  <2>3. \A j \in 0..0 : j = 0
    OBVIOUS
  <2> QED BY <2>1, <2>2, <2>3
<1>5. ASSUME NEW k \in T PROVE k + 1 \in T
  <2> SUFFICES ASSUME k + 1 \in 0..Len(charges) PROVE Good(k + 1)
    OBVIOUS
  <2>1. /\ k \in Nat /\ k \in 0..Len(charges) /\ k + 1 \in 1..Len(charges)
        /\ k + 1 # 0 /\ (k + 1) - 1 = k
    BY <1>1
  <2>2. Good(k)
    BY <2>1
  <2> DEFINE c == charges[k + 1]
  <2>3. c[1] \in Axes /\ c[2] \in Nat /\ t[k + 1] = Used(t[k], c[1], c[2])
    BY <1>1, <1>3, <2>1
  <2>4. t[k + 1] \in Usages /\ \A a \in Axes : t[k][a] <= t[k + 1][a]
    <3>1. t[k] \in Usages
      BY <2>1, <2>2
    <3> HIDE DEF c
    <3> QED BY <2>3, <3>1, UsedGrows
  <2>5. ASSUME NEW j \in 0..(k + 1), NEW a \in Axes PROVE t[j][a] <= t[k + 1][a]
    <3>1. t[k][a] \in Nat /\ t[k + 1][a] \in Nat
      BY <2>2, <2>4 DEF Usages
    <3>2. CASE j = k + 1
      BY <3>1, <3>2
    <3>3. CASE j \in 0..k
      <4>1. t[j][a] <= t[k][a]
        BY <2>2, <3>3
      <4>2. j \in 0..Len(charges) /\ t[k][a] <= t[k + 1][a]
        BY <2>1, <2>4, <3>3
      <4>3. t[j][a] \in Nat
        BY <2>2, <3>3 DEF Usages
      <4> QED BY <3>1, <4>1, <4>2, <4>3
    <3> QED BY <2>1, <3>2, <3>3
  <2>6. \A j \in 0..(k + 1) : t[j] \in Usages
    BY <2>1, <2>2, <2>4
  <2> QED BY <2>5, <2>6
<1>6. T = Nat
  <2>1. T \in SUBSET Nat
    OBVIOUS
  <2> HIDE DEF T
  <2> QED BY <1>4, <1>5, <2>1, SetInduction
<1>7. \A k \in 0..Len(charges) : Good(k)
  BY <1>1, <1>6
<1> QED BY <1>1, <1>2, <1>7

(* Charges only raise the usage, and an axis named as the refusing one is  *)
(* exhausted.                                                              *)
LEMMA SpendGrows ==
  ASSUME usage \in Usages, NEW charges \in Charge
  PROVE  /\ Spend(charges).usage \in Usages
         /\ \A a \in Axes : usage[a] <= Spend(charges).usage[a]
         /\ Spend(charges).axis = None
            \/ \A l : Exhausted(Spend(charges).axis, Spend(charges).usage, l)
<1> DEFINE tally == Tally(charges)
           refused == {k \in 1..Len(charges) : ~ Within(tally[k], charges[k][1])}
           last == IF refused = {} THEN Len(charges)
                   ELSE CHOOSE k \in refused : \A j \in refused : k <= j
<1>1. /\ Spend(charges).usage = tally[last]
      /\ Spend(charges).axis = IF refused = {} THEN None ELSE charges[last][1]
  BY DEF Spend
<1>2. Len(charges) \in Nat
  BY DEF Charge
<1>3. refused # {} => last \in refused
  <2> SUFFICES ASSUME refused # {} PROVE last \in refused
    OBVIOUS
  <2>1. refused \in SUBSET Nat
    BY <1>2
  <2>2. last = CHOOSE k \in refused : \A j \in refused : k <= j
    OBVIOUS
  <2> HIDE DEF refused, last
  <2>3. \E k \in refused : \A j \in refused : k <= j
    BY <2>1, LeastNumber
  <2> QED BY <2>2, <2>3
<1>4. last \in 0..Len(charges)
  <2>1. refused = {} => last = Len(charges)
    OBVIOUS
  <2>2. last \in refused => last \in 1..Len(charges)
    OBVIOUS
  <2> HIDE DEF refused, last
  <2> QED BY <1>2, <1>3, <2>1, <2>2
<1>5. 0 \in 0..last /\ tally[0] = usage
  <2>1. 0 \in 0..Len(charges)
    BY <1>2
  <2>2. tally[0] = usage
    BY <2>1, TallyRecursion
  <2> HIDE DEF last, tally
  <2> QED BY <1>2, <1>4, <2>2
<1>6. tally[last] \in Usages /\ \A a \in Axes : usage[a] <= tally[last][a]
  <2>1. /\ tally[last] \in Usages
        /\ \A j \in 0..last, a \in Axes : tally[j][a] <= tally[last][a]
    <3> HIDE DEF last
    <3> QED BY <1>4, TallyGrows
  <2> HIDE DEF last, tally
  <2> QED BY <1>5, <2>1
<1>7. ASSUME refused # {}, NEW l PROVE Exhausted(charges[last][1], tally[last], l)
  <2>1. ~ Within(tally[last], charges[last][1])
    BY <1>3, <1>7
  <2> HIDE DEF last, tally, refused
  <2> QED BY <2>1 DEF Exhausted, Within
<1> HIDE DEF last, tally, refused
<1> QED BY <1>1, <1>6, <1>7

(* Charges that are all accepted are all made, and stay within the limits. *)
LEMMA SpendAccepted ==
  ASSUME usage \in Usages, NEW charges \in Charge, Spend(charges).axis = None,
         NEW k \in 1..Len(charges)
  PROVE  LET a == charges[k][1]
             n == charges[k][2]
             m == IF a \in SumAxes THEN usage[a] + n ELSE n
         IN  /\ m <= Spend(charges).usage[a]
             /\ a \in DOMAIN Limit => m <= Limit[a]
<1> DEFINE tally == Tally(charges)
           refused == {i \in 1..Len(charges) : ~ Within(tally[i], charges[i][1])}
           last == IF refused = {} THEN Len(charges)
                   ELSE CHOOSE i \in refused : \A j \in refused : i <= j
           a == charges[k][1]
           n == charges[k][2]
           m == IF a \in SumAxes THEN usage[a] + n ELSE n
<1>1. /\ Spend(charges).usage = tally[last]
      /\ Spend(charges).axis = IF refused = {} THEN None ELSE charges[last][1]
  BY DEF Spend
<1>2. /\ Len(charges) \in Nat /\ a \in Axes /\ n \in Nat
      /\ \A i \in 1..Len(charges) : charges[i][1] \in Axes
  BY DEF Charge
<1>3. refused = {}
  <2> SUFFICES ASSUME refused # {} PROVE FALSE
    OBVIOUS
  <2>1. refused \in SUBSET Nat
    BY <1>2
  <2>2. last = CHOOSE i \in refused : \A j \in refused : i <= j
    OBVIOUS
  <2>3. last \in refused
    <3> HIDE DEF refused, last
    <3>1. \E i \in refused : \A j \in refused : i <= j
      BY <2>1, LeastNumber
    <3> QED BY <2>2, <3>1
  <2>4. last \in 1..Len(charges)
    BY <2>3
  <2> HIDE DEF refused, last
  <2> QED BY <1>1, <1>2, <2>4 DEF None, Axes, SumAxes, PeakAxes
<1>4. Within(tally[k], a)
  BY <1>3
<1>5. last = Len(charges)
  BY <1>3
<1> HIDE DEF refused, last
<1>6. /\ k \in 0..Len(charges) /\ Len(charges) \in 0..Len(charges) /\ 0 \in 0..(k - 1)
      /\ k - 1 \in 0..Len(charges) /\ k # 0 /\ 0 \in 0..Len(charges)
  BY <1>2
<1>7. /\ tally[k - 1] \in Usages /\ tally[Len(charges)] \in Usages
      /\ tally[0][a] <= tally[k - 1][a] /\ tally[k][a] <= tally[Len(charges)][a]
      /\ tally[k] \in Usages
  <2>1. \A i \in 0..Len(charges) :
           /\ tally[i] \in Usages
           /\ \A j \in 0..i, b \in Axes : tally[j][b] <= tally[i][b]
    BY TallyGrows
  <2> HIDE DEF tally, a
  <2> QED BY <1>2, <1>6, <2>1
<1>8. tally[0] = usage /\ tally[k] = Used(tally[k - 1], a, n)
  BY <1>6, TallyRecursion
<1> HIDE DEF tally
<1>9. a \in SumAxes => tally[k][a] = tally[k - 1][a] + n
  <2> HIDE DEF a, n
  <2>1. ASSUME NEW u \in Usages, a \in SumAxes PROVE Used(u, a, n)[a] = u[a] + n
    BY <1>2, <2>1, UsedGrows
  <2> QED BY <1>7, <1>8, <2>1
<1>10. n <= tally[k][a]
  <2> HIDE DEF a, n
  <2> QED BY <1>2, <1>7, <1>8, UsedGrows
<1>11. /\ tally[0][a] \in Nat /\ tally[k][a] \in Nat /\ tally[k - 1][a] \in Nat
       /\ tally[Len(charges)][a] \in Nat
  <2> HIDE DEF a
  <2> QED BY <1>2, <1>7, <1>8 DEF Usages
<1>12. m <= tally[k][a]
  <2> HIDE DEF a, n
  <2> QED BY <1>2, <1>7, <1>8, <1>9, <1>10, <1>11
<1>13. a \in DOMAIN Limit => tally[k][a] <= Limit[a] /\ Limit[a] \in Nat
  BY <1>4, ContainerTraversalAssumption DEF Within
<1>14. m \in Nat
  <2> HIDE DEF a, n
  <2> QED BY <1>2, <1>8, <1>11
<1> HIDE DEF m
<1>15. m <= Spend(charges).usage[a] /\ (a \in DOMAIN Limit => m <= Limit[a])
  <2> HIDE DEF a
  <2> QED BY <1>1, <1>5, <1>7, <1>11, <1>12, <1>13, <1>14
<1> QED BY <1>15 DEF m

-----------------------------------------------------------------------------
(* Members and the limits.                                                 *)

(* A ratio within a limit bounds the bytes by as many times the root.      *)
LEMMA RatioBounds ==
  ASSUME rootBytes \in Nat, NEW bytes \in Nat, NEW limit \in Nat, Ratio(bytes) <= limit
  PROVE  \/ bytes <= limit * rootBytes
         \/ rootBytes = 0 /\ limit >= LargestRatio
<1>1. CASE rootBytes = 0
  <2>1. bytes = 0 \/ Ratio(bytes) = LargestRatio
    BY <1>1 DEF Ratio
  <2>2. limit * rootBytes = 0
    BY <1>1
  <2> QED BY <1>1, <2>1, <2>2, ContainerTraversalAssumption
<1>2. CASE rootBytes # 0
  <2> DEFINE q == (bytes + rootBytes - 1) \div rootBytes
  <2>1. Ratio(bytes) = q
    BY <1>2 DEF Ratio
  <2>2. rootBytes > 0
    BY <1>2
  <2>3. q \in Int /\ bytes + rootBytes - 1 < (q + 1) * rootBytes
    BY ONLY <2>2, rootBytes \in Nat, bytes \in Nat, SMT
  <2>4. PICK p : p = q
    OBVIOUS
  <2>5. p \in Int /\ p <= limit /\ bytes + rootBytes - 1 < p * rootBytes + rootBytes
    <3>1. (q + 1) * rootBytes = q * rootBytes + rootBytes
      BY ONLY <2>3, rootBytes \in Nat
    <3> QED BY <2>1, <2>3, <2>4, <3>1
  <2>6. bytes <= p * rootBytes
    <3>1. p * rootBytes \in Int
      BY <2>5
    <3> QED BY ONLY <2>5, <3>1, rootBytes \in Nat, bytes \in Nat
  <2>7. p * rootBytes <= limit * rootBytes
    BY ONLY <2>2, <2>5, rootBytes \in Nat, limit \in Nat
  <2>8. limit * rootBytes \in Int /\ p * rootBytes \in Int
    BY <2>5
  <2> QED BY <2>6, <2>7, <2>8
<1> QED BY <1>1, <1>2

LEMMA RatioIsNumber ==
  ASSUME rootBytes \in Nat, NEW bytes \in Nat
  PROVE  Ratio(bytes) \in Nat
<1>1. CASE rootBytes = 0
  BY <1>1, ContainerTraversalAssumption DEF Ratio
<1>2. CASE rootBytes # 0
  <2>1. rootBytes > 0 /\ bytes + rootBytes - 1 \in Nat
    BY <1>2
  <2>2. (bytes + rootBytes - 1) \div rootBytes \in Nat
    BY ONLY <2>1, rootBytes \in Nat, SMT
  <2> QED BY <1>2, <2>2 DEF Ratio
<1> QED BY <1>1, <1>2

MemberCharges(f, entry) ==
  InventoryCharges(f)
  \o IF Expands(entry) THEN ExpansionCharges(entry.member) ELSE <<>>

Charged(charges, a, n) == \E k \in 1..Len(charges) : charges[k] = <<a, n>>

LEMMA ChargedLeft ==
  ASSUME NEW s \in Charge, NEW t \in Charge, NEW a, NEW n, Charged(s, a, n)
  PROVE  Charged(s \o t, a, n)
<1>1. PICK k \in 1..Len(s) : s[k] = <<a, n>>
  BY DEF Charged
<1>2. k \in 1..Len(s \o t) /\ (s \o t)[k] = s[k]
  BY DEF Charge
<1> QED BY <1>1, <1>2 DEF Charged

LEMMA ChargedRight ==
  ASSUME NEW s \in Charge, NEW t \in Charge, NEW a, NEW n, Charged(t, a, n)
  PROVE  Charged(s \o t, a, n)
<1>1. PICK k \in 1..Len(t) : t[k] = <<a, n>>
  BY DEF Charged
<1>2. Len(s) + k \in 1..Len(s \o t) /\ (s \o t)[Len(s) + k] = t[k]
  BY DEF Charge
<1> QED BY <1>1, <1>2 DEF Charged

LEMMA ChargeJoins ==
  ASSUME NEW s \in Charge, NEW t \in Charge
  PROVE  s \o t \in Charge
BY DEF Charge

LEMMA OneCharge ==
  ASSUME NEW a \in Axes, NEW n \in Nat
  PROVE  <<<<a, n>>>> \in Charge /\ Charged(<<<<a, n>>>>, a, n)
<1>1. <<a, n>> \in Axes \X Nat
  OBVIOUS
<1>2. PICK p \in Axes \X Nat : p = <<a, n>>
  BY <1>1
<1>3. <<p>> \in Seq(Axes \X Nat) /\ Len(<<p>>) = 1 /\ <<p>>[1] = p
  OBVIOUS
<1> QED BY <1>2, <1>3 DEF Charge, Charged

LEMMA TwoCharges ==
  ASSUME NEW a \in Axes, NEW n \in Nat, NEW b \in Axes, NEW m \in Nat
  PROVE  /\ <<<<a, n>>, <<b, m>>>> \in Charge
         /\ Charged(<<<<a, n>>, <<b, m>>>>, a, n)
<1>1. PICK p \in Axes \X Nat : p = <<a, n>>
  OBVIOUS
<1>2. PICK q \in Axes \X Nat : q = <<b, m>>
  OBVIOUS
<1>3. <<p, q>> \in Seq(Axes \X Nat) /\ Len(<<p, q>>) = 2 /\ <<p, q>>[1] = p
  OBVIOUS
<1> QED BY <1>1, <1>2, <1>3 DEF Charge, Charged

LEMMA MemberIsCharged ==
  ASSUME rootBytes \in Nat, expanded \in Nat,
         NEW f, f.depth \in Nat, NEW entry \in Entries
  PROVE  /\ MemberCharges(f, entry) \in Charge
         /\ Charged(MemberCharges(f, entry), "child_artifacts", 1)
         /\ f.class \in ArchiveClasses =>
              Charged(MemberCharges(f, entry), "archive_members", 1)
         /\ Expands(entry) =>
              Charged(MemberCharges(f, entry), "archive_expansion_ratio",
                      Ratio(Expanded(entry.member)))
<1> DEFINE d == <<<<"nesting_depth", f.depth + 1>>>>
           a == IF f.class \in ArchiveClasses THEN <<<<"archive_members", 1>>>> ELSE <<>>
           c == <<<<"child_artifacts", 1>>>>
           e == IF Expands(entry) THEN ExpansionCharges(entry.member) ELSE <<>>
<1>1. MemberCharges(f, entry) = ((d \o a) \o c) \o e
  BY DEF MemberCharges, InventoryCharges
<1>2. d \in Charge
  <2>1. f.depth + 1 \in Nat /\ "nesting_depth" \in Axes
    BY DEF Axes, PeakAxes
  <2> QED BY <2>1, OneCharge
<1>3. <<>> \in Charge
  BY DEF Charge
<1>4. a \in Charge /\ (f.class \in ArchiveClasses => Charged(a, "archive_members", 1))
  <2>1. "archive_members" \in Axes /\ 1 \in Nat
    BY DEF Axes, SumAxes
  <2>2. /\ <<<<"archive_members", 1>>>> \in Charge
        /\ Charged(<<<<"archive_members", 1>>>>, "archive_members", 1)
    BY <2>1, OneCharge
  <2> QED BY <1>3, <2>2
<1>5. c \in Charge /\ Charged(c, "child_artifacts", 1)
  <2>1. "child_artifacts" \in Axes /\ 1 \in Nat
    BY DEF Axes, SumAxes
  <2> QED BY <2>1, OneCharge
<1>6. e \in Charge
      /\ (Expands(entry) => Charged(e, "archive_expansion_ratio", Ratio(Expanded(entry.member))))
  <2>1. /\ "archive_expansion_ratio" \in Axes /\ "memory_bytes" \in Axes
        /\ entry.member.bytes \in Nat
    BY DEF Axes, PeakAxes, Entries, Members
  <2>2. Expanded(entry.member) \in Nat
    BY <2>1 DEF Expanded
  <2>3. Ratio(Expanded(entry.member)) \in Nat
    BY <2>2, RatioIsNumber
  <2>4. /\ ExpansionCharges(entry.member) \in Charge
        /\ Charged(ExpansionCharges(entry.member), "archive_expansion_ratio",
                   Ratio(Expanded(entry.member)))
    BY <2>1, <2>3, TwoCharges DEF ExpansionCharges
  <2> QED BY <1>3, <2>4
<1> HIDE DEF d, a, c, e
<1>7. d \o a \in Charge /\ (f.class \in ArchiveClasses => Charged(d \o a, "archive_members", 1))
  BY <1>2, <1>4, ChargeJoins, ChargedRight
<1>8. /\ (d \o a) \o c \in Charge /\ Charged((d \o a) \o c, "child_artifacts", 1)
      /\ (f.class \in ArchiveClasses => Charged((d \o a) \o c, "archive_members", 1))
  BY <1>5, <1>7, ChargeJoins, ChargedLeft, ChargedRight
<1>9. /\ ((d \o a) \o c) \o e \in Charge /\ Charged(((d \o a) \o c) \o e, "child_artifacts", 1)
      /\ (f.class \in ArchiveClasses => Charged(((d \o a) \o c) \o e, "archive_members", 1))
      /\ (Expands(entry) => Charged(((d \o a) \o c) \o e, "archive_expansion_ratio",
                                    Ratio(Expanded(entry.member))))
  BY <1>6, <1>8, ChargeJoins, ChargedLeft, ChargedRight
<1> QED BY <1>1, <1>9

LEMMA LimitStays ==
  ASSUME TypeInv, LimitInv, usage' \in Usages, \A a \in Axes : usage[a] <= usage'[a],
         expanded' \in Nat, expanded <= expanded', UNCHANGED <<admitted, rootBytes>>
  PROVE  LimitInv'
<1>1. /\ admitted' = admitted /\ rootBytes' = rootBytes
      /\ admitted \in [archive : Nat, artifacts : Nat, bytes : Nat]
      /\ expanded \in Nat /\ usage \in Usages
      /\ admitted.archive <= usage["archive_members"]
      /\ admitted.artifacts <= usage["child_artifacts"] /\ admitted.bytes <= expanded
  BY DEF TypeInv, LimitInv
<1>2. "archive_members" \in Axes /\ "child_artifacts" \in Axes
  BY DEF Axes, SumAxes
<1>3. /\ usage["archive_members"] \in Nat /\ usage["child_artifacts"] \in Nat
      /\ usage'["archive_members"] \in Nat /\ usage'["child_artifacts"] \in Nat
  BY <1>1, <1>2 DEF Usages
<1>4. admitted.archive <= usage'["archive_members"] /\ admitted.artifacts <= usage'["child_artifacts"]
  BY <1>1, <1>2, <1>3
<1>5. admitted.bytes <= expanded'
  BY <1>1
<1>6. AdmittedWithinLimits'
  BY <1>1 DEF LimitInv, AdmittedWithinLimits
<1> QED BY <1>1, <1>4, <1>5, <1>6 DEF LimitInv

(* The charges of an admitted member are what keeps the counts and the sum *)
(* within the limits.                                                      *)
LEMMA AdmissionKeepsLimits ==
  ASSUME TypeInv, LimitInv, NEW f, f.depth \in Nat, NEW entry \in Entries,
         MemberSpend(f, entry).axis = None,
         usage' = MemberSpend(f, entry).usage, rootBytes' = rootBytes,
         expanded' = IF Expands(entry) THEN Expanded(entry.member) ELSE expanded,
         admitted' = [archive |-> admitted.archive
                                  + IF f.class \in ArchiveClasses THEN 1 ELSE 0,
                      artifacts |-> admitted.artifacts + 1,
                      bytes |-> admitted.bytes
                                + IF Expands(entry) THEN entry.member.bytes ELSE 0]
  PROVE  LimitInv'
<1>1. /\ admitted.archive \in Nat /\ admitted.artifacts \in Nat /\ admitted.bytes \in Nat
      /\ expanded \in Nat /\ usage \in Usages /\ rootBytes \in Nat
      /\ admitted.archive <= usage["archive_members"]
      /\ admitted.artifacts <= usage["child_artifacts"] /\ admitted.bytes <= expanded
      /\ entry.member.bytes \in Nat
  BY DEF TypeInv, LimitInv, Entries, Members
<1>2. PICK charges : charges = MemberCharges(f, entry)
  OBVIOUS
<1>3. /\ charges \in Charge /\ Charged(charges, "child_artifacts", 1)
      /\ f.class \in ArchiveClasses => Charged(charges, "archive_members", 1)
      /\ Expands(entry) => Charged(charges, "archive_expansion_ratio",
                                   Ratio(Expanded(entry.member)))
  BY <1>1, <1>2, MemberIsCharged
<1>4. Spend(charges).axis = None /\ usage' = Spend(charges).usage
  BY <1>2 DEF MemberSpend, MemberCharges
<1>5. usage' \in Usages /\ \A a \in Axes : usage[a] <= usage'[a]
  BY <1>1, <1>3, <1>4, SpendGrows
<1>6. ASSUME NEW a, NEW n, Charged(charges, a, n)
      PROVE  LET m == IF a \in SumAxes THEN usage[a] + n ELSE n
             IN  m <= usage'[a] /\ (a \in DOMAIN Limit => m <= Limit[a])
  <2>1. PICK k \in 1..Len(charges) : charges[k] = <<a, n>>
    BY <1>6 DEF Charged
  <2>2. charges[k][1] = a /\ charges[k][2] = n
    BY <2>1
  <2> QED BY <1>1, <1>3, <1>4, <2>2, SpendAccepted
<1>7. /\ {"archive_members", "child_artifacts"} \subseteq SumAxes
      /\ "archive_expansion_ratio" \notin SumAxes
      /\ {"archive_members", "child_artifacts"} \subseteq Axes
  BY DEF SumAxes, Axes
<1>8. /\ usage["archive_members"] \in Nat /\ usage["child_artifacts"] \in Nat
      /\ usage'["archive_members"] \in Nat /\ usage'["child_artifacts"] \in Nat
      /\ usage["archive_members"] <= usage'["archive_members"]
  BY <1>1, <1>5, <1>7 DEF Usages
<1>9. /\ usage["child_artifacts"] + 1 <= usage'["child_artifacts"]
      /\ "child_artifacts" \in DOMAIN Limit => usage["child_artifacts"] + 1 <= Limit["child_artifacts"]
  BY <1>3, <1>6, <1>7
<1>10. f.class \in ArchiveClasses =>
         /\ usage["archive_members"] + 1 <= usage'["archive_members"]
         /\ "archive_members" \in DOMAIN Limit =>
              usage["archive_members"] + 1 <= Limit["archive_members"]
  BY <1>3, <1>6, <1>7
<1>11. Expands(entry) /\ "archive_expansion_ratio" \in DOMAIN Limit =>
         Ratio(Expanded(entry.member)) <= Limit["archive_expansion_ratio"]
  BY <1>3, <1>6, <1>7
<1>12. \A a \in DOMAIN Limit : Limit[a] \in Nat
  BY ContainerTraversalAssumption
<1>13. /\ admitted' \in [archive : Nat, artifacts : Nat, bytes : Nat]
       /\ admitted'.archive = admitted.archive + IF f.class \in ArchiveClasses THEN 1 ELSE 0
       /\ admitted'.artifacts = admitted.artifacts + 1
       /\ admitted'.bytes = admitted.bytes + IF Expands(entry) THEN entry.member.bytes ELSE 0
  BY <1>1
<1>14. /\ expanded' \in Nat
       /\ admitted'.archive <= usage'["archive_members"]
       /\ admitted'.artifacts <= usage'["child_artifacts"]
       /\ admitted'.bytes <= expanded'
  BY <1>1, <1>8, <1>9, <1>10, <1>13 DEF Expanded
<1>15. "archive_members" \in DOMAIN Limit => admitted'.archive <= Limit["archive_members"]
  BY <1>1, <1>8, <1>10, <1>12, <1>13 DEF LimitInv, AdmittedWithinLimits
<1>16. "child_artifacts" \in DOMAIN Limit => admitted'.artifacts <= Limit["child_artifacts"]
  BY <1>1, <1>8, <1>9, <1>12, <1>13
<1>17. ASSUME "archive_expansion_ratio" \in DOMAIN Limit
       PROVE  \/ admitted'.bytes <= Limit["archive_expansion_ratio"] * rootBytes
              \/ rootBytes = 0 /\ Limit["archive_expansion_ratio"] >= LargestRatio
  <2>1. CASE Expands(entry)
    <3>1. PICK b \in Nat : b = Expanded(entry.member) /\ b = expanded'
      BY <1>1, <2>1 DEF Expanded
    <3>2. PICK limit \in Nat : limit = Limit["archive_expansion_ratio"]
      BY <1>12, <1>17
    <3>3. Ratio(b) <= limit
      BY <1>11, <1>17, <2>1, <3>1, <3>2
    <3>4. b <= limit * rootBytes \/ (rootBytes = 0 /\ limit >= LargestRatio)
      BY <1>1, <3>3, RatioBounds
    <3>5. admitted'.bytes <= b /\ admitted'.bytes \in Nat /\ limit * rootBytes \in Nat
      BY <1>1, <1>13, <1>14, <3>1
    <3> QED BY <3>1, <3>2, <3>4, <3>5
  <2>2. CASE ~ Expands(entry)
    <3>1. admitted'.bytes = admitted.bytes
      BY <1>1, <1>13, <2>2
    <3> QED BY <1>17, <3>1 DEF LimitInv, AdmittedWithinLimits
  <2> QED BY <2>1, <2>2
<1>18. AdmittedWithinLimits'
  BY <1>15, <1>16, <1>17 DEF AdmittedWithinLimits
<1> QED BY <1>13, <1>14, <1>18 DEF LimitInv

-----------------------------------------------------------------------------
(* Audits.                                                                 *)

LEMMA LeqReflexive ==
  ASSUME NEW u \in Usages
  PROVE  LeqUsage(u, u)
BY DEF Usages, LeqUsage

LEMMA LeqTransitive ==
  ASSUME NEW u \in Usages, NEW v \in Usages, NEW w \in Usages,
         LeqUsage(u, v), LeqUsage(v, w)
  PROVE  LeqUsage(u, w)
<1> SUFFICES ASSUME NEW a \in Axes PROVE u[a] <= w[a]
  BY DEF LeqUsage
<1>1. u[a] \in Nat /\ v[a] \in Nat /\ w[a] \in Nat /\ u[a] <= v[a] /\ v[a] <= w[a]
  BY DEF Usages, LeqUsage
<1> QED BY <1>1

LEMMA UnusedIsLeast ==
  ASSUME NEW u \in Usages
  PROVE  Unused \in Usages /\ LeqUsage(Unused, u)
BY DEF Unused, Usages, LeqUsage

(* Whatever is exhausted stays so.                                         *)
LEMMA ExhaustedStays ==
  ASSUME NEW u \in Usages, NEW v \in Usages, LeqUsage(u, v), NEW l, NEW k, l => k,
         NEW axis, Exhausted(axis, u, l)
  PROVE  Exhausted(axis, v, k)
<1>1. CASE axis \in DOMAIN Limit /\ ~ Within(u, axis)
  <2>1. axis \in Axes /\ Limit[axis] \in Nat
    BY <1>1, ContainerTraversalAssumption
  <2>2. u[axis] \in Nat /\ v[axis] \in Nat /\ u[axis] <= v[axis]
    BY <2>1 DEF Usages, LeqUsage
  <2>3. ~ (u[axis] <= Limit[axis])
    BY <1>1 DEF Within
  <2>4. ~ (v[axis] <= Limit[axis])
    BY <2>1, <2>2, <2>3
  <2> QED BY <1>1, <2>4 DEF Exhausted, Within
<1>2. CASE ~ (axis \in DOMAIN Limit /\ ~ Within(u, axis))
  BY <1>2 DEF Exhausted
<1> QED BY <1>1, <1>2

LEMMA ChainStays ==
  ASSUME NEW u \in Usages, NEW v \in Usages, LeqUsage(u, v), NEW base, NEW audits,
         Chained(base, audits, u)
  PROVE  Chained(base, audits, v)
<1> SUFFICES ASSUME NEW i \in 1..Len(audits) PROVE LeqUsage(audits[i].after, v)
  BY DEF Chained
<1>1. audits[i].after \in Usages /\ LeqUsage(audits[i].after, u)
  BY DEF Chained
<1> QED BY <1>1, LeqTransitive

LEMMA FaithfulStays ==
  ASSUME NEW u \in Usages, NEW v \in Usages, LeqUsage(u, v), NEW l, NEW k, l => k,
         NEW N, NEW R, Faithful(N, R, u, l)
  PROVE  Faithful(N, R, v, k)
<1>1. R \in SUBSET (N \X N)
  BY DEF Faithful
<1>2. ASSUME NEW a \in N, NEW c \in N, <<a, c>> \in R
      PROVE  /\ Twins(N, R, a.children, c.children)
             /\ Sound(a, v, k) /\ Exhausted(c.axis, v, k)
  <2>1. /\ Twins(N, R, a.children, c.children)
        /\ Sound(a, u, l) /\ Exhausted(c.axis, u, l)
    BY <1>2 DEF Faithful
  <2>2. Exhausted(a.hit, u, l)
    BY <2>1 DEF Sound
  <2>3. Exhausted(a.hit, v, k) /\ Exhausted(c.axis, v, k)
    BY <2>1, <2>2, ExhaustedStays
  <2> QED BY <2>1, <2>3 DEF Sound
<1> QED BY <1>1, <1>2 DEF Faithful

LEMMA HoldsStays ==
  ASSUME NEW u \in Usages, NEW v \in Usages, LeqUsage(u, v), NEW f, NEW base,
         f.before \in Usages, Holds(f, base, u)
  PROVE  Holds(f, base, v)
BY LeqTransitive DEF Holds

LEMMA FrameStays ==
  ASSUME NEW u \in Usages, NEW v \in Usages, LeqUsage(u, v), NEW f, NEW base,
         NEW N, NEW R, FrameOK(f, base, N, R, u)
  PROVE  FrameOK(f, base, N, R, v)
BY LeqTransitive, ChainStays DEF FrameOK

LEMMA StackStays ==
  ASSUME NEW u \in Usages, NEW v \in Usages, LeqUsage(u, v), NEW st, NEW ph,
         NEW N, NEW R, StackOK(st, ph, N, R, u)
  PROVE  StackOK(st, ph, N, R, v)
<1>1. ASSUME NEW i \in 1..Len(st)
      PROVE  /\ FrameOK(st[i], Base(st, i), N, R, v)
             /\ i < Len(st) \/ ph = "leaf" => Holds(st[i], Base(st, i), v)
  <2>1. /\ FrameOK(st[i], Base(st, i), N, R, u)
        /\ i < Len(st) \/ ph = "leaf" => Holds(st[i], Base(st, i), u)
    BY DEF StackOK
  <2>2. st[i].before \in Usages
    <3>1. st \in Seq(Frames(N))
      BY DEF StackOK
    <3>2. st[i] \in Frames(N)
      BY <3>1
    <3> QED BY <3>2 DEF Frames
  <2> QED BY <2>1, <2>2, FrameStays, HoldsStays
<1> QED BY <1>1 DEF StackOK

LEMMA ResultStays ==
  ASSUME NEW u \in Usages, NEW v \in Usages, LeqUsage(u, v), NEW l, NEW k, l => k,
         NEW N, NEW R, NEW r, NEW ph, ph = "done" => v = u, ResultOK(r, ph, N, R, u, l)
  PROVE  ResultOK(r, ph, N, R, v, k)
<1>1. Chained(Unused, r.root.children, u) => Chained(Unused, r.root.children, v)
  BY ChainStays
<1>2. Exhausted(r.root.hit, u, l) => Exhausted(r.root.hit, v, k)
  BY ExhaustedStays
<1> QED BY <1>1, <1>2 DEF ResultOK

LEMMA TwinsGrow ==
  ASSUME NEW N, NEW R, NEW M, NEW S, N \subseteq M, R \subseteq S,
         NEW audits, NEW children, Twins(N, R, audits, children)
  PROVE  Twins(M, S, audits, children)
<1>1. audits \in Seq(M) /\ children \in Seq(M)
  BY DEF Twins
<1> QED BY <1>1 DEF Twins

LEMMA StackGrows ==
  ASSUME NEW N, NEW R, NEW M, NEW S, N \subseteq M, R \subseteq S,
         NEW st, NEW ph, NEW u, StackOK(st, ph, N, R, u)
  PROVE  StackOK(st, ph, M, S, u)
<1>1. Frames(N) \subseteq Frames(M)
  <2> SUFFICES ASSUME NEW f \in Frames(N) PROVE f \in Frames(M)
    OBVIOUS
  <2>1. f.children \in Seq(N) /\ f.allocations \in Seq(N)
    BY DEF Frames
  <2>2. f.children \in Seq(M) /\ f.allocations \in Seq(M)
    BY <2>1
  <2> QED BY <2>2 DEF Frames
<1>2. st \in Seq(Frames(M))
  <2>1. st \in Seq(Frames(N))
    BY DEF StackOK
  <2> QED BY <1>1, <2>1
<1>3. ASSUME NEW i \in 1..Len(st)
      PROVE  /\ FrameOK(st[i], Base(st, i), M, S, u)
             /\ i < Len(st) \/ ph = "leaf" => Holds(st[i], Base(st, i), u)
  <2>1. /\ FrameOK(st[i], Base(st, i), N, R, u)
        /\ i < Len(st) \/ ph = "leaf" => Holds(st[i], Base(st, i), u)
    BY DEF StackOK
  <2> QED BY <2>1, TwinsGrow DEF FrameOK
<1>4. st = <<>> <=> ph \notin {"decode", "members", "leaf"}
  BY DEF StackOK
<1> QED BY <1>2, <1>3, <1>4 DEF StackOK

(* A new pair whose parts are good keeps the relation.                     *)
LEMMA NewPair ==
  ASSUME NEW N, NEW R, NEW u, NEW l, Faithful(N, R, u, l), NEW a, NEW c,
         Twins(N, R, a.children, c.children), Sound(a, u, l), Exhausted(c.axis, u, l)
  PROVE  Faithful(N \cup {a, c}, R \cup {<<a, c>>}, u, l)
<1> DEFINE M == N \cup {a, c}
           S == R \cup {<<a, c>>}
<1>1. R \in SUBSET (N \X N)
  BY DEF Faithful
<1>2. S \in SUBSET (M \X M)
  BY <1>1
<1>3. N \subseteq M /\ R \subseteq S
  OBVIOUS
<1>4. ASSUME NEW b \in M, NEW d \in M, <<b, d>> \in S
      PROVE  /\ Twins(M, S, b.children, d.children)
             /\ Sound(b, u, l) /\ Exhausted(d.axis, u, l)
  <2>1. CASE <<b, d>> \in R
    <3>1. b \in N /\ d \in N
      BY <1>1, <2>1
    <3>2. /\ Twins(N, R, b.children, d.children)
          /\ Sound(b, u, l) /\ Exhausted(d.axis, u, l)
      BY <2>1, <3>1 DEF Faithful
    <3> HIDE DEF M, S
    <3> QED BY <1>3, <3>2, TwinsGrow
  <2>2. CASE b = a /\ d = c
    <3> HIDE DEF M, S
    <3> QED BY <1>3, <2>2, TwinsGrow
  <2> QED BY <1>4, <2>1, <2>2
<1> HIDE DEF M, S
<1>5. Faithful(M, S, u, l)
  BY <1>2, <1>4 DEF Faithful
<1> QED BY <1>5 DEF M, S

-----------------------------------------------------------------------------
(* Frames.                                                                 *)

LEMMA AppendIs ==
  ASSUME NEW M, NEW s \in Seq(M), NEW e \in M
  PROVE  /\ Append(s, e) \in Seq(M) /\ Len(s) \in Nat /\ Len(Append(s, e)) = Len(s) + 1
         /\ Append(s, e)[Len(s) + 1] = e
         /\ \A i \in 1..Len(s) : Append(s, e)[i] = s[i]
  OBVIOUS

LEMMA TwinsAppend ==
  ASSUME NEW M, NEW S, NEW audits, NEW children, Twins(M, S, audits, children),
         NEW a \in M, NEW c \in M, <<a, c>> \in S
  PROVE  Twins(M, S, Append(audits, a), Append(children, c))
<1>1. /\ audits \in Seq(M) /\ children \in Seq(M) /\ Len(audits) = Len(children)
      /\ \A i \in 1..Len(audits) : <<audits[i], children[i]>> \in S
  BY DEF Twins
<1>2. PICK s : s = Append(audits, a)
  OBVIOUS
<1>3. PICK t : t = Append(children, c)
  OBVIOUS
<1>4. /\ s \in Seq(M) /\ Len(audits) \in Nat /\ Len(s) = Len(audits) + 1
      /\ s[Len(audits) + 1] = a /\ \A i \in 1..Len(audits) : s[i] = audits[i]
  BY <1>1, <1>2, AppendIs
<1>5. /\ t \in Seq(M) /\ Len(t) = Len(children) + 1
      /\ t[Len(children) + 1] = c /\ \A i \in 1..Len(children) : t[i] = children[i]
  BY <1>1, <1>3, AppendIs
<1>6. ASSUME NEW i \in 1..Len(s) PROVE <<s[i], t[i]>> \in S
  <2>1. i \in 1..Len(audits) \/ i = Len(audits) + 1
    BY <1>4
  <2> QED BY <2>1, <1>1, <1>4, <1>5
<1>7. Twins(M, S, s, t)
  BY <1>1, <1>4, <1>5, <1>6 DEF Twins
<1> QED BY <1>2, <1>3, <1>7

LEMMA ChainAppend ==
  ASSUME NEW N, NEW base, NEW audits \in Seq(N), NEW u \in Usages, Chained(base, audits, u),
         NEW a, a.before \in Usages, a.after \in Usages, LeqUsage(a.after, u),
         LeqUsage(IF audits = <<>> THEN base ELSE audits[Len(audits)].after, a.before)
  PROVE  Chained(base, Append(audits, a), u)
<1>1. PICK s : s = Append(audits, a)
  OBVIOUS
<1>2. /\ Len(audits) \in Nat /\ Len(s) = Len(audits) + 1
      /\ s[Len(audits) + 1] = a /\ \A i \in 1..Len(audits) : s[i] = audits[i]
  <2>1. audits \in Seq(N \cup {a})
    OBVIOUS
  <2> QED BY <1>1, <2>1, AppendIs
<1>3. audits = <<>> <=> Len(audits) = 0
  OBVIOUS
<1>4. ASSUME NEW i \in 1..Len(s)
      PROVE  /\ s[i].before \in Usages /\ s[i].after \in Usages
             /\ LeqUsage(IF i = 1 THEN base ELSE s[i - 1].after, s[i].before)
             /\ LeqUsage(s[i].after, u)
  <2>1. CASE i \in 1..Len(audits)
    <3>1. s[i] = audits[i] /\ (i # 1 => s[i - 1] = audits[i - 1])
      BY <1>2, <2>1
    <3> QED BY <2>1, <3>1 DEF Chained
  <2>2. CASE i = Len(audits) + 1
    <3>1. s[i] = a
      BY <1>2, <2>2
    <3>2. CASE i = 1
      <4>1. audits = <<>>
        BY <1>2, <1>3, <2>2, <3>2
      <4> QED BY <3>1, <3>2, <4>1
    <3>3. CASE i # 1
      <4>1. audits # <<>> /\ i - 1 = Len(audits) /\ Len(audits) \in 1..Len(audits)
        BY <1>2, <1>3, <2>2, <3>3
      <4>2. s[i - 1] = audits[Len(audits)]
        BY <1>2, <4>1
      <4> QED BY <3>1, <3>3, <4>1, <4>2
    <3> QED BY <3>2, <3>3
  <2> QED BY <1>2, <2>1, <2>2
<1>5. Chained(base, s, u)
  BY <1>4 DEF Chained
<1> QED BY <1>1, <1>5

LEMMA ClosedFrame ==
  ASSUME NEW N, NEW R, NEW u \in Usages, NEW l, Faithful(N, R, u, l),
         NEW f \in Frames(N), NEW base, FrameOK(f, base, N, R, u), Holds(f, base, u),
         NEW c, NEW inner, Twins(N, R, inner, c.children), Chained(f.before, inner, u),
         Exhausted(c.axis, u, l)
  PROVE  \E M, S : /\ N \subseteq M /\ R \subseteq S /\ Faithful(M, S, u, l)
                   /\ Closed(f, c, inner, u) \in Frames(M)
                   /\ FrameOK(Closed(f, c, inner, u), base, M, S, u)
                   /\ Closed(f, c, inner, u).before = f.before
<1> DEFINE a == Audit(f.before, u, c.axis, inner)
           g == Closed(f, c, inner, u)
<1>1. a.before = f.before /\ a.after = u /\ a.hit = c.axis /\ a.children = inner
  BY DEF Audit
<1>2. f.before \in Usages /\ f.todo \in Seq(Entries) /\ f.todo # <<>>
      /\ f.children \in Seq(N) /\ f.allocations \in Seq(N)
  BY DEF Frames, Holds
<1>3. Sound(a, u, l)
  <2>1. LeqUsage(f.before, u)
    BY DEF Holds
  <2>2. SpansSubtree(a)
    <3> HIDE DEF a
    <3> QED BY <1>1, <2>1 DEF SpansSubtree, Chained
  <2> HIDE DEF a
  <2> QED BY <1>1, <1>2, <2>2 DEF Sound
<1>4. /\ g.before = f.before /\ g.todo = Tail(f.todo)
      /\ g.children = Append(f.children, c) /\ g.allocations = Append(f.allocations, a)
  BY DEF Closed, Frames
<1>5. PICK M : M = N \cup {a, c}
  OBVIOUS
<1>6. PICK S : S = R \cup {<<a, c>>}
  OBVIOUS
<1> HIDE DEF a
<1>7. Faithful(M, S, u, l)
  BY <1>1, <1>3, <1>5, <1>6, NewPair
<1>8. N \subseteq M /\ R \subseteq S /\ a \in M /\ c \in M /\ <<a, c>> \in S
  BY <1>5, <1>6
<1>9. Twins(M, S, g.allocations, g.children)
  <2>1. Twins(M, S, f.allocations, f.children)
    BY <1>8, TwinsGrow DEF FrameOK
  <2> HIDE DEF g
  <2> QED BY <1>4, <1>8, <2>1, TwinsAppend
<1>10. g \in Frames(M)
  <2>1. Tail(f.todo) \in Seq(Entries)
    BY <1>2
  <2>2. Append(f.children, c) \in Seq(M) /\ Append(f.allocations, a) \in Seq(M)
    BY <1>4, <1>9 DEF Twins
  <2>3. f \in [depth : Nat, class : Classes \cup {None}, todo : Seq(Entries),
               children : Seq(N), allocations : Seq(N), before : Usages]
    BY DEF Frames
  <2>4. g = [f EXCEPT !.todo = Tail(f.todo), !.children = Append(f.children, c),
                      !.allocations = Append(f.allocations, a)]
    BY DEF Closed, a
  <2> HIDE DEF g
  <2>5. g \in [depth : Nat, class : Classes \cup {None}, todo : Seq(Entries),
               children : Seq(M), allocations : Seq(M), before : Usages]
    BY ONLY <2>1, <2>2, <2>3, <2>4
  <2> QED BY <2>5 DEF Frames
<1>11. Chained(base, g.allocations, u)
  <2>1. Chained(base, f.allocations, u)
    BY DEF FrameOK
  <2>2. LeqUsage(u, u)
    BY LeqReflexive
  <2>3. LeqUsage(IF f.allocations = <<>> THEN base
                 ELSE f.allocations[Len(f.allocations)].after, a.before)
    BY <1>1 DEF Holds, LastAfter
  <2> HIDE DEF g
  <2> QED BY <1>1, <1>2, <1>4, <2>1, <2>2, <2>3, ChainAppend
<1>12. FrameOK(g, base, M, S, u)
  <2> HIDE DEF g
  <2> QED BY <1>9, <1>11 DEF FrameOK
<1> QED BY <1>4, <1>7, <1>8, <1>10, <1>12

-----------------------------------------------------------------------------
(* The stack.                                                              *)

Running == {"decode", "members", "leaf"}

LEMMA StackParts ==
  ASSUME NEW st, NEW ph, NEW N, NEW R, NEW u, StackOK(st, ph, N, R, u)
  PROVE  /\ st \in Seq(Frames(N)) /\ Len(st) \in Nat
         /\ st # <<>> <=> ph \in Running
         /\ st # <<>> <=> Len(st) > 0
         /\ st # <<>> => Len(st) \in 1..Len(st)
         /\ \A i \in 1..Len(st) : st[i] \in Frames(N) /\ st[i].before \in Usages
         /\ \A i \in 1..Len(st) : FrameOK(st[i], Base(st, i), N, R, u)
         /\ \A i \in 1..Len(st) : i < Len(st) \/ ph = "leaf" => Holds(st[i], Base(st, i), u)
<1>1. st \in Seq(Frames(N)) /\ (st # <<>> <=> ph \in Running)
  BY DEF StackOK, Running
<1>2. /\ Len(st) \in Nat /\ (st # <<>> <=> Len(st) > 0)
      /\ (st # <<>> => Len(st) \in 1..Len(st)) /\ \A i \in 1..Len(st) : st[i] \in Frames(N)
  BY <1>1
<1>3. \A i \in 1..Len(st) : st[i].before \in Usages
  BY <1>2 DEF Frames
<1> QED BY <1>1, <1>2, <1>3 DEF StackOK

LEMMA ReplaceTop ==
  ASSUME NEW st, NEW ph, NEW N, NEW R, NEW u, StackOK(st, ph, N, R, u), st # <<>>,
         NEW g \in Frames(N), FrameOK(g, Base(st, Len(st)), N, R, u),
         NEW q \in Running, q = "leaf" => Holds(g, Base(st, Len(st)), u)
  PROVE  StackOK([st EXCEPT ![Len(st)] = g], q, N, R, u)
<1>1. PICK t : t = [st EXCEPT ![Len(st)] = g]
  OBVIOUS
<1>2. PICK n \in Nat : n = Len(st)
  BY StackParts
<1>3. /\ st \in Seq(Frames(N)) /\ n \in 1..n
      /\ \A i \in 1..n : FrameOK(st[i], Base(st, i), N, R, u)
      /\ \A i \in 1..n : i < n \/ ph = "leaf" => Holds(st[i], Base(st, i), u)
  BY <1>2, StackParts
<1>4. /\ t \in Seq(Frames(N)) /\ Len(t) = n /\ t[n] = g
      /\ \A i \in 1..n : i # n => t[i] = st[i]
  BY <1>1, <1>2, <1>3
<1>5. ASSUME NEW i \in 1..n PROVE Base(t, i) = Base(st, i)
  <2>1. i # 1 => i - 1 \in 1..n /\ i - 1 # n
    OBVIOUS
  <2> QED BY <2>1, <1>4 DEF Base
<1>6. ASSUME NEW i \in 1..Len(t)
      PROVE  /\ FrameOK(t[i], Base(t, i), N, R, u)
             /\ i < Len(t) \/ q = "leaf" => Holds(t[i], Base(t, i), u)
  <2>1. i \in 1..n /\ Base(t, i) = Base(st, i)
    BY <1>4, <1>5
  <2>2. CASE i = n
    BY <1>2, <1>4, <2>1, <2>2
  <2>3. CASE i # n
    <3>1. i < n /\ t[i] = st[i]
      BY <1>4, <2>1, <2>3
    <3> QED BY <1>3, <2>1, <3>1
  <2> QED BY <2>2, <2>3
<1>7. t # <<>>
  BY <1>3, <1>4
<1>8. StackOK(t, q, N, R, u)
  BY <1>4, <1>6, <1>7 DEF StackOK, Running
<1> QED BY <1>1, <1>8

(* The current member is closed.                                           *)
LEMMA CloseTop ==
  ASSUME NEW st, NEW N, NEW R, NEW u \in Usages, NEW l, Faithful(N, R, u, l),
         StackOK(st, "leaf", N, R, u),
         NEW c, NEW inner, Twins(N, R, inner, c.children),
         Chained(st[Len(st)].before, inner, u), Exhausted(c.axis, u, l)
  PROVE  \E M, S : /\ N \subseteq M /\ R \subseteq S /\ Faithful(M, S, u, l)
                   /\ StackOK([st EXCEPT ![Len(st)] = Closed(st[Len(st)], c, inner, u)],
                              "members", M, S, u)
<1>1. st # <<>>
  BY StackParts DEF Running
<1>2. PICK f : f = st[Len(st)]
  OBVIOUS
<1>3. f \in Frames(N) /\ FrameOK(f, Base(st, Len(st)), N, R, u) /\ Holds(f, Base(st, Len(st)), u)
  BY <1>1, <1>2, StackParts
<1>4. PICK M, S : /\ N \subseteq M /\ R \subseteq S /\ Faithful(M, S, u, l)
                  /\ Closed(f, c, inner, u) \in Frames(M)
                  /\ FrameOK(Closed(f, c, inner, u), Base(st, Len(st)), M, S, u)
  BY <1>2, <1>3, ClosedFrame
<1>5. StackOK(st, "leaf", M, S, u)
  BY <1>4, StackGrows
<1>6. StackOK([st EXCEPT ![Len(st)] = Closed(f, c, inner, u)], "members", M, S, u)
  BY <1>1, <1>4, <1>5, ReplaceTop DEF Running
<1> QED BY <1>2, <1>4, <1>6

(* The next member is begun.                                               *)
LEMMA OpenMember ==
  ASSUME NEW st, NEW N, NEW R, NEW u \in Usages, StackOK(st, "members", N, R, u),
         st[Len(st)].todo # <<>>
  PROVE  StackOK([st EXCEPT ![Len(st)] = [st[Len(st)] EXCEPT !.before = u]],
                 "leaf", N, R, u)
<1>1. st # <<>>
  BY StackParts DEF Running
<1>2. PICK f : f = st[Len(st)]
  OBVIOUS
<1>3. f \in Frames(N) /\ FrameOK(f, Base(st, Len(st)), N, R, u)
  BY <1>1, <1>2, StackParts
<1>4. PICK g : g = [f EXCEPT !.before = u]
  OBVIOUS
<1>5. /\ g \in Frames(N) /\ g.before = u /\ g.todo = f.todo
      /\ g.allocations = f.allocations /\ g.children = f.children
  BY <1>3, <1>4 DEF Frames
<1>6. FrameOK(g, Base(st, Len(st)), N, R, u)
  BY <1>3, <1>5 DEF FrameOK
<1>7. LeqUsage(LastAfter(f, Base(st, Len(st))), u)
  <2>1. CASE f.allocations = <<>>
    BY <1>3, <2>1 DEF LastAfter, FrameOK
  <2>2. CASE f.allocations # <<>>
    <3>1. f.allocations \in Seq(N)
      BY <1>3 DEF Frames
    <3>2. Len(f.allocations) \in 1..Len(f.allocations)
      BY <2>2, <3>1
    <3> QED BY <1>3, <2>2, <3>2 DEF LastAfter, FrameOK, Chained
  <2> QED BY <2>1, <2>2
<1>8. Holds(g, Base(st, Len(st)), u)
  <2>1. LeqUsage(u, u)
    BY LeqReflexive
  <2> QED BY <1>2, <1>5, <1>7, <2>1 DEF Holds, LastAfter
<1>9. StackOK([st EXCEPT ![Len(st)] = g], "leaf", N, R, u)
  BY <1>1, <1>5, <1>6, <1>8, ReplaceTop DEF Running
<1> QED BY <1>2, <1>4, <1>9

(* The current member is a container.                                      *)
LEMMA PushFrame ==
  ASSUME NEW st, NEW N, NEW R, NEW u \in Usages, StackOK(st, "leaf", N, R, u),
         NEW g \in Frames(N), g.allocations = <<>>, g.children = <<>>
  PROVE  StackOK(Append(st, g), "decode", N, R, u)
<1>1. PICK t : t = Append(st, g)
  OBVIOUS
<1>2. PICK n \in Nat : n = Len(st)
  BY StackParts
<1>3. /\ st \in Seq(Frames(N)) /\ n \in 1..n /\ st[n].before \in Usages
      /\ \A i \in 1..n : FrameOK(st[i], Base(st, i), N, R, u)
      /\ \A i \in 1..n : Holds(st[i], Base(st, i), u)
  <2>1. st # <<>>
    BY StackParts DEF Running
  <2> QED BY <1>2, <2>1, StackParts
<1>4. /\ t \in Seq(Frames(N)) /\ Len(t) = n + 1 /\ t[n + 1] = g
      /\ \A i \in 1..n : t[i] = st[i]
  BY <1>1, <1>2, <1>3, AppendIs
<1>5. ASSUME NEW i \in 1..n PROVE Base(t, i) = Base(st, i)
  <2>1. i # 1 => i - 1 \in 1..n
    OBVIOUS
  <2> QED BY <2>1, <1>4 DEF Base
<1>6. Base(t, n + 1) = st[n].before
  <2>1. n + 1 # 1 /\ (n + 1) - 1 = n
    BY <1>3
  <2> QED BY <1>3, <1>4, <2>1 DEF Base
<1>7. FrameOK(g, st[n].before, N, R, u)
  <2>1. LeqUsage(st[n].before, u)
    BY <1>3 DEF Holds
  <2>2. Twins(N, R, <<>>, <<>>) /\ Chained(st[n].before, <<>>, u)
    BY DEF Twins, Chained
  <2> QED BY <1>3, <2>1, <2>2 DEF FrameOK
<1>8. ASSUME NEW i \in 1..Len(t)
      PROVE  /\ FrameOK(t[i], Base(t, i), N, R, u)
             /\ i < Len(t) \/ "decode" = "leaf" => Holds(t[i], Base(t, i), u)
  <2>1. CASE i = n + 1
    BY <1>4, <1>6, <1>7, <2>1
  <2>2. CASE i # n + 1
    <3>1. i \in 1..n
      BY <1>4, <2>2
    <3> QED BY <1>3, <1>4, <1>5, <3>1
  <2> QED BY <2>1, <2>2
<1>9. t # <<>>
  BY <1>4
<1>10. StackOK(t, "decode", N, R, u)
  BY <1>4, <1>8, <1>9 DEF StackOK
<1> QED BY <1>1, <1>10

(* The innermost frame is dropped, and its container is again the current  *)
(* member of the frame around it.                                          *)
LEMMA PopFrame ==
  ASSUME NEW st, NEW ph, NEW N, NEW R, NEW u, StackOK(st, ph, N, R, u), st # <<>>,
         Len(st) # 1
  PROVE  /\ StackOK(SubSeq(st, 1, Len(st) - 1), "leaf", N, R, u)
         /\ Len(SubSeq(st, 1, Len(st) - 1)) = Len(st) - 1
         /\ SubSeq(st, 1, Len(st) - 1)[Len(st) - 1].before = Base(st, Len(st))
<1>1. PICK t : t = SubSeq(st, 1, Len(st) - 1)
  OBVIOUS
<1>2. PICK n \in Nat : n = Len(st)
  BY StackParts
<1>3. /\ st \in Seq(Frames(N)) /\ n > 1
      /\ \A i \in 1..n : FrameOK(st[i], Base(st, i), N, R, u)
      /\ \A i \in 1..n : i < n => Holds(st[i], Base(st, i), u)
  BY <1>2, StackParts
<1>4. /\ t \in Seq(Frames(N)) /\ Len(t) = n - 1
      /\ \A i \in 1..(n - 1) : t[i] = st[i]
  BY <1>1, <1>2, <1>3
<1>5. ASSUME NEW i \in 1..(n - 1) PROVE Base(t, i) = Base(st, i)
  <2>1. i # 1 => i - 1 \in 1..(n - 1)
    OBVIOUS
  <2> QED BY <2>1, <1>4 DEF Base
<1>6. ASSUME NEW i \in 1..Len(t)
      PROVE  /\ FrameOK(t[i], Base(t, i), N, R, u)
             /\ i < Len(t) \/ "leaf" = "leaf" => Holds(t[i], Base(t, i), u)
  <2>1. i \in 1..(n - 1) /\ i \in 1..n /\ i < n
    BY <1>4
  <2> QED BY <1>3, <1>4, <1>5, <2>1
<1>7. t # <<>> /\ n - 1 \in 1..(n - 1) /\ n # 1
  BY <1>3, <1>4
<1>8. StackOK(t, "leaf", N, R, u)
  BY <1>4, <1>6, <1>7 DEF StackOK
<1>9. t[n - 1].before = Base(st, n)
  BY <1>4, <1>7 DEF Base
<1> QED BY <1>1, <1>2, <1>4, <1>8, <1>9

-----------------------------------------------------------------------------
(* The steps.                                                              *)

LEMMA ChildIs ==
  ASSUME NEW status, NEW axis, NEW children
  PROVE  Child(status, axis, children).children = children
         /\ Child(status, axis, children).axis = axis
BY DEF Child

LEMMA LeafIs ==
  ASSUME NEW envelope, NEW axis
  PROVE  Leaf(envelope, axis).children = <<>> /\ Leaf(envelope, axis).axis = axis
BY DEF Leaf, Child

LEMMA NoneIsExhausted ==
  \A u, l : Exhausted(None, u, l)
BY DEF Exhausted

LEMMA StopIsExhausted ==
  ASSUME TypeInv, Stopped
  PROVE  \A u : Exhausted(StoppedAxis, u, late)
BY DEF Exhausted, StoppedAxis, Stopped, TypeInv

LEMMA EmptyIsFine ==
  ASSUME NEW N, NEW R, NEW base, NEW u
  PROVE  Twins(N, R, <<>>, <<>>) /\ Chained(base, <<>>, u)
BY DEF Twins, Chained

(* What holds before a step holds of the usage after it.                   *)
LEMMA Grown ==
  ASSUME TypeInv, AuditInv, usage' \in Usages, \A a \in Axes : usage[a] <= usage'[a],
         late => late'
  PROVE  \E N, R : /\ Faithful(N, R, usage', late')
                   /\ StackOK(stack, phase, N, R, usage')
                   /\ (phase = "done" => usage' = usage) =>
                        ResultOK(result, phase, N, R, usage', late')
<1>1. PICK N, R : /\ Faithful(N, R, usage, late)
                  /\ StackOK(stack, phase, N, R, usage)
                  /\ ResultOK(result, phase, N, R, usage, late)
  BY DEF AuditInv
<1>2. usage \in Usages
  BY DEF TypeInv
<1>3. LeqUsage(usage, usage')
  BY DEF LeqUsage
<1>4. Faithful(N, R, usage', late')
  BY <1>1, <1>2, <1>3, FaithfulStays
<1>5. StackOK(stack, phase, N, R, usage')
  BY <1>1, <1>2, <1>3, StackStays
<1>6. (phase = "done" => usage' = usage) => ResultOK(result, phase, N, R, usage', late')
  BY <1>1, <1>2, <1>3, ResultStays
<1> QED BY <1>4, <1>5, <1>6

LEMMA RunningResult ==
  ASSUME NEW r, NEW ph \in Running, NEW N, NEW R, NEW u, NEW l
  PROVE  ResultOK(r, ph, N, R, u, l)
BY DEF ResultOK, Running

(* A result without members.                                               *)
LEMMA BareResult ==
  ASSUME NEW N, NEW R, NEW status, NEW axis, usage' \in Usages,
         Exhausted(axis, usage', late'), NEW ph
  PROVE  ResultOK(Result(status, <<>>, axis, <<>>), ph, N, R, usage', late')
<1> DEFINE r == Result(status, <<>>, axis, <<>>)
<1>1. /\ r.children = <<>> /\ r.root.children = <<>> /\ r.root.before = Unused
      /\ r.root.after = usage' /\ r.root.hit = axis /\ Whole(r)
  BY DEF Result, Audit, Whole
<1> HIDE DEF r
<1>2. Twins(N, R, r.root.children, r.children) /\ Chained(Unused, r.root.children, usage')
  BY <1>1, EmptyIsFine
<1>3. ResultOK(r, ph, N, R, usage', late')
  BY <1>1, <1>2 DEF ResultOK
<1> QED BY <1>3 DEF r

LEMMA FrameFailsKeeps ==
  ASSUME NEW N, NEW R, usage' \in Usages, Faithful(N, R, usage', late'),
         NEW ph \in Running, StackOK(stack, ph, N, R, usage'),
         NEW status, NEW axis, Exhausted(axis, usage', late'), FrameFails(status, axis)
  PROVE  AuditInv'
<1>1. stack # <<>>
  BY StackParts
<1>2. CASE Len(stack) = 1
  <2>1. PICK s : /\ result' = Result(s, <<>>, axis, <<>>)
                 /\ stack' = <<>> /\ phase' = "output"
    BY <1>2 DEF FrameFails
  <2>2. ResultOK(result', phase', N, R, usage', late')
    BY <2>1, BareResult
  <2>3. StackOK(stack', phase', N, R, usage')
    <3>1. <<>> \in Seq(Frames(N)) /\ Len(<<>>) = 0
      OBVIOUS
    <3> QED BY <2>1, <3>1 DEF StackOK
  <2> QED BY <2>2, <2>3 DEF AuditInv
<1>3. CASE Len(stack) # 1
  <2>1. PICK st : st = Outer
    OBVIOUS
  <2>2. StackOK(st, "leaf", N, R, usage') /\ Len(st) = Len(stack) - 1
    BY <1>1, <1>3, <2>1, PopFrame DEF Outer
  <2>3. PICK c : c = Child(status, axis, <<>>)
    OBVIOUS
  <2>4. c.children = <<>> /\ c.axis = axis
    BY <2>3, ChildIs
  <2>5. /\ stack' = [st EXCEPT ![Len(st)] = Closed(st[Len(st)], c, <<>>, usage')]
        /\ phase' = "members"
    BY <1>3, <2>1, <2>2, <2>3 DEF FrameFails
  <2>6. PICK M, S : /\ Faithful(M, S, usage', late')
                    /\ StackOK(stack', "members", M, S, usage')
    <3>1. Twins(N, R, <<>>, c.children) /\ Chained(st[Len(st)].before, <<>>, usage')
      BY <2>4, EmptyIsFine
    <3>2. Exhausted(c.axis, usage', late')
      BY <2>4
    <3>3. PICK u \in Usages : u = usage'
      OBVIOUS
    <3>4. PICK l : l = late'
      OBVIOUS
    <3>5. \E M, S : /\ N \subseteq M /\ R \subseteq S /\ Faithful(M, S, u, l)
                    /\ StackOK([st EXCEPT ![Len(st)] = Closed(st[Len(st)], c, <<>>, u)],
                               "members", M, S, u)
      BY <2>2, <3>1, <3>2, <3>3, <3>4, CloseTop
    <3> QED BY <2>5, <3>3, <3>4, <3>5
  <2>7. ResultOK(result', phase', M, S, usage', late')
    BY <2>5, RunningResult DEF Running
  <2> QED BY <2>5, <2>6, <2>7 DEF AuditInv
<1> QED BY <1>2, <1>3

WithTop(st, x) == [st EXCEPT ![Len(st)] = x]

(* st is the stack with the current member begun.                          *)
LEMMA CloseMemberKeeps ==
  ASSUME NEW N, NEW R, usage' \in Usages, Faithful(N, R, usage', late'),
         NEW st, StackOK(st, "leaf", N, R, usage'),
         NEW f, f = st[Len(st)], NEW c, c.children = <<>>, Exhausted(c.axis, usage', late'),
         \A x : WithTop(stack, x) = WithTop(st, x),
         CloseMember(f, c)
  PROVE  AuditInv'
<1>1. /\ stack' = [st EXCEPT ![Len(st)] = Closed(st[Len(st)], c, <<>>, usage')]
      /\ phase' = "members"
  <2>1. PICK x : x = Closed(st[Len(st)], c, <<>>, usage')
    OBVIOUS
  <2>2. stack' = WithTop(stack, x) /\ phase' = "members"
    BY <2>1 DEF CloseMember, WithTop
  <2>3. WithTop(stack, x) = WithTop(st, x)
    OBVIOUS
  <2> QED BY <2>1, <2>2, <2>3 DEF WithTop
<1>2. PICK M, S : /\ Faithful(M, S, usage', late')
                  /\ StackOK(stack', "members", M, S, usage')
  <2>1. Twins(N, R, <<>>, c.children) /\ Chained(st[Len(st)].before, <<>>, usage')
    BY EmptyIsFine
  <2>2. PICK u \in Usages : u = usage'
    OBVIOUS
  <2>3. PICK l : l = late'
    OBVIOUS
  <2>4. \E M, S : /\ N \subseteq M /\ R \subseteq S /\ Faithful(M, S, u, l)
                  /\ StackOK([st EXCEPT ![Len(st)] = Closed(st[Len(st)], c, <<>>, u)],
                             "members", M, S, u)
    BY <2>1, <2>2, <2>3, CloseTop
  <2> QED BY <1>1, <2>2, <2>3, <2>4
<1>3. ResultOK(result', phase', M, S, usage', late')
  BY <1>1, RunningResult DEF Running
<1> QED BY <1>1, <1>2, <1>3 DEF AuditInv

LEMMA QuietStep ==
  ASSUME TypeInv, LimitInv, usage' \in Usages, \A a \in Axes : usage[a] <= usage'[a],
         expanded' \in Nat, expanded <= expanded', UNCHANGED <<admitted, rootBytes>>,
         late' \in BOOLEAN, cancelled' \in BOOLEAN, discovered' \in Nat
  PROVE  TypeInv' /\ LimitInv'
<1>1. LimitInv'
  BY LimitStays
<1>2. rootBytes' \in Nat
  BY DEF TypeInv
<1> QED BY <1>1, <1>2 DEF TypeInv

LEMMA SameUsage ==
  ASSUME TypeInv, usage' = usage
  PROVE  usage' \in Usages /\ \A a \in Axes : usage[a] <= usage'[a]
BY DEF TypeInv, Usages

LEMMA StopKeeps ==
  ASSUME TraversalInv, Cancel \/ Deadline
  PROVE  TraversalInv'
<1>1. /\ usage' = usage /\ expanded' = expanded /\ UNCHANGED <<admitted, rootBytes>>
      /\ late' \in BOOLEAN /\ cancelled' \in BOOLEAN /\ discovered' = discovered
      /\ stack' = stack /\ phase' = phase /\ result' = result /\ (late => late')
  BY DEF Cancel, Deadline, TraversalInv, TypeInv, request
<1>2. usage' \in Usages /\ \A a \in Axes : usage[a] <= usage'[a]
  BY <1>1, SameUsage DEF TraversalInv
<1>3. expanded \in Nat /\ discovered \in Nat /\ expanded <= expanded
  BY DEF TraversalInv, LimitInv, TypeInv
<1>4. TypeInv' /\ LimitInv'
  BY <1>1, <1>2, <1>3, QuietStep DEF TraversalInv
<1>5. PICK N, R : /\ Faithful(N, R, usage', late')
                  /\ StackOK(stack, phase, N, R, usage')
                  /\ ResultOK(result, phase, N, R, usage', late')
  BY <1>1, <1>2, Grown DEF TraversalInv
<1>6. AuditInv'
  BY <1>1, <1>5 DEF AuditInv
<1> QED BY <1>4, <1>6 DEF TraversalInv

LEMMA RefuseKeeps ==
  ASSUME TraversalInv, Refuse
  PROVE  TraversalInv'
<1>1. /\ usage' = usage /\ expanded' = expanded /\ UNCHANGED <<admitted, rootBytes>>
      /\ late' = late /\ cancelled' = cancelled /\ discovered' = discovered
      /\ stack' = stack /\ phase = "submitted" /\ phase' = "refused" /\ result' = result
  BY DEF Refuse, request
<1>2. usage' \in Usages /\ \A a \in Axes : usage[a] <= usage'[a]
  BY <1>1, SameUsage DEF TraversalInv
<1>3. /\ expanded \in Nat /\ discovered \in Nat /\ expanded <= expanded
      /\ late \in BOOLEAN /\ cancelled \in BOOLEAN
  BY DEF TraversalInv, LimitInv, TypeInv
<1>4. TypeInv' /\ LimitInv'
  BY <1>1, <1>2, <1>3, QuietStep DEF TraversalInv
<1>5. PICK N, R : Faithful(N, R, usage', late') /\ StackOK(stack, phase, N, R, usage')
  BY <1>1, <1>2, Grown DEF TraversalInv
<1>6. StackOK(stack', phase', N, R, usage')
  BY <1>1, <1>5 DEF StackOK
<1>7. ResultOK(result', phase', N, R, usage', late')
  BY <1>1 DEF ResultOK
<1>8. AuditInv'
  BY <1>5, <1>6, <1>7 DEF AuditInv
<1> QED BY <1>4, <1>8 DEF TraversalInv

LEMMA BeginCharges ==
  ASSUME rootBytes \in Nat
  PROVE  <<<<"nesting_depth", 0>>, <<"memory_bytes", rootBytes>>,
           <<"input_bytes", rootBytes>>>> \in Charge
<1>1. PICK p \in Axes \X Nat : p = <<"nesting_depth", 0>>
  BY DEF Axes, PeakAxes
<1>2. PICK q \in Axes \X Nat : q = <<"memory_bytes", rootBytes>>
  BY DEF Axes, PeakAxes
<1>3. PICK r \in Axes \X Nat : r = <<"input_bytes", rootBytes>>
  BY DEF Axes, SumAxes
<1>4. <<p, q, r>> \in Seq(Axes \X Nat)
  OBVIOUS
<1> QED BY <1>1, <1>2, <1>3, <1>4 DEF Charge

LEMMA BeginKeeps ==
  ASSUME TraversalInv, Begin
  PROVE  TraversalInv'
<1> DEFINE s == Spend(<<<<"nesting_depth", 0>>, <<"memory_bytes", rootBytes>>,
                        <<"input_bytes", rootBytes>>>>)
           axis == IF Stopped THEN StoppedAxis ELSE s.axis
<1>1. /\ expanded' = expanded /\ UNCHANGED <<admitted, rootBytes>>
      /\ late' = late /\ cancelled' = cancelled /\ discovered' = discovered
      /\ phase = "submitted" /\ usage' = IF Stopped THEN usage ELSE s.usage
      /\ \/ /\ Stopped \/ s.axis # None
            /\ result' = Result(IF cancelled THEN "cancelled" ELSE "failed", <<>>, axis, <<>>)
            /\ phase' = "done" /\ stack' = stack
         \/ stack' = <<Frame(0)>> /\ phase' = "decode" /\ result' = result
  BY DEF Begin, request
<1>2. /\ expanded \in Nat /\ discovered \in Nat /\ expanded <= expanded
      /\ late \in BOOLEAN /\ cancelled \in BOOLEAN /\ rootBytes \in Nat /\ usage \in Usages
  BY DEF TraversalInv, LimitInv, TypeInv
<1>3. /\ s.usage \in Usages /\ \A a \in Axes : usage[a] <= s.usage[a]
      /\ s.axis = None \/ \A l : Exhausted(s.axis, s.usage, l)
  BY <1>2, BeginCharges, SpendGrows
<1> HIDE DEF s
<1>4. usage' \in Usages /\ \A a \in Axes : usage[a] <= usage'[a]
  BY <1>1, <1>3, SameUsage DEF TraversalInv
<1>5. TypeInv' /\ LimitInv'
  BY <1>1, <1>2, <1>4, QuietStep DEF TraversalInv
<1>6. PICK N, R : Faithful(N, R, usage', late') /\ StackOK(stack, phase, N, R, usage')
  BY <1>1, <1>4, Grown DEF TraversalInv
<1>7. CASE /\ Stopped \/ s.axis # None
           /\ result' = Result(IF cancelled THEN "cancelled" ELSE "failed", <<>>, axis, <<>>)
           /\ phase' = "done" /\ stack' = stack
  <2>1. Exhausted(axis, usage', late')
    <3>1. CASE Stopped
      BY <1>1, <3>1, StopIsExhausted DEF TraversalInv
    <3>2. CASE ~ Stopped
      BY <1>1, <1>3, <1>7, <3>2
    <3> QED BY <3>1, <3>2
  <2>2. ResultOK(result', phase', N, R, usage', late')
    <3> HIDE DEF axis
    <3> QED BY <1>4, <1>7, <2>1, BareResult
  <2>3. StackOK(stack', phase', N, R, usage')
    BY <1>1, <1>6, <1>7 DEF StackOK
  <2> QED BY <1>5, <1>6, <2>2, <2>3 DEF AuditInv, TraversalInv
<1>8. CASE stack' = <<Frame(0)>> /\ phase' = "decode" /\ result' = result
  <2>1. PICK g : g = Frame(0)
    OBVIOUS
  <2>2. g \in Frames(N) /\ g.allocations = <<>> /\ g.children = <<>>
    <3>1. <<>> \in Seq(N) /\ <<>> \in Seq(Entries) /\ 0 \in Nat
      OBVIOUS
    <3> QED BY <1>2, <2>1, <3>1 DEF Frame, Frames
  <2>3. FrameOK(g, Unused, N, R, usage')
    BY <1>4, <2>2, UnusedIsLeast, EmptyIsFine DEF FrameOK
  <2>4. StackOK(<<g>>, "decode", N, R, usage')
    <3>1. <<g>> \in Seq(Frames(N)) /\ Len(<<g>>) = 1 /\ <<g>>[1] = g /\ <<g>> # <<>>
      BY <2>2
    <3>2. Base(<<g>>, 1) = Unused
      BY DEF Base
    <3>3. ASSUME NEW i \in 1..Len(<<g>>)
          PROVE  /\ FrameOK(<<g>>[i], Base(<<g>>, i), N, R, usage')
                 /\ i < Len(<<g>>) \/ "decode" = "leaf" =>
                      Holds(<<g>>[i], Base(<<g>>, i), usage')
      <4>1. i = 1
        BY <3>1
      <4> QED BY <2>3, <3>1, <3>2, <4>1
    <3> QED BY <3>1, <3>3 DEF StackOK
  <2>5. ResultOK(result', phase', N, R, usage', late')
    BY <1>8, RunningResult DEF Running
  <2> QED BY <1>5, <1>6, <1>8, <2>1, <2>4, <2>5 DEF AuditInv, TraversalInv
<1> QED BY <1>1, <1>7, <1>8

(* A step that may fail the frame, and nothing else but charges.           *)
LEMMA FailingStep ==
  ASSUME TraversalInv, usage' \in Usages, \A a \in Axes : usage[a] <= usage'[a],
         expanded' \in Nat, expanded <= expanded',
         UNCHANGED <<request, admitted, cancelled, late, discovered>>, phase \in Running,
         NEW status, NEW axis, Exhausted(axis, usage', late'),
         FrameFails(status, axis) \/ UNCHANGED <<stack, phase, result>>
  PROVE  TraversalInv'
<1>1. /\ late \in BOOLEAN /\ cancelled \in BOOLEAN /\ discovered \in Nat
      /\ late' = late /\ cancelled' = cancelled /\ discovered' = discovered
      /\ UNCHANGED <<admitted, rootBytes>>
  BY DEF TraversalInv, TypeInv, request
<1>2. TypeInv' /\ LimitInv'
  BY <1>1, QuietStep DEF TraversalInv
<1>3. PICK N, R : Faithful(N, R, usage', late') /\ StackOK(stack, phase, N, R, usage')
  BY <1>1, Grown DEF TraversalInv
<1>4. CASE FrameFails(status, axis)
  <2>1. AuditInv'
    BY <1>3, <1>4, FrameFailsKeeps
  <2> QED BY <1>2, <2>1 DEF TraversalInv
<1>5. CASE UNCHANGED <<stack, phase, result>>
  <2>1. StackOK(stack', phase', N, R, usage') /\ ResultOK(result', phase', N, R, usage', late')
    BY <1>3, <1>5, RunningResult
  <2> QED BY <1>2, <1>3, <2>1 DEF AuditInv, TraversalInv
<1> QED BY <1>4, <1>5

LEMMA DecodeFailsKeeps ==
  ASSUME TraversalInv, DecodeFails
  PROVE  TraversalInv'
<1>1. /\ usage' = usage /\ expanded' = expanded /\ phase \in Running
      /\ UNCHANGED <<request, admitted, cancelled, late, discovered>>
  BY DEF DecodeFails, Running
<1>2. usage' \in Usages /\ \A a \in Axes : usage[a] <= usage'[a]
  BY <1>1, SameUsage DEF TraversalInv
<1>3. expanded \in Nat /\ expanded <= expanded /\ late' = late
  BY <1>1 DEF TraversalInv, LimitInv
<1>4. PICK status, axis : /\ FrameFails(status, axis)
                          /\ axis = None \/ (Stopped /\ axis = StoppedAxis)
  BY DEF DecodeFails
<1>5. Exhausted(axis, usage', late')
  BY <1>3, <1>4, NoneIsExhausted, StopIsExhausted DEF TraversalInv
<1> QED BY <1>1, <1>2, <1>3, <1>4, <1>5, FailingStep

LEMMA CheckCapacityKeeps ==
  ASSUME TraversalInv, CheckCapacity
  PROVE  TraversalInv'
<1>1. PICK n \in Declared :
        /\ usage' = Spend(<<<<"memory_bytes", n>>>>).usage
        /\ IF Spend(<<<<"memory_bytes", n>>>>).axis # None
           THEN FrameFails("budget_limited", Spend(<<<<"memory_bytes", n>>>>).axis)
           ELSE UNCHANGED <<stack, phase, result>>
  BY DEF CheckCapacity
<1>2. /\ expanded' = expanded /\ phase \in Running
      /\ UNCHANGED <<request, admitted, cancelled, late, discovered>>
  BY DEF CheckCapacity, Running
<1>3. expanded \in Nat /\ expanded <= expanded /\ usage \in Usages
  BY DEF TraversalInv, LimitInv, TypeInv
<1>4. n \in Nat /\ "memory_bytes" \in Axes
  BY ContainerTraversalAssumption DEF Axes, PeakAxes
<1>5. PICK s : s = Spend(<<<<"memory_bytes", n>>>>)
  OBVIOUS
<1>6. /\ s.usage \in Usages /\ \A a \in Axes : usage[a] <= s.usage[a]
      /\ s.axis = None \/ \A l : Exhausted(s.axis, s.usage, l)
  BY <1>3, <1>4, <1>5, OneCharge, SpendGrows
<1>7. Exhausted(s.axis, usage', late')
  BY <1>1, <1>5, <1>6, NoneIsExhausted
<1>8. FrameFails("budget_limited", s.axis) \/ UNCHANGED <<stack, phase, result>>
  BY <1>1, <1>5
<1> QED BY <1>1, <1>2, <1>3, <1>5, <1>6, <1>7, <1>8, FailingStep

LEMMA CheckPreflightKeeps ==
  ASSUME TraversalInv, CheckPreflight
  PROVE  TraversalInv'
<1>1. PICK n \in Declared :
        LET s == Spend(<<<<"archive_expansion_ratio", n>>, <<"memory_bytes", n>>>>)
            counted == Within(Used(usage, "archive_members", n), "archive_members")
            axis == IF counted THEN s.axis ELSE "archive_members"
        IN  /\ usage' = IF counted THEN s.usage ELSE usage
            /\ IF axis # None THEN FrameFails("budget_limited", axis)
               ELSE UNCHANGED <<stack, phase, result>>
  BY DEF CheckPreflight
<1>2. /\ expanded' = expanded /\ phase \in Running
      /\ UNCHANGED <<request, admitted, cancelled, late, discovered>>
  BY DEF CheckPreflight, Running
<1>3. expanded \in Nat /\ expanded <= expanded /\ usage \in Usages
  BY DEF TraversalInv, LimitInv, TypeInv
<1>4. n \in Nat /\ "memory_bytes" \in Axes /\ "archive_expansion_ratio" \in Axes
  BY ContainerTraversalAssumption DEF Axes, PeakAxes
<1>5. PICK s : s = Spend(<<<<"archive_expansion_ratio", n>>, <<"memory_bytes", n>>>>)
  OBVIOUS
<1>6. /\ s.usage \in Usages /\ \A a \in Axes : usage[a] <= s.usage[a]
      /\ s.axis = None \/ \A l : Exhausted(s.axis, s.usage, l)
  BY <1>3, <1>4, <1>5, TwoCharges, SpendGrows
<1>7. PICK axis : /\ \/ axis = s.axis /\ usage' = s.usage
                     \/ axis = "archive_members" /\ usage' = usage
                  /\ FrameFails("budget_limited", axis) \/ UNCHANGED <<stack, phase, result>>
  BY <1>1, <1>5
<1>8. Exhausted("archive_members", usage', late')
  BY DEF Exhausted
<1>9. Exhausted(axis, usage', late')
  BY <1>6, <1>7, <1>8, NoneIsExhausted
<1>10. usage' \in Usages /\ \A a \in Axes : usage[a] <= usage'[a]
  <2>1. \A a \in Axes : usage[a] <= usage[a]
    BY <1>3 DEF Usages
  <2> QED BY <1>3, <1>6, <1>7, <2>1
<1> QED BY <1>2, <1>3, <1>7, <1>9, <1>10, FailingStep

LEMMA DecodeSucceedsKeeps ==
  ASSUME TraversalInv, DecodeSucceeds
  PROVE  TraversalInv'
<1>1. PICK class \in Classes, members \in Decodings :
        /\ stack' = [stack EXCEPT ![Len(stack)] = [stack[Len(stack)] EXCEPT
             !.class = class,
             !.todo = [i \in 1..Len(members) |->
                        [member |-> members[i], rejected |-> Rejected(class, members, i)]]]]
        /\ discovered' = discovered + Len(members)
  BY DEF DecodeSucceeds
<1>2. /\ usage' = usage /\ expanded' = expanded /\ phase = "decode" /\ phase' = "members"
      /\ UNCHANGED <<admitted, rootBytes>> /\ late' = late /\ cancelled' = cancelled
      /\ result' = result
  BY DEF DecodeSucceeds, request
<1>3. usage' \in Usages /\ \A a \in Axes : usage[a] <= usage'[a]
  BY <1>2, SameUsage DEF TraversalInv
<1>4. members \in Seq(Members) /\ Len(members) \in Nat
  BY ContainerTraversalAssumption
<1>5. /\ expanded \in Nat /\ expanded <= expanded /\ discovered' \in Nat
      /\ late \in BOOLEAN /\ cancelled \in BOOLEAN
  BY <1>1, <1>4 DEF TraversalInv, LimitInv, TypeInv
<1>6. TypeInv' /\ LimitInv'
  BY <1>2, <1>3, <1>5, QuietStep DEF TraversalInv
<1>7. PICK N, R : Faithful(N, R, usage', late') /\ StackOK(stack, phase, N, R, usage')
  BY <1>2, <1>3, Grown DEF TraversalInv
<1>8. PICK f : f = stack[Len(stack)]
  OBVIOUS
<1>9. /\ stack # <<>> /\ f \in Frames(N) /\ FrameOK(f, Base(stack, Len(stack)), N, R, usage')
  BY <1>2, <1>7, <1>8, StackParts DEF Running
<1>10. PICK todo : todo = [i \in 1..Len(members) |->
                            [member |-> members[i], rejected |-> Rejected(class, members, i)]]
  OBVIOUS
<1>11. todo \in Seq(Entries)
  <2>1. ASSUME NEW i \in 1..Len(members)
        PROVE  [member |-> members[i], rejected |-> Rejected(class, members, i)] \in Entries
    <3>1. members[i] \in Members
      BY <1>4
    <3>2. Rejected(class, members, i) \in BOOLEAN
      BY DEF Rejected
    <3> QED BY <3>1, <3>2 DEF Entries
  <2> QED BY <1>4, <1>10, <2>1
<1>12. PICK g : g = [f EXCEPT !.class = class, !.todo = todo]
  OBVIOUS
<1>13. /\ g \in Frames(N) /\ g.allocations = f.allocations /\ g.children = f.children
  BY <1>9, <1>11, <1>12 DEF Frames
<1>14. FrameOK(g, Base(stack, Len(stack)), N, R, usage')
  BY <1>9, <1>13 DEF FrameOK
<1>15. StackOK([stack EXCEPT ![Len(stack)] = g], "members", N, R, usage')
  BY <1>7, <1>9, <1>13, <1>14, ReplaceTop DEF Running
<1>16. stack' = [stack EXCEPT ![Len(stack)] = g]
  BY <1>1, <1>8, <1>10, <1>12
<1>17. ResultOK(result', phase', N, R, usage', late')
  BY <1>2, RunningResult DEF Running
<1> QED BY <1>2, <1>6, <1>7, <1>15, <1>16, <1>17 DEF AuditInv, TraversalInv

LEMMA BadLocatorKeeps ==
  ASSUME TraversalInv, BadLocator
  PROVE  TraversalInv'
<1>1. /\ usage' = usage /\ expanded' = expanded /\ phase \in Running
      /\ UNCHANGED <<request, admitted, cancelled, late, discovered>>
      /\ FrameFails("failed", None)
  BY DEF BadLocator, EntryNext, Running
<1>2. usage' \in Usages /\ \A a \in Axes : usage[a] <= usage'[a]
  BY <1>1, SameUsage DEF TraversalInv
<1>3. expanded \in Nat /\ expanded <= expanded
  BY DEF TraversalInv, LimitInv
<1> QED BY <1>1, <1>2, <1>3, NoneIsExhausted, FailingStep

(* The next member is begun at the usage before the step.                  *)
LEMMA Opened ==
  ASSUME TypeInv, AuditInv, EntryNext, usage' \in Usages,
         \A a \in Axes : usage[a] <= usage'[a], late' = late,
         NEW f, f = [Top EXCEPT !.before = usage],
         NEW st, st = WithTop(stack, f)
  PROVE  /\ Len(st) = Len(stack) /\ Len(stack) \in Nat
         /\ st[Len(st)] = f
         /\ \A x : WithTop(stack, x) = WithTop(st, x)
         /\ f.depth \in Nat /\ f.depth = Top.depth /\ f.class = Top.class
         /\ f.before = usage
         /\ Head(Top.todo) \in Entries
         /\ \E N, R : /\ Faithful(N, R, usage', late')
                      /\ StackOK(st, "leaf", N, R, usage')
<1>1. PICK N, R : Faithful(N, R, usage, late) /\ StackOK(stack, phase, N, R, usage)
  BY DEF AuditInv
<1>2. /\ phase = "members" /\ stack[Len(stack)].todo # <<>> /\ usage \in Usages
      /\ Top = stack[Len(stack)]
  BY DEF EntryNext, Top, TypeInv
<1>3. LeqUsage(usage, usage')
  BY DEF LeqUsage
<1>4. /\ stack \in Seq(Frames(N)) /\ Len(stack) \in Nat /\ Len(stack) \in 1..Len(stack)
      /\ Top \in Frames(N)
  BY <1>1, <1>2, StackParts DEF Running
<1>5. /\ Len(st) = Len(stack) /\ st[Len(st)] = f
      /\ \A x : WithTop(stack, x) = WithTop(st, x)
  BY <1>4 DEF WithTop
<1>6. /\ f.depth \in Nat /\ f.depth = Top.depth /\ f.class = Top.class /\ f.before = usage
      /\ Top.todo \in Seq(Entries)
  BY <1>2, <1>4 DEF Frames
<1>7. Head(Top.todo) \in Entries
  BY <1>2, <1>6
<1>8. Faithful(N, R, usage', late')
  BY <1>1, <1>2, <1>3, FaithfulStays
<1>9. StackOK(st, "leaf", N, R, usage)
  BY <1>1, <1>2, OpenMember DEF WithTop
<1>10. StackOK(st, "leaf", N, R, usage')
  BY <1>2, <1>3, <1>9, StackStays
<1> QED BY <1>4, <1>5, <1>6, <1>7, <1>8, <1>10

LEMMA MemberStoppedKeeps ==
  ASSUME TraversalInv, MemberStopped
  PROVE  TraversalInv'
<1>1. /\ usage' = usage /\ expanded' = expanded /\ late' = late /\ cancelled' = cancelled
      /\ discovered' = discovered /\ UNCHANGED <<admitted, rootBytes>>
      /\ EntryNext /\ Stopped
      /\ UNCHANGED request /\ CloseUnspent(Child(StoppedStatus, StoppedAxis, <<>>))
  BY DEF MemberStopped, request
<1>2. usage' \in Usages /\ \A a \in Axes : usage[a] <= usage'[a]
  BY <1>1, SameUsage DEF TraversalInv
<1>3. /\ expanded \in Nat /\ expanded <= expanded /\ discovered \in Nat
      /\ late \in BOOLEAN /\ cancelled \in BOOLEAN
  BY DEF TraversalInv, LimitInv, TypeInv
<1>13. CASE FrameFails("failed", None)
  <2>1. phase \in Running /\ Exhausted(None, usage', late')
    BY <1>1, NoneIsExhausted DEF EntryNext, Running
  <2>2. UNCHANGED <<request, admitted, cancelled, late, discovered>>
    BY <1>1
  <2>3. expanded' \in Nat /\ expanded <= expanded'
    BY <1>1, <1>3
  <2> QED BY <1>2, <1>13, <2>1, <2>2, <2>3, FailingStep
<1>14. SUFFICES ASSUME CloseMember([Top EXCEPT !.before = usage],
                                   Child(StoppedStatus, StoppedAxis, <<>>))
                PROVE  TraversalInv'
  BY <1>1, <1>13 DEF CloseUnspent
<1>4. TypeInv' /\ LimitInv'
  BY <1>1, <1>2, <1>3, QuietStep DEF TraversalInv
<1>5. PICK f : f = [Top EXCEPT !.before = usage]
  OBVIOUS
<1>6. PICK st : st = WithTop(stack, f)
  OBVIOUS
<1>7. /\ st[Len(st)] = f
      /\ \A x : WithTop(stack, x) = WithTop(st, x)
      /\ \E N, R : Faithful(N, R, usage', late') /\ StackOK(st, "leaf", N, R, usage')
  BY <1>1, <1>2, <1>5, <1>6, Opened DEF TraversalInv
<1>8. PICK N, R : Faithful(N, R, usage', late') /\ StackOK(st, "leaf", N, R, usage')
  BY <1>7
<1>9. PICK c : c = Child(StoppedStatus, StoppedAxis, <<>>)
  OBVIOUS
<1>10. c.children = <<>> /\ Exhausted(c.axis, usage', late')
  BY <1>1, <1>9, ChildIs, StopIsExhausted DEF TraversalInv
<1>11. CloseMember(f, c)
  BY <1>5, <1>9, <1>14
<1>12. AuditInv'
  BY <1>2, <1>7, <1>8, <1>10, <1>11, CloseMemberKeeps
<1> QED BY <1>4, <1>12 DEF TraversalInv

LEMMA MemberRefusedKeeps ==
  ASSUME TraversalInv, MemberRefused
  PROVE  TraversalInv'
<1> DEFINE entry == Head(Top.todo)
           s == MemberSpend(Top, entry)
<1>1. /\ s.axis # None /\ usage' = s.usage
      /\ expanded' = IF s.made > Len(InventoryCharges(Top)) THEN Expanded(entry.member)
                     ELSE expanded
      /\ UNCHANGED request /\ CloseUnspent(Child("budget_limited", s.axis, <<>>))
      /\ late' = late /\ cancelled' = cancelled
      /\ discovered' = discovered /\ UNCHANGED <<admitted, rootBytes>> /\ EntryNext
  BY DEF MemberRefused, request
<1>2. /\ expanded \in Nat /\ discovered \in Nat /\ usage \in Usages /\ rootBytes \in Nat
      /\ late \in BOOLEAN /\ cancelled \in BOOLEAN
  BY DEF TraversalInv, LimitInv, TypeInv
<1>3. entry \in Entries /\ Top.depth \in Nat
  <2>1. PICK N, R : StackOK(stack, phase, N, R, usage)
    BY DEF TraversalInv, AuditInv
  <2>2. Top \in Frames(N) /\ Top.todo # <<>>
    BY <1>1, <2>1, StackParts DEF EntryNext, Running, Top
  <2>3. Top.todo \in Seq(Entries) /\ Top.depth \in Nat
    BY <2>2 DEF Frames
  <2> QED BY <2>2, <2>3
<1>4. MemberCharges(Top, entry) \in Charge /\ s = Spend(MemberCharges(Top, entry))
  <2>1. PICK f : f = Top
    OBVIOUS
  <2>2. PICK e \in Entries : e = entry
    BY <1>3
  <2>3. MemberCharges(f, e) \in Charge
    BY <1>2, <1>3, <2>1, MemberIsCharged
  <2> QED BY <2>1, <2>2, <2>3 DEF MemberSpend, MemberCharges
<1>5. /\ s.usage \in Usages /\ \A a \in Axes : usage[a] <= s.usage[a]
      /\ \A l : Exhausted(s.axis, s.usage, l)
  BY <1>1, <1>2, <1>4, SpendGrows
<1>6. expanded' \in Nat /\ expanded <= expanded'
  <2>1. entry.member.bytes \in Nat
    BY <1>3 DEF Entries, Members
  <2>2. Expanded(entry.member) \in Nat /\ expanded <= Expanded(entry.member)
    BY <1>2, <2>1 DEF Expanded
  <2> QED BY <1>1, <1>2, <2>2
<1> HIDE DEF s
<1>17. CASE FrameFails("failed", None)
  <2>1. phase \in Running /\ Exhausted(None, usage', late')
    BY <1>1, NoneIsExhausted DEF EntryNext, Running
  <2>2. UNCHANGED <<request, admitted, cancelled, late, discovered>>
    BY <1>1
  <2>3. usage' \in Usages /\ \A a \in Axes : usage[a] <= usage'[a]
    BY <1>1, <1>5
  <2> QED BY <1>6, <1>17, <2>1, <2>2, <2>3, FailingStep
<1>18. SUFFICES ASSUME CloseMember([Top EXCEPT !.before = usage],
                                   Child("budget_limited", s.axis, <<>>))
                PROVE  TraversalInv'
  BY <1>1, <1>17 DEF CloseUnspent
<1>7. TypeInv' /\ LimitInv'
  BY <1>1, <1>2, <1>5, <1>6, QuietStep DEF TraversalInv
<1>8. PICK f : f = [Top EXCEPT !.before = usage]
  OBVIOUS
<1>9. PICK st : st = WithTop(stack, f)
  OBVIOUS
<1>10. /\ st[Len(st)] = f
       /\ \A x : WithTop(stack, x) = WithTop(st, x)
       /\ \E N, R : Faithful(N, R, usage', late') /\ StackOK(st, "leaf", N, R, usage')
  BY <1>1, <1>5, <1>8, <1>9, Opened DEF TraversalInv
<1>11. PICK N, R : Faithful(N, R, usage', late') /\ StackOK(st, "leaf", N, R, usage')
  BY <1>10
<1>12. PICK c : c = Child("budget_limited", s.axis, <<>>)
  OBVIOUS
<1>13. c.children = <<>> /\ Exhausted(c.axis, usage', late')
  BY <1>1, <1>5, <1>12, ChildIs
<1>14. CloseMember(f, c)
  BY <1>8, <1>12, <1>18
<1>15. usage' \in Usages
  BY <1>1, <1>5
<1>16. AuditInv'
  BY <1>10, <1>11, <1>13, <1>14, <1>15, CloseMemberKeeps
<1> QED BY <1>7, <1>16 DEF TraversalInv

LEMMA MemberAdmittedKeeps ==
  ASSUME TraversalInv, MemberAdmitted
  PROVE  TraversalInv'
<1>1. PICK entry : entry = Head(Top.todo)
  OBVIOUS
<1>2. PICK f : f = [Top EXCEPT !.before = usage]
  OBVIOUS
<1>3. PICK st : st = WithTop(stack, f)
  OBVIOUS
<1>4. PICK s : s = MemberSpend(Top, entry)
  OBVIOUS
<1>5. /\ s.axis = None /\ usage' = s.usage
      /\ expanded' = IF Expands(entry) THEN Expanded(entry.member) ELSE expanded
      /\ admitted' = [archive |-> admitted.archive
                                  + IF f.class \in ArchiveClasses THEN 1 ELSE 0,
                      artifacts |-> admitted.artifacts + 1,
                      bytes |-> admitted.bytes
                                + IF Expands(entry) THEN entry.member.bytes ELSE 0]
      /\ late' = late /\ cancelled' = cancelled /\ discovered' = discovered
      /\ rootBytes' = rootBytes /\ EntryNext
  BY <1>1, <1>2, <1>4 DEF MemberAdmitted, request
<1>6. \/ \E status : CloseMember(f, Child(status, None, <<>>))
      \/ FrameFails("failed", None)
      \/ /\ stack' = Append(WithTop(stack, f), Frame(f.depth + 1))
         /\ phase' = "decode" /\ result' = result
      \/ /\ stack' = WithTop(stack, f)
         /\ phase' = "leaf" /\ result' = result
  BY <1>2 DEF MemberAdmitted, WithTop
<1>7. /\ expanded \in Nat /\ discovered \in Nat /\ usage \in Usages /\ rootBytes \in Nat
      /\ late \in BOOLEAN /\ cancelled \in BOOLEAN
  BY DEF TraversalInv, LimitInv, TypeInv
<1>8. entry \in Entries /\ f.depth \in Nat /\ f.depth = Top.depth /\ f.class = Top.class
  <2>1. PICK N, R : StackOK(stack, phase, N, R, usage)
    BY DEF TraversalInv, AuditInv
  <2>2. Top \in Frames(N) /\ Top.todo # <<>>
    BY <1>5, <2>1, StackParts DEF EntryNext, Running, Top
  <2>3. Top.todo \in Seq(Entries) /\ Top.depth \in Nat
    BY <2>2 DEF Frames
  <2>4. f.depth = Top.depth /\ f.class = Top.class
    BY <1>2, <2>2 DEF Frames
  <2> QED BY <1>1, <2>2, <2>3, <2>4
<1>9. s = MemberSpend(f, entry) /\ s = Spend(MemberCharges(f, entry))
  BY <1>4, <1>8 DEF MemberSpend, MemberCharges, InventoryCharges
<1>10. usage' \in Usages /\ \A a \in Axes : usage[a] <= usage'[a]
  <2>1. MemberCharges(f, entry) \in Charge
    BY <1>7, <1>8, MemberIsCharged
  <2> QED BY <1>5, <1>7, <1>9, <2>1, SpendGrows
<1>11. LimitInv'
  BY <1>5, <1>8, <1>9, AdmissionKeepsLimits DEF TraversalInv
<1>12. TypeInv'
  BY <1>5, <1>7, <1>10 DEF TypeInv
<1>13. /\ st[Len(st)] = f
       /\ \A x : WithTop(stack, x) = WithTop(st, x)
       /\ \E N, R : Faithful(N, R, usage', late') /\ StackOK(st, "leaf", N, R, usage')
  BY <1>2, <1>3, <1>5, <1>10, Opened DEF TraversalInv
<1>14. PICK N, R : Faithful(N, R, usage', late') /\ StackOK(st, "leaf", N, R, usage')
  BY <1>13
<1>15. CASE \E status : CloseMember(f, Child(status, None, <<>>))
  <2>1. PICK c : CloseMember(f, c) /\ c.children = <<>> /\ c.axis = None
    BY <1>15, ChildIs
  <2>2. Exhausted(c.axis, usage', late')
    BY <2>1, NoneIsExhausted
  <2>3. AuditInv'
    BY <1>10, <1>13, <1>14, <2>1, <2>2, CloseMemberKeeps
  <2> QED BY <1>11, <1>12, <2>3 DEF TraversalInv
<1>16. CASE FrameFails("failed", None)
  <2>1. PICK M, S : Faithful(M, S, usage', late') /\ StackOK(stack, phase, M, S, usage')
    BY <1>5, <1>10, Grown DEF TraversalInv
  <2>2. phase \in Running
    BY <1>5 DEF EntryNext, Running
  <2>3. AuditInv'
    BY <1>10, <1>16, <2>1, <2>2, NoneIsExhausted, FrameFailsKeeps
  <2> QED BY <1>11, <1>12, <2>3 DEF TraversalInv
<1>17. CASE /\ stack' = Append(WithTop(stack, f), Frame(f.depth + 1))
            /\ phase' = "decode" /\ result' = result
  <2>1. PICK g : g = Frame(f.depth + 1)
    OBVIOUS
  <2>2. g \in Frames(N) /\ g.allocations = <<>> /\ g.children = <<>>
    <3>1. <<>> \in Seq(N) /\ <<>> \in Seq(Entries) /\ f.depth + 1 \in Nat
      BY <1>8
    <3> QED BY <1>7, <2>1, <3>1 DEF Frame, Frames
  <2>3. StackOK(Append(st, g), "decode", N, R, usage')
    <3>1. PICK u \in Usages : u = usage'
      BY <1>10
    <3> QED BY <1>14, <2>2, <3>1, PushFrame
  <2>4. ResultOK(result', phase', N, R, usage', late')
    BY <1>17, RunningResult DEF Running
  <2>5. AuditInv'
    BY <1>3, <1>14, <1>17, <2>1, <2>3, <2>4 DEF AuditInv
  <2> QED BY <1>11, <1>12, <2>5 DEF TraversalInv
<1>18. CASE stack' = WithTop(stack, f) /\ phase' = "leaf" /\ result' = result
  <2>1. ResultOK(result', phase', N, R, usage', late')
    BY <1>18, RunningResult DEF Running
  <2>2. AuditInv'
    BY <1>3, <1>14, <1>18, <2>1 DEF AuditInv
  <2> QED BY <1>11, <1>12, <2>2 DEF TraversalInv
<1> QED BY <1>6, <1>15, <1>16, <1>17, <1>18

LEMMA IngestLeafKeeps ==
  ASSUME TraversalInv, IngestLeaf
  PROVE  TraversalInv'
<1>1. PICK m : m = Head(Top.todo).member
  OBVIOUS
<1>2. PICK s : s = Spend(<<<<"input_bytes", m.bytes>>, <<"output_bytes", 1>>>>)
  OBVIOUS
<1>3. /\ phase = "leaf" /\ expanded' = expanded /\ UNCHANGED <<admitted, rootBytes>>
      /\ late' = late /\ cancelled' = cancelled /\ discovered' = discovered
      /\ \/ Stopped /\ usage' = usage
            /\ \E e : CloseMember(Top, Leaf(e, StoppedAxis))
         \/ s.axis # None /\ usage' = s.usage /\ CloseMember(Top, Leaf("failed", s.axis))
         \/ s.axis = None /\ usage' = s.usage /\ \E e : CloseMember(Top, Leaf(e, None))
  BY <1>1, <1>2 DEF IngestLeaf, request
<1>4. /\ expanded \in Nat /\ expanded <= expanded /\ discovered \in Nat /\ usage \in Usages
      /\ late \in BOOLEAN /\ cancelled \in BOOLEAN
  BY DEF TraversalInv, LimitInv, TypeInv
<1>5. m.bytes \in Nat
  <2>1. PICK N, R : StackOK(stack, phase, N, R, usage)
    BY DEF TraversalInv, AuditInv
  <2>2. Top \in Frames(N) /\ Holds(Top, Base(stack, Len(stack)), usage)
    BY <1>3, <2>1, StackParts DEF Running, Top
  <2>3. Top.todo \in Seq(Entries) /\ Top.todo # <<>>
    BY <2>2 DEF Frames, Holds
  <2>4. Head(Top.todo) \in Entries
    BY <2>3
  <2> QED BY <1>1, <2>4 DEF Entries, Members
<1>6. /\ s.usage \in Usages /\ \A a \in Axes : usage[a] <= s.usage[a]
      /\ s.axis = None \/ \A l : Exhausted(s.axis, s.usage, l)
  <2>1. "input_bytes" \in Axes /\ "output_bytes" \in Axes /\ 1 \in Nat
    BY DEF Axes, SumAxes
  <2> QED BY <1>2, <1>4, <1>5, <2>1, TwoCharges, SpendGrows
<1>7. usage' \in Usages /\ \A a \in Axes : usage[a] <= usage'[a]
  BY <1>3, <1>6, SameUsage DEF TraversalInv
<1>8. TypeInv' /\ LimitInv'
  BY <1>3, <1>4, <1>7, QuietStep DEF TraversalInv
<1>9. PICK N, R : Faithful(N, R, usage', late') /\ StackOK(stack, "leaf", N, R, usage')
  BY <1>3, <1>7, Grown DEF TraversalInv
<1>10. PICK e, axis : CloseMember(Top, Leaf(e, axis)) /\ Exhausted(axis, usage', late')
  BY <1>3, <1>6, NoneIsExhausted, StopIsExhausted DEF TraversalInv
<1>11. PICK c : c = Leaf(e, axis)
  OBVIOUS
<1>12. c.children = <<>> /\ Exhausted(c.axis, usage', late') /\ CloseMember(Top, c)
  BY <1>10, <1>11, LeafIs
<1>13. AuditInv'
  <2>1. PICK f : f = Top
    OBVIOUS
  <2>2. PICK st : st = stack
    OBVIOUS
  <2>3. f = st[Len(st)] /\ StackOK(st, "leaf", N, R, usage')
        /\ CloseMember(f, c) /\ \A x : WithTop(stack, x) = WithTop(st, x)
    BY <1>9, <1>12, <2>1, <2>2 DEF Top
  <2> QED BY <1>7, <1>9, <1>12, <2>3, CloseMemberKeeps
<1> QED BY <1>8, <1>13 DEF TraversalInv

(* The first axis that a child names is the axis of that child.            *)
LEMMA FirstAxisIs ==
  ASSUME NEW N, NEW children \in Seq(N)
  PROVE  \/ FirstAxis(children) = None
         \/ \E i \in 1..Len(children) : FirstAxis(children) = children[i].axis
<1> DEFINE hits == {i \in 1..Len(children) : children[i].axis # None}
           least == CHOOSE i \in hits : \A j \in hits : i <= j
<1>1. FirstAxis(children) = IF hits = {} THEN None ELSE children[least].axis
  BY DEF FirstAxis
<1>2. hits # {} => least \in hits
  <2> SUFFICES ASSUME hits # {} PROVE least \in hits
    OBVIOUS
  <2>1. hits \in SUBSET Nat
    OBVIOUS
  <2> HIDE DEF hits
  <2>2. \E i \in hits : \A j \in hits : i <= j
    BY <2>1, LeastNumber
  <2> QED BY <2>2
<1>3. hits \subseteq 1..Len(children)
  OBVIOUS
<1> HIDE DEF hits, least
<1> QED BY <1>1, <1>2, <1>3

LEMMA FinishFrameKeeps ==
  ASSUME TraversalInv, FinishFrame
  PROVE  TraversalInv'
<1>1. /\ usage' = usage /\ expanded' = expanded /\ UNCHANGED <<admitted, rootBytes>>
      /\ late' = late /\ cancelled' = cancelled /\ discovered' = discovered
      /\ phase = "members"
  BY DEF FinishFrame, request
<1>2. usage' \in Usages /\ \A a \in Axes : usage[a] <= usage'[a]
  BY <1>1, SameUsage DEF TraversalInv
<1>3. /\ expanded \in Nat /\ expanded <= expanded /\ discovered \in Nat
      /\ late \in BOOLEAN /\ cancelled \in BOOLEAN
  BY DEF TraversalInv, LimitInv, TypeInv
<1>4. TypeInv' /\ LimitInv'
  BY <1>1, <1>2, <1>3, QuietStep DEF TraversalInv
<1>5. PICK N, R : Faithful(N, R, usage', late') /\ StackOK(stack, phase, N, R, usage')
  BY <1>1, <1>2, Grown DEF TraversalInv
<1>6. PICK f : f = Top
  OBVIOUS
<1>7. /\ stack # <<>> /\ f \in Frames(N)
      /\ FrameOK(f, Base(stack, Len(stack)), N, R, usage')
  BY <1>1, <1>5, <1>6, StackParts DEF Running, Top
<1>8. /\ Twins(N, R, f.allocations, f.children)
      /\ Chained(Base(stack, Len(stack)), f.allocations, usage')
  BY <1>7 DEF FrameOK
<1>9. CASE Len(stack) = 1
  <2>1. PICK status : /\ result' = Result(status, f.children, None, f.allocations)
                      /\ stack' = <<>> /\ phase' = "output"
    BY <1>6, <1>9 DEF FinishFrame
  <2>2. /\ result'.children = f.children /\ result'.root.children = f.allocations
        /\ result'.root.before = Unused /\ result'.root.after = usage'
        /\ result'.root.hit = None /\ Whole(result')
    BY <2>1 DEF Result, Audit, Whole
  <2>3. Chained(Unused, f.allocations, usage')
    BY <1>8, <1>9 DEF Base
  <2>4. ResultOK(result', phase', N, R, usage', late')
    BY <1>2, <1>8, <2>1, <2>2, <2>3, NoneIsExhausted DEF ResultOK
  <2>5. StackOK(stack', phase', N, R, usage')
    <3>1. <<>> \in Seq(Frames(N)) /\ Len(<<>>) = 0
      OBVIOUS
    <3> QED BY <2>1, <3>1 DEF StackOK
  <2> QED BY <1>4, <1>5, <2>4, <2>5 DEF AuditInv, TraversalInv
<1>10. CASE Len(stack) # 1
  <2>1. PICK st : st = Outer
    OBVIOUS
  <2>2. /\ StackOK(st, "leaf", N, R, usage') /\ Len(st) = Len(stack) - 1
        /\ st[Len(stack) - 1].before = Base(stack, Len(stack))
    BY <1>5, <1>7, <1>10, <2>1, PopFrame DEF Outer
  <2>3. PICK c : c = Child("parsed", FirstAxis(f.children), f.children)
    OBVIOUS
  <2>4. c.children = f.children /\ c.axis = FirstAxis(f.children)
    BY <2>3, ChildIs
  <2>5. Exhausted(c.axis, usage', late')
    <3>1. f.children \in Seq(N) /\ f.allocations \in Seq(N)
      BY <1>7 DEF Frames
    <3>2. CASE FirstAxis(f.children) = None
      BY <2>4, <3>2, NoneIsExhausted
    <3>3. CASE \E i \in 1..Len(f.children) : FirstAxis(f.children) = f.children[i].axis
      <4>1. PICK i \in 1..Len(f.children) : FirstAxis(f.children) = f.children[i].axis
        BY <3>3
      <4>2. /\ <<f.allocations[i], f.children[i]>> \in R
            /\ f.children[i] \in N /\ f.allocations[i] \in N
        BY <1>8, <3>1, <4>1 DEF Twins
      <4> QED BY <1>5, <2>4, <4>1, <4>2 DEF Faithful
    <3> QED BY <3>1, <3>2, <3>3, FirstAxisIs
  <2>6. /\ stack' = [st EXCEPT ![Len(st)] = Closed(st[Len(st)], c, f.allocations, usage')]
        /\ phase' = phase /\ result' = result
    BY <1>6, <1>10, <2>1, <2>2, <2>3 DEF FinishFrame
  <2>7. PICK M, S : /\ Faithful(M, S, usage', late')
                    /\ StackOK(stack', "members", M, S, usage')
    <3>1. PICK u \in Usages : u = usage'
      BY <1>2
    <3>2. PICK l : l = late'
      OBVIOUS
    <3>3. Twins(N, R, f.allocations, c.children) /\ Chained(st[Len(st)].before, f.allocations, u)
      BY <1>8, <2>2, <2>4, <3>1
    <3>4. \E M, S : /\ N \subseteq M /\ R \subseteq S /\ Faithful(M, S, u, l)
                    /\ StackOK([st EXCEPT ![Len(st)] = Closed(st[Len(st)], c, f.allocations, u)],
                               "members", M, S, u)
      BY <1>5, <2>2, <2>5, <3>1, <3>2, <3>3, CloseTop
    <3> QED BY <2>6, <3>1, <3>2, <3>4
  <2>8. ResultOK(result', phase', M, S, usage', late')
    BY <1>1, <2>6, RunningResult DEF Running
  <2> QED BY <1>1, <1>4, <2>6, <2>7, <2>8 DEF AuditInv, TraversalInv
<1> QED BY <1>9, <1>10

Amend(r, x, y, z) == [r EXCEPT !.status = x, !.root.hit = y, !.root.after = z]

LEMMA Amended ==
  ASSUME NEW r, Whole(r), NEW x, NEW y, NEW z, NEW q,
         q = Amend(r, x, y, z)
  PROVE  /\ q.children = r.children /\ q.root.children = r.root.children
         /\ q.root.before = r.root.before /\ q.root.after = z /\ q.root.hit = y
<1>1. PICK o : o = Audit(r.root.before, r.root.after, r.root.hit, r.root.children)
  OBVIOUS
<1>2. r = [status |-> r.status, children |-> r.children, root |-> o]
  BY <1>1 DEF Whole
<1>3. /\ q.children = r.children
      /\ q.root = [[r.root EXCEPT !.hit = y] EXCEPT !.after = z]
  BY <1>2 DEF Amend
<1>4. r.root = o
  BY <1>2
<1>5. PICK b, a, h, k : o = [before |-> b, after |-> a, hit |-> h, children |-> k]
  BY <1>1 DEF Audit
<1>6. /\ q.root.children = k /\ q.root.before = b /\ q.root.after = z /\ q.root.hit = y
      /\ o.children = k /\ o.before = b
  <2>1. [o EXCEPT !.hit = y] = [before |-> b, after |-> a, hit |-> y, children |-> k]
    BY <1>5
  <2>2. PICK p : p = [before |-> b, after |-> a, hit |-> y, children |-> k]
    OBVIOUS
  <2>3. [p EXCEPT !.after = z] = [before |-> b, after |-> z, hit |-> y, children |-> k]
    BY <2>2
  <2>4. q.root = [before |-> b, after |-> z, hit |-> y, children |-> k]
    BY <1>3, <1>4, <2>1, <2>2, <2>3
  <2> QED BY <1>5, <2>4
<1> QED BY <1>3, <1>4, <1>6

LEMMA ChargeOutputKeeps ==
  ASSUME TraversalInv, ChargeOutput
  PROVE  TraversalInv'
<1>1. PICK s : s = Spend(<<<<"output_bytes", 1>>>>)
  OBVIOUS
<1>2. /\ usage' = s.usage /\ phase = "output" /\ phase' = "done"
      /\ expanded' = expanded /\ UNCHANGED <<admitted, rootBytes>> /\ stack' = stack
      /\ late' = late /\ cancelled' = cancelled /\ discovered' = discovered
      /\ result' = [result EXCEPT
              !.status = IF s.axis # None /\ @ = "complete" THEN "partial" ELSE @,
              !.root.hit = IF s.axis # None THEN s.axis ELSE @,
              !.root.after = s.usage]
  BY <1>1 DEF ChargeOutput, request
<1>3. /\ expanded \in Nat /\ expanded <= expanded /\ discovered \in Nat /\ usage \in Usages
      /\ late \in BOOLEAN /\ cancelled \in BOOLEAN
  BY DEF TraversalInv, LimitInv, TypeInv
<1>4. /\ s.usage \in Usages /\ \A a \in Axes : usage[a] <= s.usage[a]
      /\ s.axis = None \/ \A l : Exhausted(s.axis, s.usage, l)
  <2>1. "output_bytes" \in Axes /\ 1 \in Nat
    BY DEF Axes, SumAxes
  <2> QED BY <1>1, <1>3, <2>1, OneCharge, SpendGrows
<1>5. TypeInv' /\ LimitInv'
  BY <1>2, <1>3, <1>4, QuietStep DEF TraversalInv
<1>6. PICK N, R : /\ Faithful(N, R, usage', late')
                  /\ StackOK(stack, phase, N, R, usage')
                  /\ ResultOK(result, phase, N, R, usage', late')
  BY <1>2, <1>4, Grown DEF TraversalInv
<1>7. StackOK(stack', phase', N, R, usage')
  BY <1>2, <1>6 DEF StackOK
<1>8. PICK r : r = result
  OBVIOUS
<1>9. Whole(r) /\ Twins(N, R, r.root.children, r.children) /\ r.root.before = Unused
      /\ Chained(Unused, r.root.children, usage') /\ Exhausted(r.root.hit, usage', late')
  BY <1>2, <1>6, <1>8 DEF ResultOK
<1>10. /\ result'.children = r.children /\ result'.root.children = r.root.children
       /\ result'.root.before = r.root.before /\ result'.root.after = usage'
       /\ result'.root.hit = IF s.axis # None THEN s.axis ELSE r.root.hit
  <2>1. PICK x : x = IF s.axis # None /\ r.status = "complete" THEN "partial" ELSE r.status
    OBVIOUS
  <2>2. PICK y : y = IF s.axis # None THEN s.axis ELSE r.root.hit
    OBVIOUS
  <2>3. PICK q : q = result'
    OBVIOUS
  <2>4. q = Amend(r, x, y, s.usage)
    BY <1>2, <1>8, <2>1, <2>2, <2>3 DEF Amend
  <2>5. /\ q.children = r.children /\ q.root.children = r.root.children
        /\ q.root.before = r.root.before /\ q.root.after = s.usage /\ q.root.hit = y
    BY <1>9, <2>4, Amended
  <2> QED BY <1>2, <2>2, <2>3, <2>5
<1>11. Exhausted(result'.root.hit, usage', late')
  BY <1>2, <1>4, <1>9, <1>10
<1>12. ResultOK(result', phase', N, R, usage', late')
  BY <1>2, <1>4, <1>9, <1>10, <1>11 DEF ResultOK
<1> QED BY <1>5, <1>6, <1>7, <1>12 DEF AuditInv, TraversalInv

LEMMA TraversalStarts == Init => TraversalInv
<1> SUFFICES ASSUME Init PROVE TraversalInv
  OBVIOUS
<1>1. /\ rootBytes \in Nat /\ usage = Unused /\ expanded = 0 /\ discovered = 0
      /\ late = FALSE /\ cancelled = FALSE /\ stack = <<>> /\ phase = "submitted"
      /\ admitted = [archive |-> 0, artifacts |-> 0, bytes |-> 0]
  BY ContainerTraversalAssumption DEF Init
<1>2. usage \in Usages /\ usage["archive_members"] = 0 /\ usage["child_artifacts"] = 0
  BY <1>1 DEF Unused, Usages, Axes, SumAxes
<1>3. TypeInv
  BY <1>1, <1>2 DEF TypeInv
<1>4. LimitInv
  <2>1. \A a \in DOMAIN Limit : Limit[a] \in Nat
    BY ContainerTraversalAssumption
  <2>2. AdmittedWithinLimits
    <3>1. /\ admitted.archive = 0 /\ admitted.artifacts = 0 /\ admitted.bytes = 0
      BY <1>1
    <3>2. "archive_expansion_ratio" \in DOMAIN Limit =>
            admitted.bytes <= Limit["archive_expansion_ratio"] * rootBytes
      <4> SUFFICES ASSUME NEW n \in Nat, NEW m \in Nat PROVE 0 <= n * m
        BY <1>1, <2>1, <3>1
      <4> QED OBVIOUS
    <3> QED BY <2>1, <3>1, <3>2 DEF AdmittedWithinLimits
  <2>3. admitted \in [archive : Nat, artifacts : Nat, bytes : Nat]
    BY <1>1
  <2> QED BY <1>1, <1>2, <2>2, <2>3 DEF LimitInv
<1>5. AuditInv
  <2>1. PICK N : N = {}
    OBVIOUS
  <2>2. Faithful(N, {}, usage, late)
    BY DEF Faithful
  <2>3. StackOK(stack, phase, N, {}, usage)
    <3>1. <<>> \in Seq(Frames(N)) /\ Len(<<>>) = 0
      OBVIOUS
    <3> QED BY <1>1, <3>1 DEF StackOK
  <2>4. ResultOK(result, phase, N, {}, usage, late)
    BY <1>1 DEF ResultOK
  <2> QED BY <2>2, <2>3, <2>4 DEF AuditInv
<1> QED BY <1>3, <1>4, <1>5 DEF TraversalInv

(* The invariant is inductive.                                             *)
LEMMA TraversalInductive == TraversalInv /\ [Next]_vars => TraversalInv'
<1> SUFFICES ASSUME TraversalInv, [Next]_vars PROVE TraversalInv'
  OBVIOUS
<1>1. CASE Refuse
  BY <1>1, RefuseKeeps
<1>2. CASE Begin
  BY <1>2, BeginKeeps
<1>3. CASE DecodeFails
  BY <1>3, DecodeFailsKeeps
<1>4. CASE CheckCapacity
  BY <1>4, CheckCapacityKeeps
<1>5. CASE CheckPreflight
  BY <1>5, CheckPreflightKeeps
<1>6. CASE DecodeSucceeds
  BY <1>6, DecodeSucceedsKeeps
<1>7. CASE BadLocator
  BY <1>7, BadLocatorKeeps
<1>8. CASE MemberStopped
  BY <1>8, MemberStoppedKeeps
<1>9. CASE MemberRefused
  BY <1>9, MemberRefusedKeeps
<1>10. CASE MemberAdmitted
  BY <1>10, MemberAdmittedKeeps
<1>11. CASE IngestLeaf
  BY <1>11, IngestLeafKeeps
<1>12. CASE FinishFrame
  BY <1>12, FinishFrameKeeps
<1>13. CASE ChargeOutput
  BY <1>13, ChargeOutputKeeps
<1>14. CASE Cancel \/ Deadline
  BY <1>14, StopKeeps
<1>15. CASE Finished \/ UNCHANGED vars
  <2>1. UNCHANGED vars
    BY <1>15 DEF Finished
  <2>2. /\ rootBytes' = rootBytes /\ usage' = usage /\ late' = late /\ cancelled' = cancelled
        /\ discovered' = discovered /\ expanded' = expanded /\ admitted' = admitted
        /\ stack' = stack /\ phase' = phase /\ result' = result
    BY <2>1 DEF vars, request
  <2>3. TypeInv' /\ LimitInv'
    BY <2>2 DEF TraversalInv, TypeInv, LimitInv, AdmittedWithinLimits
  <2>4. AuditInv'
    BY <2>2 DEF TraversalInv, AuditInv
  <2> QED BY <2>3, <2>4 DEF TraversalInv
<1> QED BY <1>1, <1>2, <1>3, <1>4, <1>5, <1>6, <1>7, <1>8, <1>9, <1>10, <1>11, <1>12,
           <1>13, <1>14, <1>15 DEF Next, Work

THEOREM TraversalHolds == Spec => []TraversalInv
BY TraversalStarts, TraversalInductive, PTL DEF Spec

(* ContainerRecursor, any tree: what the traversal lets through stays      *)
(* within the limits of the root, however the payload is split over        *)
(* members and nested containers.                                          *)
THEOREM AdmittedWithinLimitsHolds == Spec => []AdmittedWithinLimits
<1>1. TraversalInv => AdmittedWithinLimits
  BY DEF TraversalInv, LimitInv
<1> QED BY <1>1, TraversalHolds, PTL

-----------------------------------------------------------------------------
(* Levels of a forest.                                                     *)

(* FlattenSeq is a recursive function; it is what its recursion says.      *)
LEMMA FlattenRecursion ==
  ASSUME NEW seqs, Len(seqs) \in Nat \ {0}
  PROVE  \E f : /\ f = [i \in 1..Len(seqs) |-> IF i = 1 THEN seqs[i] ELSE f[i - 1] \o seqs[i]]
                /\ FlattenSeq(seqs) = f[Len(seqs)]
<1> DEFINE G(f, n) == [i \in 1..n |-> IF i = 1 THEN seqs[i] ELSE f[i - 1] \o seqs[i]]
           T == {n \in Nat : \E f : f = G(f, n)}
<1>1. 0 \in T
  <2>1. <<>> = G(<<>>, 0)
    OBVIOUS
  <2> QED BY <2>1
<1>2. ASSUME NEW n \in T PROVE n + 1 \in T
  <2>1. PICK f : f = G(f, n)
    OBVIOUS
  <2> DEFINE e(i) == IF i = 1 THEN seqs[i] ELSE f[i - 1] \o seqs[i]
             h == [i \in 1..n + 1 |-> e(i)]
  <2>2. n \in Nat /\ f = [i \in 1..n |-> e(i)]
    BY <2>1
  <2>3. \A i \in 1..n : f[i] = e(i)
    <3> HIDE DEF e
    <3> QED BY <2>2
  <2>4. \A i \in 1..n : h[i] = f[i]
    <3> HIDE DEF e
    <3> QED BY <2>2, <2>3
  <2>5. \A i \in 1..n + 1 : i # 1 => i - 1 \in 1..n
    BY <2>2
  <2>6. \A i \in 1..n + 1 : e(i) = IF i = 1 THEN seqs[i] ELSE h[i - 1] \o seqs[i]
    <3> HIDE DEF h
    <3> QED BY <2>4, <2>5
  <2>7. h = G(h, n + 1)
    <3> HIDE DEF e
    <3> QED BY <2>6
  <2>8. \E g : g = G(g, n + 1)
    <3> HIDE DEF G, h
    <3> QED BY <2>7
  <2>9. n + 1 \in Nat
    BY <2>2
  <2> HIDE DEF G, h
  <2> QED BY <2>8, <2>9
<1>3. T = Nat
  <2>1. T \in SUBSET Nat
    OBVIOUS
  <2> HIDE DEF T
  <2> QED BY <1>1, <1>2, <2>1, SetInduction
<1>4. \E f : f = G(f, Len(seqs))
  <2> HIDE DEF G
  <2> QED BY <1>3
<1> DEFINE c == CHOOSE f : f = G(f, Len(seqs))
<1>5. c = G(c, Len(seqs))
  <2> HIDE DEF G
  <2> QED BY <1>4
<1>6. FlattenSeq(seqs) = c[Len(seqs)]
  BY DEF FlattenSeq
<1> QED BY <1>5, <1>6

(* What holds of nothing, and after each block if it held before it, holds *)
(* of the blocks together.  P[i] is the set of what holds after i blocks.  *)
LEMMA FlattenInduction ==
  ASSUME NEW S, NEW seqs \in Seq(Seq(S)), NEW P, <<>> \in P[0],
         \A i \in 1..Len(seqs), s \in Seq(S) : s \in P[i - 1] => s \o seqs[i] \in P[i]
  PROVE  FlattenSeq(seqs) \in Seq(S) /\ FlattenSeq(seqs) \in P[Len(seqs)]
<1>1. CASE Len(seqs) = 0
  <2>1. FlattenSeq(seqs) = seqs
    BY <1>1 DEF FlattenSeq
  <2>2. seqs = <<>>
    BY <1>1
  <2> QED BY <1>1, <2>1, <2>2
<1>2. CASE Len(seqs) # 0
  <2>1. Len(seqs) \in Nat \ {0}
    BY <1>2
  <2>2. PICK f : /\ f = [i \in 1..Len(seqs) |-> IF i = 1 THEN seqs[i] ELSE f[i - 1] \o seqs[i]]
                 /\ FlattenSeq(seqs) = f[Len(seqs)]
    BY <2>1, FlattenRecursion
  <2>3. \A i \in 1..Len(seqs) : f[i] = IF i = 1 THEN seqs[i] ELSE f[i - 1] \o seqs[i]
    BY <2>2
  <2>4. 1 \in 1..Len(seqs) /\ f[1] = seqs[1] /\ seqs[1] \in Seq(S)
    BY <2>1, <2>3
  <2>5. f[1] = <<>> \o seqs[1]
    BY <2>4
  <2>6. f[1] \in Seq(S) /\ f[1] \in P[1]
    <3>1. <<>> \in Seq(S) /\ <<>> \in P[1 - 1]
      OBVIOUS
    <3> QED BY <3>1, <2>4, <2>5
  <2> DEFINE T == {n \in Nat : n + 1 \in 1..Len(seqs) => f[n + 1] \in Seq(S) /\ f[n + 1] \in P[n + 1]}
  <2>7. 0 \in T
    BY <2>6
  <2>8. ASSUME NEW n \in T PROVE n + 1 \in T
    <3>1. SUFFICES ASSUME n + 2 \in 1..Len(seqs) PROVE f[n + 2] \in Seq(S) /\ f[n + 2] \in P[n + 2]
      OBVIOUS
    <3>2. f[n + 1] \in Seq(S) /\ f[n + 1] \in P[n + 1] /\ seqs[n + 2] \in Seq(S)
      BY <3>1
    <3>3. n \in Nat /\ n + 2 # 1 /\ (n + 2) - 1 = n + 1
      OBVIOUS
    <3>4. f[n + 2] = f[(n + 2) - 1] \o seqs[n + 2]
      BY ONLY <3>1, <3>3, <2>3
    <3>5. f[n + 1] \o seqs[n + 2] \in P[n + 2]
      BY <3>1, <3>2, <3>3
    <3> QED BY <3>2, <3>3, <3>4, <3>5
  <2>9. T = Nat
    <3>1. T \in SUBSET Nat
      OBVIOUS
    <3> HIDE DEF T
    <3> QED BY <2>7, <2>8, <3>1, SetInduction
  <2>10. Len(seqs) - 1 \in T
    <3> HIDE DEF T
    <3> QED BY <2>9, <2>1
  <2> QED BY <2>1, <2>2, <2>10
<1> QED BY <1>1, <1>2

LEMMA FlattenType ==
  ASSUME NEW S, NEW seqs \in Seq(Seq(S))
  PROVE  FlattenSeq(seqs) \in Seq(S)
<1> DEFINE P == [i \in 0..Len(seqs) |-> Seq(S)]
<1>1. Len(seqs) \in Nat
  OBVIOUS
<1>2. <<>> \in P[0]
  BY <1>1
<1>3. \A i \in 1..Len(seqs), s \in Seq(S) : s \in P[i - 1] => s \o seqs[i] \in P[i]
  <2> SUFFICES ASSUME NEW i \in 1..Len(seqs), NEW s \in Seq(S) PROVE s \o seqs[i] \in P[i]
    OBVIOUS
  <2>1. seqs[i] \in Seq(S) /\ P[i] = Seq(S)
    BY <1>1
  <2>2. s \o seqs[i] \in Seq(S)
    BY <2>1, ConcatProperties
  <2> HIDE DEF P
  <2> QED BY <2>1, <2>2
<1> HIDE DEF P
<1> QED BY <1>2, <1>3, FlattenInduction

LEMMA JoinIs ==
  ASSUME NEW N, NEW s \in Seq(N), NEW p \in Seq(N)
  PROVE  /\ s \o p \in Seq(N) /\ Len(s \o p) = Len(s) + Len(p)
         /\ \A i \in 1..(Len(s) + Len(p)) :
              (s \o p)[i] = IF i <= Len(s) THEN s[i] ELSE p[i - Len(s)]
BY ConcatProperties

LEMMA TwinsConcat ==
  ASSUME NEW N, NEW R, NEW s, NEW t, NEW p, NEW q, Twins(N, R, s, t), Twins(N, R, p, q)
  PROVE  Twins(N, R, s \o p, t \o q)
<1>1. /\ s \in Seq(N) /\ t \in Seq(N) /\ Len(s) = Len(t)
      /\ \A i \in 1..Len(s) : <<s[i], t[i]>> \in R
      /\ p \in Seq(N) /\ q \in Seq(N) /\ Len(p) = Len(q)
      /\ \A i \in 1..Len(p) : <<p[i], q[i]>> \in R
  BY DEF Twins
<1>2. PICK v : v = s \o p
  OBVIOUS
<1>3. PICK w : w = t \o q
  OBVIOUS
<1>4. /\ v \in Seq(N) /\ Len(v) = Len(s) + Len(p)
      /\ \A i \in 1..Len(v) : v[i] = IF i <= Len(s) THEN s[i] ELSE p[i - Len(s)]
  <2>1. /\ s \o p \in Seq(N) /\ Len(s \o p) = Len(s) + Len(p)
        /\ \A i \in 1..(Len(s) + Len(p)) :
             (s \o p)[i] = IF i <= Len(s) THEN s[i] ELSE p[i - Len(s)]
    BY ONLY <1>1, JoinIs
  <2> QED BY ONLY <1>2, <2>1
<1>5. /\ w \in Seq(N) /\ Len(w) = Len(t) + Len(q)
      /\ \A i \in 1..Len(w) : w[i] = IF i <= Len(t) THEN t[i] ELSE q[i - Len(t)]
  <2>1. /\ t \o q \in Seq(N) /\ Len(t \o q) = Len(t) + Len(q)
        /\ \A i \in 1..(Len(t) + Len(q)) :
             (t \o q)[i] = IF i <= Len(t) THEN t[i] ELSE q[i - Len(t)]
    BY ONLY <1>1, JoinIs
  <2> QED BY ONLY <1>3, <2>1
<1>6. Len(s) \in Nat /\ Len(p) \in Nat
  BY <1>1
<1>7. ASSUME NEW i \in 1..Len(v) PROVE <<v[i], w[i]>> \in R
  <2>1. i \in 1..Len(w)
    BY <1>1, <1>4, <1>5
  <2>2. CASE i <= Len(s)
    <3>1. i \in 1..Len(s)
      BY <1>6, <2>2
    <3> QED BY <1>1, <1>4, <1>5, <2>1, <2>2, <3>1
  <2>3. CASE ~ (i <= Len(s))
    <3>1. i - Len(s) \in 1..Len(p)
      BY <1>4, <1>6, <2>3
    <3> QED BY <1>1, <1>4, <1>5, <2>1, <2>3, <3>1
  <2> QED BY <2>2, <2>3
<1>8. Twins(N, R, v, w)
  BY <1>1, <1>4, <1>5, <1>7 DEF Twins
<1> QED BY <1>2, <1>3, <1>8

(* Joining twins pairwise gives twins.                                     *)
LEMMA FlattenTwins ==
  ASSUME NEW N, NEW R, NEW s, NEW t, Len(s) \in Nat, Len(t) = Len(s),
         s = <<>> <=> Len(s) = 0, t = <<>> <=> Len(s) = 0,
         \A i \in 1..Len(s) : Twins(N, R, s[i], t[i])
  PROVE  Twins(N, R, FlattenSeq(s), FlattenSeq(t))
<1>1. CASE Len(s) = 0
  <2>1. FlattenSeq(s) = <<>> /\ FlattenSeq(t) = <<>>
    BY <1>1 DEF FlattenSeq
  <2> QED BY <2>1, EmptyIsFine
<1>2. CASE Len(s) # 0
  <2>1. Len(s) \in Nat \ {0} /\ Len(t) \in Nat \ {0}
    BY <1>2
  <2>2. PICK f : /\ f = [i \in 1..Len(s) |-> IF i = 1 THEN s[i] ELSE f[i - 1] \o s[i]]
                 /\ FlattenSeq(s) = f[Len(s)]
    BY <2>1, FlattenRecursion
  <2>3. PICK g : /\ g = [i \in 1..Len(t) |-> IF i = 1 THEN t[i] ELSE g[i - 1] \o t[i]]
                 /\ FlattenSeq(t) = g[Len(t)]
    BY <2>1, FlattenRecursion
  <2>4. \A i \in 1..Len(s) : f[i] = IF i = 1 THEN s[i] ELSE f[i - 1] \o s[i]
    BY <2>2
  <2>5. \A i \in 1..Len(s) : g[i] = IF i = 1 THEN t[i] ELSE g[i - 1] \o t[i]
    BY <2>3
  <2> DEFINE T == {n \in Nat : n + 1 \in 1..Len(s) => Twins(N, R, f[n + 1], g[n + 1])}
  <2>6. 0 \in T
    <3>1. f[1] = s[1] /\ g[1] = t[1] /\ 1 \in 1..Len(s)
      BY <2>1, <2>4, <2>5
    <3> QED BY <3>1
  <2>7. ASSUME NEW n \in T PROVE n + 1 \in T
    <3>1. SUFFICES ASSUME (n + 1) + 1 \in 1..Len(s)
                   PROVE  Twins(N, R, f[(n + 1) + 1], g[(n + 1) + 1])
      OBVIOUS
    <3>2. /\ n \in Nat /\ n + 1 \in 1..Len(s) /\ (n + 1) + 1 # 1 /\ ((n + 1) + 1) - 1 = n + 1
      BY <3>1
    <3>3. Twins(N, R, f[n + 1], g[n + 1])
      BY <3>2
    <3> HIDE DEF T
    <3>4. PICK m : m = (n + 1) + 1
      OBVIOUS
    <3>5. f[m] = f[n + 1] \o s[m] /\ g[m] = g[n + 1] \o t[m]
      BY ONLY <2>4, <2>5, <3>1, <3>2, <3>4
    <3>6. Twins(N, R, s[m], t[m])
      BY <3>1, <3>4
    <3>7. Twins(N, R, f[m], g[m])
      BY ONLY <3>3, <3>5, <3>6, TwinsConcat
    <3> QED BY <3>4, <3>7
  <2>8. T = Nat
    <3>1. T \in SUBSET Nat
      OBVIOUS
    <3> HIDE DEF T
    <3> QED BY <2>6, <2>7, <3>1, SetInduction
  <2>9. Len(s) - 1 \in T
    <3> HIDE DEF T
    <3> QED BY <2>8, <2>1
  <2>10. Twins(N, R, f[Len(s)], g[Len(s)])
    <3>1. (Len(s) - 1) + 1 = Len(s) /\ Len(s) \in 1..Len(s)
      BY <2>1
    <3> QED BY <2>9, <3>1
  <2> QED BY <2>2, <2>3, <2>10
<1> QED BY <1>1, <1>2

ChildrenOf(level) == [i \in 1..Len(level) |-> level[i].children]

(* Levels is a recursive function; it is what its recursion says.          *)
LEMMA LevelsRecursion ==
  ASSUME discovered \in Nat, NEW forest
  PROVE  /\ DOMAIN Levels(forest) = 0..discovered
         /\ \A k \in 0..discovered :
              Levels(forest)[k] = IF k = 0 THEN forest
                                  ELSE FlattenSeq(ChildrenOf(Levels(forest)[k - 1]))
<1> DEFINE G(f, n) == [k \in 0..n |-> IF k = 0 THEN forest ELSE FlattenSeq(ChildrenOf(f[k - 1]))]
           T == {n \in Nat : \E f : f = G(f, n)}
<1>1. 0 \in T
  <2> DEFINE z == [i \in 0..0 |-> forest]
  <2>1. z = G(z, 0)
    OBVIOUS
  <2>2. \E f : f = G(f, 0)
    <3> HIDE DEF G, z
    <3> QED BY <2>1
  <2> HIDE DEF G
  <2> QED BY <2>2
<1>2. ASSUME NEW n \in T PROVE n + 1 \in T
  <2>1. PICK f : f = G(f, n)
    OBVIOUS
  <2> DEFINE e(i) == IF i = 0 THEN forest ELSE FlattenSeq(ChildrenOf(f[i - 1]))
             h == [i \in 0..n + 1 |-> e(i)]
  <2>2. n \in Nat /\ f = [i \in 0..n |-> e(i)]
    BY <2>1
  <2>3. \A i \in 0..n : f[i] = e(i)
    <3> HIDE DEF e
    <3> QED BY <2>2
  <2>4. \A i \in 0..n : h[i] = f[i]
    <3> HIDE DEF e
    <3> QED BY <2>2, <2>3
  <2>5. \A i \in 0..n + 1 : i # 0 => i - 1 \in 0..n
    BY <2>2
  <2>6. \A i \in 0..n + 1 : e(i) = IF i = 0 THEN forest ELSE FlattenSeq(ChildrenOf(h[i - 1]))
    <3> HIDE DEF h
    <3> QED BY <2>4, <2>5
  <2>7. h = G(h, n + 1)
    <3> HIDE DEF e
    <3> QED BY <2>6
  <2>8. \E g : g = G(g, n + 1)
    <3> HIDE DEF G, h
    <3> QED BY <2>7
  <2>9. n + 1 \in Nat
    BY <2>2
  <2> HIDE DEF G, h
  <2> QED BY <2>8, <2>9
<1>3. T = Nat
  <2>1. T \in SUBSET Nat
    OBVIOUS
  <2> HIDE DEF T
  <2> QED BY <1>1, <1>2, <2>1, SetInduction
<1>4. \E f : f = G(f, discovered)
  <2> HIDE DEF G
  <2> QED BY <1>3
<1> DEFINE c == CHOOSE f : f = G(f, discovered)
<1>5. c = G(c, discovered)
  <2> HIDE DEF G
  <2> QED BY <1>4
<1>6. Levels(forest) = c
  BY DEF Levels, ChildrenOf
<1> HIDE DEF c
<1> QED BY <1>5, <1>6

(* What is closed under children holds the levels of what it holds.        *)
LEMMA LevelsIn ==
  ASSUME discovered \in Nat, NEW A, \A a \in A : a.children \in Seq(A),
         NEW forest \in Seq(A)
  PROVE  \A k \in 0..discovered : Levels(forest)[k] \in Seq(A)
<1>1. PICK level : level = Levels(forest)
  OBVIOUS
<1>2. \A k \in 0..discovered :
        level[k] = IF k = 0 THEN forest ELSE FlattenSeq(ChildrenOf(level[k - 1]))
  BY <1>1, LevelsRecursion
<1> DEFINE T == {k \in Nat : k \in 0..discovered => level[k] \in Seq(A)}
<1>3. 0 \in T
  BY <1>2
<1>4. ASSUME NEW k \in T PROVE k + 1 \in T
  <2> SUFFICES ASSUME k + 1 \in 0..discovered PROVE level[k + 1] \in Seq(A)
    OBVIOUS
  <2>1. k \in Nat /\ k \in 0..discovered /\ k + 1 # 0 /\ (k + 1) - 1 = k
    OBVIOUS
  <2>2. level[k] \in Seq(A)
    BY <2>1
  <2> HIDE DEF T
  <2>3. level[k + 1] = FlattenSeq(ChildrenOf(level[k]))
    BY <1>2, <2>1
  <2>4. ChildrenOf(level[k]) \in Seq(Seq(A))
    <3>1. \A i \in 1..Len(level[k]) : level[k][i].children \in Seq(A)
      BY <2>2
    <3>2. Len(level[k]) \in Nat
      BY <2>2
    <3> QED BY <3>1, <3>2 DEF ChildrenOf
  <2> QED BY <2>3, <2>4, FlattenType
<1>5. T = Nat
  <2>1. T \in SUBSET Nat
    OBVIOUS
  <2> HIDE DEF T
  <2> QED BY <1>3, <1>4, <2>1, SetInduction
<1> QED BY <1>1, <1>5

(* Twins are twins at every level.                                         *)
LEMMA LevelsAreTwins ==
  ASSUME discovered \in Nat, NEW N, NEW R, NEW u, NEW l, Faithful(N, R, u, l),
         NEW audits, NEW children, Twins(N, R, audits, children)
  PROVE  \A k \in 0..discovered : Twins(N, R, Levels(audits)[k], Levels(children)[k])
<1>1. PICK a : a = Levels(audits)
  OBVIOUS
<1>2. PICK c : c = Levels(children)
  OBVIOUS
<1>3. \A k \in 0..discovered :
        a[k] = IF k = 0 THEN audits ELSE FlattenSeq(ChildrenOf(a[k - 1]))
  BY <1>1, LevelsRecursion
<1>4. \A k \in 0..discovered :
        c[k] = IF k = 0 THEN children ELSE FlattenSeq(ChildrenOf(c[k - 1]))
  BY <1>2, LevelsRecursion
<1> DEFINE T == {k \in Nat : k \in 0..discovered => Twins(N, R, a[k], c[k])}
<1>5. 0 \in T
  BY <1>3, <1>4
<1>6. ASSUME NEW k \in T PROVE k + 1 \in T
  <2> SUFFICES ASSUME k + 1 \in 0..discovered PROVE Twins(N, R, a[k + 1], c[k + 1])
    OBVIOUS
  <2>1. k \in Nat /\ k \in 0..discovered /\ k + 1 # 0 /\ (k + 1) - 1 = k
    OBVIOUS
  <2>2. Twins(N, R, a[k], c[k])
    BY <2>1
  <2> HIDE DEF T
  <2>3. a[k + 1] = FlattenSeq(ChildrenOf(a[k])) /\ c[k + 1] = FlattenSeq(ChildrenOf(c[k]))
    BY <1>3, <1>4, <2>1
  <2>4. PICK s : s = ChildrenOf(a[k])
    OBVIOUS
  <2>5. PICK t : t = ChildrenOf(c[k])
    OBVIOUS
  <2>6. /\ a[k] \in Seq(N) /\ c[k] \in Seq(N) /\ Len(a[k]) \in Nat /\ Len(c[k]) = Len(a[k])
        /\ \A i \in 1..Len(a[k]) : <<a[k][i], c[k][i]>> \in R
    BY <2>2 DEF Twins
  <2>7. /\ Len(s) = Len(a[k]) /\ (s = <<>> <=> Len(s) = 0)
        /\ \A i \in 1..Len(a[k]) : s[i] = a[k][i].children
    BY <2>4, <2>6 DEF ChildrenOf
  <2>8. /\ Len(t) = Len(a[k]) /\ (t = <<>> <=> Len(t) = 0)
        /\ \A i \in 1..Len(a[k]) : t[i] = c[k][i].children
    <3>1. PICK d : d = c[k]
      OBVIOUS
    <3>2. d \in Seq(N) /\ Len(d) \in Nat
      BY <2>6, <3>1
    <3>3. t = ChildrenOf(d)
      BY <2>5, <3>1
    <3>4. /\ Len(t) = Len(d) /\ (t = <<>> <=> Len(t) = 0)
          /\ \A i \in 1..Len(d) : t[i] = d[i].children
      BY ONLY <3>2, <3>3 DEF ChildrenOf
    <3> QED BY <2>6, <3>1, <3>4
  <2>9. ASSUME NEW i \in 1..Len(s) PROVE Twins(N, R, s[i], t[i])
    <3>1. a[k][i] \in N /\ c[k][i] \in N /\ <<a[k][i], c[k][i]>> \in R
      BY <2>6, <2>7
    <3>2. Twins(N, R, a[k][i].children, c[k][i].children)
      BY <3>1 DEF Faithful
    <3> QED BY <2>7, <2>8, <3>2
  <2>10. Twins(N, R, FlattenSeq(s), FlattenSeq(t))
    BY <2>6, <2>7, <2>8, <2>9, FlattenTwins
  <2> QED BY <2>3, <2>4, <2>5, <2>10
<1>7. T = Nat
  <2>1. T \in SUBSET Nat
    OBVIOUS
  <2> HIDE DEF T
  <2> QED BY <1>5, <1>6, <2>1, SetInduction
<1> QED BY <1>1, <1>2, <1>7

LEMMA TwinsHaveOneShape ==
  ASSUME discovered \in Nat, NEW N, NEW R, NEW u, NEW l, Faithful(N, R, u, l),
         NEW audits, NEW children, Twins(N, R, audits, children)
  PROVE  Shape(audits) = Shape(children)
<1>1. PICK a : a = Levels(audits)
  OBVIOUS
<1>2. PICK c : c = Levels(children)
  OBVIOUS
<1>3. DOMAIN a = 0..discovered /\ DOMAIN c = 0..discovered
  BY <1>1, <1>2, LevelsRecursion
<1>4. \A k \in 0..discovered : Twins(N, R, a[k], c[k])
  BY <1>1, <1>2, LevelsAreTwins
<1>5. ASSUME NEW k \in 0..discovered
      PROVE  [i \in 1..Len(a[k]) |-> Len(a[k][i].children)]
             = [i \in 1..Len(c[k]) |-> Len(c[k][i].children)]
  <2>1. /\ a[k] \in Seq(N) /\ c[k] \in Seq(N) /\ Len(c[k]) = Len(a[k])
        /\ \A i \in 1..Len(a[k]) : <<a[k][i], c[k][i]>> \in R
    BY <1>4 DEF Twins
  <2>2. ASSUME NEW i \in 1..Len(a[k])
        PROVE  Len(a[k][i].children) = Len(c[k][i].children)
    <3>1. a[k][i] \in N /\ c[k][i] \in N /\ <<a[k][i], c[k][i]>> \in R
      BY <2>1
    <3>2. Twins(N, R, a[k][i].children, c[k][i].children)
      BY <3>1 DEF Faithful
    <3> QED BY <3>2 DEF Twins
  <2> QED BY <2>1, <2>2
<1> DEFINE S(f) == [k \in DOMAIN f |-> [i \in 1..Len(f[k]) |-> Len(f[k][i].children)]]
<1>6. Shape(audits) = S(a) /\ Shape(children) = S(c)
  BY <1>1, <1>2 DEF Shape
<1>7. S(a) = S(c)
  BY <1>3, <1>5
<1> QED BY <1>6, <1>7

LEMMA NodesIn ==
  ASSUME discovered \in Nat, NEW A, \A a \in A : a.children \in Seq(A),
         NEW forest \in Seq(A)
  PROVE  Nodes(forest) \subseteq A
<1>1. PICK level : level = Levels(forest)
  OBVIOUS
<1>2. DOMAIN level = 0..discovered /\ \A k \in 0..discovered : level[k] \in Seq(A)
  BY <1>1, LevelsIn, LevelsRecursion
<1>3. Nodes(forest) = UNION {{level[k][i] : i \in 1..Len(level[k])} : k \in DOMAIN level}
  BY <1>1 DEF Nodes
<1> QED BY <1>2, <1>3

LEMMA AuditFollows == TraversalInv => AuditIsTrue
<1> SUFFICES ASSUME TraversalInv, Final PROVE
      /\ Shape(result.root.children) = Shape(result.children)
      /\ \A node \in Nodes(<<result.root>>) : SpansSubtree(node) /\ AxisIsExhausted(node)
  BY DEF AuditIsTrue
<1>1. PICK N, R : /\ Faithful(N, R, usage, late)
                  /\ ResultOK(result, phase, N, R, usage, late)
  BY DEF TraversalInv, AuditInv
<1>2. PICK root : root = result.root
  OBVIOUS
<1>3. /\ Twins(N, R, root.children, result.children)
      /\ root.before = Unused /\ root.after = usage
      /\ Chained(Unused, root.children, usage) /\ Exhausted(root.hit, usage, late)
  BY <1>1, <1>2 DEF ResultOK, Final
<1>4. discovered \in Nat /\ usage \in Usages
  BY DEF TraversalInv, TypeInv
<1>5. Shape(root.children) = Shape(result.children)
  BY <1>1, <1>3, <1>4, TwinsHaveOneShape
<1> DEFINE A == {a \in N : \E c \in N : <<a, c>> \in R}
           B == A \cup {root}
<1>6. ASSUME NEW audits, NEW children, Twins(N, R, audits, children)
      PROVE  audits \in Seq(B)
  <2>1. /\ audits \in Seq(N) /\ children \in Seq(N) /\ Len(audits) = Len(children)
        /\ \A i \in 1..Len(audits) : <<audits[i], children[i]>> \in R
    BY <1>6 DEF Twins
  <2>2. ASSUME NEW i \in 1..Len(audits) PROVE audits[i] \in B
    <3>1. audits[i] \in N /\ children[i] \in N /\ <<audits[i], children[i]>> \in R
      BY <2>1
    <3> QED BY <3>1
  <2> HIDE DEF B
  <2> QED BY <2>1, <2>2
<1>7. ASSUME NEW b \in B PROVE b.children \in Seq(B)
  <2>1. CASE b = root
    <3> HIDE DEF B
    <3> QED BY <1>3, <1>6, <2>1
  <2>2. CASE b \in A
    <3>1. PICK c \in N : b \in N /\ <<b, c>> \in R
      BY <2>2
    <3>2. Twins(N, R, b.children, c.children)
      BY <1>1, <3>1 DEF Faithful
    <3> HIDE DEF B
    <3> QED BY <1>6, <3>2
  <2> QED BY <2>1, <2>2
<1>8. Nodes(<<root>>) \subseteq B
  <2>1. <<root>> \in Seq(B)
    OBVIOUS
  <2> HIDE DEF B
  <2> QED BY <1>4, <1>7, <2>1, NodesIn
<1>9. ASSUME NEW b \in B PROVE SpansSubtree(b) /\ Exhausted(b.hit, usage, late)
  <2>1. CASE b = root
    <3>1. LeqUsage(Unused, usage)
      BY <1>4, UnusedIsLeast
    <3> HIDE DEF B
    <3> QED BY <1>3, <2>1, <3>1 DEF SpansSubtree, Chained
  <2>2. CASE b \in A
    <3>1. PICK c \in N : b \in N /\ <<b, c>> \in R
      BY <2>2
    <3> QED BY <1>1, <3>1 DEF Faithful, Sound
  <2> QED BY <2>1, <2>2
<1>10. ASSUME NEW b \in B PROVE AxisIsExhausted(b)
  BY <1>2, <1>3, <1>9 DEF AxisIsExhausted, Exhausted
<1> HIDE DEF B
<1> QED BY <1>2, <1>5, <1>8, <1>9, <1>10

(* BudgetAllocationNode, any tree: the audit tree has the shape of the     *)
(* tree of children at every level, every node spans the usage of its      *)
(* subtree and starts after its sibling, and an axis named for a node was  *)
(* really exhausted.                                                       *)
THEOREM AuditIsTrueHolds == Spec => []AuditIsTrue
BY AuditFollows, TraversalHolds, PTL

-----------------------------------------------------------------------------
(* Counting.  S gives the size of each tree; the sum of the sizes along a  *)
(* forest is the last of its partial sums p.                               *)
Sums(S, forest, p) ==
  /\ p \in [0..Len(forest) -> Nat] /\ p[0] = 0
  /\ \A i \in 1..Len(forest) : p[i] = p[i - 1] + S[forest[i]]

Counted(S, forest, n) == \E p : Sums(S, forest, p) /\ n = p[Len(forest)]

Count(S, forest) == CHOOSE n \in Nat : Counted(S, forest, n)

LEMMA SumsExist ==
  ASSUME NEW N, NEW S \in [N -> Nat], NEW forest \in Seq(N)
  PROVE  \E n \in Nat : Counted(S, forest, n)
<1>1. Len(forest) \in Nat /\ \A i \in 1..Len(forest) : S[forest[i]] \in Nat
  OBVIOUS
<1> DEFINE Upto(p, k) == /\ p \in [0..k -> Nat] /\ p[0] = 0
                         /\ \A i \in 1..k : p[i] = p[i - 1] + S[forest[i]]
           T == {k \in Nat : k <= Len(forest) => \E p : Upto(p, k)}
<1>2. 0 \in T
  <2>1. PICK z : z = [i \in 0..0 |-> 0]
    OBVIOUS
  <2>2. Upto(z, 0)
    BY <2>1
  <2> HIDE DEF Upto
  <2> QED BY <2>2
<1>3. ASSUME NEW k \in T PROVE k + 1 \in T
  <2> HIDE DEF Upto
  <2> SUFFICES ASSUME k + 1 <= Len(forest) PROVE \E p : Upto(p, k + 1)
    OBVIOUS
  <2>1. k \in Nat /\ k <= Len(forest) /\ k + 1 \in 1..Len(forest)
    BY <1>1
  <2>2. PICK p : Upto(p, k)
    BY <2>1
  <2> USE DEF Upto
  <2>3. PICK x \in Nat : x = p[k] + S[forest[k + 1]]
    <3>1. p[k] \in Nat /\ S[forest[k + 1]] \in Nat
      BY <1>1, <2>1, <2>2
    <3> QED BY <3>1
  <2>4. PICK q : q = [i \in 0..k + 1 |-> IF i = k + 1 THEN x ELSE p[i]]
    OBVIOUS
  <2>5. q \in [0..k + 1 -> Nat] /\ q[0] = 0
    BY <2>1, <2>2, <2>4
  <2>6. ASSUME NEW i \in 1..k + 1 PROVE q[i] = q[i - 1] + S[forest[i]]
    <3>1. CASE i = k + 1
      <4>1. q[i] = x /\ q[i - 1] = p[k]
        BY <2>1, <2>4, <3>1
      <4> QED BY <2>3, <3>1, <4>1
    <3>2. CASE i # k + 1
      <4>1. i \in 1..k /\ q[i] = p[i] /\ q[i - 1] = p[i - 1]
        BY <2>1, <2>4, <3>2
      <4> QED BY <2>2, <4>1
    <3> QED BY <3>1, <3>2
  <2> QED BY <2>5, <2>6
<1>4. T = Nat
  <2>1. T \in SUBSET Nat
    OBVIOUS
  <2> HIDE DEF T
  <2> QED BY <1>2, <1>3, <2>1, SetInduction
<1>5. PICK p : Upto(p, Len(forest))
  <2> HIDE DEF Upto
  <2> QED BY <1>1, <1>4
<1>6. Sums(S, forest, p) /\ p[Len(forest)] \in Nat
  BY <1>1, <1>5 DEF Sums
<1> QED BY <1>6 DEF Counted

LEMMA SumsAreUnique ==
  ASSUME NEW N, NEW S \in [N -> Nat], NEW forest \in Seq(N),
         NEW n, Counted(S, forest, n), NEW m, Counted(S, forest, m)
  PROVE  n = m
<1>1. Len(forest) \in Nat /\ \A i \in 1..Len(forest) : S[forest[i]] \in Nat
  OBVIOUS
<1>2. PICK p : Sums(S, forest, p) /\ n = p[Len(forest)]
  BY DEF Counted
<1>3. PICK q : Sums(S, forest, q) /\ m = q[Len(forest)]
  BY DEF Counted
<1> DEFINE T == {k \in Nat : k <= Len(forest) => p[k] = q[k]}
<1>4. 0 \in T
  BY <1>2, <1>3 DEF Sums
<1>5. ASSUME NEW k \in T PROVE k + 1 \in T
  <2>1. SUFFICES ASSUME k + 1 <= Len(forest) PROVE p[k + 1] = q[k + 1]
    OBVIOUS
  <2>2. k \in Nat /\ p[k] = q[k] /\ k + 1 \in 1..Len(forest) /\ (k + 1) - 1 = k
    BY <1>1, <2>1
  <2> HIDE DEF T
  <2>3. p[k + 1] = p[k] + S[forest[k + 1]] /\ q[k + 1] = q[k] + S[forest[k + 1]]
    BY <1>2, <1>3, <2>2 DEF Sums
  <2> QED BY <2>2, <2>3
<1>6. T = Nat
  <2>1. T \in SUBSET Nat
    OBVIOUS
  <2> HIDE DEF T
  <2> QED BY <1>4, <1>5, <2>1, SetInduction
<1> QED BY <1>1, <1>2, <1>3, <1>6

LEMMA CountIs ==
  ASSUME NEW N, NEW S \in [N -> Nat], NEW forest \in Seq(N)
  PROVE  /\ Count(S, forest) \in Nat /\ Counted(S, forest, Count(S, forest))
         /\ \A n : Counted(S, forest, n) => Count(S, forest) = n
<1>1. Count(S, forest) \in Nat /\ Counted(S, forest, Count(S, forest))
  BY SumsExist DEF Count
<1> QED BY <1>1, SumsAreUnique

LEMMA CountEmpty ==
  ASSUME NEW N, NEW S \in [N -> Nat]
  PROVE  Count(S, <<>>) = 0
<1>1. PICK z : z = [i \in 0..0 |-> 0]
  OBVIOUS
<1>2. Sums(S, <<>>, z) /\ z[Len(<<>>)] = 0
  BY <1>1 DEF Sums
<1>3. Counted(S, <<>>, 0)
  BY <1>2 DEF Counted
<1>4. <<>> \in Seq(N)
  OBVIOUS
<1> QED BY <1>3, <1>4, CountIs

(* Two forests, one after the other.                                       *)
LEMMA CountConcat ==
  ASSUME NEW N, NEW S \in [N -> Nat], NEW a \in Seq(N), NEW b \in Seq(N)
  PROVE  a \o b \in Seq(N) /\ Count(S, a \o b) = Count(S, a) + Count(S, b)
<1>1. PICK c : c = a \o b
  OBVIOUS
<1>2. PICK x \in Nat : x = Len(a)
  OBVIOUS
<1>3. PICK y \in Nat : y = Len(b)
  OBVIOUS
<1>4. /\ c \in Seq(N) /\ Len(c) = x + y
      /\ \A i \in 1..(x + y) : c[i] = IF i <= x THEN a[i] ELSE b[i - x]
  BY <1>1, <1>2, <1>3, JoinIs
<1>5. PICK p : Sums(S, a, p) /\ Count(S, a) = p[x]
  BY <1>2, CountIs DEF Counted
<1>6. PICK q : Sums(S, b, q) /\ Count(S, b) = q[y]
  BY <1>3, CountIs DEF Counted
<1>7. /\ p \in [0..x -> Nat] /\ p[0] = 0 /\ \A i \in 1..x : p[i] = p[i - 1] + S[a[i]]
      /\ q \in [0..y -> Nat] /\ q[0] = 0 /\ \A i \in 1..y : q[i] = q[i - 1] + S[b[i]]
  BY <1>2, <1>3, <1>5, <1>6 DEF Sums
<1>8. PICK r : r = [i \in 0..(x + y) |-> IF i <= x THEN p[i] ELSE p[x] + q[i - x]]
  OBVIOUS
<1>9. r \in [0..(x + y) -> Nat] /\ r[0] = 0
  BY <1>7, <1>8
<1>10. r[x + y] = p[x] + q[y]
  <2>1. CASE y = 0
    BY <1>7, <1>8, <2>1
  <2>2. CASE y # 0
    BY <1>8, <2>2
  <2> QED BY <2>1, <2>2
<1>11. ASSUME NEW i \in 1..(x + y) PROVE r[i] = r[i - 1] + S[c[i]]
  <2>1. CASE i <= x
    <3>1. r[i] = p[i] /\ r[i - 1] = p[i - 1] /\ c[i] = a[i] /\ i \in 1..x
      BY <1>4, <1>8, <2>1
    <3> QED BY <1>7, <3>1
  <2>2. CASE i > x
    <3>1. PICK j \in 1..y : j = i - x
      BY <2>2
    <3>2. r[i] = p[x] + q[j] /\ c[i] = b[j]
      BY <1>4, <1>8, <2>2, <3>1
    <3>3. r[i - 1] = p[x] + q[j - 1]
      <4>1. CASE j = 1
        <5>1. i - 1 = x /\ j - 1 = 0
          BY <3>1, <4>1
        <5> QED BY <1>7, <1>8, <5>1
      <4>2. CASE j # 1
        BY <1>8, <3>1, <4>2
      <4> QED BY <4>1, <4>2
    <3>4. q[j] = q[j - 1] + S[b[j]] /\ p[x] \in Nat /\ q[j - 1] \in Nat /\ S[b[j]] \in Nat
      <4>1. j - 1 \in 0..y /\ x \in 0..x
        OBVIOUS
      <4>2. b[j] \in N
        BY <1>3
      <4>3. S[b[j]] \in Nat
        BY <4>2
      <4>4. q[j] = q[j - 1] + S[b[j]]
        BY ONLY <1>7, j \in 1..y
      <4>5. p[x] \in Nat /\ q[j - 1] \in Nat
        BY ONLY <1>7, <4>1
      <4> QED BY <4>3, <4>4, <4>5
    <3> QED BY <3>2, <3>3, <3>4
  <2> QED BY <2>1, <2>2
<1>12. Sums(S, c, r)
  BY <1>4, <1>9, <1>11 DEF Sums
<1>13. Counted(S, c, p[x] + q[y])
  BY <1>4, <1>10, <1>12 DEF Counted
<1> QED BY <1>1, <1>4, <1>5, <1>6, <1>13, CountIs

LEMMA CountAppend ==
  ASSUME NEW N, NEW S \in [N -> Nat], NEW forest \in Seq(N), NEW c \in N
  PROVE  /\ Append(forest, c) \in Seq(N)
         /\ Count(S, Append(forest, c)) = Count(S, forest) + S[c]
<1>1. Append(forest, c) = forest \o <<c>> /\ <<c>> \in Seq(N)
  OBVIOUS
<1>2. Count(S, <<c>>) = S[c]
  <2>1. PICK z : z = [i \in 0..1 |-> IF i = 0 THEN 0 ELSE S[c]]
    OBVIOUS
  <2>2. Sums(S, <<c>>, z) /\ z[Len(<<c>>)] = S[c]
    BY <2>1 DEF Sums
  <2>3. Counted(S, <<c>>, S[c])
    BY <2>2 DEF Counted
  <2> QED BY <1>1, <2>3, CountIs
<1>3. PICK b \in Seq(N) : b = <<c>>
  BY <1>1
<1>4. forest \o b \in Seq(N) /\ Count(S, forest \o b) = Count(S, forest) + Count(S, b)
  BY CountConcat
<1> QED BY <1>1, <1>2, <1>3, <1>4

(* A forest counts as much as it did when there are more trees.            *)
LEMMA CountStays ==
  ASSUME NEW N, NEW S \in [N -> Nat], NEW forest \in Seq(N),
         NEW M, NEW Z \in [M -> Nat], N \subseteq M, \A c \in N : Z[c] = S[c]
  PROVE  Count(Z, forest) = Count(S, forest)
<1>1. forest \in Seq(M)
  OBVIOUS
<1>2. PICK p : Sums(S, forest, p) /\ Count(S, forest) = p[Len(forest)]
  BY CountIs DEF Counted
<1>3. \A i \in 1..Len(forest) : Z[forest[i]] = S[forest[i]]
  OBVIOUS
<1>4. Sums(Z, forest, p)
  BY <1>2, <1>3 DEF Sums
<1>5. Counted(Z, forest, Count(S, forest))
  BY <1>2, <1>4 DEF Counted
<1> QED BY <1>1, <1>5, CountIs

-----------------------------------------------------------------------------
(* S is the number of nodes of each tree of N, itself included.            *)
Sized(N, S) ==
  /\ S \in [N -> Nat]
  /\ \A c \in N : c.children \in Seq(N) /\ S[c] = 1 + Count(S, c.children)

(* The trees of a forest without their roots.                              *)
LEMMA CountChildren ==
  ASSUME NEW N, NEW S, Sized(N, S), NEW forest \in Seq(N)
  PROVE  /\ FlattenSeq(ChildrenOf(forest)) \in Seq(N)
         /\ Count(S, FlattenSeq(ChildrenOf(forest))) + Len(forest) = Count(S, forest)
<1>1. PICK n \in Nat : n = Len(forest)
  OBVIOUS
<1>2. PICK s : s = ChildrenOf(forest)
  OBVIOUS
<1>3. S \in [N -> Nat] /\ \A i \in 1..n : forest[i] \in N
  BY <1>1 DEF Sized
<1>4. \A i \in 1..n : forest[i].children \in Seq(N)
  BY <1>3 DEF Sized
<1>5. s \in Seq(Seq(N)) /\ Len(s) = n /\ \A i \in 1..n : s[i] = forest[i].children
  BY <1>1, <1>2, <1>4 DEF ChildrenOf
<1>6. PICK p : Sums(S, forest, p) /\ Count(S, forest) = p[n]
  BY <1>1, <1>3, CountIs DEF Counted
<1>7. p \in [0..n -> Nat] /\ p[0] = 0 /\ \A i \in 1..n : p[i] = p[i - 1] + S[forest[i]]
  BY <1>1, <1>6 DEF Sums
<1> DEFINE P == [i \in 0..n |-> {t \in Seq(N) : Count(S, t) + i = p[i]}]
<1>8. <<>> \in P[0]
  BY <1>1, <1>3, <1>7, CountEmpty
<1>9. \A i \in 1..Len(s), t \in Seq(N) : t \in P[i - 1] => t \o s[i] \in P[i]
  <2> SUFFICES ASSUME NEW i \in 1..Len(s), NEW t \in Seq(N), t \in P[i - 1]
               PROVE  t \o s[i] \in P[i]
    OBVIOUS
  <2>1. i \in 1..n /\ i - 1 \in 0..n /\ i \in 0..n
    BY <1>5
  <2>2. Count(S, t) + (i - 1) = p[i - 1]
    BY <2>1
  <2>3. PICK c \in N : c = forest[i]
    BY <1>3, <2>1
  <2>4. PICK k \in Seq(N) : k = s[i] /\ k = c.children
    BY <1>4, <1>5, <2>1, <2>3
  <2>5. S[c] = 1 + Count(S, k) /\ p[i] = p[i - 1] + S[c]
    BY <1>7, <2>1, <2>3, <2>4 DEF Sized
  <2>6. t \o k \in Seq(N) /\ Count(S, t \o k) = Count(S, t) + Count(S, k)
    BY <1>3, CountConcat
  <2>7. Count(S, t) \in Nat /\ Count(S, k) \in Nat
    BY <1>3, CountIs
  <2>8. Count(S, t \o k) + i = p[i]
    BY <2>1, <2>2, <2>5, <2>6, <2>7
  <2> QED BY <2>1, <2>4, <2>6, <2>8
<1>10. FlattenSeq(s) \in Seq(N) /\ FlattenSeq(s) \in P[n]
  <2>1. <<>> \in P[0]
    BY <1>8
  <2> HIDE DEF P
  <2> QED BY <1>5, <1>9, <2>1, FlattenInduction
<1>11. Count(S, FlattenSeq(s)) + n = p[n]
  BY <1>1, <1>10
<1> QED BY <1>1, <1>2, <1>6, <1>10, <1>11

LEMMA CountBounds ==
  ASSUME NEW N, NEW S, Sized(N, S), NEW forest \in Seq(N)
  PROVE  /\ Count(S, forest) \in Nat /\ Len(forest) \in Nat
         /\ Len(forest) <= Count(S, forest)
         /\ Len(forest) = 0 => Count(S, forest) = 0
<1>1. S \in [N -> Nat]
  BY DEF Sized
<1>2. PICK t \in Seq(N) : t = FlattenSeq(ChildrenOf(forest))
  BY CountChildren
<1>3. Count(S, t) + Len(forest) = Count(S, forest)
  BY <1>2, CountChildren
<1>4. Count(S, t) \in Nat /\ Count(S, forest) \in Nat /\ Len(forest) \in Nat
  <2>1. Count(S, t) \in Nat
    BY <1>1, CountIs
  <2>2. Count(S, forest) \in Nat
    BY <1>1, CountIs
  <2> QED BY <2>1, <2>2
<1>5. Len(forest) = 0 => Count(S, forest) = 0
  <2>1. Len(forest) = 0 => forest = <<>>
    OBVIOUS
  <2> QED BY <1>1, <2>1, CountEmpty
<1> QED BY <1>3, <1>4, <1>5

(* CountNodes is a recursive function; it is what its recursion says.      *)
LEMMA TotalRecursion ==
  ASSUME discovered \in Nat, NEW forest
  PROVE  \E total : /\ \A k \in 0..discovered :
                         total[k] = Len(Levels(forest)[k])
                                    + IF k = 0 THEN 0 ELSE total[k - 1]
                    /\ CountNodes(forest) = total[discovered]
<1>1. PICK level : level = Levels(forest)
  OBVIOUS
<1> DEFINE G(f, n) == [k \in 0..n |-> Len(level[k]) + IF k = 0 THEN 0 ELSE f[k - 1]]
           T == {n \in Nat : \E f : f = G(f, n)}
<1>2. 0 \in T
  <2> DEFINE z == [k \in 0..0 |-> Len(level[k]) + 0]
  <2>1. z = G(z, 0)
    OBVIOUS
  <2>2. \E f : f = G(f, 0)
    <3> HIDE DEF G, z
    <3> QED BY <2>1
  <2> HIDE DEF G
  <2> QED BY <2>2
<1>3. ASSUME NEW n \in T PROVE n + 1 \in T
  <2>1. PICK f : f = G(f, n)
    OBVIOUS
  <2> DEFINE e(i) == Len(level[i]) + IF i = 0 THEN 0 ELSE f[i - 1]
             h == [i \in 0..n + 1 |-> e(i)]
  <2>2. n \in Nat /\ f = [i \in 0..n |-> e(i)]
    BY <2>1
  <2>3. \A i \in 0..n : f[i] = e(i)
    <3> HIDE DEF e
    <3> QED BY <2>2
  <2>4. \A i \in 0..n : h[i] = f[i]
    <3> HIDE DEF e
    <3> QED BY <2>2, <2>3
  <2>5. \A i \in 0..n + 1 : i # 0 => i - 1 \in 0..n
    BY <2>2
  <2>6. \A i \in 0..n + 1 : e(i) = Len(level[i]) + IF i = 0 THEN 0 ELSE h[i - 1]
    <3> HIDE DEF h
    <3> QED BY <2>4, <2>5
  <2>7. h = G(h, n + 1)
    <3> HIDE DEF e
    <3> QED BY <2>6
  <2>8. \E g : g = G(g, n + 1)
    <3> HIDE DEF G, h
    <3> QED BY <2>7
  <2>9. n + 1 \in Nat
    BY <2>2
  <2> HIDE DEF G, h
  <2> QED BY <2>8, <2>9
<1>4. T = Nat
  <2>1. T \in SUBSET Nat
    OBVIOUS
  <2> HIDE DEF T
  <2> QED BY <1>2, <1>3, <2>1, SetInduction
<1>5. \E f : f = G(f, discovered)
  <2> HIDE DEF G
  <2> QED BY <1>4
<1> DEFINE c == CHOOSE f : f = G(f, discovered)
<1>6. c = G(c, discovered)
  <2> HIDE DEF G
  <2> QED BY <1>5
<1>7. DOMAIN level = 0..discovered
  BY <1>1, LevelsRecursion
<1>8. CountNodes(forest) = c[discovered]
  BY <1>1, <1>7 DEF CountNodes
<1>9. PICK d : d = c
  OBVIOUS
<1>10. \A k \in 0..discovered : d[k] = Len(level[k]) + IF k = 0 THEN 0 ELSE d[k - 1]
  <2>1. d = [k \in 0..discovered |-> Len(level[k]) + IF k = 0 THEN 0 ELSE d[k - 1]]
    BY <1>6, <1>9
  <2> QED BY <2>1
<1> HIDE DEF c
<1> QED BY <1>1, <1>8, <1>9, <1>10

(* A forest of as many nodes as there are levels is counted completely.    *)
LEMMA NodesAreCounted ==
  ASSUME discovered \in Nat, NEW N, NEW S, Sized(N, S), NEW forest \in Seq(N),
         Count(S, forest) = discovered
  PROVE  CountNodes(forest) = discovered
<1>1. PICK level : level = Levels(forest)
  OBVIOUS
<1>2. \A k \in 0..discovered :
        level[k] = IF k = 0 THEN forest ELSE FlattenSeq(ChildrenOf(level[k - 1]))
  BY <1>1, LevelsRecursion
<1>3. PICK total : /\ \A k \in 0..discovered :
                        total[k] = Len(level[k]) + IF k = 0 THEN 0 ELSE total[k - 1]
                   /\ CountNodes(forest) = total[discovered]
  BY <1>1, TotalRecursion
<1> DEFINE Seen(k) == /\ level[k] \in Seq(N) /\ total[k] \in Nat
                      /\ total[k] + Count(S, level[k]) = discovered + Len(level[k])
                      /\ Count(S, level[k]) = 0 \/ Count(S, level[k]) + k <= discovered
           T == {k \in Nat : k \in 0..discovered => Seen(k)}
<1>4. 0 \in T
  <2>1. 0 \in 0..discovered /\ level[0] = forest
    BY <1>2
  <2>2. total[0] = Len(forest) /\ Len(forest) \in Nat
    BY <1>3, <2>1
  <2>3. Seen(0)
    BY <2>1, <2>2
  <2> HIDE DEF Seen
  <2> QED BY <2>3
<1>5. ASSUME NEW k \in T PROVE k + 1 \in T
  <2> HIDE DEF Seen
  <2> SUFFICES ASSUME k + 1 \in 0..discovered PROVE Seen(k + 1)
    OBVIOUS
  <2>1. k \in Nat /\ k \in 0..discovered /\ k + 1 # 0 /\ (k + 1) - 1 = k
    OBVIOUS
  <2>2. Seen(k)
    BY <2>1
  <2> HIDE DEF T
  <2>3. PICK a \in Seq(N) : a = level[k]
    BY <2>2 DEF Seen
  <2>4. PICK b \in Seq(N) : b = FlattenSeq(ChildrenOf(a))
    BY CountChildren
  <2>5. level[k + 1] = b
    BY <1>2, <2>1, <2>3, <2>4
  <2>6. total[k + 1] = Len(b) + total[k]
    BY <1>3, <2>1, <2>5
  <2>7. Count(S, b) + Len(a) = Count(S, a)
    BY <2>4, CountChildren
  <2>8. /\ Count(S, a) \in Nat /\ Len(a) \in Nat /\ (Len(a) = 0 => Count(S, a) = 0)
        /\ Count(S, b) \in Nat /\ Len(b) \in Nat
    BY CountBounds
  <2>9. /\ total[k] \in Nat /\ total[k] + Count(S, a) = discovered + Len(a)
        /\ Count(S, a) = 0 \/ Count(S, a) + k <= discovered
    BY <2>2, <2>3 DEF Seen
  <2>10. /\ total[k + 1] \in Nat /\ total[k + 1] + Count(S, b) = discovered + Len(b)
         /\ Count(S, b) = 0 \/ Count(S, b) + (k + 1) <= discovered
    <3>1. PICK x \in Nat, y \in Nat, u \in Nat, v \in Nat, w \in Nat :
            /\ x = Count(S, a) /\ y = Count(S, b) /\ u = Len(a) /\ v = Len(b) /\ w = total[k]
      BY <2>8, <2>9
    <3>2. /\ v + w \in Nat /\ (v + w) + y = discovered + v
          /\ y = 0 \/ y + (k + 1) <= discovered
      <4>1. /\ y + u = x /\ w + x = discovered + u /\ (u = 0 => x = 0)
            /\ x = 0 \/ x + k <= discovered
        BY <2>7, <2>8, <2>9, <3>1
      <4> QED BY ONLY <4>1, <2>1, discovered \in Nat, x \in Nat, y \in Nat, u \in Nat,
                      v \in Nat, w \in Nat
    <3> QED BY <2>6, <3>1, <3>2
  <2> QED BY <2>5, <2>10 DEF Seen
<1>6. T = Nat
  <2>1. T \in SUBSET Nat
    OBVIOUS
  <2> HIDE DEF T
  <2> QED BY <1>4, <1>5, <2>1, SetInduction
<1>7. Seen(discovered)
  <2> HIDE DEF Seen
  <2>1. discovered \in T /\ discovered \in 0..discovered
    BY <1>6
  <2> QED BY <2>1
<1>8. PICK a \in Seq(N) : a = level[discovered]
  BY <1>7
<1>9. Count(S, a) \in Nat /\ Len(a) \in Nat /\ Len(a) <= Count(S, a)
  BY CountBounds
<1>10. /\ total[discovered] \in Nat /\ total[discovered] + Count(S, a) = discovered + Len(a)
       /\ Count(S, a) = 0 \/ Count(S, a) + discovered <= discovered
  BY <1>7, <1>8
<1>11. total[discovered] = discovered
  BY ONLY <1>9, <1>10, discovered \in Nat
<1> QED BY <1>3, <1>11

-----------------------------------------------------------------------------
(* Members that are seen.  A member a decoder returned is still to be      *)
(* visited or is a node of a tree of its frame, unless a tree of some      *)
(* frame is lossy.                                                         *)
Burden(S, F) == [f \in F |-> Count(S, f.children) + Len(f.todo)]

LossyTree(f) == \E j \in 1..Len(f.children) : f.children[j].loss

(* Frames of trees of N.                                                   *)
Framed(F, N) == \A f \in F : f.children \in Seq(N) /\ Len(f.todo) \in Nat

Tracked(st, N, S, n) ==
  \E F : /\ st \in Seq(F) /\ Framed(F, N)
         /\ \/ \E i \in 1..Len(st) : LossyTree(st[i])
            \/ Count(Burden(S, F), st) = n

(* A tree without loss has none below its root either.                     *)
Honest(N) ==
  \A c \in N : ~ c.loss =>
    c.status \in Lossless /\ \A i \in 1..Len(c.children) : ~ c.children[i].loss

LEMMA BurdenIs ==
  ASSUME NEW N, NEW S \in [N -> Nat], NEW F, Framed(F, N)
  PROVE  /\ Burden(S, F) \in [F -> Nat]
         /\ \A f \in F : Burden(S, F)[f] = Count(S, f.children) + Len(f.todo)
<1>1. \A f \in F : Count(S, f.children) + Len(f.todo) \in Nat
  <2> SUFFICES ASSUME NEW f \in F PROVE Count(S, f.children) + Len(f.todo) \in Nat
    OBVIOUS
  <2>1. f.children \in Seq(N) /\ Len(f.todo) \in Nat
    BY DEF Framed
  <2>2. Count(S, f.children) \in Nat
    BY <2>1, CountIs
  <2> QED BY <2>1, <2>2
<1> QED BY <1>1 DEF Burden

LEMMA BurdenStays ==
  ASSUME NEW N, NEW S, S \in [N -> Nat], NEW F, NEW E, F \subseteq E, Framed(E, N),
         NEW st \in Seq(F)
  PROVE  Count(Burden(S, E), st) = Count(Burden(S, F), st)
<1>1. /\ Burden(S, E) \in [E -> Nat]
      /\ \A f \in E : Burden(S, E)[f] = Count(S, f.children) + Len(f.todo)
  BY BurdenIs
<1>2. /\ Burden(S, F) \in [F -> Nat]
      /\ \A f \in F : Burden(S, F)[f] = Count(S, f.children) + Len(f.todo)
  <2>1. Framed(F, N)
    BY DEF Framed
  <2> QED BY <2>1, BurdenIs
<1>3. PICK V : V = Burden(S, F)
  OBVIOUS
<1>4. PICK W : W = Burden(S, E)
  OBVIOUS
<1>5. V \in [F -> Nat] /\ W \in [E -> Nat] /\ \A f \in F : W[f] = V[f]
  BY <1>1, <1>2, <1>3, <1>4
<1>6. Count(W, st) = Count(V, st)
  BY ONLY <1>5, F \subseteq E, st \in Seq(F), CountStays
<1> QED BY <1>3, <1>4, <1>6

LEMMA BurdenAppend ==
  ASSUME NEW N, NEW S, S \in [N -> Nat], NEW F, Framed(F, N),
         NEW outer \in Seq(F), NEW f \in F
  PROVE  /\ Count(Burden(S, F), outer) \in Nat /\ Count(S, f.children) + Len(f.todo) \in Nat
         /\ Count(Burden(S, F), Append(outer, f))
              = Count(Burden(S, F), outer) + (Count(S, f.children) + Len(f.todo))
<1>1. /\ Burden(S, F) \in [F -> Nat]
      /\ \A g \in F : Burden(S, F)[g] = Count(S, g.children) + Len(g.todo)
  BY BurdenIs
<1>2. PICK W : W = Burden(S, F)
  OBVIOUS
<1>3. W \in [F -> Nat] /\ W[f] = Count(S, f.children) + Len(f.todo) /\ W[f] \in Nat
  BY <1>1, <1>2
<1>4. Count(W, outer) \in Nat
  BY ONLY <1>3, outer \in Seq(F), CountIs
<1>5. Count(W, Append(outer, f)) = Count(W, outer) + W[f]
  BY ONLY <1>3, outer \in Seq(F), f \in F, CountAppend
<1> QED BY <1>2, <1>3, <1>4, <1>5

LEMMA TopSplit ==
  ASSUME NEW F, NEW st \in Seq(F), st # <<>>
  PROVE  \E outer \in Seq(F), f \in F :
           /\ outer = SubSeq(st, 1, Len(st) - 1) /\ f = st[Len(st)]
           /\ st = Append(outer, f) /\ Len(outer) = Len(st) - 1
           /\ \A g : WithTop(st, g) = Append(outer, g)
<1>1. PICK n \in Nat : n = Len(st) /\ n > 0
  OBVIOUS
<1>2. PICK outer : outer = SubSeq(st, 1, n - 1)
  OBVIOUS
<1>3. /\ outer \in Seq(F) /\ Len(outer) = n - 1
      /\ \A i \in 1..(n - 1) : outer[i] = st[i]
  BY <1>1, <1>2
<1>4. PICK f \in F : f = st[n]
  BY <1>1
<1>5. ASSUME NEW g PROVE [st EXCEPT ![n] = g] = Append(outer, g)
  <2>1. PICK E : E = F \cup {g}
    OBVIOUS
  <2>2. st \in Seq(E) /\ outer \in Seq(E) /\ g \in E
    BY <1>3, <2>1
  <2>3. PICK x : x = [st EXCEPT ![n] = g]
    OBVIOUS
  <2>4. PICK y : y = Append(outer, g)
    OBVIOUS
  <2>5. x \in Seq(E) /\ Len(x) = n /\ \A i \in 1..n : x[i] = IF i = n THEN g ELSE st[i]
    BY <1>1, <2>2, <2>3
  <2>6. y \in Seq(E) /\ Len(y) = n /\ \A i \in 1..n : y[i] = IF i = n THEN g ELSE st[i]
    BY <1>1, <1>3, <2>2, <2>4
  <2>7. x = y
    BY <1>1, <2>5, <2>6, SeqEqual
  <2> QED BY <2>3, <2>4, <2>7
<1>6. st = Append(outer, f)
  <2>1. st = [st EXCEPT ![n] = f]
    BY <1>1, <1>4
  <2> QED BY <1>5, <2>1
<1>7. \A g : WithTop(st, g) = Append(outer, g)
  BY <1>1, <1>5 DEF WithTop
<1> QED BY <1>1, <1>2, <1>3, <1>4, <1>6, <1>7

(* A frame on top.                                                         *)
LEMMA PutTop ==
  ASSUME NEW N, NEW S, S \in [N -> Nat], NEW outer, NEW m, Tracked(outer, N, S, m),
         NEW g, g.children \in Seq(N), Len(g.todo) \in Nat,
         NEW n, LossyTree(g) \/ n = m + (Count(S, g.children) + Len(g.todo))
  PROVE  Tracked(Append(outer, g), N, S, n)
<1>1. PICK F : /\ outer \in Seq(F) /\ Framed(F, N)
               /\ \/ \E i \in 1..Len(outer) : LossyTree(outer[i])
                  \/ Count(Burden(S, F), outer) = m
  BY DEF Tracked
<1>2. PICK E : E = F \cup {g}
  OBVIOUS
<1>3. Framed(E, N)
  BY <1>1, <1>2 DEF Framed
<1>4. PICK st : st = Append(outer, g)
  OBVIOUS
<1>5. outer \in Seq(E) /\ g \in E
  BY <1>1, <1>2
<1>6. /\ st \in Seq(E) /\ Len(outer) \in Nat /\ Len(st) = Len(outer) + 1
      /\ st[Len(outer) + 1] = g /\ \A i \in 1..Len(outer) : st[i] = outer[i]
  BY <1>4, <1>5, AppendIs
<1>7. CASE LossyTree(g)
  <2>1. \E i \in 1..Len(st) : LossyTree(st[i])
    BY <1>6, <1>7
  <2> QED BY <1>3, <1>4, <1>6, <2>1 DEF Tracked
<1>8. CASE \E i \in 1..Len(outer) : LossyTree(outer[i])
  <2>1. PICK i \in 1..Len(outer) : LossyTree(outer[i])
    BY <1>8
  <2>2. i \in 1..Len(st) /\ st[i] = outer[i]
    BY <1>6
  <2>3. \E j \in 1..Len(st) : LossyTree(st[j])
    BY <2>1, <2>2
  <2> QED BY <1>3, <1>4, <1>6, <2>3 DEF Tracked
<1>9. CASE /\ Count(Burden(S, F), outer) = m
           /\ n = m + (Count(S, g.children) + Len(g.todo))
  <2>1. Count(Burden(S, E), outer) = Count(Burden(S, F), outer)
    <3>1. F \subseteq E /\ outer \in Seq(F)
      BY <1>1, <1>2
    <3> QED BY ONLY S \in [N -> Nat], <1>3, <3>1, BurdenStays
  <2>2. Count(Burden(S, E), st)
          = Count(Burden(S, E), outer) + (Count(S, g.children) + Len(g.todo))
    BY ONLY S \in [N -> Nat], <1>3, <1>4, <1>5, BurdenAppend
  <2>7. Count(Burden(S, E), st) = n
    BY <1>9, <2>1, <2>2
  <2> QED BY <1>3, <1>4, <1>6, <2>7 DEF Tracked
<1> QED BY <1>1, <1>7, <1>8, <1>9

LEMMA TakeTop ==
  ASSUME NEW N, NEW S, S \in [N -> Nat], NEW F, NEW outer \in Seq(F), NEW f \in F,
         NEW n, Tracked(Append(outer, f), N, S, n)
  PROVE  /\ f.children \in Seq(N) /\ Len(f.todo) \in Nat
         /\ \E m : Tracked(outer, N, S, m)
         /\ \/ LossyTree(f)
            \/ Tracked(outer, N, S, n - (Count(S, f.children) + Len(f.todo)))
<1>1. PICK st : st = Append(outer, f)
  OBVIOUS
<1>2. /\ Len(outer) \in Nat /\ Len(st) = Len(outer) + 1
      /\ st[Len(outer) + 1] = f /\ \A i \in 1..Len(outer) : st[i] = outer[i]
  BY <1>1, AppendIs
<1>3. PICK E : /\ st \in Seq(E) /\ Framed(E, N)
               /\ \/ \E i \in 1..Len(st) : LossyTree(st[i])
                  \/ Count(Burden(S, E), st) = n
  BY <1>1 DEF Tracked
<1>4. f \in E /\ \A i \in 1..Len(outer) : outer[i] \in E
  <2>1. \A i \in 1..Len(st) : st[i] \in E
    BY <1>3
  <2>2. Len(outer) + 1 \in 1..Len(st) /\ \A i \in 1..Len(outer) : i \in 1..Len(st)
    BY <1>2
  <2> QED BY <1>2, <2>1, <2>2
<1>5. outer \in Seq(E)
  BY <1>4
<1>6. f.children \in Seq(N) /\ Len(f.todo) \in Nat
  BY <1>3, <1>4 DEF Framed
<1>8. \E m : Tracked(outer, N, S, m)
  BY <1>3, <1>5 DEF Tracked
<1>9. CASE \E i \in 1..Len(st) : LossyTree(st[i])
  <2>1. PICK i \in 1..Len(st) : LossyTree(st[i])
    BY <1>9
  <2>2. CASE i = Len(outer) + 1
    BY <1>2, <1>6, <1>8, <2>1, <2>2
  <2>3. CASE i # Len(outer) + 1
    <3>1. i \in 1..Len(outer) /\ LossyTree(outer[i])
      BY <1>2, <2>1, <2>3
    <3>2. \A m : Tracked(outer, N, S, m)
      BY <1>3, <1>5, <3>1 DEF Tracked
    <3> QED BY <1>6, <3>2
  <2> QED BY <2>2, <2>3
<1>10. CASE Count(Burden(S, E), st) = n
  <2>1. /\ Count(Burden(S, E), outer) \in Nat /\ Count(S, f.children) + Len(f.todo) \in Nat
        /\ Count(Burden(S, E), st)
             = Count(Burden(S, E), outer) + (Count(S, f.children) + Len(f.todo))
    <3>1. Framed(E, N)
      BY <1>3
    <3> QED BY ONLY S \in [N -> Nat], <1>1, <1>4, <1>5, <3>1, BurdenAppend
  <2>4. Count(Burden(S, E), outer) = n - (Count(S, f.children) + Len(f.todo))
    BY <1>10, <2>1
  <2>5. Tracked(outer, N, S, n - (Count(S, f.children) + Len(f.todo)))
    BY <1>3, <1>5, <2>4 DEF Tracked
  <2> QED BY <1>6, <1>8, <2>5
<1> QED BY <1>3, <1>9, <1>10

(* One more tree, of trees there are.                                      *)
HonestTree(c) ==
  ~ c.loss => c.status \in Lossless /\ \A i \in 1..Len(c.children) : ~ c.children[i].loss

(* M and Z are N and S and perhaps more trees.                             *)
Extends(M, Z, N, S) ==
  /\ N \subseteq M /\ S \in [N -> Nat] /\ Z \in [M -> Nat] /\ \A d \in N : Z[d] = S[d]

LEMMA NewTree ==
  ASSUME NEW N, NEW S, Sized(N, S), Honest(N),
         NEW c, c.children \in Seq(N), HonestTree(c)
  PROVE  \E M, Z : /\ Extends(M, Z, N, S) /\ c \in M
                   /\ Sized(M, Z) /\ Honest(M) /\ Z[c] = 1 + Count(S, c.children)
<1>1. S \in [N -> Nat] /\ Count(S, c.children) \in Nat
  BY CountIs DEF Sized
<1>2. CASE c \in N
  <2>1. Extends(N, S, N, S)
    BY <1>1 DEF Extends
  <2>2. S[c] = 1 + Count(S, c.children)
    BY <1>2 DEF Sized
  <2> QED BY <1>2, <2>1, <2>2
<1>3. CASE c \notin N
  <2>1. PICK k \in Nat : k = 1 + Count(S, c.children)
    BY <1>1
  <2>2. PICK M : M = N \cup {c}
    OBVIOUS
  <2>3. PICK Z : Z = [d \in M |-> IF d = c THEN k ELSE S[d]]
    OBVIOUS
  <2>4. Z \in [M -> Nat] /\ Z[c] = k /\ (\A d \in N : Z[d] = S[d]) /\ N \subseteq M
    BY <1>1, <1>3, <2>2, <2>3
  <2>5. Extends(M, Z, N, S)
    BY <1>1, <2>4 DEF Extends
  <2>6. ASSUME NEW d \in M
        PROVE  d.children \in Seq(M) /\ Z[d] = 1 + Count(Z, d.children) /\ HonestTree(d)
    <3>1. d.children \in Seq(N) /\ Z[d] = 1 + Count(S, d.children) /\ HonestTree(d)
      <4>1. CASE d = c
        BY <2>1, <2>4, <4>1
      <4>2. CASE d # c
        <5>1. d \in N /\ Z[d] = S[d]
          BY <2>2, <2>4, <4>2
        <5> QED BY <5>1 DEF Sized, Honest, HonestTree
      <4> QED BY <4>1, <4>2
    <3>2. PICK x \in Seq(N) : x = d.children
      BY <3>1
    <3>3. Count(Z, x) = Count(S, x)
      BY ONLY <1>1, <2>4, x \in Seq(N), CountStays
    <3>4. x \in Seq(M)
      BY <2>2
    <3> QED BY <3>1, <3>2, <3>3, <3>4
  <2>7. Sized(M, Z) /\ Honest(M)
    BY <2>4, <2>6 DEF Sized, Honest, HonestTree
  <2> QED BY <2>1, <2>2, <2>4, <2>5, <2>7
<1> QED BY <1>2, <1>3

LEMMA ExtendsCount ==
  ASSUME NEW N, NEW S, NEW M, NEW Z, Extends(M, Z, N, S), NEW forest \in Seq(N)
  PROVE  forest \in Seq(M) /\ Count(Z, forest) = Count(S, forest)
<1>1. forest \in Seq(M)
  BY DEF Extends
<1> QED BY <1>1, CountStays DEF Extends

LEMMA TrackedStays ==
  ASSUME NEW N, NEW S, NEW M, NEW Z, Extends(M, Z, N, S),
         NEW st, NEW n, Tracked(st, N, S, n)
  PROVE  Tracked(st, M, Z, n)
<1>1. PICK F : /\ st \in Seq(F) /\ Framed(F, N)
               /\ \/ \E i \in 1..Len(st) : LossyTree(st[i])
                  \/ Count(Burden(S, F), st) = n
  BY DEF Tracked
<1>2. ASSUME NEW f \in F
      PROVE  /\ f.children \in Seq(M) /\ Len(f.todo) \in Nat
             /\ Count(Z, f.children) = Count(S, f.children)
  <2>1. f.children \in Seq(N) /\ Len(f.todo) \in Nat
    BY <1>1 DEF Framed
  <2>2. PICK x \in Seq(N) : x = f.children
    BY <2>1
  <2> QED BY <2>1, <2>2, ExtendsCount
<1>3. Framed(F, M)
  BY <1>2 DEF Framed
<1>4. Burden(Z, F) = Burden(S, F)
  BY <1>2 DEF Burden
<1> QED BY <1>1, <1>3, <1>4 DEF Tracked

(* The current member of frame f is closed as c, and frame g is left.      *)
LEMMA CloseTracks ==
  ASSUME NEW N, NEW S, Sized(N, S), Honest(N),
         NEW outer, NEW m, Tracked(outer, N, S, m),
         NEW f, f.children \in Seq(N), Len(f.todo) \in Nat,
         NEW c, c.children \in Seq(N), HonestTree(c),
         NEW g, g.children = Append(f.children, c),
         Len(g.todo) \in Nat, Len(f.todo) = Len(g.todo) + 1,
         NEW n \in Int,
         \/ c.loss \/ LossyTree(f)
         \/ Tracked(outer, N, S, n - (Count(S, f.children) + Len(f.todo)) - Count(S, c.children))
  PROVE  \E M, Z : Sized(M, Z) /\ Honest(M) /\ Tracked(Append(outer, g), M, Z, n)
<1>1. S \in [N -> Nat]
  BY DEF Sized
<1>2. PICK M, Z : /\ Extends(M, Z, N, S) /\ c \in M
                  /\ Sized(M, Z) /\ Honest(M) /\ Z[c] = 1 + Count(S, c.children)
  BY NewTree
<1>3. PICK x \in Seq(N) : x = f.children
  OBVIOUS
<1>4. x \in Seq(M) /\ Count(Z, x) = Count(S, x)
  BY <1>2, ExtendsCount
<1>5. Z \in [M -> Nat]
  BY <1>2 DEF Sized
<1>6. g.children \in Seq(M) /\ Count(Z, g.children) = Count(S, x) + (1 + Count(S, c.children))
  <2>1. Append(x, c) \in Seq(M) /\ Count(Z, Append(x, c)) = Count(Z, x) + Z[c]
    BY ONLY <1>2, <1>4, <1>5, CountAppend
  <2> QED BY <1>2, <1>3, <1>4, <2>1
<1>7. Count(S, x) \in Nat /\ Count(S, c.children) \in Nat
  BY <1>1, CountIs
<1>8. Tracked(outer, M, Z, m)
  BY <1>2, TrackedStays
<1>9. CASE c.loss \/ LossyTree(f)
  <2>1. Len(g.children) = Len(x) + 1 /\ g.children[Len(x) + 1] = c /\ Len(x) \in Nat
        /\ \A j \in 1..Len(x) : g.children[j] = x[j]
    <3>1. c \in M /\ g.children = Append(x, c)
      BY <1>2, <1>3
    <3> QED BY <1>4, <3>1, AppendIs
  <2>2. LossyTree(g)
    <3>1. CASE c.loss
      BY <2>1, <3>1 DEF LossyTree
    <3>2. CASE LossyTree(f)
      <4>1. PICK j \in 1..Len(x) : x[j].loss
        BY <1>3, <3>2 DEF LossyTree
      <4>2. j \in 1..Len(g.children) /\ g.children[j] = x[j]
        BY <2>1
      <4> QED BY <4>1, <4>2 DEF LossyTree
    <3> QED BY <1>9, <3>1, <3>2
  <2> QED BY ONLY <1>2, <1>5, <1>6, <1>8, <2>2, Len(g.todo) \in Nat, PutTop
<1>10. CASE Tracked(outer, N, S, n - (Count(S, f.children) + Len(f.todo)) - Count(S, c.children))
  <2>1. PICK k : k = n - (Count(S, f.children) + Len(f.todo)) - Count(S, c.children)
    OBVIOUS
  <2>2. Tracked(outer, M, Z, k)
    BY <1>2, <1>10, <2>1, TrackedStays
  <2>3. n = k + (Count(Z, g.children) + Len(g.todo))
    BY <1>3, <1>6, <1>7, <2>1
  <2> QED BY ONLY <1>2, <1>5, <1>6, <2>2, <2>3, Len(g.todo) \in Nat, PutTop
<1> QED BY <1>9, <1>10

CountOK(st, ph, r, d, N, S) ==
  /\ Sized(N, S) /\ Honest(N)
  /\ ph \in Running \cup {"submitted"} => Tracked(st, N, S, d)
  /\ ph = "decode" => Len(st[Len(st)].todo) = 0
  /\ ph \notin {"output", "done"} => r = NoResult
  /\ r.children \in Seq(N)
  /\ r.status = "complete" =>
       Count(S, r.children) = d /\ \A i \in 1..Len(r.children) : ~ r.children[i].loss

(* What decoders returned is in the frames or is shown by the result.      *)
CountInv == \E N, S : CountOK(stack, phase, result, discovered, N, S)

-----------------------------------------------------------------------------
LEMMA ChildIsHonest ==
  ASSUME NEW status, NEW axis, NEW children
  PROVE  /\ HonestTree(Child(status, axis, children))
         /\ status \notin Lossless => Child(status, axis, children).loss
         /\ \A i \in 1..Len(children) : children[i].loss => Child(status, axis, children).loss
BY DEF Child, HonestTree

LEMMA LeafIsHonest ==
  ASSUME NEW envelope, NEW axis
  PROVE  HonestTree(Leaf(envelope, axis))
<1>1. PICK s : s = IF envelope \in {"complete", "partial"} THEN "parsed" ELSE envelope
  OBVIOUS
<1>2. PICK l : l = (s \notin Lossless \/ \E i \in 1..Len(<<>>) : <<>>[i].loss)
  OBVIOUS
<1>3. Child(s, axis, <<>>)
        = [status |-> s, axis |-> axis, children |-> <<>>, envelope |-> None, loss |-> l]
  BY <1>2 DEF Child
<1>4. Leaf(envelope, axis)
        = [status |-> s, axis |-> axis, children |-> <<>>, envelope |-> envelope, loss |-> l]
  BY <1>1, <1>3 DEF Leaf
<1>5. PICK c : c = Leaf(envelope, axis)
  OBVIOUS
<1>6. c.status = s /\ c.loss = l /\ c.children = <<>>
  BY <1>4, <1>5
<1>7. HonestTree(c)
  BY <1>2, <1>6 DEF HonestTree
<1> QED BY <1>5, <1>7

LEMMA ClosedIs ==
  ASSUME NEW X, NEW f \in Frames(X), f.todo # <<>>, NEW c, NEW inner, NEW u
  PROVE  /\ Closed(f, c, inner, u).children = Append(f.children, c)
         /\ Len(f.todo) \in Nat /\ Len(Closed(f, c, inner, u).todo) \in Nat
         /\ Len(f.todo) = Len(Closed(f, c, inner, u).todo) + 1
<1>1. /\ Closed(f, c, inner, u).children = Append(f.children, c)
      /\ Closed(f, c, inner, u).todo = Tail(f.todo)
  BY DEF Closed, Frames
<1>2. f.todo \in Seq(Entries)
  BY DEF Frames
<1>3. PICK t \in Seq(Entries) : t = f.todo
  BY <1>2
<1>4. Len(t) \in Nat /\ Len(Tail(t)) \in Nat /\ Len(t) = Len(Tail(t)) + 1
  BY <1>3
<1> QED BY <1>1, <1>3, <1>4

LEMMA TopFacts ==
  ASSUME TraversalInv, phase \in Running
  PROVE  \E N : /\ stack \in Seq(Frames(N)) /\ stack # <<>> /\ Len(stack) \in Nat
                /\ \A i \in 1..Len(stack) : i < Len(stack) => stack[i].todo # <<>>
                /\ phase = "leaf" => stack[Len(stack)].todo # <<>>
<1>1. PICK N, R : StackOK(stack, phase, N, R, usage)
  BY DEF TraversalInv, AuditInv
<1>2. PICK ph : ph = phase
  OBVIOUS
<1>3. PICK st : st = stack
  OBVIOUS
<1>4. PICK u : u = usage
  OBVIOUS
<1>5. StackOK(st, ph, N, R, u)
  BY <1>1, <1>2, <1>3, <1>4
<1>6. /\ st \in Seq(Frames(N)) /\ Len(st) \in Nat /\ st # <<>> /\ Len(st) \in 1..Len(st)
      /\ \A i \in 1..Len(st) : i < Len(st) \/ ph = "leaf" => Holds(st[i], Base(st, i), u)
  BY <1>2, <1>5, StackParts
<1>7. \A i \in 1..Len(st) : i < Len(st) \/ ph = "leaf" => st[i].todo # <<>>
  BY <1>6 DEF Holds
<1> QED BY <1>2, <1>3, <1>6, <1>7

(* The stack without its innermost frame.                                  *)
LEMMA StackCounts ==
  ASSUME TraversalInv, CountInv, phase \in Running
  PROVE  \E X, N, S, outer, f :
           /\ CountOK(stack, phase, result, discovered, N, S)
           /\ outer \in Seq(Frames(X)) /\ f \in Frames(X) /\ f = Top /\ outer = Outer
           /\ stack = Append(outer, f) /\ Len(outer) \in Nat /\ Len(outer) = Len(stack) - 1
           /\ \A g : WithTop(stack, g) = Append(outer, g)
           /\ outer # <<>> => outer[Len(outer)].todo # <<>>
           /\ phase = "leaf" => f.todo # <<>>
           /\ f.children \in Seq(N) /\ Len(f.todo) \in Nat /\ \E m : Tracked(outer, N, S, m)
           /\ \/ LossyTree(f)
              \/ Tracked(outer, N, S, discovered - (Count(S, f.children) + Len(f.todo)))
<1>1. PICK X : /\ stack \in Seq(Frames(X)) /\ stack # <<>> /\ Len(stack) \in Nat
               /\ \A i \in 1..Len(stack) : i < Len(stack) => stack[i].todo # <<>>
               /\ phase = "leaf" => stack[Len(stack)].todo # <<>>
  BY TopFacts
<1>2. PICK N, S : CountOK(stack, phase, result, discovered, N, S)
  BY DEF CountInv
<1>3. PICK st \in Seq(Frames(X)) : st = stack /\ st # <<>>
  BY <1>1
<1>4. PICK outer \in Seq(Frames(X)), f \in Frames(X) :
        /\ outer = SubSeq(st, 1, Len(st) - 1) /\ f = st[Len(st)]
        /\ st = Append(outer, f) /\ Len(outer) = Len(st) - 1
        /\ \A g : WithTop(st, g) = Append(outer, g)
  <2>1. PICK F : F = Frames(X)
    OBVIOUS
  <2>2. st \in Seq(F) /\ st # <<>>
    BY <1>3, <2>1
  <2>3. \E outer \in Seq(F), f \in F :
          /\ outer = SubSeq(st, 1, Len(st) - 1) /\ f = st[Len(st)]
          /\ st = Append(outer, f) /\ Len(outer) = Len(st) - 1
          /\ \A g : WithTop(st, g) = Append(outer, g)
    BY <2>2, TopSplit
  <2> QED BY ONLY <2>1, <2>3
<1>5. f = Top /\ outer = Outer /\ Len(outer) \in Nat
  BY <1>3, <1>4 DEF Top, Outer
<1>6. outer # <<>> => outer[Len(outer)].todo # <<>>
  <2>1. ASSUME outer # <<>> PROVE Len(outer) \in 1..Len(st) /\ st[Len(outer)] = outer[Len(outer)]
    BY <1>4, <2>1
  <2> QED BY <1>1, <1>3, <1>4, <2>1
<1>7. Tracked(st, N, S, discovered) /\ S \in [N -> Nat] /\ discovered \in Nat
  BY <1>2, <1>3 DEF CountOK, Sized, TraversalInv, TypeInv
<1>8. PICK d \in Nat : d = discovered
  BY <1>7
<1>9. /\ f.children \in Seq(N) /\ Len(f.todo) \in Nat
      /\ \E m : Tracked(outer, N, S, m)
      /\ \/ LossyTree(f)
         \/ Tracked(outer, N, S, d - (Count(S, f.children) + Len(f.todo)))
  <2>1. Tracked(Append(outer, f), N, S, d) /\ d \in Int
    <3>1. PICK a : a = Append(outer, f)
      OBVIOUS
    <3>2. a = st
      BY <1>4, <3>1
    <3>3. Tracked(a, N, S, d)
      BY <1>7, <1>8, <3>2
    <3> QED BY <3>1, <3>3
  <2>2. S \in [N -> Nat]
    BY <1>7
  <2> QED BY <2>1, <2>2, TakeTop
<1> QED BY <1>1, <1>2, <1>3, <1>4, <1>5, <1>6, <1>8, <1>9

LEMMA RunningCounts ==
  ASSUME NEW N, NEW S, Sized(N, S), Honest(N), NEW st, NEW d, Tracked(st, N, S, d),
         NEW ph \in Running \cup {"submitted"}, ph = "decode" => Len(st[Len(st)].todo) = 0
  PROVE  CountOK(st, ph, NoResult, d, N, S)
<1>1. NoResult.children = <<>> /\ NoResult.status = "none"
  BY DEF NoResult, None
<1>2. <<>> \in Seq(N)
  OBVIOUS
<1> QED BY <1>1, <1>2 DEF CountOK

LEMMA EmptyTracked ==
  ASSUME NEW N, NEW S \in [N -> Nat], NEW n, Tracked(<<>>, N, S, n)
  PROVE  n = 0
<1>1. PICK F : /\ Framed(F, N)
               /\ \/ \E i \in 1..Len(<<>>) : LossyTree(<<>>[i])
                  \/ Count(Burden(S, F), <<>>) = n
  BY DEF Tracked
<1>2. Burden(S, F) \in [F -> Nat]
  BY <1>1, BurdenIs
<1>3. Count(Burden(S, F), <<>>) = 0
  BY <1>2, CountEmpty
<1> QED BY <1>1, <1>3

(* The member around an inner frame is closed as c.                        *)
LEMMA CloseOuter ==
  ASSUME NEW N, NEW S, Sized(N, S), Honest(N), NEW X, NEW outer \in Seq(Frames(X)),
         outer # <<>>, outer[Len(outer)].todo # <<>>,
         NEW m, Tracked(outer, N, S, m), NEW c, c.children \in Seq(N), HonestTree(c),
         NEW d \in Int, c.loss \/ m = d - Count(S, c.children), NEW inner, NEW u
  PROVE  \E M, Z : /\ Sized(M, Z) /\ Honest(M)
                   /\ Tracked(WithTop(outer, Closed(outer[Len(outer)], c, inner, u)), M, Z, d)
<1>1. PICK rest \in Seq(Frames(X)), e \in Frames(X) :
        /\ e = outer[Len(outer)] /\ outer = Append(rest, e)
        /\ \A g : WithTop(outer, g) = Append(rest, g)
  BY TopSplit
<1>2. S \in [N -> Nat] /\ Count(S, c.children) \in Nat
  BY CountIs DEF Sized
<1>3. Tracked(Append(rest, e), N, S, m)
  <2>1. PICK a : a = Append(rest, e)
    OBVIOUS
  <2>2. a = outer
    BY <1>1, <2>1
  <2>3. Tracked(a, N, S, m)
    BY <2>2
  <2> QED BY <2>1, <2>3
<1>4. /\ e.children \in Seq(N) /\ Len(e.todo) \in Nat
      /\ \E k : Tracked(rest, N, S, k)
      /\ \/ LossyTree(e)
         \/ Tracked(rest, N, S, m - (Count(S, e.children) + Len(e.todo)))
  BY ONLY <1>2, <1>3, rest \in Seq(Frames(X)), e \in Frames(X), TakeTop
<1>5. PICK g : g = Closed(e, c, inner, u)
  OBVIOUS
<1>6. /\ g.children = Append(e.children, c) /\ Len(g.todo) \in Nat
      /\ Len(e.todo) = Len(g.todo) + 1
  <2>1. e.todo # <<>>
    BY <1>1
  <2> QED BY <1>5, <2>1, ClosedIs
<1>7. PICK k : Tracked(rest, N, S, k)
  BY <1>4
<1>8. \/ c.loss \/ LossyTree(e)
      \/ Tracked(rest, N, S, d - (Count(S, e.children) + Len(e.todo)) - Count(S, c.children))
  <2>1. Count(S, e.children) \in Nat
    BY <1>2, <1>4, CountIs
  <2>2. PICK x \in Nat, y \in Nat, z \in Nat :
          x = Count(S, e.children) /\ y = Len(e.todo) /\ z = Count(S, c.children)
    BY <1>2, <1>4, <2>1
  <2>3. (d - z) - (x + y) = d - (x + y) - z
    BY ONLY d \in Int, x \in Nat, y \in Nat, z \in Nat
  <2> QED BY <1>4, <2>2, <2>3
<1>9. PICK M, Z : Sized(M, Z) /\ Honest(M) /\ Tracked(Append(rest, g), M, Z, d)
  BY ONLY Sized(N, S), Honest(N), c.children \in Seq(N), HonestTree(c), d \in Int,
          <1>4, <1>6, <1>7, <1>8, CloseTracks
<1>10. WithTop(outer, g) = Append(rest, g)
  BY <1>1
<1> QED BY <1>1, <1>5, <1>9, <1>10

LEMMA FrameFailsCounts ==
  ASSUME TraversalInv, CountInv, phase \in Running, discovered' = discovered,
         NEW status, status \notin Lossless, status # "complete", NEW axis,
         FrameFails(status, axis)
  PROVE  CountInv'
<1>1. PICK X, N, S, outer, f :
        /\ CountOK(stack, phase, result, discovered, N, S)
        /\ outer \in Seq(Frames(X)) /\ outer = Outer
        /\ Len(outer) \in Nat /\ Len(outer) = Len(stack) - 1
        /\ outer # <<>> => outer[Len(outer)].todo # <<>>
        /\ \E m : Tracked(outer, N, S, m)
  BY StackCounts
<1>2. Sized(N, S) /\ Honest(N) /\ result = NoResult
  BY <1>1 DEF CountOK, Running
<1>3. CASE Len(stack) = 1
  <2>1. PICK s : /\ result' = Result(s, <<>>, axis, <<>>) /\ phase' = "output" /\ s # "complete"
    BY <1>3 DEF FrameFails
  <2>2. result'.children = <<>> /\ result'.status # "complete" /\ <<>> \in Seq(N)
    BY <2>1 DEF Result
  <2>3. CountOK(stack', phase', result', discovered', N, S)
    BY <1>2, <2>1, <2>2 DEF CountOK, Running
  <2> QED BY <2>3 DEF CountInv
<1>4. CASE Len(stack) # 1
  <2>1. PICK c : c = Child(status, axis, <<>>)
    OBVIOUS
  <2>2. c.children = <<>> /\ c.loss /\ HonestTree(c) /\ <<>> \in Seq(N)
    BY <2>1, ChildIs, ChildIsHonest
  <2>3. PICK u : u = usage'
    OBVIOUS
  <2>4. outer # <<>> /\ discovered \in Int
    BY <1>1, <1>4 DEF TraversalInv, TypeInv
  <2>5. /\ stack' = WithTop(outer, Closed(outer[Len(outer)], c, <<>>, u))
        /\ phase' = "members" /\ result' = result
    BY <1>1, <1>4, <2>1, <2>3 DEF FrameFails, WithTop
  <2>6. PICK m : Tracked(outer, N, S, m)
    BY <1>1
  <2>7. PICK d \in Int : d = discovered
    BY <2>4
  <2>8. PICK M, Z : /\ Sized(M, Z) /\ Honest(M)
                    /\ Tracked(WithTop(outer, Closed(outer[Len(outer)], c, <<>>, u)), M, Z, d)
    BY ONLY <1>1, <1>2, <2>2, <2>4, <2>6, d \in Int, CloseOuter
  <2>9. CountOK(stack', phase', result', discovered', M, Z)
    BY <1>2, <2>5, <2>7, <2>8, RunningCounts DEF Running
  <2> QED BY <2>9 DEF CountInv
<1> QED BY <1>3, <1>4

(* f is the innermost frame, with its current member begun.                *)
LEMMA CloseMemberCounts ==
  ASSUME TraversalInv, CountInv, phase \in Running, discovered' = discovered,
         NEW Y, NEW e \in Frames(Y), e.children = Top.children, e.todo = Top.todo, e.todo # <<>>,
         NEW c, c.children = <<>>, HonestTree(c), CloseMember(e, c)
  PROVE  CountInv'
<1>1. PICK X, N, S, outer, f :
        /\ CountOK(stack, phase, result, discovered, N, S)
        /\ outer \in Seq(Frames(X)) /\ f \in Frames(X) /\ f = Top /\ outer = Outer
        /\ stack = Append(outer, f) /\ Len(outer) \in Nat /\ Len(outer) = Len(stack) - 1
        /\ \A g : WithTop(stack, g) = Append(outer, g)
        /\ outer # <<>> => outer[Len(outer)].todo # <<>>
        /\ phase = "leaf" => f.todo # <<>>
        /\ f.children \in Seq(N) /\ Len(f.todo) \in Nat /\ \E m : Tracked(outer, N, S, m)
        /\ \/ LossyTree(f)
           \/ Tracked(outer, N, S, discovered - (Count(S, f.children) + Len(f.todo)))
  BY StackCounts
<1>2. Sized(N, S) /\ Honest(N) /\ result = NoResult
  BY <1>1 DEF CountOK, Running
<1>3. PICK u : u = usage'
  OBVIOUS
<1>4. PICK g : g = Closed(e, c, <<>>, u)
  OBVIOUS
<1>5. /\ g.children = Append(f.children, c) /\ Len(g.todo) \in Nat
      /\ Len(f.todo) = Len(g.todo) + 1
  <2>1. /\ g.children = Append(e.children, c) /\ Len(g.todo) \in Nat
        /\ Len(e.todo) = Len(g.todo) + 1
    BY <1>4, ClosedIs
  <2>2. f.children = e.children /\ f.todo = e.todo
    BY <1>1
  <2> QED BY <2>1, <2>2
<1>6. PICK d \in Int : d = discovered
  BY DEF TraversalInv, TypeInv
<1>7. stack' = WithTop(stack, g) /\ phase' = "members" /\ result' = result
  BY <1>3, <1>4 DEF CloseMember, WithTop
<1>8. PICK m : Tracked(outer, N, S, m)
  BY <1>1
<1>9. \/ LossyTree(f)
      \/ Tracked(outer, N, S, d - (Count(S, f.children) + Len(f.todo)) - Count(S, c.children))
  <2>1. S \in [N -> Nat]
    BY <1>2 DEF Sized
  <2>2. Count(S, c.children) = 0
    BY <2>1, CountEmpty
  <2>3. Count(S, f.children) \in Nat
    BY <1>1, <2>1, CountIs
  <2>4. PICK x \in Int : x = d - (Count(S, f.children) + Len(f.todo))
    BY <1>1, <2>3
  <2>5. x - 0 = x
    OBVIOUS
  <2> QED BY <1>1, <1>6, <2>2, <2>4, <2>5
<1>10. c.children \in Seq(N)
  OBVIOUS
<1>11. PICK M, Z : Sized(M, Z) /\ Honest(M) /\ Tracked(Append(outer, g), M, Z, d)
  BY ONLY <1>1, <1>2, <1>5, <1>8, <1>9, <1>10, HonestTree(c), d \in Int, CloseTracks
<1>12. stack' = Append(outer, g)
  BY <1>1, <1>7
<1>13. CountOK(stack', phase', result', discovered', M, Z)
  BY <1>2, <1>6, <1>7, <1>11, <1>12, RunningCounts DEF Running
<1> QED BY <1>13 DEF CountInv

(* Steps that leave all of it alone.                                       *)
LEMMA QuietCounts ==
  ASSUME CountInv, UNCHANGED <<stack, phase, result, discovered>>
  PROVE  CountInv'
BY DEF CountInv

LEMMA OpenedIs ==
  ASSUME NEW X, NEW f \in Frames(X), NEW u \in Usages, NEW e, e = [f EXCEPT !.before = u]
  PROVE  e \in Frames(X) /\ e.children = f.children /\ e.todo = f.todo
BY DEF Frames

(* A new frame in the place of the innermost one.                          *)
LEMMA SwapTop ==
  ASSUME TraversalInv, CountInv, phase \in Running, NEW e, e.children = Top.children,
         Len(e.todo) \in Nat
  PROVE  \E N, S :
           /\ Sized(N, S) /\ Honest(N) /\ result = NoResult
           /\ Tracked(WithTop(stack, e), N, S, discovered - Len(Top.todo) + Len(e.todo))
<1>1. PICK X, N, S, outer, f :
        /\ CountOK(stack, phase, result, discovered, N, S)
        /\ outer \in Seq(Frames(X)) /\ f \in Frames(X) /\ f = Top /\ outer = Outer
        /\ stack = Append(outer, f) /\ Len(outer) \in Nat /\ Len(outer) = Len(stack) - 1
        /\ \A g : WithTop(stack, g) = Append(outer, g)
        /\ outer # <<>> => outer[Len(outer)].todo # <<>>
        /\ phase = "leaf" => f.todo # <<>>
        /\ f.children \in Seq(N) /\ Len(f.todo) \in Nat /\ \E m : Tracked(outer, N, S, m)
        /\ \/ LossyTree(f)
           \/ Tracked(outer, N, S, discovered - (Count(S, f.children) + Len(f.todo)))
  BY StackCounts
<1>2. Sized(N, S) /\ Honest(N) /\ result = NoResult
  BY <1>1 DEF CountOK, Running
<1>3. S \in [N -> Nat] /\ e.children \in Seq(N)
  BY <1>1, <1>2 DEF Sized
<1>4. PICK d \in Int : d = discovered
  BY DEF TraversalInv, TypeInv
<1>5. PICK x \in Nat : x = Count(S, f.children)
  BY <1>1, <1>3, CountIs
<1>6. PICK y \in Nat, z \in Nat : y = Len(f.todo) /\ z = Len(e.todo)
  BY <1>1
<1>7. PICK n \in Int : n = d - y + z
  OBVIOUS
<1>8. CASE LossyTree(f)
  <2>1. LossyTree(e)
    BY <1>1, <1>8 DEF LossyTree
  <2>2. PICK m : Tracked(outer, N, S, m)
    BY <1>1
  <2>3. Tracked(Append(outer, e), N, S, n)
    BY ONLY <1>3, <2>1, <2>2, Len(e.todo) \in Nat, PutTop
  <2>4. Tracked(WithTop(stack, e), N, S, n)
    BY <1>1, <2>3
  <2> QED BY <1>1, <1>2, <1>4, <1>7, <1>6, <2>4
<1>9. CASE Tracked(outer, N, S, d - (Count(S, f.children) + Len(f.todo)))
  <2>1. PICK m \in Int : m = d - (x + y)
    OBVIOUS
  <2>2. n = m + (Count(S, e.children) + Len(e.todo))
    <3>1. e.children = f.children
      BY <1>1
    <3>2. n = m + (x + z)
      BY ONLY d \in Int, x \in Nat, y \in Nat, z \in Nat, <1>7, <2>1
    <3> QED BY <1>5, <1>6, <3>1, <3>2
  <2>3. Tracked(outer, N, S, m)
    BY <1>5, <1>9, <1>6, <2>1
  <2>4. Tracked(Append(outer, e), N, S, n)
    BY ONLY <1>3, <2>2, <2>3, Len(e.todo) \in Nat, PutTop
  <2>5. Tracked(WithTop(stack, e), N, S, n)
    BY <1>1, <2>4
  <2> QED BY <1>1, <1>2, <1>4, <1>7, <1>6, <2>5
<1> QED BY <1>1, <1>4, <1>8, <1>9

LEMMA BeginCounts ==
  ASSUME TraversalInv, CountInv, Begin
  PROVE  CountInv'
<1>1. PICK N, S : CountOK(stack, phase, result, discovered, N, S)
  BY DEF CountInv
<1>2. phase = "submitted" /\ discovered' = discovered
  BY DEF Begin
<1>3. /\ Sized(N, S) /\ Honest(N) /\ result = NoResult /\ Tracked(stack, N, S, discovered)
      /\ S \in [N -> Nat]
  BY <1>1, <1>2 DEF CountOK, Running, Sized
<1>4. stack = <<>>
  <2>1. PICK X, R : StackOK(stack, phase, X, R, usage)
    BY DEF TraversalInv, AuditInv
  <2> QED BY <1>2, <2>1 DEF StackOK
<1>5. discovered = 0 /\ Tracked(<<>>, N, S, 0)
  <2>1. Tracked(<<>>, N, S, discovered)
    BY <1>3, <1>4
  <2> QED BY <1>3, <2>1, EmptyTracked
<1>6. \/ \E s, axis : /\ result' = Result(s, <<>>, axis, <<>>) /\ s # "complete"
                      /\ phase' = "done"
      \/ stack' = <<Frame(0)>> /\ phase' = "decode" /\ result' = result
  BY DEF Begin
<1>7. CASE stack' = <<Frame(0)>> /\ phase' = "decode" /\ result' = result
  <2>1. PICK g : g = Frame(0)
    OBVIOUS
  <2>2. g.children = <<>> /\ g.todo = <<>>
    BY <2>1 DEF Frame
  <2>3. <<>> \in Seq(N) /\ Count(S, <<>>) = 0
    BY <1>3, CountEmpty
  <2>4. /\ g.children \in Seq(N) /\ Len(g.todo) \in Nat /\ Len(g.todo) = 0
        /\ 0 = 0 + (Count(S, g.children) + Len(g.todo))
    BY <2>2, <2>3
  <2>5. Tracked(Append(<<>>, g), N, S, 0)
    BY ONLY <1>3, <1>5, <2>4, PutTop
  <2>6. PICK st : st = stack'
    OBVIOUS
  <2>7. st = Append(<<>>, g) /\ Len(st) = 1 /\ st[1] = g
    BY <1>7, <2>1, <2>6
  <2>8. Tracked(st, N, S, 0)
    BY <2>5, <2>7
  <2>9. Len(st[Len(st)].todo) = 0
    BY <2>4, <2>7
  <2>10. CountOK(st, "decode", NoResult, 0, N, S)
    BY <1>3, <2>8, <2>9, RunningCounts DEF Running
  <2>11. CountOK(stack', phase', result', discovered', N, S)
    BY <1>2, <1>3, <1>5, <1>7, <2>6, <2>10
  <2> QED BY <2>11 DEF CountInv
<1>8. CASE \E s, axis : /\ result' = Result(s, <<>>, axis, <<>>) /\ s # "complete"
                        /\ phase' = "done"
  <2>1. result'.children = <<>> /\ result'.status # "complete" /\ <<>> \in Seq(N)
    BY <1>8 DEF Result
  <2>2. CountOK(stack', phase', result', discovered', N, S)
    BY <1>3, <1>8, <2>1 DEF CountOK, Running
  <2> QED BY <2>2 DEF CountInv
<1> QED BY <1>6, <1>7, <1>8

LEMMA RefuseCounts ==
  ASSUME TraversalInv, CountInv, Refuse
  PROVE  CountInv'
<1>1. PICK N, S : CountOK(stack, phase, result, discovered, N, S)
  BY DEF CountInv
<1>2. phase = "submitted" /\ phase' = "refused" /\ UNCHANGED <<stack, result, discovered>>
  BY DEF Refuse
<1>3. CountOK(stack', phase', result', discovered', N, S)
  BY <1>1, <1>2 DEF CountOK, Running
<1> QED BY <1>3 DEF CountInv

LEMMA DecodeFailsCounts ==
  ASSUME TraversalInv, CountInv, DecodeFails
  PROVE  CountInv'
<1>1. PICK status, axis : FrameFails(status, axis) /\ status \notin Lossless /\ status # "complete"
  BY DEF DecodeFails, StoppedStatus, Lossless
<1>2. phase \in Running /\ discovered' = discovered
  BY DEF DecodeFails, Running
<1> QED BY <1>1, <1>2, FrameFailsCounts

LEMMA CheckCounts ==
  ASSUME TraversalInv, CountInv, CheckCapacity \/ CheckPreflight
  PROVE  CountInv'
<1>1. phase \in Running /\ discovered' = discovered
  BY DEF CheckCapacity, CheckPreflight, Running
<1>2. "budget_limited" \notin Lossless
  BY DEF Lossless
<1>3. (\E axis : FrameFails("budget_limited", axis)) \/ UNCHANGED <<stack, phase, result>>
  BY DEF CheckCapacity, CheckPreflight
<1> QED BY <1>1, <1>2, <1>3, FrameFailsCounts, QuietCounts

LEMMA DecodeSucceedsCounts ==
  ASSUME TraversalInv, CountInv, DecodeSucceeds
  PROVE  CountInv'
<1>1. PICK class \in Classes, members \in Decodings :
        /\ stack' = [stack EXCEPT ![Len(stack)] = [stack[Len(stack)] EXCEPT
             !.class = class,
             !.todo = [i \in 1..Len(members) |->
                        [member |-> members[i], rejected |-> Rejected(class, members, i)]]]]
        /\ discovered' = discovered + Len(members)
  BY DEF DecodeSucceeds
<1>2. phase = "decode" /\ phase \in Running /\ phase' = "members" /\ result' = result
  BY DEF DecodeSucceeds, Running
<1>3. Len(members) \in Nat
  BY ContainerTraversalAssumption
<1>4. PICK todo : todo = [i \in 1..Len(members) |->
                           [member |-> members[i], rejected |-> Rejected(class, members, i)]]
  OBVIOUS
<1>5. Len(todo) = Len(members)
  BY <1>3, <1>4
<1>6. PICK f : f = stack[Len(stack)]
  OBVIOUS
<1>7. PICK X : f \in Frames(X)
  <2>1. PICK X : stack \in Seq(Frames(X)) /\ stack # <<>> /\ Len(stack) \in Nat
    BY <1>2, TopFacts
  <2> QED BY <1>6, <2>1
<1>8. PICK e : e = [f EXCEPT !.class = class, !.todo = todo]
  OBVIOUS
<1>9. e.children = f.children /\ e.todo = todo
  BY <1>7, <1>8 DEF Frames
<1>10. stack' = WithTop(stack, e)
  BY <1>1, <1>4, <1>6, <1>8 DEF WithTop
<1>11. Len(Top.todo) = 0
  <2>1. PICK N, S : CountOK(stack, phase, result, discovered, N, S)
    BY DEF CountInv
  <2> QED BY <1>2, <2>1 DEF CountOK, Top
<1>12. PICK N, S :
         /\ Sized(N, S) /\ Honest(N) /\ result = NoResult
         /\ Tracked(WithTop(stack, e), N, S, discovered - Len(Top.todo) + Len(e.todo))
  <2>1. e.children = Top.children /\ Len(e.todo) \in Nat
    BY <1>3, <1>5, <1>6, <1>9 DEF Top
  <2> QED BY ONLY TraversalInv, CountInv, <1>2, <2>1, SwapTop
<1>13. PICK d \in Nat : d = discovered
  BY DEF TraversalInv, TypeInv
<1>14. discovered - Len(Top.todo) + Len(e.todo) = discovered'
  BY <1>1, <1>3, <1>5, <1>9, <1>11, <1>13
<1>15. PICK st, k : st = stack' /\ k = discovered'
  OBVIOUS
<1>16. Tracked(st, N, S, k)
  BY <1>10, <1>12, <1>14, <1>15
<1>17. CountOK(st, "members", NoResult, k, N, S)
  BY <1>12, <1>16, RunningCounts DEF Running
<1>18. CountOK(stack', phase', result', discovered', N, S)
  BY <1>2, <1>12, <1>15, <1>17
<1> QED BY <1>18 DEF CountInv

LEMMA BadLocatorCounts ==
  ASSUME TraversalInv, CountInv, BadLocator
  PROVE  CountInv'
<1>1. /\ FrameFails("failed", None) /\ phase \in Running /\ discovered' = discovered
      /\ "failed" \notin Lossless
  BY DEF BadLocator, EntryNext, Running, Lossless
<1> QED BY <1>1, FrameFailsCounts

LEMMA TopFrame ==
  ASSUME TraversalInv, phase \in Running
  PROVE  \E X : Top \in Frames(X)
<1>1. PICK X : stack \in Seq(Frames(X)) /\ stack # <<>> /\ Len(stack) \in Nat
  BY TopFacts
<1> QED BY <1>1 DEF Top

LEMMA MemberEndsCounts ==
  ASSUME TraversalInv, CountInv, EntryNext, discovered' = discovered,
         NEW c, c.children = <<>>, HonestTree(c), CloseMember([Top EXCEPT !.before = usage], c)
  PROVE  CountInv'
<1>1. phase \in Running /\ Top.todo # <<>>
  BY DEF EntryNext, Running
<1>2. PICK X : Top \in Frames(X)
  BY <1>1, TopFrame
<1>3. PICK f \in Frames(X) : f = Top
  BY <1>2
<1>4. PICK u \in Usages : u = usage
  BY DEF TraversalInv, TypeInv
<1>5. PICK e : e = [f EXCEPT !.before = u]
  OBVIOUS
<1>6. e \in Frames(X) /\ e.children = f.children /\ e.todo = f.todo
  BY <1>5, OpenedIs
<1>7. CloseMember(e, c)
  BY <1>3, <1>4, <1>5
<1> QED BY <1>1, <1>3, <1>6, <1>7, CloseMemberCounts

LEMMA UnspentCounts ==
  ASSUME TraversalInv, CountInv, EntryNext, discovered' = discovered,
         NEW c, c.children = <<>>, HonestTree(c), CloseUnspent(c)
  PROVE  CountInv'
<1>1. CASE FrameFails("failed", None)
  <2>1. phase \in Running /\ "failed" \notin Lossless
    BY DEF EntryNext, Running, Lossless
  <2> QED BY <1>1, <2>1, FrameFailsCounts
<1>2. CASE CloseMember([Top EXCEPT !.before = usage], c)
  BY <1>2, MemberEndsCounts
<1> QED BY <1>1, <1>2 DEF CloseUnspent

LEMMA MemberStoppedCounts ==
  ASSUME TraversalInv, CountInv, MemberStopped
  PROVE  CountInv'
<1>1. EntryNext /\ discovered' = discovered
  BY DEF MemberStopped
<1>2. PICK c : c = Child(StoppedStatus, StoppedAxis, <<>>)
  OBVIOUS
<1>3. CloseUnspent(c)
  BY <1>2 DEF MemberStopped
<1>4. c.children = <<>> /\ HonestTree(c)
  BY <1>2, ChildIs, ChildIsHonest
<1> QED BY <1>1, <1>3, <1>4, UnspentCounts

LEMMA MemberRefusedCounts ==
  ASSUME TraversalInv, CountInv, MemberRefused
  PROVE  CountInv'
<1>1. EntryNext /\ discovered' = discovered
  BY DEF MemberRefused
<1>2. PICK c : c = Child("budget_limited", MemberSpend(Top, Head(Top.todo)).axis, <<>>)
  OBVIOUS
<1>3. CloseUnspent(c)
  BY <1>2 DEF MemberRefused
<1>4. c.children = <<>> /\ HonestTree(c)
  BY <1>2, ChildIs, ChildIsHonest
<1> QED BY <1>1, <1>3, <1>4, UnspentCounts

LEMMA MemberAdmittedCounts ==
  ASSUME TraversalInv, CountInv, MemberAdmitted
  PROVE  CountInv'
<1>1. EntryNext /\ discovered' = discovered /\ phase \in Running
  BY DEF MemberAdmitted, EntryNext, Running
<1>2. PICK X : Top \in Frames(X)
  BY <1>1, TopFrame
<1>3. PICK f \in Frames(X) : f = Top
  BY <1>2
<1>4. PICK u \in Usages : u = usage
  BY DEF TraversalInv, TypeInv
<1>5. PICK e : e = [f EXCEPT !.before = u]
  OBVIOUS
<1>6. e \in Frames(X) /\ e.children = Top.children /\ e.todo = Top.todo
  BY <1>3, <1>5, OpenedIs
<1>7. e = [Top EXCEPT !.before = usage]
  BY <1>3, <1>4, <1>5
<1>8. \/ \E status : CloseMember([Top EXCEPT !.before = usage], Child(status, None, <<>>))
      \/ FrameFails("failed", None)
      \/ /\ stack' = Append(WithTop(stack, e), Frame(e.depth + 1))
         /\ phase' = "decode" /\ result' = result
      \/ /\ stack' = WithTop(stack, e) /\ phase' = "leaf" /\ result' = result
  BY <1>7 DEF MemberAdmitted, WithTop
<1>9. CASE \E status : CloseMember([Top EXCEPT !.before = usage], Child(status, None, <<>>))
  <2>1. PICK status : CloseMember([Top EXCEPT !.before = usage], Child(status, None, <<>>))
    BY <1>9
  <2>2. PICK c : c = Child(status, None, <<>>)
    OBVIOUS
  <2>3. c.children = <<>> /\ HonestTree(c)
    BY <2>2, ChildIs, ChildIsHonest
  <2> QED BY <1>1, <2>1, <2>2, <2>3, MemberEndsCounts
<1>10. CASE FrameFails("failed", None)
  <2>1. "failed" \notin Lossless
    BY DEF Lossless
  <2> QED BY <1>1, <1>10, <2>1, FrameFailsCounts
<1>11. Len(e.todo) \in Nat
  <2>1. e.todo \in Seq(Entries)
    BY <1>6 DEF Frames
  <2> QED BY <2>1
<1>12. PICK d \in Int : d = discovered
  BY DEF TraversalInv, TypeInv
<1>13. PICK N, S : /\ Sized(N, S) /\ Honest(N) /\ result = NoResult
                   /\ Tracked(WithTop(stack, e), N, S, d)
  <2>1. PICK N, S :
          /\ Sized(N, S) /\ Honest(N) /\ result = NoResult
          /\ Tracked(WithTop(stack, e), N, S, discovered - Len(Top.todo) + Len(e.todo))
    BY ONLY TraversalInv, CountInv, <1>1, <1>6, <1>11, SwapTop
  <2>2. discovered - Len(Top.todo) + Len(e.todo) = d
    BY <1>6, <1>11, <1>12
  <2> QED BY <2>1, <2>2
<1>14. PICK st : st = WithTop(stack, e)
  OBVIOUS
<1>15. CASE stack' = WithTop(stack, e) /\ phase' = "leaf" /\ result' = result
  <2>1. CountOK(st, "leaf", NoResult, d, N, S)
    BY <1>13, <1>14, RunningCounts DEF Running
  <2>2. CountOK(stack', phase', result', discovered', N, S)
    BY <1>1, <1>12, <1>13, <1>14, <1>15, <2>1
  <2> QED BY <2>2 DEF CountInv
<1>16. CASE /\ stack' = Append(WithTop(stack, e), Frame(e.depth + 1))
            /\ phase' = "decode" /\ result' = result
  <2>1. PICK g : g = Frame(e.depth + 1)
    OBVIOUS
  <2>2. g.children = <<>> /\ g.todo = <<>>
    BY <2>1 DEF Frame
  <2>3. S \in [N -> Nat]
    BY <1>13 DEF Sized
  <2>4. /\ g.children \in Seq(N) /\ Len(g.todo) \in Nat /\ Len(g.todo) = 0
        /\ d = d + (Count(S, g.children) + Len(g.todo))
    <3>1. <<>> \in Seq(N) /\ Count(S, <<>>) = 0
      BY <2>3, CountEmpty
    <3> QED BY <2>2, <3>1
  <2>5. Tracked(Append(st, g), N, S, d)
    BY ONLY <1>13, <1>14, <2>3, <2>4, PutTop
  <2>6. PICK t : t = Append(st, g)
    OBVIOUS
  <2>7. Len(t[Len(t)].todo) = 0
    <3>1. PICK F : st \in Seq(F)
      BY <1>13, <1>14 DEF Tracked
    <3>2. PICK E : E = F \cup {g}
      OBVIOUS
    <3>3. st \in Seq(E) /\ g \in E
      BY <3>1, <3>2
    <3>4. Len(t) = Len(st) + 1 /\ t[Len(st) + 1] = g
      BY <2>6, <3>3, AppendIs
    <3> QED BY <2>4, <3>4
  <2>8. CountOK(t, "decode", NoResult, d, N, S)
    BY <1>13, <2>5, <2>6, <2>7, RunningCounts DEF Running
  <2>9. stack' = t
    BY <1>14, <1>16, <2>1, <2>6
  <2>10. CountOK(stack', phase', result', discovered', N, S)
    BY <1>1, <1>12, <1>13, <1>16, <2>8, <2>9
  <2> QED BY <2>10 DEF CountInv
<1> QED BY <1>8, <1>9, <1>10, <1>15, <1>16

LEMMA IngestLeafCounts ==
  ASSUME TraversalInv, CountInv, IngestLeaf
  PROVE  CountInv'
<1>1. phase = "leaf" /\ phase \in Running /\ discovered' = discovered
  BY DEF IngestLeaf, Running
<1>2. PICK envelope, axis : CloseMember(Top, Leaf(envelope, axis))
  BY DEF IngestLeaf
<1>3. PICK c : c = Leaf(envelope, axis)
  OBVIOUS
<1>4. c.children = <<>> /\ HonestTree(c)
  BY <1>3, LeafIs, LeafIsHonest
<1>5. PICK X : Top \in Frames(X)
  BY <1>1, TopFrame
<1>6. PICK e \in Frames(X) : e = Top
  BY <1>5
<1>7. e.todo # <<>>
  BY <1>1, <1>6, TopFacts DEF Top
<1>8. CloseMember(e, c)
  BY <1>2, <1>3, <1>6
<1> QED BY <1>1, <1>4, <1>6, <1>7, <1>8, CloseMemberCounts

LEMMA FinishFrameCounts ==
  ASSUME TraversalInv, CountInv, FinishFrame
  PROVE  CountInv'
<1>1. phase = "members" /\ phase \in Running /\ discovered' = discovered /\ Top.todo = <<>>
  BY DEF FinishFrame, Running
<1>2. PICK X, N, S, outer, f :
        /\ CountOK(stack, phase, result, discovered, N, S)
        /\ outer \in Seq(Frames(X)) /\ f \in Frames(X) /\ f = Top /\ outer = Outer
        /\ stack = Append(outer, f) /\ Len(outer) \in Nat /\ Len(outer) = Len(stack) - 1
        /\ \A g : WithTop(stack, g) = Append(outer, g)
        /\ outer # <<>> => outer[Len(outer)].todo # <<>>
        /\ phase = "leaf" => f.todo # <<>>
        /\ f.children \in Seq(N) /\ Len(f.todo) \in Nat /\ \E m : Tracked(outer, N, S, m)
        /\ \/ LossyTree(f)
           \/ Tracked(outer, N, S, discovered - (Count(S, f.children) + Len(f.todo)))
  BY <1>1, StackCounts
<1>3. Sized(N, S) /\ Honest(N) /\ result = NoResult /\ S \in [N -> Nat] /\ Len(f.todo) = 0
  BY <1>1, <1>2 DEF CountOK, Running, Sized
<1>4. PICK d \in Int : d = discovered
  BY DEF TraversalInv, TypeInv
<1>5. PICK x \in Nat : x = Count(S, f.children)
  BY <1>2, <1>3, CountIs
<1>6. LossyTree(f) \/ Tracked(outer, N, S, d - x)
  <2>1. d - (x + Len(f.todo)) = d - x
    BY <1>3
  <2> QED BY <1>2, <1>4, <1>5, <2>1
<1>7. CASE Len(stack) = 1
  <2>1. /\ result' = Result(TraversalStatus(f.children), f.children, None, f.allocations)
        /\ stack' = <<>> /\ phase' = "output"
    BY <1>2, <1>7 DEF FinishFrame
  <2>2. result'.children = f.children /\ result'.status = TraversalStatus(f.children)
    BY <2>1 DEF Result
  <2>3. ASSUME TraversalStatus(f.children) = "complete"
        PROVE  x = d /\ \A i \in 1..Len(f.children) : ~ f.children[i].loss
    <3>1. \A i \in 1..Len(f.children) : ~ f.children[i].loss
      BY <2>3 DEF TraversalStatus
    <3>2. Tracked(outer, N, S, d - x)
      BY <1>6, <3>1 DEF LossyTree
    <3>3. outer = <<>>
      BY <1>2, <1>7
    <3>4. d - x = 0
      BY ONLY <1>3, <3>2, <3>3, EmptyTracked
    <3> QED BY <3>1, <3>4
  <2>4. CountOK(stack', phase', result', discovered', N, S)
    BY <1>1, <1>2, <1>3, <1>4, <1>5, <2>1, <2>2, <2>3 DEF CountOK, Running
  <2> QED BY <2>4 DEF CountInv
<1>8. CASE Len(stack) # 1
  <2>1. PICK c : c = Child("parsed", FirstAxis(f.children), f.children)
    OBVIOUS
  <2>2. c.children = f.children /\ HonestTree(c) /\ c.children \in Seq(N)
    BY <1>2, <2>1, ChildIs, ChildIsHonest
  <2>3. LossyTree(f) => c.loss
    BY <2>1, ChildIsHonest DEF LossyTree
  <2>4. PICK u : u = usage'
    OBVIOUS
  <2>5. /\ stack' = WithTop(outer, Closed(outer[Len(outer)], c, f.allocations, u))
        /\ phase' = "members" /\ result' = result
    BY <1>1, <1>2, <1>8, <2>1, <2>4 DEF FinishFrame, WithTop
  <2>6. outer # <<>> /\ outer[Len(outer)].todo # <<>>
    BY <1>2, <1>8
  <2>7. PICK m : Tracked(outer, N, S, m) /\ (c.loss \/ m = d - Count(S, c.children))
    <3>1. CASE LossyTree(f)
      BY <1>2, <2>3, <3>1
    <3>2. CASE Tracked(outer, N, S, d - x)
      BY <1>5, <2>2, <3>2
    <3> QED BY <1>6, <3>1, <3>2
  <2>8. PICK in : in = f.allocations
    OBVIOUS
  <2>9. PICK M, Z : /\ Sized(M, Z) /\ Honest(M)
                    /\ Tracked(WithTop(outer, Closed(outer[Len(outer)], c, in, u)), M, Z, d)
    <3>1. outer \in Seq(Frames(X))
      BY <1>2
    <3> QED BY ONLY <1>3, <2>2, <2>6, <2>7, <3>1, d \in Int, CloseOuter
  <2>10. CountOK(stack', phase', result', discovered', M, Z)
    BY <1>1, <1>3, <1>4, <2>5, <2>8, <2>9, RunningCounts DEF Running
  <2> QED BY <2>10 DEF CountInv
<1> QED BY <1>7, <1>8

LEMMA ChargeOutputCounts ==
  ASSUME TraversalInv, CountInv, ChargeOutput
  PROVE  CountInv'
<1>1. PICK N, S : CountOK(stack, phase, result, discovered, N, S)
  BY DEF CountInv
<1>2. PICK s : s = Spend(<<<<"output_bytes", 1>>>>)
  OBVIOUS
<1>3. /\ phase = "output" /\ phase' = "done" /\ discovered' = discovered
      /\ result' = [result EXCEPT
              !.status = IF s.axis # None /\ @ = "complete" THEN "partial" ELSE @,
              !.root.hit = IF s.axis # None THEN s.axis ELSE @,
              !.root.after = s.usage]
  BY <1>2 DEF ChargeOutput
<1>4. PICK r : r = result
  OBVIOUS
<1>5. Whole(r)
  <2>1. PICK X, R : ResultOK(result, phase, X, R, usage, late)
    BY DEF TraversalInv, AuditInv
  <2> QED BY <1>3, <1>4, <2>1 DEF ResultOK
<1>6. PICK q : q = result'
  OBVIOUS
<1>7. q.children = r.children /\ (q.status = "complete" => r.status = "complete")
  <2>1. PICK x : x = IF s.axis # None /\ r.status = "complete" THEN "partial" ELSE r.status
    OBVIOUS
  <2>2. PICK y : y = IF s.axis # None THEN s.axis ELSE r.root.hit
    OBVIOUS
  <2>3. q = Amend(r, x, y, s.usage)
    BY <1>3, <1>4, <1>6, <2>1, <2>2 DEF Amend
  <2>4. q.children = r.children /\ q.status = x
    <3>1. PICK o : o = Audit(r.root.before, r.root.after, r.root.hit, r.root.children)
      OBVIOUS
    <3>2. r = [status |-> r.status, children |-> r.children, root |-> o]
      BY <1>5, <3>1 DEF Whole
    <3> QED BY <2>3, <3>2 DEF Amend
  <2> QED BY <2>1, <2>4
<1>8. PICK d : d = discovered
  OBVIOUS
<1>9. CountOK(stack, phase, r, d, N, S)
  BY <1>1, <1>4, <1>8
<1>10. CountOK(stack', "done", q, d, N, S)
  BY <1>3, <1>7, <1>9 DEF CountOK, Running
<1>11. CountOK(stack', phase', result', discovered', N, S)
  BY <1>3, <1>6, <1>8, <1>10
<1> QED BY <1>11 DEF CountInv

LEMMA CountStarts == Init => CountInv
<1> SUFFICES ASSUME Init PROVE CountInv
  OBVIOUS
<1>1. stack = <<>> /\ phase = "submitted" /\ result = NoResult /\ discovered = 0
  BY DEF Init
<1>2. PICK N, S : N = {} /\ S = [c \in N |-> 0]
  OBVIOUS
<1>3. S \in [N -> Nat] /\ Sized(N, S) /\ Honest(N)
  BY <1>2 DEF Sized, Honest
<1>4. Tracked(<<>>, N, S, 0)
  <2>1. <<>> \in Seq({}) /\ Framed({}, N)
    BY DEF Framed
  <2>2. Burden(S, {}) \in [{} -> Nat]
    BY <1>3, <2>1, BurdenIs
  <2>3. Count(Burden(S, {}), <<>>) = 0
    BY <2>2, CountEmpty
  <2> QED BY <2>1, <2>3 DEF Tracked
<1>5. CountOK(<<>>, "submitted", NoResult, 0, N, S)
  BY <1>3, <1>4, RunningCounts
<1> QED BY <1>1, <1>5 DEF CountInv

LEMMA CountInductive == TraversalInv /\ CountInv /\ [Next]_vars => CountInv'
<1> SUFFICES ASSUME TraversalInv, CountInv, [Next]_vars PROVE CountInv'
  OBVIOUS
<1>1. CASE Work
  BY <1>1, RefuseCounts, BeginCounts, DecodeFailsCounts, CheckCounts, DecodeSucceedsCounts,
     BadLocatorCounts, MemberStoppedCounts, MemberRefusedCounts, MemberAdmittedCounts,
     IngestLeafCounts, FinishFrameCounts, ChargeOutputCounts DEF Work
<1>2. CASE Cancel \/ Deadline
  BY <1>2, QuietCounts DEF Cancel, Deadline
<1>3. CASE Finished \/ UNCHANGED vars
  BY <1>3, QuietCounts DEF Finished, vars
<1> QED BY <1>1, <1>2, <1>3 DEF Next

LEMMA CountFollows == TraversalInv /\ CountInv => CompleteIsWhole
<1> SUFFICES ASSUME TraversalInv, CountInv, Final, result.status = "complete"
             PROVE  /\ CountNodes(result.children) = discovered
                    /\ \A child \in Nodes(result.children) : child.status \in Lossless
  BY DEF CompleteIsWhole
<1>1. PICK N, S : CountOK(stack, phase, result, discovered, N, S)
  BY DEF CountInv
<1>2. PICK forest : forest = result.children
  OBVIOUS
<1>3. /\ Sized(N, S) /\ Honest(N) /\ forest \in Seq(N) /\ Count(S, forest) = discovered
      /\ \A i \in 1..Len(forest) : ~ forest[i].loss
  BY <1>1, <1>2 DEF CountOK
<1>4. discovered \in Nat
  BY DEF TraversalInv, TypeInv
<1>5. CountNodes(forest) = discovered
  BY <1>3, <1>4, NodesAreCounted
<1>6. PICK A : A = {c \in N : ~ c.loss}
  OBVIOUS
<1>7. ASSUME NEW c \in A PROVE c.children \in Seq(A) /\ c.status \in Lossless
  <2>1. /\ c \in N /\ c.children \in Seq(N) /\ c.status \in Lossless
        /\ \A i \in 1..Len(c.children) : ~ c.children[i].loss
    BY <1>3, <1>6 DEF Sized, Honest
  <2>2. \A i \in 1..Len(c.children) : c.children[i] \in A
    BY <1>6, <2>1
  <2> QED BY <2>1, <2>2
<1>8. forest \in Seq(A)
  <2>1. \A i \in 1..Len(forest) : forest[i] \in A
    BY <1>3, <1>6
  <2> QED BY <1>3, <2>1
<1>9. Nodes(forest) \subseteq A
  BY <1>4, <1>7, <1>8, NodesIn
<1> QED BY <1>2, <1>5, <1>7, <1>9

(* traversal_status, any tree: when it says complete, every member any     *)
(* decoder returned, at whatever depth, is a node of the result, and none  *)
(* of them was lost.                                                       *)
THEOREM CompleteIsWholeHolds == Spec => []CompleteIsWhole
<1>1. Init => TraversalInv /\ CountInv
  BY TraversalStarts, CountStarts
<1>2. TraversalInv /\ CountInv /\ [Next]_vars => TraversalInv' /\ CountInv'
  BY TraversalInductive, CountInductive
<1> QED BY <1>1, <1>2, CountFollows, PTL DEF Spec

-----------------------------------------------------------------------------
(* Words over an order.                                                    *)

IsOrder(L, X) ==
  /\ \A x \in X : <<x, x>> \notin L
  /\ \A x, y, z \in X : <<x, y>> \in L /\ <<y, z>> \in L => <<x, z>> \in L
  /\ \A x, y \in X : x = y \/ <<x, y>> \in L \/ <<y, x>> \in L

(* The words part at k: before k they agree, and there s ends or is less.  *)
Parts(L, s, t, k) ==
  /\ k <= Len(t) /\ \A i \in 1..(k - 1) : s[i] = t[i]
  /\ k = Len(s) + 1 \/ <<s[k], t[k]>> \in L

Lex(L, s, t) == \E k \in 1..(Len(s) + 1) : Parts(L, s, t, k)

LEMMA LexNotSelf ==
  ASSUME NEW X, NEW L, IsOrder(L, X), NEW s \in Seq(X)
  PROVE  ~ Lex(L, s, s)
<1> SUFFICES ASSUME NEW k \in 1..(Len(s) + 1), Parts(L, s, s, k) PROVE FALSE
  BY DEF Lex
<1>1. Len(s) \in Nat /\ k <= Len(s) /\ k \in 1..Len(s) /\ k # Len(s) + 1
  BY DEF Parts
<1>2. s[k] \in X /\ <<s[k], s[k]>> \in L
  BY <1>1 DEF Parts
<1> QED BY <1>2 DEF IsOrder

LEMMA LexTransitive ==
  ASSUME NEW X, NEW L, IsOrder(L, X), NEW s \in Seq(X), NEW t \in Seq(X), NEW u \in Seq(X),
         Lex(L, s, t), Lex(L, t, u)
  PROVE  Lex(L, s, u)
<1>1. PICK j \in 1..(Len(s) + 1) : Parts(L, s, t, j)
  BY DEF Lex
<1>2. PICK k \in 1..(Len(t) + 1) : Parts(L, t, u, k)
  BY DEF Lex
<1>3. Len(s) \in Nat /\ Len(t) \in Nat /\ Len(u) \in Nat /\ j \in Nat /\ k \in Nat
  OBVIOUS
<1>4. /\ j <= Len(t) /\ \A i \in 1..(j - 1) : s[i] = t[i]
      /\ j = Len(s) + 1 \/ <<s[j], t[j]>> \in L
  BY <1>1 DEF Parts
<1>5. /\ k <= Len(u) /\ \A i \in 1..(k - 1) : t[i] = u[i]
      /\ k = Len(t) + 1 \/ <<t[k], u[k]>> \in L
  BY <1>2 DEF Parts
<1>6. CASE j < k
  <2>1. j <= Len(u) /\ \A i \in 1..(j - 1) : i \in 1..(k - 1)
    BY <1>3, <1>5, <1>6
  <2>2. j \in 1..(k - 1)
    BY <1>3, <1>6
  <2>3. t[j] = u[j] /\ \A i \in 1..(j - 1) : s[i] = u[i]
    BY <1>4, <1>5, <2>1, <2>2
  <2>4. Parts(L, s, u, j)
    BY <1>4, <2>1, <2>3 DEF Parts
  <2> QED BY <2>4 DEF Lex
<1>7. CASE j = k
  <2>1. \A i \in 1..(j - 1) : s[i] = u[i]
    BY <1>4, <1>5, <1>7
  <2>2. k # Len(t) + 1 /\ <<t[j], u[j]>> \in L
    BY <1>3, <1>4, <1>5, <1>7
  <2>3. ASSUME j # Len(s) + 1 PROVE <<s[j], u[j]>> \in L
    <3>1. j \in 1..Len(s) /\ j \in 1..Len(t) /\ j \in 1..Len(u)
      BY <1>3, <1>4, <1>5, <1>7, <2>3
    <3>2. s[j] \in X /\ t[j] \in X /\ u[j] \in X
      BY <3>1
    <3> QED BY <1>4, <2>2, <2>3, <3>2 DEF IsOrder
  <2>4. Parts(L, s, u, j)
    BY <1>5, <1>7, <2>1, <2>3 DEF Parts
  <2> QED BY <2>4 DEF Lex
<1>8. CASE k < j
  <2>1. k \in 1..(j - 1) /\ k # Len(t) + 1 /\ k \in 1..(Len(s) + 1)
    BY <1>3, <1>4, <1>8
  <2>2. \A i \in 1..(k - 1) : i \in 1..(j - 1)
    BY <1>3, <1>8
  <2>3. s[k] = t[k] /\ \A i \in 1..(k - 1) : s[i] = u[i]
    BY <1>4, <1>5, <2>1, <2>2
  <2>4. Parts(L, s, u, k)
    BY <1>5, <2>1, <2>3 DEF Parts
  <2> QED BY <2>1, <2>4 DEF Lex
<1> QED BY <1>3, <1>6, <1>7, <1>8

LEMMA LexTotal ==
  ASSUME NEW X, NEW L, IsOrder(L, X), NEW s \in Seq(X), NEW t \in Seq(X), s # t
  PROVE  Lex(L, s, t) \/ Lex(L, t, s)
<1> DEFINE T == {k \in Nat : k >= 1 /\ (k > Len(s) \/ k > Len(t) \/ s[k] # t[k])}
<1>1. Len(s) \in Nat /\ Len(t) \in Nat
  OBVIOUS
<1>2. PICK k \in T : \A m \in T : k <= m
  <2>1. Len(s) + 1 \in T
    BY <1>1
  <2>2. T \in SUBSET Nat /\ T # {}
    BY <2>1
  <2> HIDE DEF T
  <2> QED BY <2>2, LeastNumber
<1>3. k \in Nat /\ k >= 1 /\ (k > Len(s) \/ k > Len(t) \/ s[k] # t[k])
  BY <1>2
<1>4. ASSUME NEW i \in 1..(k - 1) PROVE i <= Len(s) /\ i <= Len(t) /\ s[i] = t[i]
  <2>1. i \in Nat /\ i >= 1 /\ ~ k <= i
    BY <1>3
  <2>2. i \notin T
    BY <1>2, <2>1
  <2> QED BY <1>1, <2>1, <2>2
<1>5. k - 1 <= Len(s) /\ k - 1 <= Len(t)
  <2>1. k = 1 \/ k - 1 \in 1..(k - 1)
    BY <1>3
  <2> QED BY <1>1, <1>3, <1>4, <2>1
<1>6. k \in 1..(Len(s) + 1) /\ k \in 1..(Len(t) + 1)
  BY <1>1, <1>3, <1>5
<1> HIDE DEF T
<1>7. CASE k > Len(s)
  <2>1. k = Len(s) + 1
    BY <1>1, <1>3, <1>5, <1>7
  <2>2. CASE k > Len(t)
    <3>1. Len(s) = Len(t) /\ k - 1 = Len(s)
      BY <1>1, <1>3, <1>5, <2>1, <2>2
    <3>2. \A i \in 1..Len(s) : s[i] = t[i]
      BY <1>4, <3>1
    <3>3. s = t
      BY <3>1, <3>2
    <3> QED BY <3>3
  <2>3. CASE k <= Len(t)
    <3>1. Parts(L, s, t, k)
      BY <1>4, <2>1, <2>3 DEF Parts
    <3> QED BY <1>6, <3>1 DEF Lex
  <2> QED BY <1>1, <1>3, <2>2, <2>3
<1>8. CASE k <= Len(s) /\ k > Len(t)
  <2>1. k = Len(t) + 1
    BY <1>1, <1>3, <1>5, <1>8
  <2>2. Parts(L, t, s, k)
    BY <1>4, <1>8, <2>1 DEF Parts
  <2> QED BY <1>6, <2>2 DEF Lex
<1>9. CASE k <= Len(s) /\ k <= Len(t)
  <2>1. s[k] # t[k] /\ k \in 1..Len(s) /\ k \in 1..Len(t)
    BY <1>1, <1>3, <1>9
  <2>2. s[k] \in X /\ t[k] \in X
    BY <2>1
  <2>3. <<s[k], t[k]>> \in L \/ <<t[k], s[k]>> \in L
    BY <2>1, <2>2 DEF IsOrder
  <2>4. Parts(L, s, t, k) \/ Parts(L, t, s, k)
    BY <1>4, <1>9, <2>3 DEF Parts
  <2> QED BY <1>6, <2>4 DEF Lex
<1> QED BY <1>1, <1>3, <1>7, <1>8, <1>9

Numbers == {p \in Nat \X Nat : p[1] < p[2]}
Words == {p \in Seq(Nat) \X Seq(Nat) : IsBefore(p[1], p[2])}
Keys == {p \in Seq(Seq(Nat)) \X Seq(Seq(Nat)) : KeyIsBefore(p[1], p[2])}

LEMMA NumbersOrdered == IsOrder(Numbers, Nat)
BY DEF IsOrder, Numbers

(* The order of identities, places and the keys of edges is one.           *)
LEMMA WordIs ==
  ASSUME NEW s \in Seq(Nat), NEW t \in Seq(Nat)
  PROVE  IsBefore(s, t) <=> Lex(Numbers, s, t)
<1>1. ASSUME NEW k \in 1..(Len(s) + 1)
      PROVE  /\ Parts(Numbers, s, t, k) <=>
                  /\ k <= Len(t) /\ \A i \in 1..(k - 1) : s[i] = t[i]
                  /\ k = Len(s) + 1 \/ s[k] < t[k]
  <2>1. ASSUME k <= Len(t), k # Len(s) + 1 PROVE <<s[k], t[k]>> \in Numbers <=> s[k] < t[k]
    <3>1. k \in 1..Len(s) /\ k \in 1..Len(t)
      BY <2>1
    <3>2. s[k] \in Nat /\ t[k] \in Nat
      BY <3>1
    <3> QED BY <3>2 DEF Numbers
  <2> QED BY <2>1 DEF Parts
<1> QED BY <1>1 DEF IsBefore, Lex

LEMMA WordsOrdered == IsOrder(Words, Seq(Nat))
<1>1. \A s, t \in Seq(Nat) : <<s, t>> \in Words <=> Lex(Numbers, s, t)
  <2> SUFFICES ASSUME NEW s \in Seq(Nat), NEW t \in Seq(Nat)
               PROVE  <<s, t>> \in Words <=> Lex(Numbers, s, t)
    OBVIOUS
  <2>1. <<s, t>> \in Words <=> IsBefore(s, t)
    BY DEF Words
  <2> QED BY <2>1, WordIs
<1>2. \A s \in Seq(Nat) : ~ Lex(Numbers, s, s)
  BY NumbersOrdered, LexNotSelf
<1>3. \A s, t, u \in Seq(Nat) : Lex(Numbers, s, t) /\ Lex(Numbers, t, u) => Lex(Numbers, s, u)
  BY NumbersOrdered, LexTransitive
<1>4. \A s, t \in Seq(Nat) : s = t \/ Lex(Numbers, s, t) \/ Lex(Numbers, t, s)
  BY NumbersOrdered, LexTotal
<1> QED BY ONLY <1>1, <1>2, <1>3, <1>4 DEF IsOrder

(* So is that of the keys of nodes.                                        *)
LEMMA KeyIs ==
  ASSUME NEW s \in Seq(Seq(Nat)), NEW t \in Seq(Seq(Nat))
  PROVE  KeyIsBefore(s, t) <=> Lex(Words, s, t)
<1>1. ASSUME NEW k \in 1..(Len(s) + 1)
      PROVE  /\ Parts(Words, s, t, k) <=>
                  /\ k <= Len(t) /\ \A i \in 1..(k - 1) : s[i] = t[i]
                  /\ k = Len(s) + 1 \/ IsBefore(s[k], t[k])
  <2>1. ASSUME k <= Len(t), k # Len(s) + 1 PROVE <<s[k], t[k]>> \in Words <=> IsBefore(s[k], t[k])
    <3>1. k \in 1..Len(s) /\ k \in 1..Len(t)
      BY <2>1
    <3>2. s[k] \in Seq(Nat) /\ t[k] \in Seq(Nat)
      BY <3>1
    <3> QED BY <3>2 DEF Words
  <2> QED BY <2>1 DEF Parts
<1> QED BY <1>1 DEF KeyIsBefore, Lex

LEMMA KeysOrdered == IsOrder(Keys, Seq(Seq(Nat)))
<1>1. \A s, t \in Seq(Seq(Nat)) : <<s, t>> \in Keys <=> Lex(Words, s, t)
  <2> SUFFICES ASSUME NEW s \in Seq(Seq(Nat)), NEW t \in Seq(Seq(Nat))
               PROVE  <<s, t>> \in Keys <=> Lex(Words, s, t)
    OBVIOUS
  <2>1. <<s, t>> \in Keys <=> KeyIsBefore(s, t)
    BY DEF Keys
  <2> QED BY <2>1, KeyIs
<1>2. \A s \in Seq(Seq(Nat)) : ~ Lex(Words, s, s)
  BY WordsOrdered, LexNotSelf
<1>3. \A s, t, u \in Seq(Seq(Nat)) : Lex(Words, s, t) /\ Lex(Words, t, u) => Lex(Words, s, u)
  BY WordsOrdered, LexTransitive
<1>4. \A s, t \in Seq(Seq(Nat)) : s = t \/ Lex(Words, s, t) \/ Lex(Words, t, s)
  BY WordsOrdered, LexTotal
<1> QED BY ONLY <1>1, <1>2, <1>3, <1>4 DEF IsOrder

-----------------------------------------------------------------------------
(* Sorting.                                                                *)

Arranges(at, n) ==
  /\ at \in [1..n -> 1..n]
  /\ \A i \in 1..n : \E k \in 1..n : at[k] = i
  /\ \A k, l \in 1..n : at[k] = at[l] => k = l

Rearranged(t, s, at) == t = [k \in 1..Len(s) |-> s[at[k]]]

(* The order of the places of a list that a stable sort follows.           *)
Stably(n, before) ==
  {p \in (1..n) \X (1..n) : p \in before \/ (p[1] < p[2] /\ <<p[2], p[1]>> \notin before)}

Ahead(n, Q, i) == {j \in 1..n : <<j, i>> \in Q}

LEMMA AheadIs ==
  ASSUME NEW n \in Nat, NEW Q, IsOrder(Q, 1..n)
  PROVE  /\ \A i \in 1..n : Cardinality(Ahead(n, Q, i)) \in 0..(n - 1)
         /\ \A i, j \in 1..n :
              <<i, j>> \in Q => Cardinality(Ahead(n, Q, i)) < Cardinality(Ahead(n, Q, j))
         /\ \A k \in 0..(n - 1) : \E i \in 1..n : Cardinality(Ahead(n, Q, i)) = k
<1> DEFINE D == 1..n
           rank == [i \in D |-> Cardinality(Ahead(n, Q, i)) + 1]
<1>1. IsFiniteSet(D) /\ Cardinality(D) = n
  <2>1. /\ IsFiniteSet(1..n)
        /\ Cardinality(1..n) = IF 1 > n THEN 0 ELSE n - 1 + 1
    BY FS_Interval
  <2> QED BY <2>1
<1>2. ASSUME NEW i \in D
      PROVE  /\ Ahead(n, Q, i) \in SUBSET D /\ i \notin Ahead(n, Q, i)
             /\ IsFiniteSet(Ahead(n, Q, i))
             /\ Cardinality(Ahead(n, Q, i)) \in 0..(n - 1)
  <2>1. Ahead(n, Q, i) \in SUBSET D /\ i \notin Ahead(n, Q, i)
    BY DEF Ahead, IsOrder
  <2> HIDE DEF D
  <2>2. /\ IsFiniteSet(Ahead(n, Q, i)) /\ Cardinality(Ahead(n, Q, i)) <= Cardinality(D)
        /\ Cardinality(Ahead(n, Q, i)) = Cardinality(D) => Ahead(n, Q, i) = D
    BY <2>1, <1>1, FS_Subset
  <2>3. Cardinality(Ahead(n, Q, i)) \in Nat /\ Cardinality(Ahead(n, Q, i)) # n
    BY <2>1, <2>2, <1>1, FS_CardinalityType
  <2> QED BY <2>1, <2>2, <2>3, <1>1
<1>3. ASSUME NEW i \in D, NEW j \in D, <<i, j>> \in Q
      PROVE  Cardinality(Ahead(n, Q, i)) < Cardinality(Ahead(n, Q, j))
  <2>1. i \in Ahead(n, Q, j) /\ Ahead(n, Q, i) \subseteq Ahead(n, Q, j)
    BY <1>3 DEF Ahead, IsOrder
  <2>2. /\ Cardinality(Ahead(n, Q, i)) <= Cardinality(Ahead(n, Q, j))
        /\ Cardinality(Ahead(n, Q, i)) # Cardinality(Ahead(n, Q, j))
    BY <2>1, <1>2, FS_Subset
  <2> QED BY <2>2, <1>2
<1>4. rank \in Injection(D, D)
  <2>1. rank \in [D -> D]
    BY <1>2
  <2>2. \A i, j \in D : rank[i] = rank[j] => i = j
    <3> SUFFICES ASSUME NEW i \in D, NEW j \in D, i # j PROVE rank[i] # rank[j]
      OBVIOUS
    <3>1. <<i, j>> \in Q \/ <<j, i>> \in Q
      BY DEF IsOrder
    <3>2. rank[i] < rank[j] \/ rank[j] < rank[i]
      BY <3>1, <1>2, <1>3
    <3> QED BY <3>2, <1>2
  <2> QED BY <2>1, <2>2 DEF Injection, IsInjective
<1>5. rank \in Surjection(D, D)
  <2> HIDE DEF rank, D
  <2> QED BY <1>1, <1>4, FS_Injection
<1>6. ASSUME NEW k \in 0..(n - 1) PROVE \E i \in 1..n : Cardinality(Ahead(n, Q, i)) = k
  <2>1. k + 1 \in D
    OBVIOUS
  <2>2. PICK i \in D : rank[i] = k + 1
    BY <1>5, <2>1 DEF Surjection
  <2> QED BY <2>2, <1>2
<1> QED BY <1>2, <1>3, <1>6

(* Sorting puts a list into the order.                                     *)
LEMMA SortedIs ==
  ASSUME NEW X, NEW s \in Seq(X), NEW before, IsOrder(Stably(Len(s), before), 1..Len(s))
  PROVE  \E at : /\ Arranges(at, Len(s)) /\ Rearranged(Sorted(s, before), s, at)
                 /\ \A k, l \in 1..Len(s) : k < l => <<at[k], at[l]>> \in Stably(Len(s), before)
<1>1. PICK n \in Nat : n = Len(s) /\ DOMAIN s = 1..n
  OBVIOUS
<1>2. PICK Q : Q = Stably(n, before)
  OBVIOUS
<1>3. IsOrder(Q, 1..n)
  BY <1>1, <1>2
<1>4. /\ \A i \in 1..n : Cardinality(Ahead(n, Q, i)) \in 0..(n - 1)
      /\ \A i, j \in 1..n :
           <<i, j>> \in Q => Cardinality(Ahead(n, Q, i)) < Cardinality(Ahead(n, Q, j))
      /\ \A k \in 0..(n - 1) : \E i \in 1..n : Cardinality(Ahead(n, Q, i)) = k
  BY <1>3, AheadIs
<1> DEFINE A(i) == {j \in 1..n : <<j, i>> \in before \/ (j < i /\ <<i, j>> \notin before)}
           at == [k \in 1..n |-> CHOOSE i \in 1..n : Cardinality(A(i)) = k - 1]
<1>0. ASSUME NEW i \in 1..n PROVE Ahead(n, Q, i) = A(i)
  BY <1>2 DEF Ahead, Stably
<1>5. ASSUME NEW k \in 1..n PROVE at[k] \in 1..n /\ Cardinality(Ahead(n, Q, at[k])) = k - 1
  <2> HIDE DEF A
  <2>1. k - 1 \in 0..(n - 1)
    OBVIOUS
  <2>2. \E i \in 1..n : Cardinality(A(i)) = k - 1
    BY <1>4, <1>0, <2>1
  <2> QED BY <1>0, <2>2
<1>6. Sorted(s, before) = [k \in 1..n |-> s[at[k]]]
  BY <1>1 DEF Sorted
<1>7. at \in [1..n -> 1..n]
  BY <1>5
<1> HIDE DEF at
<1>8. \A k, l \in 1..n : at[k] = at[l] => k = l
  BY ONLY <1>5
<1>9. ASSUME NEW i \in 1..n, NEW j \in 1..n, i # j
      PROVE  Cardinality(Ahead(n, Q, i)) # Cardinality(Ahead(n, Q, j))
  <2>1. <<i, j>> \in Q \/ <<j, i>> \in Q
    BY <1>3, <1>9 DEF IsOrder
  <2>2. \/ Cardinality(Ahead(n, Q, i)) < Cardinality(Ahead(n, Q, j))
        \/ Cardinality(Ahead(n, Q, j)) < Cardinality(Ahead(n, Q, i))
    BY <2>1, <1>4
  <2>3. Cardinality(Ahead(n, Q, i)) \in Nat /\ Cardinality(Ahead(n, Q, j)) \in Nat
    BY <1>4
  <2> QED BY ONLY <2>2, <2>3
<1>10. ASSUME NEW i \in 1..n PROVE \E k \in 1..n : at[k] = i
  <2>1. PICK m \in 0..(n - 1) : m = Cardinality(Ahead(n, Q, i))
    BY <1>4
  <2>2. m + 1 \in 1..n /\ (m + 1) - 1 = m
    OBVIOUS
  <2>3. at[m + 1] \in 1..n /\ Cardinality(Ahead(n, Q, at[m + 1])) = m
    BY <1>5, <2>2
  <2>4. at[m + 1] = i
    BY <1>9, <2>1, <2>3
  <2> QED BY <2>2, <2>4
<1>11. ASSUME NEW k \in 1..n, NEW l \in 1..n, k < l PROVE <<at[k], at[l]>> \in Q
  <2>1. PICK a \in 1..n, b \in 1..n : a = at[k] /\ b = at[l]
    BY <1>5
  <2>2. Cardinality(Ahead(n, Q, a)) = k - 1 /\ Cardinality(Ahead(n, Q, b)) = l - 1
    BY <1>5, <2>1
  <2>3. a # b /\ ~ (Cardinality(Ahead(n, Q, b)) < Cardinality(Ahead(n, Q, a)))
    BY ONLY <2>2, <1>11, k \in 1..n, l \in 1..n, n \in Nat
  <2>4. <<a, b>> \in Q
    BY <1>3, <1>4, <2>3 DEF IsOrder
  <2> QED BY <2>1, <2>4
<1>12. Arranges(at, n)
  BY <1>7, <1>8, <1>10 DEF Arranges
<1>13. Rearranged(Sorted(s, before), s, at)
  BY <1>1, <1>6 DEF Rearranged
<1> QED BY <1>1, <1>2, <1>11, <1>12, <1>13

(* What a rearrangement of a list is.                                      *)
LEMMA RearrangedIs ==
  ASSUME NEW X, NEW s \in Seq(X), NEW at, Arranges(at, Len(s)), NEW t, Rearranged(t, s, at)
  PROVE  /\ t \in Seq(X) /\ Len(t) = Len(s) /\ DOMAIN t = 1..Len(s) /\ Range(t) = Range(s)
         /\ \A k \in DOMAIN t : at[k] \in DOMAIN s /\ t[k] = s[at[k]]
<1>1. PICK n \in Nat : n = Len(s) /\ DOMAIN s = 1..n
  OBVIOUS
<1>2. /\ \A k \in 1..n : at[k] \in 1..n
      /\ \A i \in 1..n : \E k \in 1..n : at[k] = i
  BY <1>1 DEF Arranges
<1>3. t = [k \in 1..n |-> s[at[k]]]
  BY <1>1 DEF Rearranged
<1>4. \A k \in 1..n : s[at[k]] \in X
  BY <1>1, <1>2
<1>5. t \in [1..n -> X]
  BY <1>3, <1>4
<1>6. t \in Seq(X) /\ Len(t) = n /\ DOMAIN t = 1..n
  BY <1>5
<1>7. Range(t) = Range(s)
  <2>1. ASSUME NEW x \in Range(t) PROVE x \in Range(s)
    <3>1. PICK k \in 1..n : x = t[k]
      BY <1>6 DEF Range
    <3> QED BY <1>1, <1>2, <1>3, <3>1 DEF Range
  <2>2. ASSUME NEW x \in Range(s) PROVE x \in Range(t)
    <3>1. PICK i \in 1..n : x = s[i]
      BY <1>1 DEF Range
    <3>2. PICK k \in 1..n : at[k] = i
      BY <1>2
    <3>3. t[k] = x
      BY <1>3, <3>1, <3>2
    <3> QED BY <1>6, <3>3 DEF Range
  <2> QED BY <2>1, <2>2
<1> QED BY <1>1, <1>2, <1>3, <1>6, <1>7

(* Two lists of the same things in the same order are one.                 *)
LEMMA OneArrangement ==
  ASSUME NEW X, NEW s \in Seq(X), NEW t \in Seq(X), Len(s) = Len(t), Range(s) = Range(t),
         NEW L, \A x \in X : <<x, x>> \notin L,
         \A x, y \in X : ~ (<<x, y>> \in L /\ <<y, x>> \in L),
         \A k, l \in DOMAIN s : k < l => <<s[k], s[l]>> \in L,
         \A k, l \in DOMAIN t : k < l => <<t[k], t[l]>> \in L
  PROVE  s = t
<1>1. PICK n \in Nat : n = Len(s) /\ DOMAIN s = 1..n /\ DOMAIN t = 1..n
  OBVIOUS
<1>2. \A k \in 1..n : s[k] \in X /\ t[k] \in X
  BY <1>1
<1> DEFINE T == {k \in Nat : k \in 1..n /\ s[k] # t[k]}
<1>3. CASE T = {}
  <2>1. \A k \in 1..n : s[k] = t[k]
    BY <1>3
  <2> QED BY <1>1, <2>1
<1>4. CASE T # {}
  <2>1. PICK k \in T : \A m \in T : k <= m
    <3>1. T \in SUBSET Nat
      OBVIOUS
    <3> HIDE DEF T
    <3> QED BY <1>4, <3>1, LeastNumber
  <2>2. k \in 1..n /\ s[k] # t[k] /\ \A i \in 1..(k - 1) : s[i] = t[i]
    <3>1. ASSUME NEW i \in 1..(k - 1) PROVE s[i] = t[i]
      <4>1. i \in 1..n /\ ~ (k <= i)
        BY <1>1, <2>1
      <4>2. i \notin T
        BY <2>1, <4>1
      <4> QED BY <4>1, <4>2
    <3> QED BY <2>1, <3>1
  <2> HIDE DEF T
  <2>3. PICK l \in 1..n : s[l] = t[k]
    <3>1. t[k] \in Range(t)
      BY ONLY <1>1, <2>2 DEF Range
    <3>2. t[k] \in Range(s)
      BY <3>1
    <3> QED BY ONLY <1>1, <3>2 DEF Range
  <2>4. PICK m \in 1..n : t[m] = s[k]
    <3>1. s[k] \in Range(s)
      BY ONLY <1>1, <2>2 DEF Range
    <3>2. s[k] \in Range(t)
      BY <3>1
    <3> QED BY ONLY <1>1, <3>2 DEF Range
  <2>5. k < l
    <3>1. l # k
      BY <2>2, <2>3
    <3>2. ASSUME l < k PROVE FALSE
      <4>1. l \in 1..(k - 1)
        BY <2>2, <3>2
      <4>2. t[l] = t[k]
        BY <2>2, <2>3, <4>1
      <4>3. <<t[l], t[k]>> \in L
        BY <1>1, <2>2, <3>2
      <4> QED BY <1>2, <2>2, <4>2, <4>3
    <3> QED BY <2>2, <3>1, <3>2
  <2>6. k < m
    <3>1. m # k
      BY <2>2, <2>4
    <3>2. ASSUME m < k PROVE FALSE
      <4>1. m \in 1..(k - 1)
        BY <2>2, <3>2
      <4>2. s[m] = s[k]
        BY <2>2, <2>4, <4>1
      <4>3. <<s[m], s[k]>> \in L
        BY <1>1, <2>2, <3>2
      <4> QED BY <1>2, <2>2, <4>2, <4>3
    <3> QED BY <2>2, <3>1, <3>2
  <2>7. <<s[k], s[l]>> \in L /\ <<t[k], t[m]>> \in L
    BY <1>1, <2>2, <2>5, <2>6
  <2> QED BY <1>2, <2>2, <2>3, <2>4, <2>7
<1> QED BY <1>3, <1>4

-----------------------------------------------------------------------------
(* Up from a node to its topmost ancestor.                                 *)

Parents(p, ns) == {m \in Range(ns) : m.id = Last(p).parent} \ Range(p)
Climb(p, ns) == IF Parents(p, ns) = {} THEN p ELSE Append(p, CHOOSE m \in Parents(p, ns) : TRUE)

(* What the recursion of Chain says.                                       *)
LEMMA ChainRecursion ==
  ASSUME NEW ns, Len(ns) \in Nat \ {0}, NEW n
  PROVE  \E f : /\ Chain(n, ns) = f[Len(ns)]
                /\ f[1] = <<n>>
                /\ \A k \in 2..Len(ns) : f[k] = Climb(f[k - 1], ns)
<1> DEFINE N == Len(ns)
           above(c) == {m \in Range(ns) : m.id = Last(c).parent} \ Range(c)
           step(c) == IF above(c) = {} THEN c ELSE Append(c, CHOOSE m \in above(c) : TRUE)
           G(f, l) == [k \in 1..l |-> IF k = 1 THEN <<n>> ELSE step(f[k - 1])]
           T == {l \in Nat : \E f : f = G(f, l)}
<1>0. \A p : step(p) = Climb(p, ns)
  BY DEF Climb, Parents
<1>1. 0 \in T
  <2> DEFINE z == [k \in 1..0 |-> 0]
  <2>1. z = G(z, 0)
    OBVIOUS
  <2>2. \E f : f = G(f, 0)
    <3> HIDE DEF G, z
    <3> QED BY <2>1
  <2> HIDE DEF G
  <2> QED BY <2>2
<1>2. ASSUME NEW l \in T PROVE l + 1 \in T
  <2> HIDE DEF step
  <2>1. PICK f : f = G(f, l)
    OBVIOUS
  <2> DEFINE e(k) == IF k = 1 THEN <<n>> ELSE step(f[k - 1])
             h == [k \in 1..l + 1 |-> e(k)]
  <2>2. l \in Nat /\ f = [k \in 1..l |-> e(k)]
    BY <2>1
  <2>3. \A k \in 1..l : f[k] = e(k)
    <3> HIDE DEF e
    <3> QED BY <2>2
  <2>4. \A k \in 1..l : h[k] = f[k]
    <3> HIDE DEF e
    <3> QED BY <2>2, <2>3
  <2>5. \A k \in 1..l + 1 : k # 1 => k - 1 \in 1..l
    BY <2>2
  <2>6. \A k \in 1..l + 1 : e(k) = IF k = 1 THEN <<n>> ELSE step(h[k - 1])
    <3> HIDE DEF h
    <3> QED BY <2>4, <2>5
  <2>7. h = G(h, l + 1)
    <3> HIDE DEF e
    <3> QED BY <2>6
  <2>8. \E g : g = G(g, l + 1)
    <3> HIDE DEF G, h
    <3> QED BY <2>7
  <2>9. l + 1 \in Nat
    BY <2>2
  <2> HIDE DEF G, h
  <2> QED BY <2>8, <2>9
<1>3. T = Nat
  <2>1. T \in SUBSET Nat
    OBVIOUS
  <2> HIDE DEF T
  <2> QED BY <1>1, <1>2, <2>1, SetInduction
<1>4. N \in Nat /\ N >= 1
  OBVIOUS
<1>5. \E f : f = G(f, N)
  <2> HIDE DEF G, N
  <2> QED BY <1>3, <1>4
<1> DEFINE c == CHOOSE f : f = G(f, N)
<1>6. c = G(c, N)
  <2> HIDE DEF G
  <2> QED BY <1>5
<1>7. Chain(n, ns) = c[N]
  BY DEF Chain
<1> HIDE DEF c, N, step
<1>8. c[1] = <<n>>
  BY <1>4, <1>6
<1>9. ASSUME NEW k \in 2..N PROVE c[k] = step(c[k - 1])
  <2>1. k \in 1..N /\ k # 1
    BY <1>4
  <2> QED BY <1>6, <2>1
<1>10. \A k \in 2..N : c[k] = Climb(c[k - 1], ns)
  BY <1>0, <1>9
<1> QED BY <1>7, <1>8, <1>10 DEF N

UniqueIds(S) == \A m, n \in S : m.id = n.id => m = n

Climbs(p, n, S) ==
  /\ p \in Seq(S) /\ Len(p) >= 1 /\ p[1] = n
  /\ \A i, j \in DOMAIN p : p[i] = p[j] => i = j
  /\ \A i \in 1..(Len(p) - 1) : p[i + 1].id = p[i].parent

AtTop(p, S) == \A m \in S : m.id = p[Len(p)].parent => m \in Range(p)

LEMMA ClimbIs ==
  ASSUME NEW S, NEW ns, Range(ns) = S, NEW n, NEW p, Climbs(p, n, S)
  PROVE  \/ Climb(p, ns) = p /\ AtTop(p, S)
         \/ Climbs(Climb(p, ns), n, S) /\ Len(Climb(p, ns)) = Len(p) + 1
<1>1. /\ p \in Seq(S) /\ Len(p) >= 1 /\ p[1] = n /\ Len(p) \in Nat /\ DOMAIN p = 1..Len(p)
      /\ \A i, j \in DOMAIN p : p[i] = p[j] => i = j
      /\ \A i \in 1..(Len(p) - 1) : p[i + 1].id = p[i].parent
  BY DEF Climbs
<1>2. Parents(p, ns) = {m \in S : m.id = p[Len(p)].parent} \ Range(p)
  BY DEF Parents, Last
<1>3. CASE Parents(p, ns) = {}
  BY <1>2, <1>3 DEF Climb, AtTop
<1>4. CASE Parents(p, ns) # {}
  <2>1. PICK m : m = CHOOSE x \in Parents(p, ns) : TRUE
    OBVIOUS
  <2>2. m \in Parents(p, ns)
    BY <1>4, <2>1
  <2>3. m \in S /\ m.id = p[Len(p)].parent /\ m \notin Range(p)
    BY <1>2, <2>2
  <2>4. PICK q : q = Append(p, m)
    OBVIOUS
  <2>5. q = Climb(p, ns)
    BY <1>4, <2>1, <2>4 DEF Climb
  <2>6. /\ q \in Seq(S) /\ Len(q) = Len(p) + 1 /\ q[Len(p) + 1] = m /\ DOMAIN q = 1..(Len(p) + 1)
        /\ \A i \in 1..Len(p) : q[i] = p[i]
    BY <1>1, <2>3, <2>4
  <2>7. ASSUME NEW i \in DOMAIN q, NEW j \in DOMAIN q, q[i] = q[j] PROVE i = j
    <3>1. \A k \in DOMAIN q : k = Len(p) + 1 \/ k \in DOMAIN p
      BY <1>1, <2>6
    <3>2. \A k \in DOMAIN p : q[k] # m
      BY <1>1, <2>3, <2>6 DEF Range
    <3> QED BY <1>1, <2>6, <2>7, <3>1, <3>2
  <2>8. ASSUME NEW i \in 1..(Len(q) - 1) PROVE q[i + 1].id = q[i].parent
    <3>1. CASE i = Len(p)
      BY <1>1, <2>3, <2>6, <3>1
    <3>2. CASE i # Len(p)
      <4>a. Len(q) - 1 = Len(p) /\ Len(p) \in Nat
        BY <1>1, <2>6
      <4>1. i \in 1..(Len(p) - 1) /\ i \in 1..Len(p) /\ i + 1 \in 1..Len(p)
        BY ONLY <4>a, <3>2, i \in 1..(Len(q) - 1)
      <4>2. q[i] = p[i] /\ q[i + 1] = p[i + 1]
        BY ONLY <2>6, <4>1
      <4> QED BY <1>1, <4>1, <4>2
    <3> QED BY <3>1, <3>2
  <2>9. q[1] = n /\ Len(q) >= 1
    BY <1>1, <2>6
  <2>10. Climbs(q, n, S)
    BY <2>6, <2>7, <2>8, <2>9 DEF Climbs
  <2> QED BY <2>5, <2>6, <2>10
<1> QED BY <1>3, <1>4

(* A climb that has passed as many nodes as there are is at the top.       *)
LEMMA ClimbsEnd ==
  ASSUME NEW S, IsFiniteSet(S), NEW n, NEW p, Climbs(p, n, S), Len(p) >= Cardinality(S)
  PROVE  AtTop(p, S)
<1>1. /\ p \in Seq(S) /\ Len(p) \in Nat /\ DOMAIN p = 1..Len(p)
      /\ \A i, j \in DOMAIN p : p[i] = p[j] => i = j
  BY DEF Climbs
<1> DEFINE D == 1..Len(p)
<1>2. p \in Injection(D, Range(p)) /\ p \in Surjection(D, Range(p))
  BY <1>1 DEF Injection, Surjection, IsInjective, Range
<1>3. IsFiniteSet(D) /\ Cardinality(D) = Len(p)
  <2>1. /\ IsFiniteSet(1..Len(p))
        /\ Cardinality(1..Len(p)) = IF 1 > Len(p) THEN 0 ELSE Len(p) - 1 + 1
    BY <1>1, FS_Interval
  <2> QED BY <2>1, <1>1
<1>4. Cardinality(Range(p)) = Len(p)
  <2> HIDE DEF D
  <2>1. ExistsBijection(D, Range(p))
    BY <1>2 DEF ExistsBijection, Bijection
  <2> QED BY <1>3, <2>1, FS_Bijection
<1>5. Range(p) \subseteq S
  BY <1>1 DEF Range
<1>6. Range(p) = S
  BY <1>1, <1>4, <1>5, FS_Subset, FS_CardinalityType
<1> QED BY <1>6 DEF AtTop

LEMMA ChainClimbs ==
  ASSUME NEW S, IsFiniteSet(S), NEW ns \in Seq(S), Range(ns) = S, Len(ns) = Cardinality(S),
         NEW n \in S
  PROVE  Climbs(Chain(n, ns), n, S) /\ AtTop(Chain(n, ns), S)
<1>1. Len(ns) \in Nat \ {0}
  <2>1. Len(ns) \in Nat /\ S # {}
    OBVIOUS
  <2> QED BY <2>1, FS_EmptySet
<1>2. PICK f : /\ Chain(n, ns) = f[Len(ns)]
               /\ f[1] = <<n>>
               /\ \A k \in 2..Len(ns) : f[k] = Climb(f[k - 1], ns)
  BY <1>1, ChainRecursion
<1> DEFINE Fine(k) == Climbs(f[k], n, S) /\ (AtTop(f[k], S) \/ Len(f[k]) >= k)
           T == {k \in Nat : k + 1 <= Len(ns) => Fine(k + 1)}
<1>3. 0 \in T
  <2>1. Climbs(<<n>>, n, S) /\ Len(<<n>>) = 1
    BY DEF Climbs
  <2>2. Climbs(f[1], n, S) /\ Len(f[1]) >= 1
    BY <1>2, <2>1
  <2>3. Fine(0 + 1)
    BY <2>2
  <2> HIDE DEF Fine
  <2> QED BY <2>3
<1>4. ASSUME NEW k \in T PROVE k + 1 \in T
  <2>1. k \in Nat /\ k + 1 \in Nat /\ (k + 1) + 1 = k + 2
    OBVIOUS
  <2>2. SUFFICES ASSUME k + 2 <= Len(ns) PROVE Fine(k + 2)
    BY <2>1
  <2>3. k + 1 <= Len(ns) /\ k + 2 \in 2..Len(ns) /\ (k + 2) - 1 = k + 1
    BY <1>1, <2>1, <2>2
  <2>4. Fine(k + 1)
    BY <2>3
  <2>5. f[k + 2] = Climb(f[k + 1], ns)
    BY <1>2, <2>3
  <2>6. \/ f[k + 2] = f[k + 1] /\ AtTop(f[k + 1], S)
        \/ Climbs(f[k + 2], n, S) /\ Len(f[k + 2]) = Len(f[k + 1]) + 1
    BY <2>4, <2>5, ClimbIs
  <2>7. CASE f[k + 2] = f[k + 1] /\ AtTop(f[k + 1], S)
    BY <2>4, <2>7
  <2>8. CASE ~ AtTop(f[k + 1], S) /\ Climbs(f[k + 2], n, S) /\ Len(f[k + 2]) = Len(f[k + 1]) + 1
    <3>1. Len(f[k + 1]) >= k + 1 /\ Len(f[k + 1]) \in Nat
      BY <2>4, <2>8 DEF Climbs
    <3>2. Len(f[k + 2]) >= k + 2
      BY <2>1, <2>8, <3>1
    <3> QED BY <2>8, <3>2
  <2>9. CASE AtTop(f[k + 1], S)
    <3>1. f[k + 2] = f[k + 1]
      <4>1. Parents(f[k + 1], ns) = {}
        BY <2>9 DEF Parents, AtTop, Last
      <4> QED BY <2>5, <4>1 DEF Climb
    <3> QED BY <2>4, <2>9, <3>1
  <2> QED BY <2>6, <2>7, <2>8, <2>9
<1>5. T = Nat
  <2>1. T \in SUBSET Nat
    OBVIOUS
  <2> HIDE DEF T
  <2> QED BY <1>3, <1>4, <2>1, SetInduction
<1>6. Fine(Len(ns))
  <2>1. Len(ns) - 1 \in T /\ (Len(ns) - 1) + 1 = Len(ns)
    <3> HIDE DEF T
    <3> QED BY <1>1, <1>5
  <2> QED BY <1>1, <2>1
<1>7. Len(f[Len(ns)]) >= Len(ns) => AtTop(f[Len(ns)], S)
  BY <1>6, ClimbsEnd
<1> QED BY <1>2, <1>6, <1>7

(* There is one way up.                                                    *)
LEMMA OneClimb ==
  ASSUME NEW S, UniqueIds(S), NEW n, NEW p, Climbs(p, n, S), AtTop(p, S),
         NEW q, Climbs(q, n, S), AtTop(q, S)
  PROVE  p = q
<1>1. /\ p \in Seq(S) /\ Len(p) \in Nat /\ DOMAIN p = 1..Len(p) /\ Len(p) >= 1 /\ p[1] = n
      /\ \A i, j \in DOMAIN p : p[i] = p[j] => i = j
      /\ \A i \in 1..(Len(p) - 1) : p[i + 1].id = p[i].parent
  BY DEF Climbs
<1>2. /\ q \in Seq(S) /\ Len(q) \in Nat /\ DOMAIN q = 1..Len(q) /\ Len(q) >= 1 /\ q[1] = n
      /\ \A i, j \in DOMAIN q : q[i] = q[j] => i = j
      /\ \A i \in 1..(Len(q) - 1) : q[i + 1].id = q[i].parent
  BY DEF Climbs
<1> DEFINE Both(k) == k <= Len(p) /\ k <= Len(q)
           T == {k \in Nat : Both(k + 1) => p[k + 1] = q[k + 1]}
<1>3. 0 \in T
  BY <1>1, <1>2
<1>4. ASSUME NEW k \in T PROVE k + 1 \in T
  <2>1. k \in Nat /\ k + 1 \in Nat /\ (k + 1) + 1 = k + 2
    OBVIOUS
  <2>2. SUFFICES ASSUME Both(k + 2) PROVE p[k + 2] = q[k + 2]
    BY <2>1
  <2>3. /\ Both(k + 1) /\ k + 1 \in 1..(Len(p) - 1) /\ k + 1 \in 1..(Len(q) - 1)
        /\ k + 2 \in 1..Len(p) /\ k + 2 \in 1..Len(q)
    BY <1>1, <1>2, <2>1, <2>2
  <2>4. p[k + 1] = q[k + 1]
    BY <2>3
  <2>5. p[(k + 1) + 1].id = q[(k + 1) + 1].id
    BY <1>1, <1>2, <2>3, <2>4
  <2>6. p[k + 2] \in S /\ q[k + 2] \in S
    BY <1>1, <1>2, <2>3
  <2> QED BY <2>1, <2>5, <2>6 DEF UniqueIds
<1>5. T = Nat
  <2>1. T \in SUBSET Nat
    OBVIOUS
  <2> HIDE DEF T
  <2> QED BY <1>3, <1>4, <2>1, SetInduction
<1>6. ASSUME NEW k \in Nat, k >= 1, k <= Len(p), k <= Len(q) PROVE p[k] = q[k]
  <2>1. k - 1 \in T /\ (k - 1) + 1 = k
    <3> HIDE DEF T
    <3> QED BY <1>5, <1>6
  <2> QED BY <1>6, <2>1
<1>7. ASSUME Len(p) < Len(q) PROVE FALSE
  <2>1. /\ Len(p) \in 1..Len(q) /\ Len(p) + 1 \in 1..Len(q) /\ Len(p) \in 1..(Len(q) - 1)
    BY <1>1, <1>2, <1>7
  <2>2. q[Len(p) + 1] \in S /\ q[Len(p) + 1].id = q[Len(p)].parent /\ q[Len(p)] = p[Len(p)]
    BY <1>1, <1>2, <1>6, <1>7, <2>1
  <2>3. PICK i \in 1..Len(p) : q[Len(p) + 1] = p[i]
    BY <1>1, <2>2 DEF AtTop, Range
  <2>4. p[i] = q[i] /\ i \in 1..Len(q)
    BY <1>1, <1>2, <1>6, <1>7, <2>3
  <2>5. Len(p) + 1 = i
    BY <1>2, <2>1, <2>3, <2>4
  <2> QED BY <1>1, <2>3, <2>5
<1>8. ASSUME Len(q) < Len(p) PROVE FALSE
  <2>1. /\ Len(q) \in 1..Len(p) /\ Len(q) + 1 \in 1..Len(p) /\ Len(q) \in 1..(Len(p) - 1)
    BY <1>1, <1>2, <1>8
  <2>2. p[Len(q) + 1] \in S /\ p[Len(q) + 1].id = p[Len(q)].parent /\ p[Len(q)] = q[Len(q)]
    BY <1>1, <1>2, <1>6, <1>8, <2>1
  <2>3. PICK i \in 1..Len(q) : p[Len(q) + 1] = q[i]
    BY <1>2, <2>2 DEF AtTop, Range
  <2>4. q[i] = p[i] /\ i \in 1..Len(p)
    BY <1>1, <1>2, <1>6, <1>8, <2>3
  <2>5. Len(q) + 1 = i
    BY <1>1, <2>1, <2>3, <2>4
  <2> QED BY <1>2, <2>3, <2>5
<1>9. Len(p) = Len(q)
  <2>1. Len(p) \in Nat /\ Len(q) \in Nat
    BY <1>1, <1>2
  <2> QED BY ONLY <2>1, <1>7, <1>8
<1>10. \A k \in 1..Len(p) : p[k] = q[k]
  BY <1>1, <1>6, <1>9
<1> QED BY <1>1, <1>2, <1>9, <1>10

-----------------------------------------------------------------------------
(* The order of the nodes is that of a document.                           *)

(* ns lists the nodes S, each once.                                        *)
ListsNodes(ns, S) ==
  /\ S \subseteq NodeRecords /\ IsFiniteSet(S) /\ UniqueIds(S)
  /\ ns \in Seq(S) /\ Range(ns) = S /\ Len(ns) = Cardinality(S)

Topped(p, S) == \A m \in S : m.id # p[Len(p)].parent

From(p, u) == {p[w] : w \in u..Len(p)}

(* In no circle, the nodes above one of the nodes above n are those of n   *)
(* from there on.                                                          *)
LEMMA ChainAbove ==
  ASSUME NEW ns, NEW S, ListsNodes(ns, S), NEW n, NEW p, Climbs(p, n, S), Topped(p, S),
         NEW u \in 1..Len(p)
  PROVE  Range(Chain(p[u], ns)) = From(p, u)
<1>1. /\ p \in Seq(S) /\ Len(p) \in Nat /\ DOMAIN p = 1..Len(p)
      /\ \A i, j \in DOMAIN p : p[i] = p[j] => i = j
      /\ \A i \in 1..(Len(p) - 1) : p[i + 1].id = p[i].parent
  BY DEF Climbs
<1>2. PICK l \in Nat : l = Len(p) - u + 1 /\ l >= 1
  <2>1. PICK k \in Nat : k = Len(p)
    BY <1>1
  <2>2. u \in 1..k
    BY <2>1
  <2>3. k - u + 1 \in Nat /\ k - u + 1 >= 1
    BY ONLY <2>2, k \in Nat
  <2> QED BY <2>1, <2>3
<1>3. PICK t : t = [i \in 1..l |-> p[u + i - 1]]
  OBVIOUS
<1>4. \A i \in 1..l : u + i - 1 \in 1..Len(p) /\ p[u + i - 1] \in S /\ t[i] = p[u + i - 1]
  BY <1>1, <1>2, <1>3
<1>5. t \in Seq(S) /\ Len(t) = l /\ DOMAIN t = 1..l
  <2>1. t \in [1..l -> S]
    BY <1>3, <1>4
  <2> QED BY <2>1
<1>6. t[1] = p[u] /\ t[l] = p[Len(p)]
  BY <1>1, <1>2, <1>4
<1>7. ASSUME NEW i \in DOMAIN t, NEW j \in DOMAIN t, t[i] = t[j] PROVE i = j
  <2>1. u + i - 1 = u + j - 1
    <3>1. PICK x \in 1..Len(p), y \in 1..Len(p) :
            x = u + i - 1 /\ t[i] = p[x] /\ y = u + j - 1 /\ t[j] = p[y]
      BY <1>4, <1>5
    <3>2. x = y
      BY <1>1, <1>7, <3>1
    <3> QED BY <3>1, <3>2
  <2> QED BY <1>5, <2>1
<1>8. ASSUME NEW i \in 1..(Len(t) - 1) PROVE t[i + 1].id = t[i].parent
  <2>1. i \in 1..l /\ i + 1 \in 1..l /\ u + (i + 1) - 1 = (u + i - 1) + 1
    BY <1>2, <1>5
  <2>2. u + i - 1 \in 1..(Len(p) - 1)
    BY <1>1, <1>2, <1>5
  <2>3. p[(u + i - 1) + 1].id = p[u + i - 1].parent
    BY <1>1, <2>2
  <2>4. t[i] = p[u + i - 1] /\ t[i + 1] = p[(u + i - 1) + 1]
    BY <1>4, <2>1
  <2> QED BY <2>3, <2>4
<1>9. Climbs(t, p[u], S)
  BY <1>2, <1>5, <1>6, <1>7, <1>8 DEF Climbs
<1>10. AtTop(t, S)
  BY <1>5, <1>6 DEF AtTop, Topped
<1>11. p[u] \in S
  BY <1>1
<1>12. Climbs(Chain(p[u], ns), p[u], S) /\ AtTop(Chain(p[u], ns), S)
  BY <1>11, ChainClimbs DEF ListsNodes
<1>13. Chain(p[u], ns) = t
  BY <1>9, <1>10, <1>12, OneClimb DEF ListsNodes
<1>14. Range(t) = {p[w] : w \in u..Len(p)}
  <2>1. ASSUME NEW i \in 1..l PROVE u + i - 1 \in u..Len(p)
    BY <1>1, <1>2
  <2>2. ASSUME NEW w \in u..Len(p) PROVE w - u + 1 \in 1..l /\ u + (w - u + 1) - 1 = w
    BY <1>1, <1>2
  <2>3. \A x \in Range(t) : \E w \in u..Len(p) : x = p[w]
    BY <1>4, <1>5, <2>1 DEF Range
  <2>4. ASSUME NEW w \in u..Len(p) PROVE p[w] \in Range(t)
    <3>1. t[w - u + 1] = p[w]
      BY <1>4, <2>2
    <3> QED BY <1>5, <2>2, <3>1 DEF Range
  <2> QED BY <2>3, <2>4
<1> QED BY <1>13, <1>14 DEF From

Sign(m) == <<m.ordinal, m.place, m.id>>

LEMMA SignIs ==
  ASSUME NEW m \in NodeRecords, NEW n \in NodeRecords
  PROVE  /\ Sign(m) \in Seq(Nat) /\ (Sign(m) = Sign(n) => m.id = n.id)
         /\ ~ IsBefore(Sign(m), Sign(m))
<1>1. /\ m.ordinal \in Nat /\ m.place \in Nat /\ m.id \in Nat
  BY DEF NodeRecords
<1>2. Sign(m) \in Seq(Nat)
  BY <1>1 DEF Sign
<1>3. Sign(m) = Sign(n) => m.id = n.id
  BY DEF Sign
<1>4. ~ IsBefore(Sign(m), Sign(m))
  <2>1. <<Sign(m), Sign(m)>> \notin Words
    BY <1>2, WordsOrdered DEF IsOrder
  <2> QED BY <1>2, <2>1 DEF Words
<1> QED BY <1>2, <1>3, <1>4

LEMMA NodeKeyIs ==
  ASSUME NEW ns, NEW S, ListsNodes(ns, S), NEW n \in S, NEW p, p = Chain(n, ns)
  PROVE  /\ Climbs(p, n, S) /\ AtTop(p, S)
         /\ NodeOrderKey(n, ns) \in Seq(Seq(Nat)) /\ Len(NodeOrderKey(n, ns)) = Len(p)
         /\ \A i \in 1..Len(p) : NodeOrderKey(n, ns)[i] = Sign(p[Len(p) - i + 1])
<1>1. Climbs(p, n, S) /\ AtTop(p, S)
  BY ChainClimbs DEF ListsNodes
<1>2. p \in Seq(S) /\ Len(p) \in Nat /\ DOMAIN p = 1..Len(p) /\ Len(p) >= 1
  BY <1>1 DEF Climbs
<1>3. PICK d : d = Reverse(p)
  OBVIOUS
<1>4. DOMAIN d = 1..Len(p) /\ \A i \in 1..Len(p) : d[i] = p[Len(p) - i + 1]
  BY <1>2, <1>3 DEF Reverse
<1>5. PICK key : key = NodeOrderKey(n, ns)
  OBVIOUS
<1>6. key = [i \in DOMAIN d |-> <<d[i].ordinal, d[i].place, d[i].id>>]
  BY <1>3, <1>5 DEF NodeOrderKey
<1>7. ASSUME NEW i \in 1..Len(p) PROVE key[i] = Sign(p[Len(p) - i + 1]) /\ key[i] \in Seq(Nat)
  <2>1. key[i] = <<d[i].ordinal, d[i].place, d[i].id>>
    BY <1>4, <1>6
  <2>2. key[i] = Sign(d[i])
    BY <2>1 DEF Sign
  <2>3. Len(p) - i + 1 \in 1..Len(p)
    BY <1>2
  <2>4. p[Len(p) - i + 1] \in NodeRecords
    BY <1>2, <2>3 DEF ListsNodes
  <2> QED BY <1>4, <2>2, <2>4, SignIs
<1>8. DOMAIN key = 1..Len(p) /\ key = [i \in 1..Len(p) |-> key[i]]
  BY <1>4, <1>6
<1>9. key \in [1..Len(p) -> Seq(Nat)]
  BY <1>7, <1>8
<1>10. key \in Seq(Seq(Nat)) /\ Len(key) = Len(p)
  BY <1>2, <1>9
<1> QED BY <1>1, <1>5, <1>7, <1>10

LEMMA NodeKeysDiffer ==
  ASSUME NEW ns, NEW S, ListsNodes(ns, S), NEW m \in S, NEW n \in S,
         NodeOrderKey(m, ns) = NodeOrderKey(n, ns)
  PROVE  m = n
<1>1. PICK p : p = Chain(m, ns)
  OBVIOUS
<1>2. PICK q : q = Chain(n, ns)
  OBVIOUS
<1>3. /\ Climbs(p, m, S) /\ Len(NodeOrderKey(m, ns)) = Len(p)
      /\ \A i \in 1..Len(p) : NodeOrderKey(m, ns)[i] = Sign(p[Len(p) - i + 1])
  BY <1>1, NodeKeyIs
<1>4. /\ Climbs(q, n, S) /\ Len(NodeOrderKey(n, ns)) = Len(q)
      /\ \A i \in 1..Len(q) : NodeOrderKey(n, ns)[i] = Sign(q[Len(q) - i + 1])
  BY <1>2, NodeKeyIs
<1>5. Len(p) = Len(q) /\ Len(p) \in Nat /\ Len(p) >= 1 /\ p[1] = m /\ q[1] = n
  BY <1>3, <1>4 DEF Climbs
<1>6. Len(p) \in 1..Len(p) /\ Len(p) - Len(p) + 1 = 1
  BY <1>5
<1>7. Sign(m) = Sign(n)
  BY <1>3, <1>4, <1>5, <1>6
<1>8. m \in NodeRecords /\ n \in NodeRecords
  BY DEF ListsNodes
<1>9. m.id = n.id
  BY <1>7, <1>8, SignIs
<1> QED BY <1>9 DEF ListsNodes, UniqueIds

Past(q, v) == {q[w] : w \in (v + 1)..Len(q)}

(* From u and v on, the lines p and q are one.                             *)
Joins(p, u, q, v) ==
  /\ u \in 1..Len(p) /\ v \in 1..Len(q) /\ Len(p) - u = Len(q) - v
  /\ \A i \in 1..(Len(p) - u) : p[u + i] = q[v + i]

(* A node that is not above the other parts from its line at b, and what   *)
(* is above a and b is the same.                                           *)
LEMMA LinesPart ==
  ASSUME NEW ns, NEW S, ListsNodes(ns, S),
         NEW m, NEW p, Climbs(p, m, S), Topped(p, S),
         NEW n, NEW q, Climbs(q, n, S), Topped(q, S),
         NEW u, NEW v, Joins(p, u, q, v), p[u] # q[v]
  PROVE  /\ p[u] \in Range(p) \ Range(q)
         /\ Range(Chain(p[u], ns)) \ {p[u]} = Past(q, v)
<1>1. /\ p \in Seq(S) /\ Len(p) \in Nat /\ DOMAIN p = 1..Len(p)
      /\ \A i, j \in DOMAIN p : p[i] = p[j] => i = j
  BY DEF Climbs
<1>2. /\ q \in Seq(S) /\ Len(q) \in Nat /\ DOMAIN q = 1..Len(q)
      /\ \A i, j \in DOMAIN q : q[i] = q[j] => i = j
  BY DEF Climbs
<1>0. /\ u \in 1..Len(p) /\ v \in 1..Len(q) /\ Len(p) - u = Len(q) - v
      /\ \A i \in 1..(Len(p) - u) : p[u + i] = q[v + i]
  BY DEF Joins
<1>3. Range(Chain(p[u], ns)) = {p[w] : w \in u..Len(p)}
  <2>1. u \in 1..Len(p)
    BY <1>0
  <2>2. Range(Chain(p[u], ns)) = From(p, u)
    BY <2>1, ChainAbove
  <2> QED BY ONLY <2>2 DEF From
<1>4. ASSUME NEW w \in (u + 1)..Len(p)
      PROVE  /\ w - u + v \in (v + 1)..Len(q) /\ p[w] = q[w - u + v] /\ p[w] # p[u]
  <2>1. w - u \in 1..(Len(p) - u) /\ u + (w - u) = w /\ v + (w - u) = w - u + v
    BY <1>0, <1>1, <1>2
  <2>2. w - u + v \in (v + 1)..Len(q)
    BY <1>0, <1>1, <1>2
  <2>3. p[w] = q[w - u + v]
    BY <1>0, <2>1
  <2>4. w \in 1..Len(p) /\ u \in 1..Len(p) /\ w # u
    BY <1>0, <1>1
  <2> QED BY <1>1, <2>2, <2>3, <2>4
<1>5. ASSUME NEW w \in (v + 1)..Len(q)
      PROVE  w - v + u \in (u + 1)..Len(p) /\ q[w] = p[w - v + u]
  <2>1. w - v + u \in (u + 1)..Len(p) /\ (w - v + u) - u + v = w
    BY <1>0, <1>1, <1>2
  <2> QED BY <1>4, <2>1
<1>6. Range(Chain(p[u], ns)) \ {p[u]} = {q[w] : w \in (v + 1)..Len(q)}
  <2>1. ASSUME NEW x \in Range(Chain(p[u], ns)), x # p[u] PROVE \E w \in (v + 1)..Len(q) : x = q[w]
    <3>1. PICK w \in u..Len(p) : x = p[w]
      BY <1>3
    <3>2. w # u
      BY <2>1, <3>1
    <3>3. w \in (u + 1)..Len(p)
      BY <1>0, <1>1, <3>2
    <3> QED BY <1>4, <3>1, <3>3
  <2>2. ASSUME NEW w \in (v + 1)..Len(q) PROVE q[w] \in Range(Chain(p[u], ns)) /\ q[w] # p[u]
    <3>1. w - v + u \in (u + 1)..Len(p) /\ q[w] = p[w - v + u]
      BY <1>5
    <3>2. w - v + u \in u..Len(p)
      BY <1>0, <1>1, <3>1
    <3> QED BY <1>3, <1>4, <3>1, <3>2
  <2> QED BY <2>1, <2>2
<1>7. ASSUME NEW w \in 1..Len(q), p[u] = q[w] PROVE FALSE
  <2>1. w # v
    BY <1>7
  <2>2. ASSUME v < w PROVE FALSE
    <3>1. w \in (v + 1)..Len(q)
      BY <1>0, <1>2, <2>2
    <3>2. p[u] = p[w - v + u] /\ w - v + u \in (u + 1)..Len(p)
      BY <1>5, <1>7, <3>1
    <3> QED BY <1>4, <3>2
  <2>3. ASSUME w < v PROVE FALSE
    <3>1. Range(Chain(q[w], ns)) = {q[x] : x \in w..Len(q)}
      <4>1. w \in 1..Len(q)
        OBVIOUS
      <4>2. Range(Chain(q[w], ns)) = From(q, w)
        BY <4>1, ChainAbove
      <4> QED BY ONLY <4>2 DEF From
    <3>2. v \in w..Len(q)
      BY <1>0, <1>2, <2>3
    <3>3. q[v] \in Range(Chain(p[u], ns))
      BY <1>7, <3>1, <3>2
    <3>4. PICK x \in u..Len(p) : q[v] = p[x]
      BY <1>3, <3>3
    <3>5. x # u
      BY <3>4
    <3>6. x \in (u + 1)..Len(p)
      BY <1>0, <1>1, <3>5
    <3>7. q[v] = q[x - u + v] /\ x - u + v \in (v + 1)..Len(q)
      BY <1>4, <3>4, <3>6
    <3>8. x - u + v \in 1..Len(q) /\ x - u + v # v
      BY <1>0, <1>2, <3>7
    <3> QED BY <1>0, <1>2, <3>7, <3>8
  <2> QED BY <1>0, <1>2, <2>1, <2>2, <2>3
<1>8. p[u] \in Range(p) /\ p[u] \notin Range(q)
  BY <1>0, <1>1, <1>2, <1>7 DEF Range
<1> QED BY <1>6, <1>8 DEF Past

(* The way the keys of nodes compare.                                      *)
LEMMA KeysPart ==
  ASSUME NEW ns, NEW S, ListsNodes(ns, S), NEW m \in S, NEW n \in S,
         KeyIsBefore(NodeOrderKey(m, ns), NodeOrderKey(n, ns)),
         Topped(Chain(m, ns), S), Topped(Chain(n, ns), S),
         m \notin Range(Chain(n, ns))
  PROVE  \E a \in Range(Chain(m, ns)) \ Range(Chain(n, ns)),
            b \in Range(Chain(n, ns)) \ Range(Chain(m, ns)) :
           /\ Range(Chain(a, ns)) \ {a} = Range(Chain(b, ns)) \ {b}
           /\ IsBefore(Sign(a), Sign(b))
<1>1. PICK p : p = Chain(m, ns)
  OBVIOUS
<1>2. PICK q : q = Chain(n, ns)
  OBVIOUS
<1>3. /\ Climbs(p, m, S) /\ Len(NodeOrderKey(m, ns)) = Len(p)
      /\ \A i \in 1..Len(p) : NodeOrderKey(m, ns)[i] = Sign(p[Len(p) - i + 1])
  BY <1>1, NodeKeyIs
<1>4. /\ Climbs(q, n, S) /\ Len(NodeOrderKey(n, ns)) = Len(q)
      /\ \A i \in 1..Len(q) : NodeOrderKey(n, ns)[i] = Sign(q[Len(q) - i + 1])
  BY <1>2, NodeKeyIs
<1>5. PICK x \in Nat, y \in Nat : x = Len(p) /\ y = Len(q)
  BY <1>3, <1>4 DEF Climbs
<1>6. /\ p \in Seq(S) /\ DOMAIN p = 1..x /\ p[1] = m /\ x >= 1
      /\ q \in Seq(S) /\ DOMAIN q = 1..y /\ q[1] = n /\ y >= 1
  BY <1>3, <1>4, <1>5 DEF Climbs
<1>7. PICK k \in 1..(x + 1) :
        /\ k <= y /\ \A i \in 1..(k - 1) : NodeOrderKey(m, ns)[i] = NodeOrderKey(n, ns)[i]
        /\ k = x + 1 \/ IsBefore(NodeOrderKey(m, ns)[k], NodeOrderKey(n, ns)[k])
  BY <1>3, <1>4, <1>5 DEF KeyIsBefore
<1>8. ASSUME NEW i \in 1..(k - 1) PROVE p[x - i + 1] = q[y - i + 1]
  <2>1. i \in 1..x /\ i \in 1..y /\ x - i + 1 \in 1..x /\ y - i + 1 \in 1..y
    BY <1>7
  <2>2. Sign(p[x - i + 1]) = Sign(q[y - i + 1])
    BY <1>3, <1>4, <1>5, <1>7, <2>1
  <2>3. p[x - i + 1] \in S /\ q[y - i + 1] \in S
    BY <1>6, <2>1
  <2>4. p[x - i + 1].id = q[y - i + 1].id
    BY <2>2, <2>3, SignIs DEF ListsNodes
  <2> QED BY <2>3, <2>4 DEF ListsNodes, UniqueIds
<1>9. k # x + 1
  <2> SUFFICES ASSUME k = x + 1 PROVE FALSE
    OBVIOUS
  <2>1. x \in 1..(k - 1) /\ x - x + 1 = 1 /\ y - x + 1 \in 1..y
    BY <1>6, <1>7
  <2>2. m = q[y - x + 1]
    BY <1>6, <1>8, <2>1
  <2> QED BY <1>2, <1>6, <2>1, <2>2 DEF Range
<1>10. PICK u \in Nat, v \in Nat : u = x - k + 1 /\ v = y - k + 1
  BY <1>7
<1>11. /\ u \in 1..x /\ v \in 1..y /\ x - u = y - v /\ k \in 1..x /\ k \in 1..y
  BY <1>7, <1>9, <1>10
<1>12. IsBefore(Sign(p[u]), Sign(q[v]))
  <2>1. NodeOrderKey(m, ns)[k] = Sign(p[u])
    BY <1>3, <1>5, <1>10, <1>11
  <2>2. NodeOrderKey(n, ns)[k] = Sign(q[v])
    BY <1>4, <1>5, <1>10, <1>11
  <2> QED BY <1>7, <1>9, <2>1, <2>2
<1>13. p[u] \in NodeRecords /\ q[v] \in NodeRecords
  BY <1>6, <1>11 DEF ListsNodes
<1>14. p[u] # q[v]
  BY <1>12, <1>13, SignIs
<1>15. ASSUME NEW i \in 1..(x - u) PROVE p[u + i] = q[v + i]
  <2>1. PICK j \in 1..(k - 1) : j = k - i
    BY <1>10, <1>11
  <2>2. x - j + 1 = u + i /\ y - j + 1 = v + i
    BY <1>10, <2>1
  <2>3. p[x - j + 1] = q[y - j + 1]
    BY <1>8
  <2> QED BY ONLY <2>2, <2>3
<1>16. Topped(p, S) /\ Topped(q, S)
  BY <1>1, <1>2
<1>0. ListsNodes(ns, S)
  OBVIOUS
<1>17. p[u] \in Range(p) \ Range(q) /\ Range(Chain(p[u], ns)) \ {p[u]} = Past(q, v)
  <2>1. Joins(p, u, q, v)
    BY ONLY <1>5, <1>11, <1>15 DEF Joins
  <2> QED BY ONLY <1>0, <1>3, <1>4, <1>14, <1>16, <2>1, LinesPart, SMTT(20)
<1>18. q[v] \in Range(q) \ Range(p) /\ Range(Chain(q[v], ns)) \ {q[v]} = Past(p, u)
  <2>1. Joins(q, v, p, u)
    BY ONLY <1>5, <1>11, <1>15 DEF Joins
  <2>2. Climbs(q, n, S) /\ Topped(q, S) /\ Climbs(p, m, S) /\ Topped(p, S) /\ q[v] # p[u]
    BY ONLY <1>3, <1>4, <1>14, <1>16
  <2> QED BY ONLY <1>0, <2>1, <2>2, LinesPart
<1>19. Range(Chain(p[u], ns)) \ {p[u]} = Range(Chain(q[v], ns)) \ {q[v]}
  <2>1. ASSUME NEW w \in (v + 1)..y PROVE w - v + u \in (u + 1)..x /\ q[w] = p[w - v + u]
    <3>1. w - v \in 1..(x - u) /\ u + (w - v) = w - v + u /\ v + (w - v) = w
      BY <1>11
    <3> QED BY <1>11, <1>15, <3>1
  <2>2. ASSUME NEW w \in (u + 1)..x PROVE w - u + v \in (v + 1)..y /\ p[w] = q[w - u + v]
    <3>1. w - u \in 1..(x - u) /\ v + (w - u) = w - u + v /\ u + (w - u) = w
      BY <1>11
    <3> QED BY <1>11, <1>15, <3>1
  <2>3. Past(q, v) = Past(p, u)
    <3>1. Past(q, v) = {q[w] : w \in (v + 1)..y} /\ Past(p, u) = {p[w] : w \in (u + 1)..x}
      BY <1>5 DEF Past
    <3>2. \A w \in (v + 1)..y : \E z \in (u + 1)..x : q[w] = p[z]
      BY <2>1
    <3>3. \A w \in (u + 1)..x : \E z \in (v + 1)..y : p[w] = q[z]
      BY <2>2
    <3> QED BY ONLY <3>1, <3>2, <3>3
  <2> QED BY ONLY <1>17, <1>18, <2>3
<1> QED BY <1>1, <1>2, <1>12, <1>17, <1>18, <1>19

-----------------------------------------------------------------------------
(* Sorted by keys that differ, a list is in the order of its keys.         *)
LEMMA KeyedOrder ==
  ASSUME NEW n \in Nat, NEW X, NEW L, IsOrder(L, X), NEW key, NEW before,
         \A i \in 1..n : key[i] \in X,
         \A i, j \in 1..n : key[i] = key[j] => i = j,
         \A i, j \in 1..n : <<i, j>> \in before <=> <<key[i], key[j]>> \in L
  PROVE  /\ IsOrder(Stably(n, before), 1..n)
         /\ \A i, j \in 1..n : <<i, j>> \in Stably(n, before) <=> <<key[i], key[j]>> \in L
<1>1. ASSUME NEW i \in 1..n, NEW j \in 1..n
      PROVE  <<i, j>> \in Stably(n, before) <=> <<key[i], key[j]>> \in L
  <2>1. <<i, j>> \in Stably(n, before) <=>
          (<<i, j>> \in before \/ (i < j /\ <<j, i>> \notin before))
    BY DEF Stably
  <2>2. CASE i = j
    BY <2>1, <2>2
  <2>3. CASE i # j
    <3>1. key[i] # key[j] /\ key[i] \in X /\ key[j] \in X
      BY <2>3
    <3>2. (<<key[i], key[j]>> \in L) <=> ~ (<<key[j], key[i]>> \in L)
      BY <3>1 DEF IsOrder
    <3> QED BY <2>1, <3>2
  <2> QED BY <2>2, <2>3
<1>2. IsOrder(Stably(n, before), 1..n)
  <2>1. \A i \in 1..n : <<i, i>> \notin Stably(n, before)
    BY <1>1 DEF IsOrder
  <2>2. ASSUME NEW i \in 1..n, NEW j \in 1..n, NEW k \in 1..n,
               <<i, j>> \in Stably(n, before), <<j, k>> \in Stably(n, before)
        PROVE  <<i, k>> \in Stably(n, before)
    <3>1. <<key[i], key[j]>> \in L /\ <<key[j], key[k]>> \in L
      BY <1>1, <2>2
    <3>2. <<key[i], key[k]>> \in L
      BY <3>1 DEF IsOrder
    <3> QED BY <1>1, <3>2
  <2>3. ASSUME NEW i \in 1..n, NEW j \in 1..n, i # j
        PROVE  <<i, j>> \in Stably(n, before) \/ <<j, i>> \in Stably(n, before)
    <3>1. key[i] # key[j]
      BY <2>3
    <3>2. <<key[i], key[j]>> \in L \/ <<key[j], key[i]>> \in L
      BY <3>1 DEF IsOrder
    <3> QED BY <1>1, <3>2
  <2> QED BY <2>1, <2>2, <2>3 DEF IsOrder
<1> QED BY <1>1, <1>2

(* A list of the things S, each once.                                      *)
ListsOnce(s, S) == s \in Seq(S) /\ Range(s) = S /\ IsFiniteSet(S) /\ Len(s) = Cardinality(S)

LEMMA ListedOnce ==
  ASSUME NEW S, NEW s, ListsOnce(s, S)
  PROVE  \A i, j \in 1..Len(s) : s[i] = s[j] => i = j
<1> DEFINE D == 1..Len(s)
<1>1. s \in Seq(S) /\ Len(s) \in Nat /\ DOMAIN s = D /\ Range(s) = S /\ IsFiniteSet(S)
      /\ Len(s) = Cardinality(S)
  BY DEF ListsOnce
<1>2. IsFiniteSet(D) /\ Cardinality(D) = Len(s)
  <2>1. PICK n \in Nat : n = Len(s)
    BY <1>1
  <2>2. /\ IsFiniteSet(1..n) /\ Cardinality(1..n) = IF 1 > n THEN 0 ELSE n - 1 + 1
    BY FS_Interval
  <2>3. IsFiniteSet(1..n) /\ Cardinality(1..n) = n
    BY ONLY <2>2, n \in Nat
  <2> QED BY <2>1, <2>3
<1>3. s \in Surjection(D, S)
  BY <1>1 DEF Surjection, Range
<1> HIDE DEF D
<1>4. s \in Injection(D, S)
  BY <1>1, <1>2, <1>3, FS_Surjection
<1>5. \A i, j \in D : s[i] = s[j] => i = j
  BY <1>4 DEF Injection, IsInjective
<1> QED BY <1>5 DEF D

LEMMA SortedByKey ==
  ASSUME NEW S, NEW s, ListsOnce(s, S), NEW X, NEW L, IsOrder(L, X), NEW key, NEW before,
         \A i \in 1..Len(s) : key[i] \in X,
         \A i, j \in 1..Len(s) : key[i] = key[j] => s[i] = s[j],
         \A i, j \in 1..Len(s) : <<i, j>> \in before <=> <<key[i], key[j]>> \in L
  PROVE  /\ ListsOnce(Sorted(s, before), S)
         /\ \E at : /\ Arranges(at, Len(s)) /\ Rearranged(Sorted(s, before), s, at)
                    /\ \A k, l \in 1..Len(s) : k < l => <<key[at[k]], key[at[l]]>> \in L
<1>1. PICK n \in Nat : n = Len(s)
  BY DEF ListsOnce
<1>2. \A i, j \in 1..n : key[i] = key[j] => i = j
  BY <1>1, ListedOnce
<1>3. /\ IsOrder(Stably(n, before), 1..n)
      /\ \A i, j \in 1..n : <<i, j>> \in Stably(n, before) <=> <<key[i], key[j]>> \in L
  <2>1. /\ \A i \in 1..n : key[i] \in X
        /\ \A i, j \in 1..n : <<i, j>> \in before <=> <<key[i], key[j]>> \in L
    BY <1>1
  <2> QED BY <1>2, <2>1, KeyedOrder
<1>4. s \in Seq(S)
  BY DEF ListsOnce
<1>5. PICK at : /\ Arranges(at, n) /\ Rearranged(Sorted(s, before), s, at)
                /\ \A k, l \in 1..n : k < l => <<at[k], at[l]>> \in Stably(n, before)
  BY <1>1, <1>3, <1>4, SortedIs
<1>6. PICK t : t = Sorted(s, before)
  OBVIOUS
<1>7. /\ t \in Seq(S) /\ Len(t) = Len(s) /\ Range(t) = Range(s)
  BY <1>1, <1>4, <1>5, <1>6, RearrangedIs
<1>8. ListsOnce(t, S)
  BY <1>7 DEF ListsOnce
<1>9. ASSUME NEW k \in 1..n, NEW l \in 1..n, k < l PROVE <<key[at[k]], key[at[l]]>> \in L
  <2>1. at[k] \in 1..n /\ at[l] \in 1..n /\ <<at[k], at[l]>> \in Stably(n, before)
    BY <1>5, <1>9 DEF Arranges
  <2> QED BY <1>3, <2>1
<1> QED BY <1>1, <1>5, <1>6, <1>8, <1>9

-----------------------------------------------------------------------------
(* Sorted nodes.                                                           *)

LEMMA OneChain ==
  ASSUME NEW S, NEW ns, ListsNodes(ns, S), NEW ms, ListsNodes(ms, S), NEW n \in S
  PROVE  Chain(n, ns) = Chain(n, ms) /\ NodeOrderKey(n, ns) = NodeOrderKey(n, ms)
<1>1. Climbs(Chain(n, ns), n, S) /\ AtTop(Chain(n, ns), S)
  BY ChainClimbs DEF ListsNodes
<1>2. Climbs(Chain(n, ms), n, S) /\ AtTop(Chain(n, ms), S)
  BY ChainClimbs DEF ListsNodes
<1>3. Chain(n, ns) = Chain(n, ms)
  BY <1>1, <1>2, OneClimb DEF ListsNodes
<1> QED BY <1>3 DEF NodeOrderKey

(* In the order of the keys.                                               *)
InKeyOrder(ns) ==
  \A k, l \in DOMAIN ns :
    k < l => KeyIsBefore(NodeOrderKey(ns[k], ns), NodeOrderKey(ns[l], ns))

LEMMA SortNodesIs ==
  ASSUME NEW S, NEW ns, ListsNodes(ns, S)
  PROVE  ListsNodes(SortNodes(ns), S) /\ InKeyOrder(SortNodes(ns))
<1>1. PICK n \in Nat : n = Len(ns) /\ DOMAIN ns = 1..n
  BY DEF ListsNodes
<1>2. PICK key : key = [i \in DOMAIN ns |-> NodeOrderKey(ns[i], ns)]
  OBVIOUS
<1>3. PICK before :
        before = {p \in (DOMAIN ns) \X (DOMAIN ns) : KeyIsBefore(key[p[1]], key[p[2]])}
  OBVIOUS
<1>4. SortNodes(ns) = Sorted(ns, before)
  BY <1>2, <1>3 DEF SortNodes
<1>5. ASSUME NEW i \in 1..n
      PROVE  /\ ns[i] \in S /\ key[i] = NodeOrderKey(ns[i], ns) /\ key[i] \in Seq(Seq(Nat))
  <2>1. ns[i] \in S
    BY <1>1 DEF ListsNodes
  <2> QED BY <1>1, <1>2, <2>1, NodeKeyIs
<1>6. ASSUME NEW i \in 1..n, NEW j \in 1..n, key[i] = key[j] PROVE ns[i] = ns[j]
  BY <1>5, <1>6, NodeKeysDiffer
<1>7. ASSUME NEW i \in 1..n, NEW j \in 1..n
      PROVE  <<i, j>> \in before <=> <<key[i], key[j]>> \in Keys
  <2>1. <<i, j>> \in before <=> KeyIsBefore(key[i], key[j])
    BY <1>1, <1>3
  <2>2. <<key[i], key[j]>> \in Keys <=> KeyIsBefore(key[i], key[j])
    BY <1>5 DEF Keys
  <2> QED BY <2>1, <2>2
<1>8. ListsOnce(ns, S)
  BY DEF ListsNodes, ListsOnce
<1>9. PICK t : t = Sorted(ns, before)
  OBVIOUS
<1>10. /\ ListsOnce(t, S)
       /\ \E at : /\ Arranges(at, n) /\ Rearranged(t, ns, at)
                  /\ \A k, l \in 1..n : k < l => <<key[at[k]], key[at[l]]>> \in Keys
  <2>1. /\ \A i \in 1..Len(ns) : key[i] \in Seq(Seq(Nat))
        /\ \A i, j \in 1..Len(ns) : key[i] = key[j] => ns[i] = ns[j]
        /\ \A i, j \in 1..Len(ns) : <<i, j>> \in before <=> <<key[i], key[j]>> \in Keys
    BY <1>1, <1>5, <1>6, <1>7
  <2>2. /\ ListsOnce(Sorted(ns, before), S)
        /\ \E at : /\ Arranges(at, Len(ns)) /\ Rearranged(Sorted(ns, before), ns, at)
                   /\ \A k, l \in 1..Len(ns) : k < l => <<key[at[k]], key[at[l]]>> \in Keys
    BY <1>8, <2>1, KeysOrdered, SortedByKey
  <2> QED BY <1>1, <1>9, <2>2
<1>11. ListsNodes(t, S)
  BY <1>10 DEF ListsNodes, ListsOnce
<1>12. PICK at : /\ Arranges(at, n) /\ Rearranged(t, ns, at)
                 /\ \A k, l \in 1..n : k < l => <<key[at[k]], key[at[l]]>> \in Keys
  BY <1>10
<1>13. /\ DOMAIN t = 1..n /\ \A k \in 1..n : at[k] \in 1..n /\ t[k] = ns[at[k]]
  BY <1>1, <1>8, <1>12, RearrangedIs DEF ListsOnce
<1>14. ASSUME NEW k \in 1..n, NEW l \in 1..n, k < l
       PROVE  KeyIsBefore(NodeOrderKey(t[k], t), NodeOrderKey(t[l], t))
  <2>1. <<key[at[k]], key[at[l]]>> \in Keys
    BY <1>12, <1>14
  <2>2. KeyIsBefore(key[at[k]], key[at[l]])
    BY <2>1 DEF Keys
  <2>3. /\ key[at[k]] = NodeOrderKey(t[k], ns) /\ key[at[l]] = NodeOrderKey(t[l], ns)
        /\ t[k] \in S /\ t[l] \in S
    BY <1>5, <1>13
  <2>4. NodeOrderKey(t[k], ns) = NodeOrderKey(t[k], t) /\ NodeOrderKey(t[l], ns) = NodeOrderKey(t[l], t)
    BY <1>11, <2>3, OneChain
  <2> QED BY <2>2, <2>3, <2>4
<1> QED BY <1>4, <1>9, <1>11, <1>13, <1>14 DEF InKeyOrder

LEMMA SortNodesOnce ==
  ASSUME NEW S, NEW ns, ListsNodes(ns, S), InKeyOrder(ns), NEW ms, ListsNodes(ms, S), InKeyOrder(ms)
  PROVE  ns = ms
<1> DEFINE L == {p \in S \X S : KeyIsBefore(NodeOrderKey(p[1], ns), NodeOrderKey(p[2], ns))}
<1>1. ASSUME NEW x \in S, NEW y \in S
      PROVE  <<x, y>> \in L <=> <<NodeOrderKey(x, ns), NodeOrderKey(y, ns)>> \in Keys
  <2>1. NodeOrderKey(x, ns) \in Seq(Seq(Nat)) /\ NodeOrderKey(y, ns) \in Seq(Seq(Nat))
    BY NodeKeyIs
  <2> QED BY <2>1 DEF Keys
<1>2. \A x \in S : <<x, x>> \notin L
  <2> SUFFICES ASSUME NEW x \in S PROVE <<x, x>> \notin L
    OBVIOUS
  <2>1. NodeOrderKey(x, ns) \in Seq(Seq(Nat))
    BY NodeKeyIs
  <2> HIDE DEF L
  <2> QED BY <1>1, <2>1, KeysOrdered DEF IsOrder
<1>3. \A x, y \in S : ~ (<<x, y>> \in L /\ <<y, x>> \in L)
  <2> SUFFICES ASSUME NEW x \in S, NEW y \in S, <<x, y>> \in L, <<y, x>> \in L PROVE FALSE
    OBVIOUS
  <2>1. NodeOrderKey(x, ns) \in Seq(Seq(Nat)) /\ NodeOrderKey(y, ns) \in Seq(Seq(Nat))
    BY NodeKeyIs
  <2> HIDE DEF L
  <2>2. /\ <<NodeOrderKey(x, ns), NodeOrderKey(y, ns)>> \in Keys
        /\ <<NodeOrderKey(y, ns), NodeOrderKey(x, ns)>> \in Keys
    BY <1>1
  <2> QED BY <2>1, <2>2, KeysOrdered DEF IsOrder
<1>4. /\ ns \in Seq(S) /\ ms \in Seq(S) /\ Len(ns) = Len(ms) /\ Range(ns) = Range(ms)
      /\ DOMAIN ns = 1..Len(ns) /\ DOMAIN ms = 1..Len(ms)
  BY DEF ListsNodes
<1>5. \A k, l \in DOMAIN ns : k < l => <<ns[k], ns[l]>> \in L
  BY <1>4 DEF InKeyOrder
<1>6. ASSUME NEW k \in DOMAIN ms, NEW l \in DOMAIN ms, k < l PROVE <<ms[k], ms[l]>> \in L
  <2>1. ms[k] \in S /\ ms[l] \in S
    BY <1>4
  <2>2. NodeOrderKey(ms[k], ns) = NodeOrderKey(ms[k], ms) /\ NodeOrderKey(ms[l], ns) = NodeOrderKey(ms[l], ms)
    BY <2>1, OneChain
  <2>3. KeyIsBefore(NodeOrderKey(ms[k], ms), NodeOrderKey(ms[l], ms))
    BY <1>6 DEF InKeyOrder
  <2> QED BY <2>1, <2>2, <2>3
<1> HIDE DEF L
<1> QED BY <1>2, <1>3, <1>4, <1>5, <1>6, OneArrangement


-----------------------------------------------------------------------------
(* Sorted edges.                                                           *)

LEMMA EdgeKeyIs ==
  ASSUME NEW X, NEW ns \in Seq(X), NEW e \in EdgeRecords, NEW f \in EdgeRecords
  PROVE  /\ EdgeOrderKey(e, ns) \in Seq(Nat)
         /\ EdgeOrderKey(e, ns) = EdgeOrderKey(f, ns) => e.id = f.id
<1>1. \A id \in Nat : Rank(id, ns) \in Nat
  <2> SUFFICES ASSUME NEW id \in Nat PROVE Rank(id, ns) \in Nat
    OBVIOUS
  <2>1. DOMAIN ns \subseteq Nat
    OBVIOUS
  <2>2. CASE \E i \in DOMAIN ns : ns[i].id = id
    <3>1. (CHOOSE i \in DOMAIN ns : ns[i].id = id) \in DOMAIN ns
      BY <2>2
    <3> QED BY <2>1, <2>2, <3>1 DEF Rank
  <2>3. CASE ~ \E i \in DOMAIN ns : ns[i].id = id
    BY <2>3 DEF Rank
  <2> QED BY <2>2, <2>3
<1>2. ASSUME NEW a \in EdgeRecords
      PROVE  \E h \in Seq(Nat), r \in Seq(Nat) :
               Len(h) = 6 /\ r = a.id /\ EdgeOrderKey(a, ns) = h \o r
  <2>1. /\ a.source \in Nat /\ a.target \in Nat /\ a.relation \in Nat /\ a.place \in Nat
        /\ a.detail \in Nat /\ a.id \in Seq(Nat)
    BY DEF EdgeRecords
  <2>2. Rank(a.source, ns) \in Nat /\ Rank(a.target, ns) \in Nat
    BY <1>1, <2>1
  <2>3. PICK h : h = <<Rank(a.source, ns), a.relation, Rank(a.target, ns), a.target, a.place, a.detail>>
    OBVIOUS
  <2>4. h \in Seq(Nat) /\ Len(h) = 6
    BY <2>1, <2>2, <2>3
  <2>5. EdgeOrderKey(a, ns) = h \o a.id
    BY <2>3 DEF EdgeOrderKey
  <2> QED BY <2>1, <2>4, <2>5
<1>3. PICK h \in Seq(Nat), r \in Seq(Nat) : Len(h) = 6 /\ r = e.id /\ EdgeOrderKey(e, ns) = h \o r
  BY <1>2
<1>4. PICK g \in Seq(Nat), q \in Seq(Nat) : Len(g) = 6 /\ q = f.id /\ EdgeOrderKey(f, ns) = g \o q
  BY <1>2
<1>5. PICK k : k = h \o r
  OBVIOUS
<1>6. k \in Seq(Nat) /\ Len(k) = 6 + Len(r)
      /\ \A i \in 1..(6 + Len(r)) : k[i] = IF i <= 6 THEN h[i] ELSE r[i - 6]
  <2>1. /\ h \o r \in Seq(Nat) /\ Len(h \o r) = Len(h) + Len(r)
        /\ \A i \in 1..(Len(h) + Len(r)) :
             (h \o r)[i] = IF i <= Len(h) THEN h[i] ELSE r[i - Len(h)]
    BY JoinIs
  <2>2. Len(h) = 6
    BY <1>3
  <2> QED BY ONLY <2>1, <2>2, <1>5
<1>7. PICK l : l = g \o q
  OBVIOUS
<1>8. l \in Seq(Nat) /\ Len(l) = 6 + Len(q)
      /\ \A i \in 1..(6 + Len(q)) : l[i] = IF i <= 6 THEN g[i] ELSE q[i - 6]
  <2>1. /\ g \o q \in Seq(Nat) /\ Len(g \o q) = Len(g) + Len(q)
        /\ \A i \in 1..(Len(g) + Len(q)) :
             (g \o q)[i] = IF i <= Len(g) THEN g[i] ELSE q[i - Len(g)]
    BY JoinIs
  <2>2. Len(g) = 6
    BY <1>4
  <2> QED BY ONLY <2>1, <2>2, <1>7
<1>9. ASSUME k = l PROVE r = q
  <2>1. PICK n \in Nat : n = Len(r)
    OBVIOUS
  <2>2. PICK m \in Nat : m = Len(q)
    OBVIOUS
  <2>3. n = m
    BY ONLY <1>6, <1>8, <1>9, <2>1, <2>2, n \in Nat, m \in Nat
  <2>4. ASSUME NEW i \in 1..n PROVE r[i] = q[i]
    <3>1. i + 6 \in 1..(6 + n) /\ ~(i + 6 <= 6) /\ (i + 6) - 6 = i
      BY ONLY n \in Nat, i \in 1..n
    <3>2. k[i + 6] = r[i]
      <4>1. k[i + 6] = IF i + 6 <= 6 THEN h[i + 6] ELSE r[(i + 6) - 6]
        BY ONLY <1>6, <2>1, <3>1
      <4> QED BY ONLY <4>1, <3>1
    <3>3. l[i + 6] = q[i]
      <4>1. l[i + 6] = IF i + 6 <= 6 THEN g[i + 6] ELSE q[(i + 6) - 6]
        BY ONLY <1>8, <2>2, <2>3, <3>1
      <4> QED BY ONLY <4>1, <3>1
    <3> QED BY <3>2, <3>3, <1>9
  <2>5. Len(r) = Len(q) /\ \A i \in 1..Len(r) : r[i] = q[i]
    BY ONLY <2>1, <2>2, <2>3, <2>4
  <2> QED BY <2>5, SeqEqual
<1> QED BY <1>3, <1>4, <1>5, <1>6, <1>7, <1>8, <1>9

(* Among nodes in this order.                                              *)
InEdgeOrder(es, ns) ==
  \A k, l \in DOMAIN es :
    k < l => IsBefore(EdgeOrderKey(es[k], ns), EdgeOrderKey(es[l], ns))

ListsEdges(es, S) == S \subseteq EdgeRecords /\ UniqueIds(S) /\ ListsOnce(es, S)

LEMMA SortEdgesIs ==
  ASSUME NEW X, NEW ns \in Seq(X), NEW S, NEW es, ListsEdges(es, S)
  PROVE  ListsEdges(SortEdges(es, ns), S) /\ InEdgeOrder(SortEdges(es, ns), ns)
<1>1. PICK n \in Nat : n = Len(es) /\ DOMAIN es = 1..n
  BY DEF ListsEdges, ListsOnce
<1>2. PICK key : key = [i \in DOMAIN es |-> EdgeOrderKey(es[i], ns)]
  OBVIOUS
<1>3. PICK before : before = {p \in (DOMAIN es) \X (DOMAIN es) : IsBefore(key[p[1]], key[p[2]])}
  OBVIOUS
<1>4. SortEdges(es, ns) = Sorted(es, before)
  BY <1>2, <1>3 DEF SortEdges
<1>5. ASSUME NEW i \in 1..n
      PROVE  /\ es[i] \in S /\ es[i] \in EdgeRecords
             /\ key[i] = EdgeOrderKey(es[i], ns) /\ key[i] \in Seq(Nat)
  <2>1. es[i] \in S /\ es[i] \in EdgeRecords
    BY <1>1 DEF ListsEdges, ListsOnce
  <2>2. key[i] = EdgeOrderKey(es[i], ns)
    BY <1>1, <1>2
  <2>3. EdgeOrderKey(es[i], ns) \in Seq(Nat)
    BY <2>1, EdgeKeyIs
  <2> QED BY <2>1, <2>2, <2>3
<1>6. ASSUME NEW i \in 1..n, NEW j \in 1..n, key[i] = key[j] PROVE es[i] = es[j]
  <2>1. es[i] \in EdgeRecords /\ es[j] \in EdgeRecords /\ es[i] \in S /\ es[j] \in S
        /\ EdgeOrderKey(es[i], ns) = EdgeOrderKey(es[j], ns)
    BY <1>5, <1>6
  <2>2. es[i].id = es[j].id
    BY <2>1, EdgeKeyIs
  <2> QED BY <2>1, <2>2 DEF ListsEdges, UniqueIds
<1>7. ASSUME NEW i \in 1..n, NEW j \in 1..n
      PROVE  <<i, j>> \in before <=> <<key[i], key[j]>> \in Words
  <2>1. <<i, j>> \in before <=> IsBefore(key[i], key[j])
    BY <1>1, <1>3
  <2>2. <<key[i], key[j]>> \in Words <=> IsBefore(key[i], key[j])
    BY <1>5 DEF Words
  <2> QED BY <2>1, <2>2
<1>8. ListsOnce(es, S)
  BY DEF ListsEdges
<1>9. PICK t : t = Sorted(es, before)
  OBVIOUS
<1>10. /\ ListsOnce(t, S)
       /\ \E at : /\ Arranges(at, n) /\ Rearranged(t, es, at)
                  /\ \A k, l \in 1..n : k < l => <<key[at[k]], key[at[l]]>> \in Words
  <2>1. /\ \A i \in 1..Len(es) : key[i] \in Seq(Nat)
        /\ \A i, j \in 1..Len(es) : key[i] = key[j] => es[i] = es[j]
        /\ \A i, j \in 1..Len(es) : <<i, j>> \in before <=> <<key[i], key[j]>> \in Words
    BY <1>1, <1>5, <1>6, <1>7
  <2>2. /\ ListsOnce(Sorted(es, before), S)
        /\ \E at : /\ Arranges(at, Len(es)) /\ Rearranged(Sorted(es, before), es, at)
                   /\ \A k, l \in 1..Len(es) : k < l => <<key[at[k]], key[at[l]]>> \in Words
    BY <1>8, <2>1, WordsOrdered, SortedByKey
  <2> QED BY <1>1, <1>9, <2>2
<1>11. ListsEdges(t, S)
  BY <1>10 DEF ListsEdges
<1>12. PICK at : /\ Arranges(at, n) /\ Rearranged(t, es, at)
                 /\ \A k, l \in 1..n : k < l => <<key[at[k]], key[at[l]]>> \in Words
  BY <1>10
<1>13. /\ DOMAIN t = 1..n /\ \A k \in 1..n : at[k] \in 1..n /\ t[k] = es[at[k]]
  BY <1>1, <1>8, <1>12, RearrangedIs DEF ListsOnce
<1>14. ASSUME NEW k \in 1..n, NEW l \in 1..n, k < l
       PROVE  IsBefore(EdgeOrderKey(t[k], ns), EdgeOrderKey(t[l], ns))
  <2>1. <<key[at[k]], key[at[l]]>> \in Words
    BY <1>12, <1>14
  <2>2. IsBefore(key[at[k]], key[at[l]])
    BY <2>1 DEF Words
  <2>3. /\ key[at[k]] = EdgeOrderKey(t[k], ns) /\ key[at[l]] = EdgeOrderKey(t[l], ns)
    BY <1>5, <1>13
  <2> QED BY <2>2, <2>3
<1> QED BY <1>4, <1>9, <1>11, <1>13, <1>14 DEF InEdgeOrder

LEMMA SortEdgesOnce ==
  ASSUME NEW X, NEW ns \in Seq(X), NEW S,
         NEW es, ListsEdges(es, S), InEdgeOrder(es, ns),
         NEW fs, ListsEdges(fs, S), InEdgeOrder(fs, ns)
  PROVE  es = fs
<1> DEFINE L == {p \in S \X S : IsBefore(EdgeOrderKey(p[1], ns), EdgeOrderKey(p[2], ns))}
<1>1. ASSUME NEW x \in S, NEW y \in S
      PROVE  /\ EdgeOrderKey(x, ns) \in Seq(Nat) /\ EdgeOrderKey(y, ns) \in Seq(Nat)
             /\ <<x, y>> \in L <=> <<EdgeOrderKey(x, ns), EdgeOrderKey(y, ns)>> \in Words
  <2>1. x \in EdgeRecords /\ y \in EdgeRecords
    BY DEF ListsEdges
  <2>2. EdgeOrderKey(x, ns) \in Seq(Nat) /\ EdgeOrderKey(y, ns) \in Seq(Nat)
    BY <2>1, EdgeKeyIs
  <2> QED BY <2>2 DEF Words
<1> HIDE DEF L
<1>2. \A x \in S : <<x, x>> \notin L
  BY <1>1, WordsOrdered DEF IsOrder
<1>3. \A x, y \in S : ~ (<<x, y>> \in L /\ <<y, x>> \in L)
  <2> SUFFICES ASSUME NEW x \in S, NEW y \in S, <<x, y>> \in L, <<y, x>> \in L PROVE FALSE
    OBVIOUS
  <2>1. /\ EdgeOrderKey(x, ns) \in Seq(Nat) /\ EdgeOrderKey(y, ns) \in Seq(Nat)
        /\ <<EdgeOrderKey(x, ns), EdgeOrderKey(y, ns)>> \in Words
        /\ <<EdgeOrderKey(y, ns), EdgeOrderKey(x, ns)>> \in Words
    BY <1>1
  <2> QED BY <2>1, WordsOrdered DEF IsOrder
<1>4. /\ es \in Seq(S) /\ fs \in Seq(S) /\ Len(es) = Len(fs) /\ Range(es) = Range(fs)
      /\ DOMAIN es = 1..Len(es) /\ DOMAIN fs = 1..Len(fs)
  BY DEF ListsEdges, ListsOnce
<1>5. \A k, l \in DOMAIN es : k < l => <<es[k], es[l]>> \in L
  <2> SUFFICES ASSUME NEW k \in DOMAIN es, NEW l \in DOMAIN es, k < l PROVE <<es[k], es[l]>> \in L
    OBVIOUS
  <2>1. es[k] \in S /\ es[l] \in S
    BY <1>4
  <2>2. IsBefore(EdgeOrderKey(es[k], ns), EdgeOrderKey(es[l], ns))
    BY DEF InEdgeOrder
  <2> QED BY <1>1, <2>1, <2>2 DEF Words
<1>6. \A k, l \in DOMAIN fs : k < l => <<fs[k], fs[l]>> \in L
  <2> SUFFICES ASSUME NEW k \in DOMAIN fs, NEW l \in DOMAIN fs, k < l PROVE <<fs[k], fs[l]>> \in L
    OBVIOUS
  <2>1. fs[k] \in S /\ fs[l] \in S
    BY <1>4
  <2>2. IsBefore(EdgeOrderKey(fs[k], ns), EdgeOrderKey(fs[l], ns))
    BY DEF InEdgeOrder
  <2> QED BY <1>1, <2>1, <2>2 DEF Words
<1> QED BY <1>2, <1>3, <1>4, <1>5, <1>6, OneArrangement

-----------------------------------------------------------------------------
(* What was handed over, block by block, and the graph it became.          *)

At(B, c) == B[c[1]][c[2]]

Cells(B) == {c \in Nat \X Nat : c[1] \in DOMAIN B /\ c[2] \in DOMAIN B[c[1]]}

(* Each of s comes, under R, from a cell of its own, and from C all come.  *)
Pairs(at, s, C, B, R) ==
  /\ at \in [1..Len(s) -> C]
  /\ \A c \in C : \E i \in 1..Len(s) : at[i] = c
  /\ \A i, j \in 1..Len(s) : at[i] = at[j] => i = j
  /\ \A i \in 1..Len(s) : <<At(B, at[i]), s[i]>> \in R

Matches(s, C, B, R) == \E at : Pairs(at, s, C, B, R)

LEMMA MatchesJoin ==
  ASSUME NEW X, NEW s \in Seq(X), NEW t \in Seq(X), NEW C, NEW D, NEW B, NEW R,
         Matches(s, C, B, R), Matches(t, D, B, R), \A c \in C : c \notin D
  PROVE  Matches(s \o t, C \cup D, B, R)
<1>1. PICK a : Pairs(a, s, C, B, R)
  BY DEF Matches
<1>2. PICK b : Pairs(b, t, D, B, R)
  BY DEF Matches
<1>3. PICK n \in Nat, m \in Nat : n = Len(s) /\ m = Len(t)
  OBVIOUS
<1>4. PICK u : u = s \o t
  OBVIOUS
<1>5. Len(u) = n + m /\ \A i \in 1..(n + m) : u[i] = IF i <= n THEN s[i] ELSE t[i - n]
  <2>1. /\ Len(s \o t) = Len(s) + Len(t)
        /\ \A i \in 1..(Len(s) + Len(t)) : (s \o t)[i] = IF i <= Len(s) THEN s[i] ELSE t[i - Len(s)]
    BY JoinIs
  <2> QED BY ONLY <2>1, <1>3, <1>4
<1>6. /\ \A i \in 1..n : a[i] \in C /\ <<At(B, a[i]), s[i]>> \in R
      /\ \A c \in C : \E i \in 1..n : a[i] = c
      /\ \A i, j \in 1..n : a[i] = a[j] => i = j
  BY <1>1, <1>3 DEF Pairs
<1>7. /\ \A i \in 1..m : b[i] \in D /\ <<At(B, b[i]), t[i]>> \in R
      /\ \A c \in D : \E i \in 1..m : b[i] = c
      /\ \A i, j \in 1..m : b[i] = b[j] => i = j
  BY <1>2, <1>3 DEF Pairs
<1>8. PICK h : h = [i \in 1..(n + m) |-> IF i <= n THEN a[i] ELSE b[i - n]]
  OBVIOUS
<1>9. ASSUME NEW i \in 1..n
      PROVE  i \in 1..(n + m) /\ h[i] = a[i] /\ u[i] = s[i]
  <2>1. i \in 1..(n + m) /\ i <= n
    BY ONLY n \in Nat, m \in Nat, i \in 1..n
  <2> QED BY ONLY <2>1, <1>5, <1>8
<1>10. ASSUME NEW i \in 1..m
       PROVE  i + n \in 1..(n + m) /\ h[i + n] = b[i] /\ u[i + n] = t[i]
  <2>1. i + n \in 1..(n + m) /\ ~(i + n <= n) /\ (i + n) - n = i
    BY ONLY n \in Nat, m \in Nat, i \in 1..m
  <2>2. h[i + n] = IF i + n <= n THEN a[i + n] ELSE b[(i + n) - n]
    BY ONLY <2>1, <1>8
  <2>3. u[i + n] = IF i + n <= n THEN s[i + n] ELSE t[(i + n) - n]
    BY ONLY <2>1, <1>5
  <2> QED BY ONLY <2>1, <2>2, <2>3
<1>11. ASSUME NEW i \in 1..(n + m)
       PROVE  i \in 1..n \/ \E j \in 1..m : i = j + n
  <2>1. i \in 1..n \/ (i - n \in 1..m /\ i = (i - n) + n)
    BY ONLY n \in Nat, m \in Nat, i \in 1..(n + m)
  <2> QED BY <2>1
<1>12. ASSUME NEW i \in 1..(n + m) PROVE h[i] \in C \cup D /\ <<At(B, h[i]), u[i]>> \in R
  <2>1. CASE i \in 1..n
    BY <2>1, <1>6, <1>9
  <2>2. CASE \E j \in 1..m : i = j + n
    <3>1. PICK j \in 1..m : i = j + n
      BY <2>2
    <3> QED BY <3>1, <1>7, <1>10
  <2> QED BY <2>1, <2>2, <1>11
<1>13. ASSUME NEW c \in C \cup D PROVE \E i \in 1..(n + m) : h[i] = c
  <2>1. CASE c \in C
    <3>1. PICK i \in 1..n : a[i] = c
      BY <2>1, <1>6
    <3> QED BY <3>1, <1>9
  <2>2. CASE c \in D
    <3>1. PICK i \in 1..m : b[i] = c
      BY <2>2, <1>7
    <3> QED BY <3>1, <1>10
  <2> QED BY <2>1, <2>2
<1>14. ASSUME NEW i \in 1..(n + m), NEW j \in 1..(n + m), h[i] = h[j] PROVE i = j
  <2>1. CASE i \in 1..n /\ j \in 1..n
    <3>1. a[i] = a[j]
      BY <2>1, <1>9, <1>14
    <3> QED BY <2>1, <3>1, <1>6
  <2>2. CASE i \in 1..n /\ \E l \in 1..m : j = l + n
    <3>1. PICK l \in 1..m : j = l + n
      BY <2>2
    <3>2. h[i] \in C /\ h[j] \in D
      BY <2>2, <3>1, <1>6, <1>7, <1>9, <1>10
    <3> QED BY <3>2, <1>14
  <2>3. CASE j \in 1..n /\ \E l \in 1..m : i = l + n
    <3>1. PICK l \in 1..m : i = l + n
      BY <2>3
    <3>2. h[j] \in C /\ h[i] \in D
      BY <2>3, <3>1, <1>6, <1>7, <1>9, <1>10
    <3> QED BY <3>2, <1>14
  <2>4. CASE (\E k \in 1..m : i = k + n) /\ \E l \in 1..m : j = l + n
    <3>1. PICK k \in 1..m : i = k + n
      BY <2>4
    <3>2. PICK l \in 1..m : j = l + n
      BY <2>4
    <3>3. b[k] = b[l]
      BY <3>1, <3>2, <1>10, <1>14
    <3>4. k = l
      BY <3>3, <1>7
    <3> QED BY <3>1, <3>2, <3>4
  <2>5. /\ i \in 1..n \/ \E k \in 1..m : i = k + n
        /\ j \in 1..n \/ \E l \in 1..m : j = l + n
    BY <1>11
  <2> QED BY ONLY <2>1, <2>2, <2>3, <2>4, <2>5
<1>15. h \in [1..(n + m) -> C \cup D]
  BY <1>8, <1>12
<1>16. Pairs(h, u, C \cup D, B, R)
  BY ONLY <1>5, <1>12, <1>13, <1>14, <1>15 DEF Pairs
<1> QED BY <1>4, <1>16 DEF Matches

(* h takes the cells C to the cells D.                                     *)
Carries(h, C, D) ==
  /\ h \in [C -> D]
  /\ \A d \in D : \E c \in C : h[c] = d
  /\ \A c, d \in C : h[c] = h[d] => c = d

LEMMA MatchesCarried ==
  ASSUME NEW s, NEW C, NEW B, NEW R, Matches(s, C, B, R), Len(s) \in Nat,
         NEW D, NEW h, Carries(h, C, D), NEW t, Len(t) = Len(s), NEW G, NEW Q,
         \A c \in C, i \in 1..Len(s) : <<At(B, c), s[i]>> \in R => <<At(G, h[c]), t[i]>> \in Q
  PROVE  Matches(t, D, G, Q)
<1>1. PICK a : Pairs(a, s, C, B, R)
  BY DEF Matches
<1>2. PICK n \in Nat : n = Len(s) /\ n = Len(t)
  OBVIOUS
<1>3. PICK b : b = [i \in 1..n |-> h[a[i]]]
  OBVIOUS
<1>4. /\ \A i \in 1..n : a[i] \in C /\ <<At(B, a[i]), s[i]>> \in R
      /\ \A c \in C : \E i \in 1..n : a[i] = c
      /\ \A i, j \in 1..n : a[i] = a[j] => i = j
  BY <1>1, <1>2 DEF Pairs
<1>5. \A i \in 1..n : b[i] = h[a[i]] /\ b[i] \in D
  BY <1>3, <1>4 DEF Carries
<1>6. \A i \in 1..n : <<At(G, b[i]), t[i]>> \in Q
  BY <1>2, <1>4, <1>5
<1>7. ASSUME NEW d \in D PROVE \E i \in 1..n : b[i] = d
  <2>1. PICK c \in C : h[c] = d
    BY DEF Carries
  <2>2. PICK i \in 1..n : a[i] = c
    BY <1>4
  <2> QED BY <1>5, <2>1, <2>2
<1>8. ASSUME NEW i \in 1..n, NEW j \in 1..n, b[i] = b[j] PROVE i = j
  <2>1. h[a[i]] = h[a[j]] /\ a[i] \in C /\ a[j] \in C
    BY <1>4, <1>5, <1>8
  <2>2. a[i] = a[j]
    BY <2>1 DEF Carries
  <2> QED BY <1>4, <2>2
<1>9. b \in [1..n -> D]
  BY <1>3, <1>5
<1>10. Pairs(b, t, D, G, Q)
  BY ONLY <1>2, <1>6, <1>7, <1>8, <1>9 DEF Pairs
<1> QED BY <1>10 DEF Matches

(* Nothing but the list changes.                                           *)
LEMMA MatchesMapped ==
  ASSUME NEW s, NEW C, NEW B, NEW R, Matches(s, C, B, R), Len(s) \in Nat,
         NEW t, Len(t) = Len(s), NEW Q,
         \A c \in C, i \in 1..Len(s) : <<At(B, c), s[i]>> \in R => <<At(B, c), t[i]>> \in Q
  PROVE  Matches(t, C, B, Q)
<1>1. PICK a : Pairs(a, s, C, B, R)
  BY DEF Matches
<1>2. Pairs(a, t, C, B, Q)
  BY <1>1 DEF Pairs
<1> QED BY <1>2 DEF Matches

(* The order of a list does not matter.                                    *)
LEMMA MatchesRelisted ==
  ASSUME NEW S, NEW s, ListsOnce(s, S), NEW t, ListsOnce(t, S),
         NEW C, NEW B, NEW R, Matches(s, C, B, R)
  PROVE  Matches(t, C, B, R)
<1>1. PICK a : Pairs(a, s, C, B, R)
  BY DEF Matches
<1>2. PICK n \in Nat : n = Len(s) /\ n = Len(t)
  BY DEF ListsOnce
<1>3. /\ \A i, j \in 1..n : s[i] = s[j] => i = j
      /\ \A i, j \in 1..n : t[i] = t[j] => i = j
  BY <1>2, ListedOnce
<1>4. /\ \A i \in 1..n : s[i] \in S /\ t[i] \in S
      /\ \A x \in S : (\E i \in 1..n : s[i] = x) /\ (\E i \in 1..n : t[i] = x)
  <2>1. /\ Range(s) = S /\ DOMAIN s = 1..n /\ Range(t) = S /\ DOMAIN t = 1..n
    BY <1>2 DEF ListsOnce
  <2> QED BY <2>1 DEF Range
<1>5. /\ \A i \in 1..n : a[i] \in C /\ <<At(B, a[i]), s[i]>> \in R
      /\ \A c \in C : \E i \in 1..n : a[i] = c
      /\ \A i, j \in 1..n : a[i] = a[j] => i = j
  BY <1>1, <1>2 DEF Pairs
<1> DEFINE place(i) == CHOOSE j \in 1..n : s[j] = t[i]
<1>6. \A i \in 1..n : place(i) \in 1..n /\ s[place(i)] = t[i]
  BY <1>4
<1> HIDE DEF place
<1>7. PICK b : b = [i \in 1..n |-> a[place(i)]]
  OBVIOUS
<1>8. \A i \in 1..n : b[i] = a[place(i)] /\ b[i] \in C
  BY <1>5, <1>6, <1>7
<1>9. \A i \in 1..n : <<At(B, b[i]), t[i]>> \in R
  <2> SUFFICES ASSUME NEW i \in 1..n PROVE <<At(B, b[i]), t[i]>> \in R
    OBVIOUS
  <2>1. <<At(B, a[place(i)]), s[place(i)]>> \in R
    BY <1>5, <1>6
  <2> QED BY <2>1, <1>6, <1>8
<1>10. ASSUME NEW c \in C PROVE \E i \in 1..n : b[i] = c
  <2>1. PICK j \in 1..n : a[j] = c
    BY <1>5
  <2>2. PICK i \in 1..n : t[i] = s[j]
    BY <1>4
  <2>3. place(i) = j
    BY <1>3, <1>6, <2>2
  <2> QED BY <1>8, <2>1, <2>3
<1>11. ASSUME NEW i \in 1..n, NEW j \in 1..n, b[i] = b[j] PROVE i = j
  <2>1. place(i) = place(j)
    BY <1>5, <1>6, <1>8, <1>11
  <2>2. t[i] = t[j]
    BY <1>6, <2>1
  <2> QED BY <1>3, <2>2
<1>12. b \in [1..n -> C]
  BY <1>7, <1>8
<1>13. Pairs(b, t, C, B, R)
  BY ONLY <1>2, <1>9, <1>10, <1>11, <1>12 DEF Pairs
<1> QED BY <1>13 DEF Matches

(* The blocks one after the other.                                         *)
Itself(S) == {p \in S \X S : p[1] = p[2]}

LEMMA FlattenMatches ==
  ASSUME NEW S, NEW B \in Seq(Seq(S))
  PROVE  /\ FlattenSeq(B) \in Seq(S)
         /\ Matches(FlattenSeq(B), Cells(B), B, Itself(S))
<1> DEFINE upto(i) == {c \in Cells(B) : c[1] <= i}
           block(i) == {c \in Cells(B) : c[1] = i}
<1>1. PICK n \in Nat : n = Len(B) /\ DOMAIN B = 1..n
  OBVIOUS
<1>2. \A c \in Cells(B) : c[1] \in 1..n
  BY <1>1 DEF Cells
<1>3. upto(n) = Cells(B) /\ upto(0) = {}
  BY <1>2
<1>4. \A i \in 1..n : upto(i) = upto(i - 1) \cup block(i)
  BY <1>2
<1>5. \A i \in 1..n : \A c \in upto(i - 1) : c \notin block(i)
  BY <1>2
<1>6. ASSUME NEW i \in 1..n PROVE Matches(B[i], block(i), B, Itself(S))
  <2>1. PICK m \in Nat : m = Len(B[i]) /\ DOMAIN B[i] = 1..m /\ \A k \in 1..m : B[i][k] \in S
    <3>1. PICK b : b = B[i]
      OBVIOUS
    <3>2. b \in Seq(S)
      BY <1>1, <3>1
    <3>3. /\ Len(b) \in Nat /\ DOMAIN b = 1..Len(b)
          /\ \A k \in 1..Len(b) : b[k] \in S
      BY ONLY <3>2
    <3> QED BY <3>1, <3>3
  <2>2. PICK a : a = [k \in 1..m |-> <<i, k>>]
    OBVIOUS
  <2>3. ASSUME NEW k \in 1..m
        PROVE  /\ a[k] = <<i, k>> /\ a[k] \in block(i)
               /\ <<At(B, a[k]), B[i][k]>> \in Itself(S)
    BY <1>1, <2>1, <2>2 DEF At, Itself, Cells
  <2>4. ASSUME NEW c \in block(i) PROVE \E k \in 1..m : a[k] = c
    <3>1. c = <<c[1], c[2]>> /\ c[1] = i /\ c[2] \in 1..m
      BY <2>1 DEF Cells
    <3>2. a[c[2]] = <<i, c[2]>>
      BY ONLY <2>2, <3>1
    <3>3. a[c[2]] = c
      BY ONLY <3>1, <3>2
    <3>4. PICK k \in 1..m : k = c[2]
      BY <3>1
    <3> QED BY ONLY <3>3, <3>4, k \in 1..m
  <2>5. a \in [1..m -> block(i)]
    BY <2>2, <2>3
  <2>6. \A k, l \in 1..m : a[k] = a[l] => k = l
    <3>1. \A k \in 1..m : a[k] = <<i, k>>
      BY <2>3
    <3> QED BY ONLY <3>1
  <2> HIDE DEF block
  <2>7. Pairs(a, B[i], block(i), B, Itself(S))
    BY <2>1, <2>3, <2>4, <2>5, <2>6 DEF Pairs
  <2> QED BY <2>7 DEF Matches
<1>7. Matches(<<>>, {}, B, Itself(S))
  <2>1. Pairs(<<>>, <<>>, {}, B, Itself(S))
    BY DEF Pairs
  <2> QED BY <2>1 DEF Matches
<1> DEFINE P == [i \in 0..n |-> {s \in Seq(S) : Matches(s, upto(i), B, Itself(S))}]
<1> HIDE DEF upto, block
<1>8. <<>> \in P[0]
  <2>1. <<>> \in Seq(S) /\ 0 \in 0..n
    OBVIOUS
  <2> QED BY <1>3, <1>7, <2>1
<1>9. \A i \in 1..Len(B), s \in Seq(S) : s \in P[i - 1] => s \o B[i] \in P[i]
  <2> SUFFICES ASSUME NEW i \in 1..n, NEW s \in Seq(S), s \in P[i - 1] PROVE s \o B[i] \in P[i]
    BY <1>1
  <2>1. i - 1 \in 0..n /\ i \in 0..n
    OBVIOUS
  <2>2. Matches(s, upto(i - 1), B, Itself(S))
    BY <2>1
  <2>3. B[i] \in Seq(S)
    BY <1>1
  <2>4. s \o B[i] \in Seq(S)
    BY <2>3, ConcatProperties
  <2>5. Matches(s \o B[i], upto(i - 1) \cup block(i), B, Itself(S))
    <3>1. Matches(B[i], block(i), B, Itself(S)) /\ \A c \in upto(i - 1) : c \notin block(i)
      BY <1>5, <1>6
    <3> QED BY <2>2, <2>3, <3>1, MatchesJoin
  <2>6. Matches(s \o B[i], upto(i), B, Itself(S))
    BY <1>4, <2>5
  <2> QED BY <2>1, <2>4, <2>6
<1> HIDE DEF P
<1>10. FlattenSeq(B) \in Seq(S) /\ FlattenSeq(B) \in P[n]
  BY <1>1, <1>8, <1>9, FlattenInduction
<1>11. Matches(FlattenSeq(B), upto(n), B, Itself(S))
  <2>1. n \in 0..n
    OBVIOUS
  <2> QED BY <1>10, <2>1 DEF P
<1> QED BY <1>3, <1>10, <1>11

-----------------------------------------------------------------------------
(* The versions of an edge.                                                *)

(* Two edges have one fallback only if they would have one identity.       *)
OneFallback(f, g) ==
  Renamed(f) /\ Renamed(g) /\ EnsureFallbackEdgeId(f).id = EnsureFallbackEdgeId(g).id
    => FinalId(f) = FinalId(g)

Named(f) == IF Renamed(f) THEN [f EXCEPT !.id = FinalId(f)] ELSE f

FinalVersions ==
  {p \in EdgeRecords \X EdgeRecords : p[2] = Named(p[1]) /\ (Renamed(p[1]) => Nameable(p[1]))}

Versions ==
  {p \in EdgeRecords \X EdgeRecords :
     p[2] = EnsureFallbackEdgeId(p[1]) \/ (p[2] = Named(p[1]) /\ (Renamed(p[1]) => Nameable(p[1])))}

LEMMA EnsuredIs ==
  ASSUME NEW f \in EdgeRecords, NEW e, e = EnsureFallbackEdgeId(f)
  PROVE  /\ e \in EdgeRecords /\ e.id # NoEdgeId
         /\ e.source = f.source /\ e.target = f.target
         /\ e.relation = f.relation /\ e.place = f.place /\ e.detail = f.detail
         /\ Renamed(e) <=> Renamed(f)
         /\ Renamed(f) => e.id[1] = 2
         /\ ~ Renamed(f) => e = f
         /\ FinalId(e) = FinalId(f)
<1>1. /\ f.source \in Nat /\ f.target \in Nat /\ f.relation \in Nat /\ f.place \in Nat
      /\ f.detail \in Nat /\ f.id \in Seq(Nat)
  BY DEF EdgeRecords
<1>2. FallbackId(f) \in Seq(Nat) /\ FallbackId(f)[1] = 2 /\ FallbackId(f) # NoEdgeId
  BY <1>1 DEF FallbackId, NoEdgeId
<1>3. CASE f.id = NoEdgeId
  <2>1. e = [f EXCEPT !.id = FallbackId(f)]
    BY <1>3 DEF EnsureFallbackEdgeId
  <2>2. /\ e \in EdgeRecords /\ e.id = FallbackId(f)
        /\ e.source = f.source /\ e.target = f.target
        /\ e.relation = f.relation /\ e.place = f.place /\ e.detail = f.detail
    BY <1>1, <1>2, <2>1 DEF EdgeRecords
  <2>3. Renamed(e) /\ Renamed(f)
    BY <1>2, <1>3, <2>2 DEF Renamed
  <2> QED BY <1>2, <2>2, <2>3 DEF FinalId
<1>4. CASE f.id # NoEdgeId
  <2>1. e = f
    BY <1>4 DEF EnsureFallbackEdgeId
  <2>2. Renamed(f) => f.id[1] = 2
    BY <1>4 DEF Renamed
  <2> QED BY <1>4, <2>1, <2>2
<1> QED BY <1>3, <1>4

LEMMA NamedIs ==
  ASSUME NEW f \in EdgeRecords, NEW e, e = Named(f)
  PROVE  /\ e \in EdgeRecords /\ e.id # NoEdgeId /\ ~ Renamed(e)
         /\ Renamed(f) => e.id = FinalId(f)
         /\ ~ Renamed(f) => e = f
<1>1. /\ f.source \in Nat /\ f.target \in Nat /\ f.relation \in Nat /\ f.place \in Nat
      /\ f.detail \in Nat /\ f.id \in Seq(Nat)
  BY DEF EdgeRecords
<1>2. FinalId(f) \in Seq(Nat) /\ FinalId(f)[1] = 3 /\ FinalId(f) # NoEdgeId
  BY <1>1 DEF FinalId, NoEdgeId
<1>3. CASE Renamed(f)
  <2>1. e = [f EXCEPT !.id = FinalId(f)]
    BY <1>3 DEF Named
  <2>2. e \in EdgeRecords /\ e.id = FinalId(f)
    BY <1>1, <1>2, <2>1 DEF EdgeRecords
  <2>3. ~ Renamed(e)
    BY <1>2, <2>2 DEF Renamed
  <2> QED BY <1>2, <1>3, <2>2, <2>3
<1>4. CASE ~ Renamed(f)
  <2>1. e = f
    BY <1>4 DEF Named
  <2> QED BY <1>4, <2>1 DEF Renamed
<1> QED BY <1>3, <1>4

(* Two versions have one identity only when the edges, named, have.        *)
LEMMA VersionsDiffer ==
  ASSUME NEW f \in EdgeRecords, NEW g \in EdgeRecords, OneFallback(f, g),
         NEW a, <<f, a>> \in Versions, NEW b, <<g, b>> \in Versions
  PROVE  /\ a.id # NoEdgeId
         /\ a.id = b.id => Named(f).id = Named(g).id
<1>1. PICK u : u = Named(f)
  OBVIOUS
<1>2. PICK v : v = Named(g)
  OBVIOUS
<1>3. u.id # NoEdgeId /\ ~ Renamed(u) /\ (Renamed(f) => u.id = FinalId(f)) /\ (~ Renamed(f) => u = f)
  BY <1>1, NamedIs
<1>4. v.id # NoEdgeId /\ ~ Renamed(v) /\ (Renamed(g) => v.id = FinalId(g)) /\ (~ Renamed(g) => v = g)
  BY <1>2, NamedIs
<1>5. u.id[1] # 2 /\ v.id[1] # 2
  BY <1>3, <1>4 DEF Renamed
<1>6. \/ /\ a.id # NoEdgeId /\ Renamed(f) /\ a.id[1] = 2
         /\ a.id = EnsureFallbackEdgeId(f).id
      \/ a.id # NoEdgeId /\ a = u
  <2>1. CASE a = EnsureFallbackEdgeId(f)
    BY <1>3, <2>1, EnsuredIs
  <2>2. CASE a = Named(f)
    BY <1>1, <1>3, <2>2
  <2> QED BY <2>1, <2>2 DEF Versions
<1>7. \/ Renamed(g) /\ b.id[1] = 2 /\ b.id = EnsureFallbackEdgeId(g).id
      \/ b = v
  <2>1. CASE b = EnsureFallbackEdgeId(g)
    BY <1>4, <2>1, EnsuredIs
  <2>2. CASE b = Named(g)
    BY <1>2, <2>2
  <2> QED BY <2>1, <2>2 DEF Versions
<1>8. a.id = b.id => u.id = v.id
  BY <1>3, <1>4, <1>5, <1>6, <1>7 DEF OneFallback
<1> QED BY <1>1, <1>2, <1>6, <1>8

-----------------------------------------------------------------------------
(* What makes an answer: the fragments, not how they came.                 *)

NodesGood(N) ==
  \A c \in Cells(N) : /\ At(N, c).id # 0
                      /\ \A d \in Cells(N) : At(N, c).id = At(N, d).id => c = d

EdgesGood(E) ==
  \A c \in Cells(E) : /\ Renamed(At(E, c)) => Nameable(At(E, c))
                      /\ \A d \in Cells(E) : Named(At(E, c)).id = Named(At(E, d)).id => c = d

NodesUnique(ns) ==
  \A i, j \in DOMAIN ns : ns[i].id # 0 /\ (ns[i].id = ns[j].id => i = j)

EdgesUnique(es) ==
  \A i, j \in DOMAIN es : es[i].id # NoEdgeId /\ (es[i].id = es[j].id => i = j)

LEMMA UniqueIs ==
  ASSUME NEW X, NEW ns \in Seq(X), NEW Y, NEW es \in Seq(Y)
  PROVE  ValidateUniqueIds(ns, es) <=> NodesUnique(ns) /\ EdgesUnique(es)
<1>1. PICK n \in Nat : DOMAIN ns = 1..n
  OBVIOUS
<1>2. PICK m \in Nat : DOMAIN es = 1..m
  OBVIOUS
<1>3. (\A i \in DOMAIN ns : ns[i].id # 0 /\ \A j \in 1 .. i - 1 : ns[i].id # ns[j].id)
        <=> NodesUnique(ns)
  <2>1. ASSUME \A i \in 1..n : ns[i].id # 0 /\ \A j \in 1 .. i - 1 : ns[i].id # ns[j].id,
               NEW i \in 1..n, NEW j \in 1..n, ns[i].id = ns[j].id
        PROVE  i = j
    <3>1. ~ (j < i) /\ ~ (i < j)
      BY <2>1
    <3> QED BY <3>1
  <2>2. ASSUME \A i, j \in 1..n : ns[i].id # 0 /\ (ns[i].id = ns[j].id => i = j),
               NEW i \in 1..n, NEW j \in 1..(i - 1)
        PROVE  ns[i].id # ns[j].id
    <3>1. j \in 1..n /\ i # j
      OBVIOUS
    <3> QED BY <2>2, <3>1
  <2> QED BY <1>1, <2>1, <2>2 DEF NodesUnique
<1>4. (\A i \in DOMAIN es : es[i].id # NoEdgeId /\ \A j \in 1 .. i - 1 : es[i].id # es[j].id)
        <=> EdgesUnique(es)
  <2>1. ASSUME \A i \in 1..m : es[i].id # NoEdgeId /\ \A j \in 1 .. i - 1 : es[i].id # es[j].id,
               NEW i \in 1..m, NEW j \in 1..m, es[i].id = es[j].id
        PROVE  i = j
    <3>1. ~ (j < i) /\ ~ (i < j)
      BY <2>1
    <3> QED BY <3>1
  <2>2. ASSUME \A i, j \in 1..m : es[i].id # NoEdgeId /\ (es[i].id = es[j].id => i = j),
               NEW i \in 1..m, NEW j \in 1..(i - 1)
        PROVE  es[i].id # es[j].id
    <3>1. j \in 1..m /\ i # j
      OBVIOUS
    <3> QED BY <2>2, <3>1
  <2> QED BY <1>2, <2>1, <2>2 DEF EdgesUnique
<1> QED BY <1>3, <1>4 DEF ValidateUniqueIds

LEMMA NodesJudged ==
  ASSUME NEW N, NEW ns \in Seq(NodeRecords), Matches(ns, Cells(N), N, Itself(NodeRecords))
  PROVE  /\ NodesUnique(ns) <=> NodesGood(N)
         /\ Range(ns) = {At(N, c) : c \in Cells(N)}
<1>1. PICK a : Pairs(a, ns, Cells(N), N, Itself(NodeRecords))
  BY DEF Matches
<1>2. PICK n \in Nat : n = Len(ns) /\ DOMAIN ns = 1..n
  OBVIOUS
<1>3. /\ \A i \in 1..n : a[i] \in Cells(N) /\ At(N, a[i]) = ns[i]
      /\ \A c \in Cells(N) : \E i \in 1..n : a[i] = c
      /\ \A i, j \in 1..n : a[i] = a[j] => i = j
  BY <1>1, <1>2 DEF Pairs, Itself
<1>4. ASSUME NodesUnique(ns) PROVE NodesGood(N)
  <2> SUFFICES ASSUME NEW c \in Cells(N), NEW d \in Cells(N)
               PROVE  At(N, c).id # 0 /\ (At(N, c).id = At(N, d).id => c = d)
    BY DEF NodesGood
  <2>1. PICK i \in 1..n : a[i] = c
    BY <1>3
  <2>2. PICK j \in 1..n : a[j] = d
    BY <1>3
  <2>3. At(N, c) = ns[i] /\ At(N, d) = ns[j]
    BY <1>3, <2>1, <2>2
  <2>4. ns[i].id # 0 /\ (ns[i].id = ns[j].id => i = j)
    BY <1>2, <1>4 DEF NodesUnique
  <2> QED BY <2>1, <2>2, <2>3, <2>4
<1>5. ASSUME NodesGood(N) PROVE NodesUnique(ns)
  <2> SUFFICES ASSUME NEW i \in 1..n, NEW j \in 1..n
               PROVE  ns[i].id # 0 /\ (ns[i].id = ns[j].id => i = j)
    BY <1>2 DEF NodesUnique
  <2>1. At(N, a[i]) = ns[i] /\ At(N, a[j]) = ns[j] /\ a[i] \in Cells(N) /\ a[j] \in Cells(N)
    BY <1>3
  <2>2. At(N, a[i]).id # 0 /\ (At(N, a[i]).id = At(N, a[j]).id => a[i] = a[j])
    BY <1>5, <2>1 DEF NodesGood
  <2> QED BY <1>3, <2>1, <2>2
<1>6. Range(ns) = {At(N, c) : c \in Cells(N)}
  <2>1. ASSUME NEW x \in Range(ns) PROVE x \in {At(N, c) : c \in Cells(N)}
    BY <1>2, <1>3 DEF Range
  <2>2. ASSUME NEW c \in Cells(N) PROVE At(N, c) \in Range(ns)
    <3>1. PICK i \in 1..n : a[i] = c
      BY <1>3
    <3>2. At(N, c) = ns[i]
      BY <1>3, <3>1
    <3> QED BY <1>2, <3>2 DEF Range
  <2> QED BY <2>1, <2>2
<1> QED BY <1>4, <1>5, <1>6

GivenEdges(E) ==
  \A c \in Cells(E) : At(E, c) \in EdgeRecords /\ \A d \in Cells(E) : OneFallback(At(E, c), At(E, d))

LEMMA EdgesJudged ==
  ASSUME NEW E, GivenEdges(E), NEW es \in Seq(EdgeRecords), Matches(es, Cells(E), E, Versions),
         EdgesGood(E)
  PROVE  EdgesUnique(es)
<1>1. PICK a : Pairs(a, es, Cells(E), E, Versions)
  BY DEF Matches
<1>2. PICK n \in Nat : n = Len(es) /\ DOMAIN es = 1..n
  OBVIOUS
<1>3. /\ \A i \in 1..n : a[i] \in Cells(E) /\ <<At(E, a[i]), es[i]>> \in Versions
      /\ \A i, j \in 1..n : a[i] = a[j] => i = j
  BY <1>1, <1>2 DEF Pairs
<1> SUFFICES ASSUME NEW i \in 1..n, NEW j \in 1..n
             PROVE  es[i].id # NoEdgeId /\ (es[i].id = es[j].id => i = j)
  BY <1>2 DEF EdgesUnique
<1>4. /\ At(E, a[i]) \in EdgeRecords /\ <<At(E, a[i]), es[i]>> \in Versions
      /\ At(E, a[j]) \in EdgeRecords /\ <<At(E, a[j]), es[j]>> \in Versions
      /\ OneFallback(At(E, a[i]), At(E, a[j]))
  BY <1>3 DEF GivenEdges
<1>5. /\ es[i].id # NoEdgeId
      /\ es[i].id = es[j].id => Named(At(E, a[i])).id = Named(At(E, a[j])).id
  <2>1. PICK f \in EdgeRecords, g \in EdgeRecords : f = At(E, a[i]) /\ g = At(E, a[j])
    BY <1>4
  <2>2. PICK x, y : x = es[i] /\ y = es[j]
    OBVIOUS
  <2>3. <<f, x>> \in Versions /\ <<g, y>> \in Versions /\ OneFallback(f, g)
    BY ONLY <1>4, <2>1, <2>2
  <2>4. x.id # NoEdgeId /\ (x.id = y.id => Named(f).id = Named(g).id)
    BY <2>3, VersionsDiffer
  <2> QED BY ONLY <2>1, <2>2, <2>4
<1>6. Named(At(E, a[i])).id = Named(At(E, a[j])).id => a[i] = a[j]
  BY <1>3 DEF EdgesGood
<1> QED BY <1>3, <1>5, <1>6

LEMMA NamedJudged ==
  ASSUME NEW E, NEW es \in Seq(EdgeRecords), Matches(es, Cells(E), E, FinalVersions)
  PROVE  /\ EdgesUnique(es) <=> EdgesGood(E)
         /\ Range(es) = {Named(At(E, c)) : c \in Cells(E)}
<1>1. PICK a : Pairs(a, es, Cells(E), E, FinalVersions)
  BY DEF Matches
<1>2. PICK n \in Nat : n = Len(es) /\ DOMAIN es = 1..n
  OBVIOUS
<1>3. /\ \A i \in 1..n : /\ a[i] \in Cells(E) /\ At(E, a[i]) \in EdgeRecords
                         /\ es[i] = Named(At(E, a[i]))
                         /\ Renamed(At(E, a[i])) => Nameable(At(E, a[i]))
      /\ \A c \in Cells(E) : \E i \in 1..n : a[i] = c
      /\ \A i, j \in 1..n : a[i] = a[j] => i = j
  BY <1>1, <1>2 DEF Pairs, FinalVersions
<1>4. ASSUME EdgesUnique(es) PROVE EdgesGood(E)
  <2> SUFFICES ASSUME NEW c \in Cells(E), NEW d \in Cells(E)
               PROVE  /\ Renamed(At(E, c)) => Nameable(At(E, c))
                      /\ Named(At(E, c)).id = Named(At(E, d)).id => c = d
    BY DEF EdgesGood
  <2>1. PICK i \in 1..n : a[i] = c
    BY <1>3
  <2>2. PICK j \in 1..n : a[j] = d
    BY <1>3
  <2>3. Named(At(E, c)) = es[i] /\ Named(At(E, d)) = es[j] /\ (Renamed(At(E, c)) => Nameable(At(E, c)))
    BY <1>3, <2>1, <2>2
  <2>4. es[i].id = es[j].id => i = j
    BY <1>2, <1>4 DEF EdgesUnique
  <2> QED BY <2>1, <2>2, <2>3, <2>4
<1>5. ASSUME EdgesGood(E) PROVE EdgesUnique(es)
  <2> SUFFICES ASSUME NEW i \in 1..n, NEW j \in 1..n
               PROVE  es[i].id # NoEdgeId /\ (es[i].id = es[j].id => i = j)
    BY <1>2 DEF EdgesUnique
  <2>1. /\ es[i] = Named(At(E, a[i])) /\ es[j] = Named(At(E, a[j])) /\ a[i] \in Cells(E)
        /\ a[j] \in Cells(E) /\ At(E, a[i]) \in EdgeRecords
    BY <1>3
  <2>2. Named(At(E, a[i])).id = Named(At(E, a[j])).id => a[i] = a[j]
    BY <1>5, <2>1 DEF EdgesGood
  <2>3. es[i].id # NoEdgeId
    BY <2>1, NamedIs
  <2> QED BY <1>3, <2>1, <2>2, <2>3
<1>6. Range(es) = {Named(At(E, c)) : c \in Cells(E)}
  <2>1. ASSUME NEW x \in Range(es) PROVE x \in {Named(At(E, c)) : c \in Cells(E)}
    BY <1>2, <1>3 DEF Range
  <2>2. ASSUME NEW c \in Cells(E) PROVE Named(At(E, c)) \in Range(es)
    <3>1. PICK i \in 1..n : a[i] = c
      BY <1>3
    <3>2. Named(At(E, c)) = es[i]
      BY <1>3, <3>1
    <3> QED BY <1>2, <3>2 DEF Range
  <2> QED BY <2>1, <2>2
<1> QED BY <1>4, <1>5, <1>6

-----------------------------------------------------------------------------
(* What the operations make of the graph.                                  *)

LEMMA OnceIs ==
  ASSUME NEW X, NEW s \in Seq(X), \A i, j \in DOMAIN s : s[i] = s[j] => i = j
  PROVE  ListsOnce(s, Range(s))
<1>1. PICK n \in Nat : n = Len(s) /\ DOMAIN s = 1..n
  OBVIOUS
<1>2. IsFiniteSet(1..n) /\ Cardinality(1..n) = n
  <2>1. IsFiniteSet(1..n) /\ Cardinality(1..n) = IF 1 > n THEN 0 ELSE n - 1 + 1
    BY FS_Interval
  <2> QED BY ONLY <2>1, n \in Nat
<1>3. PICK S : S = Range(s)
  OBVIOUS
<1>4. PICK D : D = 1..n
  OBVIOUS
<1>5. s \in [D -> S] /\ s \in Surjection(D, S) /\ s \in Injection(D, S)
  BY <1>1, <1>3, <1>4 DEF Surjection, Injection, IsInjective, Range
<1>6. IsFiniteSet(S) /\ Cardinality(S) = Cardinality(D)
  BY <1>2, <1>4, <1>5, FS_Surjection
<1>7. s \in Seq(S)
  BY <1>1, <1>4, <1>5
<1> QED BY <1>1, <1>2, <1>3, <1>4, <1>6, <1>7 DEF ListsOnce

LEMMA UniqueListed ==
  ASSUME NEW ns \in Seq(NodeRecords), NodesUnique(ns),
         NEW es \in Seq(EdgeRecords), EdgesUnique(es)
  PROVE  ListsNodes(ns, Range(ns)) /\ ListsEdges(es, Range(es))
<1>1. Range(ns) \subseteq NodeRecords /\ Range(es) \subseteq EdgeRecords
  BY DEF Range
<1>2. ListsOnce(ns, Range(ns))
  <2>1. \A i, j \in DOMAIN ns : ns[i] = ns[j] => i = j
    BY DEF NodesUnique
  <2> QED BY <2>1, OnceIs
<1>3. ListsOnce(es, Range(es))
  <2>1. \A i, j \in DOMAIN es : es[i] = es[j] => i = j
    BY DEF EdgesUnique
  <2> QED BY <2>1, OnceIs
<1>4. UniqueIds(Range(ns)) /\ UniqueIds(Range(es))
  BY DEF UniqueIds, Range, NodesUnique, EdgesUnique
<1> QED BY <1>1, <1>2, <1>3, <1>4 DEF ListsNodes, ListsEdges, ListsOnce

(* Sorted or refused, the graph is of the same cells.                      *)
LEMMA CanonicalizeIs ==
  ASSUME NEW ns \in Seq(NodeRecords), NEW es \in Seq(EdgeRecords), NEW w,
         NEW r, r = Canonicalize(ns, es, w)
  PROVE  /\ \/ /\ r.answer = w /\ NodesUnique(ns) /\ EdgesUnique(es)
               /\ ListsNodes(ns, Range(ns)) /\ ListsEdges(es, Range(es))
               /\ ListsNodes(r.nodes, Range(ns)) /\ InKeyOrder(r.nodes)
               /\ ListsEdges(r.edges, Range(es)) /\ InEdgeOrder(r.edges, r.nodes)
            \/ /\ r.answer = "refused" /\ ~ (NodesUnique(ns) /\ EdgesUnique(es))
               /\ r.nodes = ns /\ r.edges = es
         /\ r.nodes \in Seq(NodeRecords) /\ r.edges \in Seq(EdgeRecords)
<1>1. ValidateUniqueIds(ns, es) <=> NodesUnique(ns) /\ EdgesUnique(es)
  BY UniqueIs
<1>2. CASE ValidateUniqueIds(ns, es)
  <2>1. NodesUnique(ns) /\ EdgesUnique(es)
    BY <1>1, <1>2
  <2>2. ListsNodes(ns, Range(ns)) /\ ListsEdges(es, Range(es))
    BY <2>1, UniqueListed
  <2>3. PICK ms : ms = SortNodes(ns)
    OBVIOUS
  <2>4. PICK fs : fs = SortEdges(es, ms)
    OBVIOUS
  <2>5. r.answer = w /\ r.nodes = ms /\ r.edges = fs
    BY <1>2, <2>3, <2>4 DEF Canonicalize
  <2>6. ListsNodes(ms, Range(ns)) /\ InKeyOrder(ms)
    BY <2>2, <2>3, SortNodesIs
  <2>7. ms \in Seq(Range(ns)) /\ Range(ns) \subseteq NodeRecords
    BY <2>6 DEF ListsNodes
  <2>8. ms \in Seq(NodeRecords)
    BY <2>7
  <2>9. ListsEdges(fs, Range(es)) /\ InEdgeOrder(fs, ms)
    BY <2>2, <2>4, <2>8, SortEdgesIs
  <2>10. fs \in Seq(Range(es)) /\ Range(es) \subseteq EdgeRecords
    BY <2>9 DEF ListsEdges, ListsOnce
  <2>11. fs \in Seq(EdgeRecords)
    BY <2>10
  <2> QED BY <2>1, <2>2, <2>5, <2>6, <2>8, <2>9, <2>11
<1>3. CASE ~ ValidateUniqueIds(ns, es)
  <2>1. r.answer = "refused" /\ r.nodes = ns /\ r.edges = es
    BY <1>3 DEF Canonicalize
  <2> QED BY <1>1, <1>3, <2>1
<1> QED BY <1>2, <1>3

LEMMA CanonicalizeMatches ==
  ASSUME NEW ns \in Seq(NodeRecords), NEW es \in Seq(EdgeRecords), NEW w,
         NEW r, r = Canonicalize(ns, es, w),
         NEW C, NEW N, NEW Q, Matches(ns, C, N, Q), NEW D, NEW E, NEW R, Matches(es, D, E, R)
  PROVE  Matches(r.nodes, C, N, Q) /\ Matches(r.edges, D, E, R)
<1>1. \/ /\ ListsNodes(ns, Range(ns)) /\ ListsEdges(es, Range(es))
         /\ ListsNodes(r.nodes, Range(ns)) /\ ListsEdges(r.edges, Range(es))
      \/ r.nodes = ns /\ r.edges = es
  BY CanonicalizeIs
<1>2. CASE r.nodes = ns /\ r.edges = es
  BY <1>2
<1>3. CASE /\ ListsNodes(ns, Range(ns)) /\ ListsEdges(es, Range(es))
           /\ ListsNodes(r.nodes, Range(ns)) /\ ListsEdges(r.edges, Range(es))
  <2>1. /\ ListsOnce(ns, Range(ns)) /\ ListsOnce(r.nodes, Range(ns))
        /\ ListsOnce(es, Range(es)) /\ ListsOnce(r.edges, Range(es))
    BY <1>3 DEF ListsNodes, ListsEdges, ListsOnce
  <2> QED BY <2>1, MatchesRelisted
<1> QED BY <1>1, <1>2, <1>3

(* The canonical graph of the nodes N and the edges E.                     *)
Canonical(ns, es, N, E) ==
  /\ ListsNodes(ns, {At(N, c) : c \in Cells(N)}) /\ InKeyOrder(ns)
  /\ ListsEdges(es, {Named(At(E, c)) : c \in Cells(E)}) /\ InEdgeOrder(es, ns)

LEMMA CanonicalOnce ==
  ASSUME NEW N, NEW E, NEW ns, NEW es, Canonical(ns, es, N, E),
         NEW ms, NEW fs, Canonical(ms, fs, N, E)
  PROVE  ns = ms /\ es = fs
<1>1. PICK S : S = {At(N, c) : c \in Cells(N)}
  OBVIOUS
<1>2. PICK T : T = {Named(At(E, c)) : c \in Cells(E)}
  OBVIOUS
<1>3. /\ ListsNodes(ns, S) /\ InKeyOrder(ns) /\ ListsEdges(es, T) /\ InEdgeOrder(es, ns)
      /\ ListsNodes(ms, S) /\ InKeyOrder(ms) /\ ListsEdges(fs, T) /\ InEdgeOrder(fs, ms)
  BY <1>1, <1>2 DEF Canonical
<1>4. ns = ms
  BY <1>3, SortNodesOnce
<1>5. ns \in Seq(S)
  BY <1>3 DEF ListsNodes
<1>6. InEdgeOrder(fs, ns)
  BY <1>3, <1>4
<1>7. es = fs
  BY <1>3, <1>5, <1>6, SortEdgesOnce
<1> QED BY <1>4, <1>7

(* The graph that the fragments make, in whatever order.                   *)
Holding(ns, es, N, E) ==
  /\ ns \in Seq(NodeRecords) /\ Matches(ns, Cells(N), N, Itself(NodeRecords))
  /\ es \in Seq(EdgeRecords) /\ Matches(es, Cells(E), E, Versions)

(* What is named is no longer stuck, and what is stuck was never named.    *)
LEMMA NamingIs ==
  ASSUME NEW E, GivenEdges(E), NEW es \in Seq(EdgeRecords), Matches(es, Cells(E), E, Versions),
         NEW stuck, stuck = {i \in DOMAIN es : Renamed(es[i]) /\ ~Nameable(es[i])},
         NEW named, named = [i \in DOMAIN es |->
                              IF Renamed(es[i]) /\ \A j \in stuck : i < j
                                THEN [es[i] EXCEPT !.id = FinalId(es[i])] ELSE es[i]]
  PROVE  /\ named \in Seq(EdgeRecords) /\ Matches(named, Cells(E), E, Versions)
         /\ stuck = {} => Matches(named, Cells(E), E, FinalVersions)
         /\ stuck # {} => ~ EdgesGood(E)
<1>1. PICK n \in Nat : n = Len(es) /\ DOMAIN es = 1..n
  OBVIOUS
<1>2. ASSUME NEW i \in 1..n
      PROVE  /\ es[i] \in EdgeRecords
             /\ named[i] = es[i] \/ (named[i] = Named(es[i]) /\ Renamed(es[i]) /\ Nameable(es[i]))
             /\ stuck = {} => named[i] = Named(es[i])
  <2>1. es[i] \in EdgeRecords
    BY <1>1
  <2>2. named[i] = IF Renamed(es[i]) /\ \A j \in stuck : i < j
                     THEN [es[i] EXCEPT !.id = FinalId(es[i])] ELSE es[i]
    BY <1>1
  <2>3. CASE Renamed(es[i]) /\ \A j \in stuck : i < j
    <3>1. i \notin stuck
      <4>1. ~ (i < i)
        OBVIOUS
      <4> QED BY <2>3, <4>1
    <3>2. Nameable(es[i])
      BY <1>1, <2>3, <3>1
    <3>3. named[i] = Named(es[i])
      BY <2>2, <2>3 DEF Named
    <3> QED BY <2>1, <2>3, <3>2, <3>3
  <2>4. CASE ~ (Renamed(es[i]) /\ \A j \in stuck : i < j)
    <3>1. named[i] = es[i]
      BY <2>2, <2>4
    <3>2. stuck = {} => named[i] = Named(es[i])
      BY <2>4, <3>1 DEF Named
    <3> QED BY <2>1, <3>1, <3>2
  <2> QED BY <2>3, <2>4
<1>3. ASSUME NEW i \in 1..n PROVE named[i] \in EdgeRecords
  <2>1. Named(es[i]) \in EdgeRecords
    BY <1>2, NamedIs
  <2> QED BY <1>2, <2>1
<1>4. DOMAIN named = 1..n /\ Len(named) = n /\ named \in Seq(EdgeRecords)
  <2>1. DOMAIN named = 1..n
    BY <1>1
  <2>2. named = [i \in 1..n |-> named[i]]
    BY <1>1
  <2>3. named \in [1..n -> EdgeRecords]
    BY <1>3, <2>2
  <2> QED BY <2>1, <2>3
(* What an edge was, of which this is a version.                           *)
<1>5. ASSUME NEW c \in Cells(E), NEW i \in 1..n, <<At(E, c), es[i]>> \in Versions
      PROVE  /\ At(E, c) \in EdgeRecords /\ Named(es[i]) = Named(At(E, c))
             /\ Renamed(es[i]) => (Renamed(At(E, c)) /\ (Nameable(es[i]) <=> Nameable(At(E, c))))
             /\ (Renamed(es[i]) => Nameable(es[i])) => (Renamed(At(E, c)) => Nameable(At(E, c)))
  <2>1. PICK f : f = At(E, c)
    OBVIOUS
  <2>2. f \in EdgeRecords
    BY <2>1 DEF GivenEdges
  <2>3. PICK e : e = es[i]
    OBVIOUS
  <2>4. e = EnsureFallbackEdgeId(f) \/ (e = Named(f) /\ (Renamed(f) => Nameable(f)))
    BY <1>5, <2>1, <2>3 DEF Versions
  <2>5. CASE e = EnsureFallbackEdgeId(f)
    <3>1. /\ e \in EdgeRecords /\ e.source = f.source /\ e.target = f.target
          /\ e.relation = f.relation /\ e.place = f.place /\ e.detail = f.detail
          /\ Renamed(e) <=> Renamed(f)
          /\ ~ Renamed(f) => e = f
          /\ FinalId(e) = FinalId(f)
      BY <2>2, <2>5, EnsuredIs
    <3>2. Nameable(e) <=> Nameable(f)
      BY <3>1 DEF Nameable
    <3>3. ASSUME Renamed(f) PROVE Named(e) = Named(f)
      <4>1. Named(e) = [e EXCEPT !.id = FinalId(f)] /\ Named(f) = [f EXCEPT !.id = FinalId(f)]
        BY <3>1, <3>3 DEF Named
      <4>2. [e EXCEPT !.id = FinalId(f)] = [f EXCEPT !.id = FinalId(f)]
        BY <2>2, <3>1 DEF EdgeRecords
      <4> QED BY <4>1, <4>2
    <3> QED BY <2>1, <2>2, <2>3, <3>1, <3>2, <3>3
  <2>6. CASE e = Named(f) /\ (Renamed(f) => Nameable(f))
    <3>1. e \in EdgeRecords /\ ~ Renamed(e)
      BY <2>2, <2>6, NamedIs
    <3>2. Named(e) = e
      BY <3>1 DEF Named
    <3> QED BY <2>1, <2>2, <2>3, <2>6, <3>1, <3>2
  <2> QED BY <2>4, <2>5, <2>6
<1>6. Matches(named, Cells(E), E, Versions)
  <2>1. ASSUME NEW c \in Cells(E), NEW i \in 1..n, <<At(E, c), es[i]>> \in Versions
        PROVE  <<At(E, c), named[i]>> \in Versions
    <3>1. /\ At(E, c) \in EdgeRecords /\ Named(es[i]) = Named(At(E, c))
          /\ Renamed(es[i]) => (Renamed(At(E, c)) /\ (Nameable(es[i]) <=> Nameable(At(E, c))))
      BY <1>5, <2>1
    <3>2. named[i] \in EdgeRecords
      BY <1>3
    <3>3. CASE named[i] = es[i]
      BY <2>1, <3>3
    <3>4. CASE named[i] = Named(es[i]) /\ Renamed(es[i]) /\ Nameable(es[i])
      <4>1. PICK f \in EdgeRecords : f = At(E, c)
        BY <3>1
      <4>2. PICK v \in EdgeRecords : v = named[i]
        BY <3>2
      <4>3. v = Named(f) /\ (Renamed(f) => Nameable(f))
        BY <3>1, <3>4, <4>1, <4>2
      <4>4. <<f, v>> \in Versions
        BY <4>3 DEF Versions
      <4> QED BY <4>1, <4>2, <4>4
    <3> QED BY <1>2, <3>3, <3>4
  <2>2. \A c \in Cells(E), i \in 1..Len(es) :
          <<At(E, c), es[i]>> \in Versions => <<At(E, c), named[i]>> \in Versions
    BY <1>1, <2>1
  <2>3. Len(es) \in Nat /\ Len(named) = Len(es)
    BY <1>1, <1>4
  <2> QED BY <2>2, <2>3, MatchesMapped
<1>7. ASSUME stuck = {} PROVE Matches(named, Cells(E), E, FinalVersions)
  <2>1. ASSUME NEW c \in Cells(E), NEW i \in 1..n, <<At(E, c), es[i]>> \in Versions
        PROVE  <<At(E, c), named[i]>> \in FinalVersions
    <3>1. /\ At(E, c) \in EdgeRecords /\ Named(es[i]) = Named(At(E, c))
          /\ (Renamed(es[i]) => Nameable(es[i])) => (Renamed(At(E, c)) => Nameable(At(E, c)))
      BY <1>5, <2>1
    <3>2. Renamed(es[i]) => Nameable(es[i])
      BY <1>1, <1>7
    <3>3. named[i] = Named(At(E, c)) /\ named[i] \in EdgeRecords
      BY <1>2, <1>3, <1>7, <3>1
    <3>4. PICK f \in EdgeRecords : f = At(E, c)
      BY <3>1
    <3>5. PICK v \in EdgeRecords : v = named[i]
      BY <3>3
    <3>6. v = Named(f) /\ (Renamed(f) => Nameable(f))
      BY <3>1, <3>2, <3>3, <3>4, <3>5
    <3>7. <<f, v>> \in FinalVersions
      BY <3>6 DEF FinalVersions
    <3> QED BY <3>4, <3>5, <3>7
  <2>2. \A c \in Cells(E), i \in 1..Len(es) :
          <<At(E, c), es[i]>> \in Versions => <<At(E, c), named[i]>> \in FinalVersions
    BY <1>1, <2>1
  <2>3. Len(es) \in Nat /\ Len(named) = Len(es)
    BY <1>1, <1>4
  <2> QED BY <2>2, <2>3, MatchesMapped
<1>8. ASSUME stuck # {} PROVE ~ EdgesGood(E)
  <2>1. PICK i \in 1..n : Renamed(es[i]) /\ ~ Nameable(es[i])
    BY <1>1, <1>8
  <2>2. PICK a : Pairs(a, es, Cells(E), E, Versions)
    BY DEF Matches
  <2>3. a[i] \in Cells(E) /\ <<At(E, a[i]), es[i]>> \in Versions
    BY <1>1, <2>2 DEF Pairs
  <2>4. Renamed(At(E, a[i])) /\ ~ Nameable(At(E, a[i]))
    BY <1>5, <2>1, <2>3
  <2> QED BY <2>3, <2>4 DEF EdgesGood
<1> QED BY <1>4, <1>6, <1>7, <1>8

LEMMA FinalizeIs ==
  ASSUME NEW N, NEW E, GivenEdges(E), NEW g, Holding(g.nodes, g.edges, N, E),
         NEW r, r = FinalizeProjection(g)
  PROVE  /\ Holding(r.nodes, r.edges, N, E)
         /\ \/ r.answer = "refused" /\ ~ (NodesGood(N) /\ EdgesGood(E))
            \/ /\ r.answer = "finalized" /\ NodesGood(N) /\ EdgesGood(E)
               /\ Canonical(r.nodes, r.edges, N, E)
<1>1. PICK ns : ns = g.nodes
  OBVIOUS
<1>2. PICK es : es = g.edges
  OBVIOUS
<1>3. PICK stuck : stuck = {i \in DOMAIN es : Renamed(es[i]) /\ ~Nameable(es[i])}
  OBVIOUS
<1>4. PICK named : named = [i \in DOMAIN es |->
                             IF Renamed(es[i]) /\ \A j \in stuck : i < j
                               THEN [es[i] EXCEPT !.id = FinalId(es[i])] ELSE es[i]]
  OBVIOUS
<1>5. r = IF stuck = {} THEN Canonicalize(ns, named, "finalized")
          ELSE [nodes |-> ns, edges |-> named, answer |-> "refused"]
  BY <1>1, <1>2, <1>3, <1>4 DEF FinalizeProjection
<1>6. /\ ns \in Seq(NodeRecords) /\ Matches(ns, Cells(N), N, Itself(NodeRecords))
      /\ es \in Seq(EdgeRecords) /\ Matches(es, Cells(E), E, Versions)
  BY <1>1, <1>2 DEF Holding
<1>7. /\ named \in Seq(EdgeRecords) /\ Matches(named, Cells(E), E, Versions)
      /\ stuck = {} => Matches(named, Cells(E), E, FinalVersions)
      /\ stuck # {} => ~ EdgesGood(E)
  BY <1>3, <1>4, <1>6, NamingIs
<1>8. CASE stuck # {}
  <2>1. r.nodes = ns /\ r.edges = named /\ r.answer = "refused"
    BY <1>5, <1>8
  <2> QED BY <1>6, <1>7, <1>8, <2>1 DEF Holding
<1>9. CASE stuck = {}
  <2>1. r = Canonicalize(ns, named, "finalized")
    BY <1>5, <1>9
  <2>2. Matches(named, Cells(E), E, FinalVersions)
    BY <1>7, <1>9
  <2>3. Matches(r.nodes, Cells(N), N, Itself(NodeRecords)) /\ Matches(r.edges, Cells(E), E, Versions)
    BY <1>6, <1>7, <2>1, CanonicalizeMatches
  <2>4. /\ \/ /\ r.answer = "finalized" /\ NodesUnique(ns) /\ EdgesUnique(named)
              /\ ListsNodes(r.nodes, Range(ns)) /\ InKeyOrder(r.nodes)
              /\ ListsEdges(r.edges, Range(named)) /\ InEdgeOrder(r.edges, r.nodes)
           \/ r.answer = "refused" /\ ~ (NodesUnique(ns) /\ EdgesUnique(named))
        /\ r.nodes \in Seq(NodeRecords) /\ r.edges \in Seq(EdgeRecords)
    BY <1>6, <1>7, <2>1, CanonicalizeIs
  <2>5. /\ NodesUnique(ns) <=> NodesGood(N)
        /\ Range(ns) = {At(N, c) : c \in Cells(N)}
    BY <1>6, NodesJudged
  <2>6. /\ EdgesUnique(named) <=> EdgesGood(E)
        /\ Range(named) = {Named(At(E, c)) : c \in Cells(E)}
    BY <1>7, <2>2, NamedJudged
  <2>7. Holding(r.nodes, r.edges, N, E)
    BY <2>3, <2>4 DEF Holding
  <2> QED BY <2>4, <2>5, <2>6, <2>7 DEF Canonical
<1> QED BY <1>8, <1>9

-----------------------------------------------------------------------------
(* The cells of fragments handed over one after the other, or in another   *)
(* order.                                                                  *)

NodesOf(m) == [i \in DOMAIN m |-> Fragments[m[i]].nodes]
EdgesOf(m) == [i \in DOMAIN m |-> Fragments[m[i]].edges]

LEMMA BlocksAre ==
  ASSUME ProjectionAssumption, NEW m \in Seq(DOMAIN Fragments)
  PROVE  /\ NodesOf(m) \in Seq(Seq(NodeRecords)) /\ DOMAIN NodesOf(m) = 1..Len(m)
         /\ EdgesOf(m) \in Seq(Seq(EdgeRecords)) /\ DOMAIN EdgesOf(m) = 1..Len(m)
         /\ \A i \in 1..Len(m) : /\ NodesOf(m)[i] = Fragments[m[i]].nodes
                                 /\ EdgesOf(m)[i] = Fragments[m[i]].edges
         /\ GivenEdges(EdgesOf(m))
<1>1. PICK n \in Nat : n = Len(m) /\ DOMAIN m = 1..n /\ \A i \in 1..n : m[i] \in DOMAIN Fragments
  OBVIOUS
<1>2. ASSUME NEW f \in DOMAIN Fragments
      PROVE  Fragments[f].nodes \in Seq(NodeRecords) /\ Fragments[f].edges \in Seq(EdgeRecords)
  <2>1. PICK T : T = [nodes : Seq(NodeRecords), edges : Seq(EdgeRecords)]
    OBVIOUS
  <2>2. Fragments \in Seq(T)
    BY <2>1 DEF ProjectionAssumption
  <2>3. Fragments[f] \in T
    BY ONLY <2>2, f \in DOMAIN Fragments
  <2> QED BY <2>1, <2>3
<1>3. PICK N : N = NodesOf(m)
  OBVIOUS
<1>4. PICK E : E = EdgesOf(m)
  OBVIOUS
<1>5. /\ N = [i \in 1..n |-> Fragments[m[i]].nodes]
      /\ E = [i \in 1..n |-> Fragments[m[i]].edges]
  BY <1>1, <1>3, <1>4 DEF NodesOf, EdgesOf
<1>6. ASSUME NEW i \in 1..n
      PROVE  /\ N[i] = Fragments[m[i]].nodes /\ N[i] \in Seq(NodeRecords)
             /\ E[i] = Fragments[m[i]].edges /\ E[i] \in Seq(EdgeRecords)
             /\ m[i] \in DOMAIN Fragments
  <2>1. m[i] \in DOMAIN Fragments
    BY <1>1
  <2>2. Fragments[m[i]].nodes \in Seq(NodeRecords) /\ Fragments[m[i]].edges \in Seq(EdgeRecords)
    BY <1>2, <2>1
  <2>3. N[i] = Fragments[m[i]].nodes /\ E[i] = Fragments[m[i]].edges
    BY <1>5
  <2> QED BY <2>1, <2>2, <2>3
<1>7. N \in Seq(Seq(NodeRecords)) /\ E \in Seq(Seq(EdgeRecords))
  <2>1. N \in [1..n -> Seq(NodeRecords)] /\ E \in [1..n -> Seq(EdgeRecords)]
    BY <1>5, <1>6
  <2>2. ASSUME NEW T PROVE [1..n -> T] \subseteq Seq(T)
    BY ONLY n \in Nat, SeqDef
  <2> QED BY <2>1, <2>2
<1>8. ASSUME NEW c \in Cells(E)
      PROVE  /\ At(E, c) \in EdgeRecords
             /\ \E f \in Range(Fragments) : At(E, c) \in Range(f.edges)
  <2>1. DOMAIN E = 1..n
    BY <1>5
  <2>2. PICK i \in 1..n : i = c[1]
    BY <2>1 DEF Cells
  <2>3. PICK es \in Seq(EdgeRecords) : es = E[i]
    BY <1>6
  <2>4. PICK k \in DOMAIN es : k = c[2]
    BY <2>2, <2>3 DEF Cells
  <2>5. At(E, c) = es[k]
    BY <2>2, <2>3, <2>4 DEF At
  <2>6. PICK f : f = Fragments[m[i]]
    OBVIOUS
  <2>7. f \in Range(Fragments) /\ f.edges = es
    BY <1>6, <2>3, <2>6 DEF Range
  <2>8. es[k] \in Range(f.edges)
    BY <2>7 DEF Range
  <2>9. es[k] \in EdgeRecords
    BY <2>3
  <2> QED BY <2>5, <2>7, <2>8, <2>9
<1>9. ASSUME NEW c \in Cells(E), NEW d \in Cells(E) PROVE OneFallback(At(E, c), At(E, d))
  BY <1>8 DEF ProjectionAssumption, OneFallback
<1>10. GivenEdges(E)
  BY <1>8, <1>9 DEF GivenEdges
<1> QED BY <1>1, <1>3, <1>4, <1>5, <1>6, <1>7, <1>10

LEMMA MatchesAfter ==
  ASSUME NEW n \in Nat, NEW m \in Nat,
         NEW A, DOMAIN A = 1..n, NEW B, DOMAIN B = 1..m, NEW G, DOMAIN G = 1..(n + m),
         \A i \in 1..n : G[i] = A[i], \A i \in 1..m : G[n + i] = B[i],
         NEW X, NEW s \in Seq(X), NEW t \in Seq(X), NEW R,
         Matches(s, Cells(A), A, R), Matches(t, Cells(B), B, R)
  PROVE  Matches(s \o t, Cells(G), G, R)
<1>1. PICK k \in Nat, l \in Nat : k = Len(s) /\ l = Len(t)
  OBVIOUS
<1>2. PICK C : C = Cells(A)
  OBVIOUS
<1>3. PICK D : D = {c \in Cells(G) : c[1] > n}
  OBVIOUS
<1>4. \A c \in C : c[1] \in 1..n /\ c[2] \in DOMAIN A[c[1]] /\ c = <<c[1], c[2]>> /\ c[2] \in Nat
  BY <1>2 DEF Cells
<1>5. ASSUME NEW c \in C PROVE At(G, c) = At(A, c)
  BY <1>4 DEF At
<1>6. Matches(s, C, G, R)
  <2>1. PICK a : Pairs(a, s, C, A, R)
    BY <1>2 DEF Matches
  <2>2. /\ a \in [1..Len(s) -> C]
        /\ \A c \in C : \E i \in 1..Len(s) : a[i] = c
        /\ \A i, j \in 1..Len(s) : a[i] = a[j] => i = j
        /\ \A i \in 1..Len(s) : <<At(A, a[i]), s[i]>> \in R
    BY <2>1 DEF Pairs
  <2>3. \A i \in 1..Len(s) : At(G, a[i]) = At(A, a[i])
    BY <1>5, <2>2
  <2>4. \A i \in 1..Len(s) : <<At(G, a[i]), s[i]>> \in R
    BY <2>2, <2>3
  <2>5. Pairs(a, s, C, G, R)
    BY <2>2, <2>4 DEF Pairs
  <2> QED BY <2>5 DEF Matches
<1>7. PICK h : h = [c \in Cells(B) |-> <<n + c[1], c[2]>>]
  OBVIOUS
<1>8. ASSUME NEW c \in Cells(B)
      PROVE  /\ c = <<c[1], c[2]>> /\ c[1] \in 1..m /\ c[2] \in Nat
             /\ h[c] = <<n + c[1], c[2]>> /\ h[c] \in D /\ At(G, h[c]) = At(B, c)
  <2>1. PICK i \in 1..m, j \in Nat : c = <<i, j>> /\ j \in DOMAIN B[i]
    BY DEF Cells
  <2>2. h[c] = <<n + i, j>>
    BY <1>7, <2>1
  <2>3. G[n + i] = B[i] /\ n + i \in 1..(n + m) /\ n + i \in Nat /\ n + i > n
    BY <2>1
  <2>4. <<n + i, j>> \in D
    BY <1>3, <2>1, <2>3 DEF Cells
  <2>5. At(G, <<n + i, j>>) = At(B, <<i, j>>)
    BY <2>3 DEF At
  <2> QED BY <2>1, <2>2, <2>4, <2>5
<1>9. Carries(h, Cells(B), D)
  <2>1. h \in [Cells(B) -> D]
    BY <1>7, <1>8
  <2>2. ASSUME NEW d \in D PROVE \E c \in Cells(B) : h[c] = d
    <3>1. PICK i \in 1..(n + m), j \in Nat : d = <<i, j>> /\ j \in DOMAIN G[i] /\ i > n
      BY <1>3 DEF Cells
    <3>2. PICK q \in 1..m : i = n + q
      <4>1. i - n \in 1..m /\ i = n + (i - n)
        BY <3>1
      <4> QED BY <4>1
    <3>3. G[i] = B[q]
      BY <3>2
    <3>4. <<q, j>> \in Cells(B)
      BY <3>1, <3>3 DEF Cells
    <3>5. h[<<q, j>>] = d
      BY <1>7, <3>1, <3>2, <3>4
    <3> QED BY <3>4, <3>5
  <2>3. ASSUME NEW c \in Cells(B), NEW d \in Cells(B), h[c] = h[d] PROVE c = d
    <3>1. PICK i \in 1..m, j \in Nat : c = <<i, j>>
      BY <1>8
    <3>2. PICK p \in 1..m, q \in Nat : d = <<p, q>>
      BY <1>8
    <3>3. <<n + i, j>> = <<n + p, q>>
      BY <1>7, <2>3, <3>1, <3>2
    <3>4. n + i = n + p /\ j = q
      BY ONLY <3>3
    <3>5. i = p
      BY <3>4
    <3> QED BY <3>1, <3>2, <3>4, <3>5
  <2> QED BY <2>1, <2>2, <2>3 DEF Carries
<1>10. Matches(t, D, G, R)
  <2>1. \A c \in Cells(B), i \in 1..Len(t) : <<At(B, c), t[i]>> \in R => <<At(G, h[c]), t[i]>> \in R
    BY <1>8
  <2>2. Len(t) \in Nat /\ Len(t) = Len(t)
    OBVIOUS
  <2> QED BY <1>9, <2>1, <2>2, MatchesCarried
<1>11. \A c \in C : c \notin D
  BY <1>3, <1>4
<1>12. Matches(s \o t, C \cup D, G, R)
  BY <1>6, <1>10, <1>11, MatchesJoin
<1>13. C \cup D = Cells(G)
  <2>1. ASSUME NEW c \in C PROVE c \in Cells(G)
    <3>1. PICK i \in 1..n, j \in Nat : c = <<i, j>> /\ j \in DOMAIN A[i]
      BY <1>4
    <3>2. i \in 1..(n + m) /\ i \in Nat /\ G[i] = A[i]
      BY <3>1
    <3> QED BY <3>1, <3>2 DEF Cells
  <2>2. ASSUME NEW c \in Cells(G), c \notin D PROVE c \in C
    <3>1. PICK i \in 1..(n + m), j \in Nat : c = <<i, j>> /\ j \in DOMAIN G[i]
      BY DEF Cells
    <3>2. ~ (i > n)
      BY <1>3, <2>2, <3>1
    <3>3. i \in 1..n /\ i \in Nat
      BY <3>2
    <3>4. G[i] = A[i]
      BY <3>3
    <3> QED BY <1>2, <3>1, <3>3, <3>4 DEF Cells
  <2>3. D \subseteq Cells(G)
    BY <1>3
  <2> QED BY <2>1, <2>2, <2>3
<1> QED BY <1>12, <1>13

LEMMA MatchesPermuted ==
  ASSUME NEW n \in Nat, NEW A, DOMAIN A = 1..n, NEW B, DOMAIN B = 1..n,
         NEW at, Arranges(at, n), \A i \in 1..n : A[i] = B[at[i]],
         NEW s, Len(s) \in Nat, NEW R, Matches(s, Cells(A), A, R)
  PROVE  Matches(s, Cells(B), B, R)
<1>1. PICK h : h = [c \in Cells(A) |-> <<at[c[1]], c[2]>>]
  OBVIOUS
<1>2. \A i \in 1..n : at[i] \in 1..n
  BY DEF Arranges
<1>3. ASSUME NEW c \in Cells(A)
      PROVE  /\ c = <<c[1], c[2]>> /\ c[1] \in 1..n /\ c[2] \in Nat
             /\ h[c] = <<at[c[1]], c[2]>> /\ h[c] \in Cells(B) /\ At(B, h[c]) = At(A, c)
  <2>1. PICK i \in 1..n, j \in Nat : c = <<i, j>> /\ j \in DOMAIN A[i]
    BY DEF Cells
  <2>2. PICK k \in 1..n : k = at[i]
    BY <1>2
  <2>3. h[c] = <<k, j>>
    BY <1>1, <2>1, <2>2
  <2>4. A[i] = B[k] /\ k \in Nat
    BY <2>2
  <2>5. <<k, j>> \in Cells(B)
    BY <2>1, <2>4 DEF Cells
  <2>6. At(B, <<k, j>>) = At(A, <<i, j>>)
    BY <2>4 DEF At
  <2> QED BY <2>1, <2>2, <2>3, <2>5, <2>6
<1>4. Carries(h, Cells(A), Cells(B))
  <2>1. h \in [Cells(A) -> Cells(B)]
    BY <1>1, <1>3
  <2>2. ASSUME NEW d \in Cells(B) PROVE \E c \in Cells(A) : h[c] = d
    <3>1. PICK k \in 1..n, j \in Nat : d = <<k, j>> /\ j \in DOMAIN B[k]
      BY DEF Cells
    <3>2. PICK i \in 1..n : at[i] = k
      BY DEF Arranges
    <3>3. A[i] = B[k] /\ i \in Nat
      BY <3>2
    <3>4. <<i, j>> \in Cells(A)
      BY <3>1, <3>3 DEF Cells
    <3>5. h[<<i, j>>] = d
      BY <1>1, <3>1, <3>2, <3>4
    <3> QED BY <3>4, <3>5
  <2>3. ASSUME NEW c \in Cells(A), NEW d \in Cells(A), h[c] = h[d] PROVE c = d
    <3>1. PICK i \in 1..n, j \in Nat : c = <<i, j>>
      BY <1>3
    <3>2. PICK p \in 1..n, q \in Nat : d = <<p, q>>
      BY <1>3
    <3>3. <<at[i], j>> = <<at[p], q>>
      BY <1>1, <2>3, <3>1, <3>2
    <3>4. at[i] = at[p] /\ j = q
      BY ONLY <3>3
    <3>5. i = p
      BY <3>4 DEF Arranges
    <3> QED BY <3>1, <3>2, <3>4, <3>5
  <2> QED BY <2>1, <2>2, <2>3 DEF Carries
<1>5. \A c \in Cells(A), i \in 1..Len(s) : <<At(A, c), s[i]>> \in R => <<At(B, h[c]), s[i]>> \in R
  BY <1>3
<1>6. Len(s) = Len(s)
  OBVIOUS
<1> QED BY <1>4, <1>5, <1>6, MatchesCarried

-----------------------------------------------------------------------------
(* The inductive invariant.                                                *)

Held(r, m) == Holding(r.nodes, r.edges, NodesOf(m), EdgesOf(m))
Chosen(h) == [i \in DOMAIN h |-> Fragments[h[i]]]
Good(m) == NodesGood(NodesOf(m)) /\ EdgesGood(EdgesOf(m))

LEMMA MergeIs ==
  ASSUME ProjectionAssumption, NEW m \in Seq(DOMAIN Fragments), NEW h \in Seq(DOMAIN Fragments),
         NEW g, Held(g, m), NEW fs, fs = Chosen(h),
         NEW r, r = MergeParallel(g, fs)
  PROVE  /\ Held(r, m \o h)
         /\ \/ r.answer = "refused" /\ ~ Good(m \o h)
            \/ r.answer = "merged" /\ ListsNodes(r.nodes, Range(r.nodes)) /\ InKeyOrder(r.nodes)
<1>1. PICK M : M = m \o h
  OBVIOUS
<1>2. PICK k \in Nat, l \in Nat : k = Len(m) /\ l = Len(h)
  OBVIOUS
<1>3. /\ M \in Seq(DOMAIN Fragments) /\ Len(M) = k + l
      /\ \A i \in 1..k : M[i] = m[i]
      /\ \A i \in 1..l : M[k + i] = h[i]
  <2>1. /\ m \o h \in Seq(DOMAIN Fragments) /\ Len(m \o h) = Len(m) + Len(h)
        /\ \A i \in 1..(Len(m) + Len(h)) :
             (m \o h)[i] = IF i <= Len(m) THEN m[i] ELSE h[i - Len(m)]
    BY JoinIs
  <2>2. /\ M \in Seq(DOMAIN Fragments) /\ Len(M) = k + l
        /\ \A i \in 1..(k + l) : M[i] = IF i <= k THEN m[i] ELSE h[i - k]
    BY ONLY <2>1, <1>1, <1>2
  <2>3. ASSUME NEW i \in 1..k PROVE M[i] = m[i]
    <3>1. i \in 1..(k + l) /\ i <= k
      BY ONLY i \in 1..k, k \in Nat, l \in Nat
    <3> QED BY ONLY <2>2, <3>1
  <2>4. ASSUME NEW i \in 1..l PROVE M[k + i] = h[i]
    <3>1. k + i \in 1..(k + l) /\ ~ (k + i <= k) /\ (k + i) - k = i
      BY ONLY i \in 1..l, k \in Nat, l \in Nat
    <3>2. M[k + i] = IF k + i <= k THEN m[k + i] ELSE h[(k + i) - k]
      BY ONLY <2>2, <3>1
    <3> QED BY ONLY <3>1, <3>2
  <2> QED BY <2>2, <2>3, <2>4
<1>4. PICK A : A = NodesOf(m)
  OBVIOUS
<1>5. PICK B : B = NodesOf(h)
  OBVIOUS
<1>6. PICK G : G = NodesOf(M)
  OBVIOUS
<1>7. PICK AE : AE = EdgesOf(m)
  OBVIOUS
<1>8. PICK BE : BE = EdgesOf(h)
  OBVIOUS
<1>9. PICK GE : GE = EdgesOf(M)
  OBVIOUS
<1>10. /\ DOMAIN A = 1..k /\ DOMAIN AE = 1..k
       /\ \A i \in 1..k : A[i] = Fragments[m[i]].nodes /\ AE[i] = Fragments[m[i]].edges
  BY <1>2, <1>4, <1>7, BlocksAre
<1>11. /\ DOMAIN B = 1..l /\ DOMAIN BE = 1..l
       /\ \A i \in 1..l : B[i] = Fragments[h[i]].nodes /\ BE[i] = Fragments[h[i]].edges
       /\ B \in Seq(Seq(NodeRecords)) /\ BE \in Seq(Seq(EdgeRecords)) /\ GivenEdges(BE)
  BY <1>2, <1>5, <1>8, BlocksAre
<1>12. /\ DOMAIN G = 1..(k + l) /\ DOMAIN GE = 1..(k + l) /\ GivenEdges(GE)
       /\ \A i \in 1..(k + l) : G[i] = Fragments[M[i]].nodes /\ GE[i] = Fragments[M[i]].edges
  BY <1>3, <1>6, <1>9, BlocksAre
<1>13. \A i \in 1..k : G[i] = A[i] /\ GE[i] = AE[i]
  <2> SUFFICES ASSUME NEW i \in 1..k PROVE G[i] = A[i] /\ GE[i] = AE[i]
    OBVIOUS
  <2>1. i \in 1..(k + l)
    BY ONLY i \in 1..k, k \in Nat, l \in Nat
  <2>2. M[i] = m[i]
    BY ONLY <1>3, i \in 1..k
  <2>3. G[i] = Fragments[M[i]].nodes /\ GE[i] = Fragments[M[i]].edges
    BY ONLY <1>12, <2>1
  <2>4. A[i] = Fragments[m[i]].nodes /\ AE[i] = Fragments[m[i]].edges
    BY ONLY <1>10, i \in 1..k
  <2> QED BY ONLY <2>2, <2>3, <2>4
<1>14. \A i \in 1..l : G[k + i] = B[i] /\ GE[k + i] = BE[i]
  <2> SUFFICES ASSUME NEW i \in 1..l PROVE G[k + i] = B[i] /\ GE[k + i] = BE[i]
    OBVIOUS
  <2>1. k + i \in 1..(k + l)
    BY ONLY i \in 1..l, k \in Nat, l \in Nat
  <2>2. M[k + i] = h[i]
    BY ONLY <1>3, i \in 1..l
  <2>3. G[k + i] = Fragments[M[k + i]].nodes /\ GE[k + i] = Fragments[M[k + i]].edges
    BY ONLY <1>12, <2>1
  <2>4. B[i] = Fragments[h[i]].nodes /\ BE[i] = Fragments[h[i]].edges
    BY ONLY <1>11, i \in 1..l
  <2> QED BY ONLY <2>2, <2>3, <2>4
(* The lists that are joined.                                              *)
<1>15. /\ AllNodes(fs) = FlattenSeq(B) /\ AllEdges(fs) = FlattenSeq(BE)
  <2>1. DOMAIN fs = DOMAIN h /\ \A i \in DOMAIN h : fs[i] = Fragments[h[i]]
    BY DEF Chosen
  <2>2. [i \in DOMAIN fs |-> fs[i].nodes] = B
    BY <1>5, <2>1 DEF NodesOf
  <2>3. [i \in DOMAIN fs |-> fs[i].edges] = BE
    BY <1>8, <2>1 DEF EdgesOf
  <2> QED BY <2>2, <2>3 DEF AllNodes, AllEdges
<1>16. PICK new : new = FlattenSeq(B)
  OBVIOUS
<1>17. PICK es : es = FlattenSeq(BE)
  OBVIOUS
<1>18. PICK ensured : ensured = [i \in DOMAIN es |-> EnsureFallbackEdgeId(es[i])]
  OBVIOUS
<1>19. new \in Seq(NodeRecords) /\ Matches(new, Cells(B), B, Itself(NodeRecords))
  BY <1>11, <1>16, FlattenMatches
<1>20. es \in Seq(EdgeRecords) /\ Matches(es, Cells(BE), BE, Itself(EdgeRecords))
  BY <1>11, <1>17, FlattenMatches
<1>21. PICK e \in Nat : e = Len(es) /\ DOMAIN es = 1..e /\ \A i \in 1..e : es[i] \in EdgeRecords
  BY <1>20
<1>22. \A i \in 1..e : ensured[i] = EnsureFallbackEdgeId(es[i])
  BY <1>18, <1>21
<1>23. ASSUME NEW c \in Cells(BE), NEW i \in 1..e, <<At(BE, c), es[i]>> \in Itself(EdgeRecords)
       PROVE  <<At(BE, c), ensured[i]>> \in Versions
  <2>1. PICK f \in EdgeRecords : f = At(BE, c) /\ f = es[i]
    BY <1>23 DEF Itself
  <2>3. PICK v : v = EnsureFallbackEdgeId(f)
    OBVIOUS
  <2>4. v \in EdgeRecords
    BY <2>3, EnsuredIs
  <2>5. <<f, v>> \in Versions
    BY <2>3, <2>4 DEF Versions
  <2> QED BY <1>22, <2>1, <2>3, <2>5
<1>24. ensured \in Seq(EdgeRecords) /\ Len(ensured) = e
  <2>1. PICK a : Pairs(a, es, Cells(BE), BE, Itself(EdgeRecords))
    BY <1>20 DEF Matches
  <2>2. ASSUME NEW i \in 1..e PROVE ensured[i] \in EdgeRecords
    <3>1. a[i] \in Cells(BE) /\ <<At(BE, a[i]), es[i]>> \in Itself(EdgeRecords)
      BY <1>21, <2>1 DEF Pairs
    <3>2. <<At(BE, a[i]), ensured[i]>> \in Versions
      BY <1>23, <3>1
    <3> QED BY <3>2 DEF Versions
  <2>3. ensured = [i \in 1..e |-> ensured[i]]
    BY <1>18, <1>21
  <2>4. ensured \in [1..e -> EdgeRecords]
    BY <2>2, <2>3
  <2> QED BY <2>4
<1>25. Matches(ensured, Cells(BE), BE, Versions)
  <2>1. \A c \in Cells(BE), i \in 1..Len(es) :
          <<At(BE, c), es[i]>> \in Itself(EdgeRecords) => <<At(BE, c), ensured[i]>> \in Versions
    BY <1>21, <1>23
  <2>2. Len(es) \in Nat /\ Len(ensured) = Len(es)
    BY <1>21, <1>24
  <2> QED BY <1>20, <2>1, <2>2, MatchesMapped
<1>26. PICK old : old = g.nodes
  OBVIOUS
<1>27. PICK had : had = g.edges
  OBVIOUS
<1>28. /\ old \in Seq(NodeRecords) /\ Matches(old, Cells(A), A, Itself(NodeRecords))
       /\ had \in Seq(EdgeRecords) /\ Matches(had, Cells(AE), AE, Versions)
  BY <1>4, <1>7, <1>26, <1>27 DEF Held, Holding
<1>29. PICK ns : ns = old \o new
  OBVIOUS
<1>30. PICK xs : xs = had \o ensured
  OBVIOUS
<1>31. r = Canonicalize(ns, xs, "merged")
  BY <1>15, <1>16, <1>17, <1>18, <1>26, <1>27, <1>29, <1>30 DEF MergeParallel
<1>32. ns \in Seq(NodeRecords) /\ xs \in Seq(EdgeRecords)
  <2>1. old \o new \in Seq(NodeRecords)
    BY <1>19, <1>28, ConcatProperties
  <2>2. had \o ensured \in Seq(EdgeRecords)
    BY <1>24, <1>28, ConcatProperties
  <2> QED BY <1>29, <1>30, <2>1, <2>2
<1>33. Matches(ns, Cells(G), G, Itself(NodeRecords))
  <2>1. /\ DOMAIN A = 1..k /\ DOMAIN B = 1..l /\ DOMAIN G = 1..(k + l)
        /\ \A i \in 1..k : G[i] = A[i]
        /\ \A i \in 1..l : G[k + i] = B[i]
    BY <1>10, <1>11, <1>12, <1>13, <1>14
  <2>2. Matches(old \o new, Cells(G), G, Itself(NodeRecords))
    BY <1>19, <1>28, <2>1, MatchesAfter
  <2> QED BY <1>29, <2>2
<1>34. Matches(xs, Cells(GE), GE, Versions)
  <2>1. /\ DOMAIN AE = 1..k /\ DOMAIN BE = 1..l /\ DOMAIN GE = 1..(k + l)
        /\ \A i \in 1..k : GE[i] = AE[i]
        /\ \A i \in 1..l : GE[k + i] = BE[i]
    BY <1>10, <1>11, <1>12, <1>13, <1>14
  <2>2. Matches(had \o ensured, Cells(GE), GE, Versions)
    BY <1>24, <1>25, <1>28, <2>1, MatchesAfter
  <2> QED BY <1>30, <2>2
<1>35. Matches(r.nodes, Cells(G), G, Itself(NodeRecords)) /\ Matches(r.edges, Cells(GE), GE, Versions)
  BY <1>31, <1>32, <1>33, <1>34, CanonicalizeMatches
<1>36. /\ \/ /\ r.answer = "merged" /\ NodesUnique(ns) /\ EdgesUnique(xs)
             /\ ListsNodes(r.nodes, Range(ns)) /\ InKeyOrder(r.nodes)
          \/ r.answer = "refused" /\ ~ (NodesUnique(ns) /\ EdgesUnique(xs))
       /\ r.nodes \in Seq(NodeRecords) /\ r.edges \in Seq(EdgeRecords)
  BY <1>31, <1>32, CanonicalizeIs
<1>37. Held(r, M)
  BY <1>6, <1>9, <1>35, <1>36 DEF Held, Holding
<1>38. CASE r.answer = "refused" /\ ~ (NodesUnique(ns) /\ EdgesUnique(xs))
  <2>1. NodesGood(G) => NodesUnique(ns)
    BY <1>32, <1>33, NodesJudged
  <2>2. EdgesGood(GE) => EdgesUnique(xs)
    BY <1>12, <1>32, <1>34, EdgesJudged
  <2>3. ~ Good(M)
    BY <1>6, <1>9, <1>38, <2>1, <2>2 DEF Good
  <2> QED BY <1>1, <1>37, <1>38, <2>3
<1>39. CASE r.answer = "merged" /\ ListsNodes(r.nodes, Range(ns)) /\ InKeyOrder(r.nodes)
  <2>1. Range(r.nodes) = Range(ns)
    BY <1>39 DEF ListsNodes
  <2> QED BY <1>1, <1>37, <1>39, <2>1
<1> QED BY <1>36, <1>38, <1>39

(* What is so after any operation, whatever came before.                   *)
Stands(ns, es, answered, m) ==
  /\ m \in Seq(DOMAIN Fragments)
  /\ Holding(ns, es, NodesOf(m), EdgesOf(m))
  /\ answered = "refused" => ~ Good(m)
  /\ answered = "finalized" => Good(m) /\ Canonical(ns, es, NodesOf(m), EdgesOf(m))
  /\ answered = "merged" => ListsNodes(ns, Range(ns)) /\ InKeyOrder(ns)

ProjectionInv == Stands(nodes, edges, answer, merged)

LEMMA NothingHeld ==
  Holding(<<>>, <<>>, NodesOf(<<>>), EdgesOf(<<>>))
<1>1. Cells(NodesOf(<<>>)) = {} /\ Cells(EdgesOf(<<>>)) = {}
  BY DEF Cells, NodesOf, EdgesOf
<1>2. <<>> \in Seq(NodeRecords) /\ <<>> \in Seq(EdgeRecords)
  OBVIOUS
<1>3. ASSUME NEW B, NEW R PROVE Matches(<<>>, {}, B, R)
  <2>1. Pairs(<<>>, <<>>, {}, B, R)
    BY DEF Pairs
  <2> QED BY <2>1 DEF Matches
<1> QED BY <1>1, <1>2, <1>3 DEF Holding

LEMMA ProjectionStarts == ProjectionInit => ProjectionInv
<1> SUFFICES ASSUME ProjectionInit PROVE ProjectionInv
  OBVIOUS
<1>1. nodes = <<>> /\ edges = <<>> /\ answer = "none" /\ merged = <<>>
  BY DEF ProjectionInit
<1>2. <<>> \in Seq(DOMAIN Fragments)
  OBVIOUS
<1> QED BY <1>1, <1>2, NothingHeld DEF ProjectionInv, Stands

LEMMA ProjectionSteps == ProjectionInv /\ [ProjectionNext]_projectionVars => ProjectionInv'
<1> SUFFICES ASSUME ProjectionInv, [ProjectionNext]_projectionVars PROVE ProjectionInv'
  OBVIOUS
<1>1. /\ merged \in Seq(DOMAIN Fragments)
      /\ Holding(nodes, edges, NodesOf(merged), EdgesOf(merged))
  BY DEF ProjectionInv, Stands
<1>2. PICK g : g = Graph
  OBVIOUS
<1>3. g.nodes = nodes /\ g.edges = edges
  BY <1>2 DEF Graph
<1>4. Held(g, merged)
  BY <1>1, <1>3 DEF Held
<1>5. CASE Merge
  <2>1. PICK n \in 1 .. MaxMerged - Len(merged) : \E fs \in [1 .. n -> DOMAIN Fragments] :
          /\ Becomes(MergeParallel(Graph, [i \in 1 .. n |-> Fragments[fs[i]]]))
          /\ merged' = merged \o fs
    BY <1>5 DEF Merge
  <2>2. PICK h \in [1..n -> DOMAIN Fragments] :
          /\ Becomes(MergeParallel(Graph, [i \in 1 .. n |-> Fragments[h[i]]]))
          /\ merged' = merged \o h
    BY <2>1
  <2>3. n \in Nat
    OBVIOUS
  <2>4. h \in Seq(DOMAIN Fragments) /\ DOMAIN h = 1..n
    BY ONLY <2>3, h \in [1..n -> DOMAIN Fragments], SeqDef
  <2>5. PICK fs : fs = Chosen(h)
    OBVIOUS
  <2>6. PICK r : r = MergeParallel(g, fs)
    OBVIOUS
  <2>7. Becomes(r)
    BY <1>2, <2>2, <2>4, <2>5, <2>6 DEF Chosen
  <2>8. PICK M : M = merged \o h
    OBVIOUS
  <2>9. /\ Held(r, merged \o h)
        /\ \/ r.answer = "refused" /\ ~ Good(merged \o h)
           \/ r.answer = "merged" /\ ListsNodes(r.nodes, Range(r.nodes)) /\ InKeyOrder(r.nodes)
    <3>1. h \in Seq(DOMAIN Fragments)
      BY <2>4
    <3>2. merged \in Seq(DOMAIN Fragments)
      BY <1>1
    <3> QED BY ONLY <1>4, <2>5, <2>6, <3>1, <3>2, ProjectionAssumption, MergeIs
  <2>10. M \in Seq(DOMAIN Fragments)
    <3>1. merged \o h \in Seq(DOMAIN Fragments)
      BY <1>1, <2>4, ConcatProperties
    <3> QED BY <2>8, <3>1
  <2>11. /\ Holding(r.nodes, r.edges, NodesOf(M), EdgesOf(M))
         /\ \/ r.answer = "refused" /\ ~ Good(M)
            \/ r.answer = "merged" /\ ListsNodes(r.nodes, Range(r.nodes)) /\ InKeyOrder(r.nodes)
    BY <2>8, <2>9 DEF Held
  <2>12. Stands(r.nodes, r.edges, r.answer, M)
    BY <2>10, <2>11 DEF Stands
  <2>13. nodes' = r.nodes /\ edges' = r.edges /\ answer' = r.answer /\ merged' = M
    BY <2>2, <2>7, <2>8 DEF Becomes
  <2> QED BY <2>12, <2>13 DEF ProjectionInv
<1>6. CASE Finalize
  <2>1. PICK r : r = FinalizeProjection(g)
    OBVIOUS
  <2>2. nodes' = r.nodes /\ edges' = r.edges /\ answer' = r.answer /\ merged' = merged
    BY <1>2, <1>6, <2>1 DEF Finalize, Becomes
  <2>3. GivenEdges(EdgesOf(merged))
    BY <1>1, ProjectionAssumption, BlocksAre
  <2>4. Holding(g.nodes, g.edges, NodesOf(merged), EdgesOf(merged))
    BY <1>1, <1>3
  <2>5. /\ Holding(r.nodes, r.edges, NodesOf(merged), EdgesOf(merged))
        /\ \/ r.answer = "refused" /\ ~ (NodesGood(NodesOf(merged)) /\ EdgesGood(EdgesOf(merged)))
           \/ /\ r.answer = "finalized" /\ NodesGood(NodesOf(merged)) /\ EdgesGood(EdgesOf(merged))
              /\ Canonical(r.nodes, r.edges, NodesOf(merged), EdgesOf(merged))
    BY <2>1, <2>3, <2>4, FinalizeIs
  <2>6. Stands(r.nodes, r.edges, r.answer, merged)
    BY <1>1, <2>5 DEF Stands, Good
  <2> QED BY <2>2, <2>6 DEF ProjectionInv
<1>7. CASE UNCHANGED projectionVars
  BY <1>7 DEF projectionVars, ProjectionInv
<1> QED BY <1>5, <1>6, <1>7 DEF ProjectionNext

LEMMA ProjectionInductive == ProjectionSpec => []ProjectionInv
<1> QED BY ProjectionStarts, ProjectionSteps, PTL DEF ProjectionSpec

-----------------------------------------------------------------------------
(* All at once: the answer that the fragments have.                        *)

LEMMA AtOnceIs ==
  ASSUME merged \in Seq(DOMAIN Fragments), NEW r, r = AtOnce
  PROVE  \/ r.answer = "refused" /\ ~ Good(merged)
         \/ /\ r.answer = "finalized" /\ Good(merged)
            /\ Canonical(r.nodes, r.edges, NodesOf(merged), EdgesOf(merged))
<1>1. PICK n \in Nat : n = Len(merged) /\ DOMAIN merged = 1..n
  OBVIOUS
<1>2. \A i \in 1..n : merged[i] \in Nat
  <2>1. DOMAIN Fragments \subseteq Nat
    <3>1. PICK T : Fragments \in Seq(T)
      BY ProjectionAssumption DEF ProjectionAssumption
    <3> QED BY ONLY <3>1
  <2>2. \A i \in 1..n : merged[i] \in DOMAIN Fragments
    BY <1>1
  <2> QED BY <2>1, <2>2
<1>3. PICK before : before = {p \in (DOMAIN merged) \X (DOMAIN merged) : merged[p[1]] < merged[p[2]]}
  OBVIOUS
<1>4. PICK h : h = Sorted(merged, before)
  OBVIOUS
<1>5. PICK fs : fs = Chosen(h)
  OBVIOUS
<1>6. PICK none : none = [nodes |-> <<>>, edges |-> <<>>]
  OBVIOUS
<1>7. PICK g : g = MergeParallel(none, fs)
  OBVIOUS
<1>8. r = FinalizeProjection(g)
  BY <1>3, <1>4, <1>5, <1>6, <1>7 DEF AtOnce, Chosen
<1>9. ASSUME NEW i \in 1..n, NEW j \in 1..n
      PROVE  <<i, j>> \in Stably(n, before) <=>
               (merged[i] < merged[j] \/ (i < j /\ ~ (merged[j] < merged[i])))
  <2>1. /\ <<i, j>> \in before <=> merged[i] < merged[j]
        /\ <<j, i>> \in before <=> merged[j] < merged[i]
    BY <1>1, <1>3
  <2> QED BY <2>1 DEF Stably
<1>10. IsOrder(Stably(n, before), 1..n)
  <2>1. \A i \in 1..n : <<i, i>> \notin Stably(n, before)
    BY <1>2, <1>9
  <2>2. ASSUME NEW i \in 1..n, NEW j \in 1..n, NEW k \in 1..n,
               <<i, j>> \in Stably(n, before), <<j, k>> \in Stably(n, before)
        PROVE  <<i, k>> \in Stably(n, before)
    <3>1. PICK x \in Nat, y \in Nat, z \in Nat : x = merged[i] /\ y = merged[j] /\ z = merged[k]
      BY <1>2
    <3>2. /\ x < y \/ (i < j /\ ~ (y < x))
          /\ y < z \/ (j < k /\ ~ (z < y))
      BY <1>9, <2>2, <3>1
    <3>3. x < z \/ (i < k /\ ~ (z < x))
      BY <3>2
    <3> QED BY <1>9, <3>1, <3>3
  <2>3. ASSUME NEW i \in 1..n, NEW j \in 1..n, i # j
        PROVE  <<i, j>> \in Stably(n, before) \/ <<j, i>> \in Stably(n, before)
    <3>1. PICK x \in Nat, y \in Nat : x = merged[i] /\ y = merged[j]
      BY <1>2
    <3>2. \/ x < y \/ (i < j /\ ~ (y < x))
          \/ y < x \/ (j < i /\ ~ (x < y))
      BY <2>3
    <3> QED BY <1>9, <3>1, <3>2
  <2> QED BY <2>1, <2>2, <2>3 DEF IsOrder
<1>11. PICK at : Arranges(at, n) /\ Rearranged(h, merged, at)
  BY <1>1, <1>4, <1>10, SortedIs
<1>12. /\ h \in Seq(DOMAIN Fragments) /\ Len(h) = n /\ DOMAIN h = 1..n
       /\ \A i \in 1..n : at[i] \in 1..n /\ h[i] = merged[at[i]]
  BY <1>1, <1>11, RearrangedIs
<1>13. Held(g, h)
  <2>1. <<>> \in Seq(DOMAIN Fragments)
    OBVIOUS
  <2>2. Held(none, <<>>)
    BY <1>6, NothingHeld DEF Held
  <2>3. Held(g, <<>> \o h)
    BY <1>5, <1>7, <1>12, <2>1, <2>2, ProjectionAssumption, MergeIs
  <2>4. <<>> \o h = h
    BY <1>12, ConcatEmptySeq
  <2> QED BY <2>3, <2>4
<1>14. PICK A : A = NodesOf(h)
  OBVIOUS
<1>15. PICK B : B = NodesOf(merged)
  OBVIOUS
<1>16. PICK AE : AE = EdgesOf(h)
  OBVIOUS
<1>17. PICK BE : BE = EdgesOf(merged)
  OBVIOUS
<1>18. /\ DOMAIN A = 1..n /\ DOMAIN AE = 1..n
       /\ \A i \in 1..n : A[i] = Fragments[h[i]].nodes /\ AE[i] = Fragments[h[i]].edges
  BY <1>12, <1>14, <1>16, ProjectionAssumption, BlocksAre
<1>19. /\ DOMAIN B = 1..n /\ DOMAIN BE = 1..n /\ GivenEdges(BE)
       /\ \A i \in 1..n : B[i] = Fragments[merged[i]].nodes /\ BE[i] = Fragments[merged[i]].edges
  BY <1>1, <1>15, <1>17, ProjectionAssumption, BlocksAre
<1>20. \A i \in 1..n : A[i] = B[at[i]] /\ AE[i] = BE[at[i]]
  BY <1>12, <1>18, <1>19
<1>21. PICK ns : ns = g.nodes
  OBVIOUS
<1>22. PICK es : es = g.edges
  OBVIOUS
<1>23. /\ ns \in Seq(NodeRecords) /\ Matches(ns, Cells(A), A, Itself(NodeRecords))
       /\ es \in Seq(EdgeRecords) /\ Matches(es, Cells(AE), AE, Versions)
  BY <1>13, <1>14, <1>16, <1>21, <1>22 DEF Held, Holding
<1>24. Len(ns) \in Nat /\ Len(es) \in Nat
  BY <1>23
<1>25. Matches(ns, Cells(B), B, Itself(NodeRecords))
  <2>1. DOMAIN A = 1..n /\ DOMAIN B = 1..n /\ \A i \in 1..n : A[i] = B[at[i]]
    BY <1>18, <1>19, <1>20
  <2> QED BY <1>11, <1>23, <1>24, <2>1, MatchesPermuted
<1>26. Matches(es, Cells(BE), BE, Versions)
  <2>1. DOMAIN AE = 1..n /\ DOMAIN BE = 1..n /\ \A i \in 1..n : AE[i] = BE[at[i]]
    BY <1>18, <1>19, <1>20
  <2> QED BY <1>11, <1>23, <1>24, <2>1, MatchesPermuted
<1>27. Holding(g.nodes, g.edges, B, BE)
  BY <1>21, <1>22, <1>23, <1>25, <1>26 DEF Holding
<1>28. \/ r.answer = "refused" /\ ~ (NodesGood(B) /\ EdgesGood(BE))
       \/ /\ r.answer = "finalized" /\ NodesGood(B) /\ EdgesGood(BE)
          /\ Canonical(r.nodes, r.edges, B, BE)
  BY <1>8, <1>19, <1>27, FinalizeIs
<1> QED BY <1>15, <1>17, <1>28 DEF Good

LEMMA ArrivalHidden == ProjectionInv => ArrivalIsInvisible
<1> SUFFICES ASSUME ProjectionInv PROVE ArrivalIsInvisible
  OBVIOUS
<1>1. /\ merged \in Seq(DOMAIN Fragments)
      /\ answer = "refused" => ~ Good(merged)
      /\ answer = "finalized" =>
           Good(merged) /\ Canonical(nodes, edges, NodesOf(merged), EdgesOf(merged))
  BY DEF ProjectionInv, Stands
<1>2. PICK r : r = AtOnce
  OBVIOUS
<1>3. \/ r.answer = "refused" /\ ~ Good(merged)
      \/ /\ r.answer = "finalized" /\ Good(merged)
         /\ Canonical(r.nodes, r.edges, NodesOf(merged), EdgesOf(merged))
  BY <1>1, <1>2, AtOnceIs
<1>4. answer \in {"finalized", "refused"} => r.answer = answer
  BY <1>1, <1>3
<1>5. ASSUME answer = "finalized" PROVE nodes = r.nodes /\ edges = r.edges
  BY <1>1, <1>3, <1>5, CanonicalOnce
<1> QED BY <1>2, <1>4, <1>5 DEF ArrivalIsInvisible

LEMMA PreorderHolds ==
  ASSUME NEW S, ListsNodes(nodes, S), InKeyOrder(nodes)
  PROVE  NodesComeInPreorder
<1>1. PICK l \in Nat : DOMAIN nodes = 1..l
  BY DEF ListsNodes
<1>2. ASSUME NEW j \in 1..l, NEW i \in 1..(j - 1), NEW m, m = nodes[i], NEW n, n = nodes[j],
             ~ InCircle(m), ~ InCircle(n), m \notin Lineage(n)
      PROVE  \E a \in Lineage(m) \ Lineage(n), b \in Lineage(n) \ Lineage(m) :
               /\ Lineage(a) \ {a} = Lineage(b) \ {b}
               /\ IsBefore(Sign(a), Sign(b))
  <2>1. i \in 1..l /\ i < j
    OBVIOUS
  <2>2. m \in S /\ n \in S
    BY <1>1, <1>2, <2>1 DEF ListsNodes
  <2>3. KeyIsBefore(NodeOrderKey(m, nodes), NodeOrderKey(n, nodes))
    BY <1>1, <1>2, <2>1 DEF InKeyOrder
  <2>4. ASSUME NEW x \in S, ~ InCircle(x) PROVE Topped(Chain(x, nodes), S)
    <3>1. PICK p : p = Chain(x, nodes)
      OBVIOUS
    <3>2. AtTop(p, S)
      BY <3>1, NodeKeyIs
    <3>3. Last(p) = p[Len(p)]
      BY DEF Last
    <3>4. \A y \in Range(p) : y.id # Last(p).parent
      BY <2>4, <3>1 DEF InCircle, Lineage
    <3> QED BY <3>1, <3>2, <3>3, <3>4 DEF AtTop, Topped
  <2>5. Topped(Chain(m, nodes), S) /\ Topped(Chain(n, nodes), S)
    BY <1>2, <2>2, <2>4
  <2>6. m \notin Range(Chain(n, nodes))
    BY <1>2 DEF Lineage
  <2>7. \E a \in Range(Chain(m, nodes)) \ Range(Chain(n, nodes)),
           b \in Range(Chain(n, nodes)) \ Range(Chain(m, nodes)) :
          /\ Range(Chain(a, nodes)) \ {a} = Range(Chain(b, nodes)) \ {b}
          /\ IsBefore(Sign(a), Sign(b))
    BY <2>2, <2>3, <2>5, <2>6, KeysPart
  <2> QED BY <2>7 DEF Lineage
<1> QED BY <1>1, <1>2 DEF NodesComeInPreorder, Sign

(* Merged in any order and any groups, with whatever was refused or        *)
(* finalized on the way, any fragments give the answer and the graph of    *)
(* merging them all at once, and its nodes come as a document is read.     *)
THEOREM ProjectionIsCanonicalHolds == ProjectionSpec => []ProjectionIsCanonical
<1>1. ProjectionInv => ProjectionIsCanonical
  <2> SUFFICES ASSUME ProjectionInv PROVE ProjectionIsCanonical
    OBVIOUS
  <2>1. ArrivalIsInvisible
    BY ArrivalHidden
  <2>2. ASSUME answer \in {"merged", "finalized"} PROVE NodesComeInPreorder
    <3>1. \E S : ListsNodes(nodes, S) /\ InKeyOrder(nodes)
      BY <2>2 DEF ProjectionInv, Stands, Canonical
    <3> QED BY <3>1, PreorderHolds
  <2>3. CASE answer \notin {"merged", "finalized"}
    BY <2>1, <2>3 DEF NodesComeInPreorder, ProjectionIsCanonical
  <2> QED BY <2>1, <2>2, <2>3 DEF ProjectionIsCanonical
<1> QED BY <1>1, ProjectionInductive, PTL
=============================================================================
