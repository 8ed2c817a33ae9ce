----------------------- MODULE TemporaryStorageProofs -----------------------
(***************************************************************************)
(* Proofs about TemporaryStorage, for any number of writers, names and     *)
(* lengths, any limit and any counter width, and about RepositoryTraversal *)
(* for any tree, options and changes: both work on files that others may   *)
(* change between two steps.                                               *)
(***************************************************************************)
EXTENDS TemporaryStorage, RepositoryTraversal, FiniteSetTheorems, SequenceTheorems,
        WellFoundedInduction, TLAPS

Modulus == MaxU64 + 1

(* The remainder is the only number below the modulus that is left over.   *)
LEMMA RemainderUnique ==
  ASSUME NEW m \in Nat \ {0}, NEW k \in Nat, NEW s \in 0..(m - 1)
  PROVE  (m * k + s) % m = s
  <1> DEFINE n == m * k + s
             d == (n \div m) - k
  <1>1. /\ n \in Nat /\ n \div m \in Nat /\ n % m \in 0..(m - 1)
        /\ n = m * (n \div m) + (n % m)
    OBVIOUS
  <1>2. d \in Int /\ m * d = s - (n % m)
    BY <1>1
  <1>3. \A e \in Int : (e >= 1 => m * e >= m) /\ (e <= -1 => m * e <= -m)
    OBVIOUS
  <1>4. d = 0
    <2> HIDE DEF d
    <2>1. ~ d >= 1 /\ ~ d <= -1
      BY <1>1, <1>2, <1>3
    <2> QED BY <1>2, <2>1
  <1>5. m * d = 0
    BY <1>4
  <1> QED BY <1>1, <1>2, <1>5

(* The wrap of a sum does not depend on when it is applied.                *)
LEMMA WrapOfWrapped ==
  ASSUME NEW m \in Nat \ {0}, NEW a \in Nat, NEW b \in Nat
  PROVE  ((a % m) + b) % m = (a + b) % m
  <1> DEFINE q == a \div m   r == a % m
             p == (r + b) \div m   s == (r + b) % m
  <1>1. /\ q \in Nat /\ r \in 0..(m - 1) /\ a = m * q + r
        /\ p \in Nat /\ s \in 0..(m - 1) /\ r + b = m * p + s
    OBVIOUS
  <1>2. a + b = m * (p + q) + s
    BY <1>1
  <1>3. p + q \in Nat
    BY <1>1
  <1> HIDE DEF p, q, r, s
  <1>4. (a + b) % m = s
    BY <1>1, <1>2, <1>3, RemainderUnique
  <1> QED BY <1>4 DEF s, r

(* Taking back what was added undoes the addition, wrap or not.            *)
LEMMA WrapOfReturned ==
  ASSUME NEW m \in Nat \ {0}, NEW a \in Nat, NEW b \in 0..(m - 1)
  PROVE  (((a + b) % m) + m - b) % m = a % m
  <1>1. m - b \in Nat /\ a + b \in Nat
    OBVIOUS
  <1>2. (((a + b) % m) + (m - b)) % m = ((a + b) + (m - b)) % m
    BY <1>1, WrapOfWrapped
  <1>3. (a + b) + (m - b) = a + m
    OBVIOUS
  <1>4. ((a % m) + m) % m = (a + m) % m
    BY WrapOfWrapped
  <1>5. a % m \in 0..(m - 1)
    OBVIOUS
  <1>6. ((a % m) + m) % m = a % m
    <2>1. m * 1 + (a % m) = (a % m) + m
      BY <1>5
    <2> QED BY <1>5, <2>1, RemainderUnique
  <1>7. ((a + b) % m) \in Int
    OBVIOUS
  <1>8. ((a + b) % m) + (m - b) = ((a + b) % m) + m - b
    BY <1>7
  <1> QED BY <1>2, <1>3, <1>4, <1>6, <1>8

-----------------------------------------------------------------------------
(* n units of one owner, added to units of others.                         *)
LEMMA AddUnits ==
  ASSUME NEW S, IsFiniteSet(S), NEW x, NEW n \in Nat,
         \A k \in 1..n : <<x, k>> \notin S
  PROVE  /\ IsFiniteSet(S \cup ({x} \X (1..n)))
         /\ Cardinality(S \cup ({x} \X (1..n))) = Cardinality(S) + n
  <1>1. IsFiniteSet(1..n) /\ Cardinality(1..n) = n
    <2>1. IsFiniteSet(1..n) /\ Cardinality(1..n) = IF 1 > n THEN 0 ELSE n - 1 + 1
      BY FS_Interval, 1 \in Int, n \in Int
    <2> QED BY <2>1
  <1>2. IsFiniteSet({x}) /\ Cardinality({x}) = 1
    BY FS_Singleton
  <1>3. IsFiniteSet({x} \X (1..n)) /\ Cardinality({x} \X (1..n)) = n
    <2>1. /\ IsFiniteSet({x} \X (1..n))
          /\ Cardinality({x} \X (1..n)) = Cardinality({x}) * Cardinality(1..n)
      BY <1>1, <1>2, FS_Product
    <2> QED BY <1>1, <1>2, <2>1
  <1>4. S \cap ({x} \X (1..n)) = {}
    OBVIOUS
  <1>5. Cardinality(S) \in Nat /\ Cardinality({}) = 0
    BY FS_CardinalityType, FS_EmptySet
  <1>6. /\ IsFiniteSet(S \cup ({x} \X (1..n)))
        /\ Cardinality(S \cup ({x} \X (1..n))) =
             Cardinality(S) + Cardinality({x} \X (1..n))
                 - Cardinality(S \cap ({x} \X (1..n)))
    BY <1>3, FS_Union
  <1>7. Cardinality(S \cap ({x} \X (1..n))) = 0
    BY <1>4, <1>5
  <1> QED BY <1>3, <1>5, <1>6, <1>7

(* There are finitely many units, whoever owns them.                       *)
LEMMA UnitsFinite ==
  /\ \A S \in SUBSET (Writers \X (1..MaxLength)) :
       IsFiniteSet(S) /\ Cardinality(S) \in Nat
  /\ \A S \in SUBSET (Names \X (1..MaxLength)) :
       IsFiniteSet(S) /\ Cardinality(S) \in Nat
  <1>1. IsFiniteSet(1..MaxLength)
    <2>1. MaxLength \in Int
      BY TemporaryStorageAssumption
    <2> QED BY <2>1, FS_Interval
  <1>2. /\ IsFiniteSet(Writers \X (1..MaxLength))
        /\ IsFiniteSet(Names \X (1..MaxLength))
    BY <1>1, FS_Product, TemporaryStorageAssumption
  <1> QED BY <1>2, FS_Subset, FS_CardinalityType

LEMMA UnitsTyped ==
  /\ ReservedUnits \in SUBSET (Writers \X (1..MaxLength))
  /\ CompleteUnits \in SUBSET (Names \X (1..MaxLength))
  /\ DiskUnits \in SUBSET (Names \X (1..MaxLength))
  /\ ReservedUnits' \in SUBSET (Writers \X (1..MaxLength))
  /\ CompleteUnits' \in SUBSET (Names \X (1..MaxLength))
  BY DEF ReservedUnits, CompleteUnits, DiskUnits

LEMMA ReservedTyped == Reserved \in Nat /\ Reserved' \in Nat
  BY UnitsFinite, UnitsTyped DEF Reserved

(* A writer that starts to hold its reservation adds its length.           *)
LEMMA HoldingAdds ==
  ASSUME TypeOK, NEW w \in Writers, pc[w] \notin Holding,
         pc' = [pc EXCEPT ![w] = "create"], job' = job
  PROVE  Cardinality(ReservedUnits') = Cardinality(ReservedUnits) + job[w].length
  <1> DEFINE n == job[w].length
  <1>1. n \in Nat /\ n <= MaxLength
    BY TemporaryStorageAssumption DEF TypeOK, Lengths
  <1>2. ReservedUnits' = ReservedUnits \cup ({w} \X (1..n))
    <2>1. ASSUME NEW v \in Writers, NEW k \in 1..MaxLength
          PROVE  <<v, k>> \in ReservedUnits' <=>
                   <<v, k>> \in ReservedUnits \/ (v = w /\ k \in 1..n)
      BY <1>1 DEF ReservedUnits, TypeOK, Holding
    <2>2. {w} \X (1..n) \subseteq Writers \X (1..MaxLength)
      BY <1>1, TemporaryStorageAssumption
    <2> QED BY <2>1, <2>2, UnitsTyped
  <1>3. \A k \in 1..n : <<w, k>> \notin ReservedUnits
    BY DEF ReservedUnits
  <1>4. IsFiniteSet(ReservedUnits)
    BY UnitsFinite, UnitsTyped
  <1> QED BY <1>1, <1>2, <1>3, <1>4, AddUnits

(* A writer whose call returns stops holding it.                           *)
LEMMA ReturnSubtracts ==
  ASSUME TypeOK, NEW w \in Writers, pc[w] \in Holding, Return(w)
  PROVE  Cardinality(ReservedUnits) = Cardinality(ReservedUnits') + job[w].length
  <1> DEFINE n == job[w].length
  <1>1. n \in Nat /\ n <= MaxLength
    BY TemporaryStorageAssumption DEF TypeOK, Lengths
  <1>2. ReservedUnits = ReservedUnits' \cup ({w} \X (1..n))
    <2>1. ASSUME NEW v \in Writers, NEW k \in 1..MaxLength
          PROVE  <<v, k>> \in ReservedUnits <=>
                   <<v, k>> \in ReservedUnits' \/ (v = w /\ k \in 1..n)
      BY <1>1 DEF ReservedUnits, TypeOK, Holding, Return
    <2>2. {w} \X (1..n) \subseteq Writers \X (1..MaxLength)
      BY <1>1, TemporaryStorageAssumption
    <2> QED BY <2>1, <2>2, UnitsTyped
  <1>3. \A k \in 1..n : <<w, k>> \notin ReservedUnits'
    BY DEF ReservedUnits, Return, TypeOK, Holding
  <1>4. IsFiniteSet(ReservedUnits')
    BY UnitsFinite, UnitsTyped
  <1> QED BY <1>1, <1>2, <1>3, <1>4, AddUnits

(* Between those two moments it stays what it is.                          *)
LEMMA HoldingKeeps ==
  ASSUME TypeOK, NEW w \in Writers, NEW next \in Phases, job' = job,
         pc' = [pc EXCEPT ![w] = next], pc[w] \in Holding <=> next \in Holding
  PROVE  ReservedUnits' = ReservedUnits
  <1>1. ASSUME NEW u \in Writers \X (1..MaxLength)
        PROVE  u \in ReservedUnits' <=> u \in ReservedUnits
    BY DEF ReservedUnits, TypeOK, Holding
  <1> QED BY <1>1, UnitsTyped

(* A call that returns without a reservation changes nothing either.       *)
LEMMA ReturnKeeps ==
  ASSUME TypeOK, NEW w \in Writers, pc[w] \notin Holding, Return(w)
  PROVE  ReservedUnits' = ReservedUnits
  <1>1. ASSUME NEW u \in Writers \X (1..MaxLength)
        PROVE  u \in ReservedUnits' <=> u \in ReservedUnits
    BY DEF ReservedUnits, TypeOK, Holding, Return
  <1> QED BY <1>1, UnitsTyped

(* The completed files count as long as nobody touches them.               *)
LEMMA CompleteKeeps ==
  ASSUME complete' = complete, \A n \in complete : disk'[n] = disk[n]
  PROVE  CompleteUnits' = CompleteUnits
  BY DEF CompleteUnits

-----------------------------------------------------------------------------
LEMMA StepTyped ==
  ASSUME TypeOK, WritingInv, [Next]_vars
  PROVE  TypeOK'
  <1> USE DEF Lengths
  <1>0. /\ MaxU64 \in Nat /\ MaxLength \in Nat /\ MaxLength <= MaxU64
        /\ Marker \in Names
    BY TemporaryStorageAssumption
  <1>1. \A w \in Writers : /\ job[w].length \in Nat /\ job[w].name \in Names
                           /\ job[w].length <= MaxLength
    BY <1>0 DEF TypeOK
  <1>2. CASE UNCHANGED vars
    BY <1>2 DEF vars, storage, history, TypeOK
  <1>3. ASSUME CleanupBody, UNCHANGED <<limit, retention, used, peak, pc, job, seen>>,
               owned' \in BOOLEAN
        PROVE  TypeOK'
    <2>1. CASE UNCHANGED <<directory, live, disk, history>>
      BY <1>3, <2>1 DEF history, TypeOK
    <2>2. CASE RemoveDirectory
      <3>1. PICK gone \in SUBSET DOMAIN disk : RemoveFiles(gone)
        BY <2>2 DEF RemoveDirectory
      <3>2. DOMAIN disk' \subseteq DOMAIN disk /\ \A n \in DOMAIN disk' : disk'[n] = disk[n]
        BY <3>1 DEF RemoveFiles, Without
      <3>3. complete' \subseteq DOMAIN disk' /\ leftover' \subseteq DOMAIN disk' \ complete'
        BY <3>1 DEF RemoveFiles, Without, TypeOK
      <3>4. lost' \in 0..MaxU64
        <4>1. {u \in CompleteUnits : u[1] \in gone} \in SUBSET (Names \X (1..MaxLength))
          BY UnitsTyped
        <4>2. Cardinality({u \in CompleteUnits : u[1] \in gone}) \in Nat
          BY <4>1, UnitsFinite
        <4> QED BY <1>0, <3>1, <4>2 DEF RemoveFiles, TypeOK
      <3> QED BY <1>3, <2>2, <3>2, <3>3, <3>4 DEF RemoveDirectory, TypeOK
    <2> QED BY <1>3, <2>1, <2>2 DEF CleanupBody
  <1>4. CASE Cleanup
    BY <1>3, <1>4 DEF Cleanup, TypeOK
  <1>5. CASE Drop
    <2>1. CASE retention = "delete_on_drop"
      BY <1>3, <1>5, <2>1 DEF Drop
    <2>2. CASE retention # "delete_on_drop"
      BY <1>5, <2>2 DEF Drop, history, TypeOK
    <2> QED BY <2>1, <2>2
  <1>6. ASSUME NEW w \in Writers, WriteStep(w)
        PROVE  TypeOK'
    <2>0. Return(w) => /\ pc' \in [Writers -> Phases]
                       /\ job' \in [Writers -> [name : Names, length : Lengths]]
                       /\ seen' \in [Writers -> 0..MaxU64]
      BY <1>0 DEF Return, NoJob, TypeOK, Phases
    <2>1. CASE BeginWrite(w)
      <3>1. PICK n \in Names, length \in Lengths :
              /\ peak' = IF length > peak THEN length ELSE peak
              /\ IF peak' <= BudgetLimit
                 THEN /\ pc' = [pc EXCEPT ![w] = "load"]
                      /\ job' = [job EXCEPT ![w] = [name |-> n, length |-> length]]
                      /\ UNCHANGED seen
                 ELSE Return(w)
        BY <2>1 DEF BeginWrite
      <3>2. peak' \in Lengths
        BY <3>1 DEF TypeOK
      <3>3. /\ pc' \in [Writers -> Phases] /\ seen' \in [Writers -> 0..MaxU64]
            /\ job' \in [Writers -> [name : Names, length : Lengths]]
        BY <2>0, <3>1 DEF TypeOK, Phases
      <3> QED BY <2>1, <3>2, <3>3 DEF BeginWrite, storage, history, TypeOK
    <2>2. CASE Load(w)
      <3>1. Added(job[w].length) \in 0..MaxU64
        BY <1>0, <1>1 DEF Added, TypeOK
      <3> QED BY <2>2, <3>1 DEF Load, Goto, storage, history, TypeOK, Phases
    <2>3. CASE Refuse(w)
      BY <2>0, <2>3 DEF Refuse, storage, history, TypeOK
    <2>4. CASE Reserve(w)
      <3>1. used' \in 0..MaxU64
        BY <1>0, <1>1, <2>4 DEF Reserve, Fits, TypeOK
      <3> QED BY <2>4, <3>1 DEF Reserve, Goto, storage, history, TypeOK, Phases
    <2>5. CASE Retry(w)
      BY <2>5 DEF Retry, storage, history, TypeOK
    <2>6. CASE CreateFile(w)
      <3>1. /\ DOMAIN disk \subseteq DOMAIN disk' /\ DOMAIN disk' \subseteq Names
            /\ \A n \in DOMAIN disk' : disk'[n] \in Lengths
        BY <1>0, <1>1, <2>6 DEF CreateFile, Put, TypeOK
      <3> QED BY <2>6, <3>1 DEF CreateFile, Goto, storage, history, TypeOK, Phases
    <2>7. CASE WriteAll(w)
      <3>1. /\ DOMAIN disk' = DOMAIN disk \cup {job[w].name}
            /\ \A n \in DOMAIN disk' : disk'[n] \in Lengths
            /\ job[w].name \notin leftover
        BY <1>0, <1>1, <2>7 DEF WriteAll, Put, TypeOK, WritingInv, Writing
      <3> QED BY <1>1, <2>0, <2>7, <3>1 DEF WriteAll, storage, history, TypeOK
    <2>8. CASE WriteFails(w)
      <3>1. /\ DOMAIN disk' = DOMAIN disk \cup {job[w].name}
            /\ \A n \in DOMAIN disk' : disk'[n] \in Lengths
        BY <1>0, <1>1, <2>8 DEF WriteFails, Put, TypeOK
      <3> QED BY <1>1, <2>8, <3>1 DEF WriteFails, Goto, storage, history, TypeOK, Phases
    <2>9. CASE RemovePartial(w)
      <3>1. job[w].name \in DOMAIN disk \ (complete \cup leftover)
        BY <2>9 DEF RemovePartial, WritingInv, Writing
      <3>2. /\ complete \subseteq DOMAIN disk' /\ DOMAIN disk' \subseteq DOMAIN disk
            /\ leftover' \subseteq DOMAIN disk' \ complete
            /\ \A n \in DOMAIN disk' : disk'[n] = disk[n]
        BY <2>9, <3>1 DEF RemovePartial, Without, TypeOK
      <3> QED BY <2>9, <3>2 DEF RemovePartial, Goto, storage, history, TypeOK, Phases
    <2>10. CASE Release(w)
      <3>1. Subtracted(job[w].length) \in 0..MaxU64
        BY <1>0, <1>1 DEF Subtracted, TypeOK
      <3> QED BY <2>0, <2>10, <3>1 DEF Release, storage, history, TypeOK
    <2> QED BY <1>6, <2>1, <2>2, <2>3, <2>4, <2>5, <2>6, <2>7, <2>8, <2>9, <2>10
        DEF WriteStep
  <1> QED BY <1>2, <1>4, <1>5, <1>6 DEF Next

-----------------------------------------------------------------------------
(* A writer touches only the file it owns.                                 *)
LEMMA WriterOwnsItsFile ==
  ASSUME TypeOK, WritingInv, NEW w \in Writers, WriteStep(w)
  PROVE  \A n \in complete : disk'[n] = disk[n]
  BY DEF TypeOK, WritingInv, Writing, WriteStep, BeginWrite, Load, Refuse, Reserve,
     Retry, CreateFile, MayCreate, WriteAll, WriteFails, RemovePartial, Release,
     Put, Without

(* Only one writer's phase and job change in its step.                     *)
LEMMA OthersUndisturbed ==
  ASSUME TypeOK, NEW w \in Writers, WriteStep(w)
  PROVE  \A v \in Writers \ {w} : pc'[v] = pc[v] /\ job'[v] = job[v]
  BY DEF TypeOK, WriteStep, BeginWrite, Load, Refuse, Reserve, Retry, CreateFile,
     WriteAll, WriteFails, RemovePartial, Release, Return, Goto

LEMMA StepWriting ==
  ASSUME TypeOK, WritingInv, [Next]_vars
  PROVE  WritingInv'
  <1>0. /\ MaxLength \in Nat
        /\ \A w \in Writers : /\ job[w].length \in Nat /\ job[w].name \in Names
    BY TemporaryStorageAssumption DEF TypeOK, Lengths
  <1>1. CASE UNCHANGED vars
    BY <1>1 DEF vars, storage, history, WritingInv, Writing
  <1>2. CASE Cleanup \/ Drop
    BY <1>2 DEF Cleanup, Drop, Exclusive, WritingInv, Writing
  <1>3. ASSUME NEW w \in Writers, WriteStep(w)
        PROVE  WritingInv'
    <2>1. \A v \in Writers \ {w} : pc'[v] = pc[v] /\ job'[v] = job[v]
      BY <1>3, OthersUndisturbed
    <2>2. \A v \in Writing \ {w} : /\ job[v].name \in DOMAIN disk \ (complete \cup leftover)
                                   /\ disk[job[v].name] <= job[v].length
                                   /\ w \in Writing => job[v].name # job[w].name
      BY DEF WritingInv, Writing
    <2>3. /\ w \in Writing' =>
               /\ job'[w].name \in DOMAIN disk' \ (complete' \cup leftover')
               /\ disk'[job'[w].name] <= job'[w].length
               /\ \A v \in Writing \ {w} : job[v].name # job'[w].name
          /\ \A v \in Writing \ {w} : /\ job[v].name \in DOMAIN disk' \ (complete' \cup leftover')
                                      /\ disk'[job[v].name] = disk[job[v].name]
      <3>1. CASE BeginWrite(w) \/ Load(w) \/ Refuse(w) \/ Reserve(w) \/ Retry(w)
                 \/ Release(w)
        BY <2>2, <3>1 DEF TypeOK, Writing, BeginWrite, Load, Refuse, Reserve, Retry,
           Release, Return, Goto, history
      <3>2. CASE CreateFile(w)
        <4>1. CASE Goto(w, "release") /\ UNCHANGED disk
          BY <2>2, <3>2, <4>1 DEF TypeOK, Writing, CreateFile, Goto, history
        <4>2. CASE MayCreate(w) /\ disk' = Put(disk, job[w].name, 0)
          BY <1>0, <2>2, <3>2, <4>2
          DEF TypeOK, Writing, CreateFile, MayCreate, Goto, Put, history
        <4> QED BY <3>2, <4>1, <4>2 DEF CreateFile
      <3>3. CASE WriteAll(w)
        BY <2>2, <3>3 DEF TypeOK, Writing, WriteAll, Return, Put
      <3>4. CASE WriteFails(w)
        <4>1. PICK part \in 0..job[w].length : disk' = Put(disk, job[w].name, part)
          BY <3>4 DEF WriteFails
        <4>2. /\ disk'[job[w].name] <= job[w].length /\ job[w].name \in DOMAIN disk'
              /\ \A n \in DOMAIN disk \ {job[w].name} :
                   n \in DOMAIN disk' /\ disk'[n] = disk[n]
          BY <1>0, <4>1 DEF Put
        <4>3. w \in Writing /\ job[w].name \notin complete \cup leftover
          BY <3>4 DEF WriteFails, Writing, WritingInv
        <4>4. job' = job /\ complete' = complete /\ leftover' = leftover
          BY <3>4 DEF WriteFails, Goto, history
        <4> QED BY <2>2, <4>2, <4>3, <4>4
      <3>5. CASE RemovePartial(w)
        BY <2>2, <3>5 DEF TypeOK, Writing, RemovePartial, Goto, Without, history
      <3> QED BY <1>3, <3>1, <3>2, <3>3, <3>4, <3>5 DEF WriteStep
    <2>4. \A v \in Writing' : v # w => v \in Writing /\ job'[v] = job[v]
      BY <2>1 DEF Writing
    <2>5. \A v \in Writing' : /\ job'[v].name \in DOMAIN disk' \ (complete' \cup leftover')
                              /\ disk'[job'[v].name] <= job'[v].length
      BY <2>2, <2>3, <2>4
    <2>6. ASSUME NEW u \in Writing', NEW v \in Writing', job'[u].name = job'[v].name
          PROVE  u = v
      <3>1. CASE u # w /\ v # w
        BY <2>4, <2>6, <3>1 DEF WritingInv
      <3>2. CASE u = w \/ v = w
        BY <2>3, <2>4, <2>6, <3>2
      <3> QED BY <3>1, <3>2
    <2> QED BY <2>5, <2>6 DEF WritingInv
  <1> QED BY <1>1, <1>2, <1>3 DEF Next

LEMMA StepFiles ==
  ASSUME TypeOK, WritingInv, FilesInv, [Next]_vars
  PROVE  FilesInv'
  <1> SUFFICES ASSUME NEW n \in DOMAIN disk' \ (complete' \cup leftover'), disk'[n] # 0
               PROVE  \E v \in Writing' : job'[v].name = n
    BY DEF FilesInv
  <1>1. CASE UNCHANGED vars
    BY <1>1 DEF vars, storage, history, FilesInv, Writing
  <1>2. CASE CleanupBody /\ Exclusive
    <2>1. CASE UNCHANGED <<directory, live, disk, history>>
      BY <1>2, <2>1 DEF history, Exclusive, FilesInv, Writing
    <2>2. CASE RemoveDirectory
      <3>1. PICK gone \in SUBSET DOMAIN disk : RemoveFiles(gone)
        BY <2>2 DEF RemoveDirectory
      <3>2. n \in DOMAIN disk \ (complete \cup leftover) /\ disk[n] # 0
        BY <3>1 DEF RemoveFiles, Without
      <3> QED BY <1>2, <3>2 DEF FilesInv, Exclusive, Writing
    <2> QED BY <1>2, <2>1, <2>2 DEF CleanupBody
  <1>3. CASE Exclusive /\ UNCHANGED <<disk, history>>
    BY <1>3 DEF history, Exclusive, FilesInv, Writing
  <1>4. ASSUME NEW w \in Writers, WriteStep(w)
        PROVE  \E v \in Writing' : job'[v].name = n
    <2>1. \A v \in Writers \ {w} : pc'[v] = pc[v] /\ job'[v] = job[v]
      BY <1>4, OthersUndisturbed
    <2>2. CASE n \in DOMAIN disk \ (complete \cup leftover) /\ disk[n] # 0 /\
               \E v \in Writing \ {w} : job[v].name = n
      BY <2>1, <2>2 DEF Writing
    <2>3. n \in DOMAIN disk \ (complete \cup leftover) /\ disk[n] # 0 =>
            \E v \in Writing : job[v].name = n
      BY DEF FilesInv
    <2>4. CASE BeginWrite(w) \/ Load(w) \/ Refuse(w) \/ Reserve(w) \/ Retry(w)
               \/ Release(w)
      <3>1. UNCHANGED <<disk, complete, leftover>> /\ w \notin Writing
        BY <2>4 DEF Writing, BeginWrite, Load, Refuse, Reserve, Retry, Release, history
      <3> QED BY <2>2, <2>3, <3>1
    <2>5. CASE CreateFile(w)
      <3>1. complete' = complete /\ leftover' = leftover /\ w \notin Writing
        BY <2>5 DEF CreateFile, Writing, history
      <3>2. n \in DOMAIN disk /\ disk'[n] = disk[n]
        BY <2>5 DEF CreateFile, Put
      <3> QED BY <2>2, <2>3, <3>1, <3>2
    <2>6. CASE WriteAll(w)
      <3>1. n # job[w].name /\ n \in DOMAIN disk \ (complete \cup leftover) /\ disk'[n] = disk[n]
        BY <2>6 DEF WriteAll, Put
      <3> QED BY <2>2, <2>3, <3>1
    <2>7. CASE WriteFails(w)
      <3>1. w \in Writing' /\ job'[w] = job[w]
        BY <2>7 DEF WriteFails, Writing, Goto, TypeOK
      <3>2. CASE n = job[w].name
        BY <3>1, <3>2
      <3>3. CASE n # job[w].name
        <4>1. n \in DOMAIN disk \ (complete \cup leftover) /\ disk'[n] = disk[n]
          BY <2>7, <3>3 DEF WriteFails, Put, history
        <4> QED BY <2>2, <2>3, <3>3, <4>1
      <3> QED BY <3>2, <3>3
    <2>8. CASE RemovePartial(w)
      <3>1. n # job[w].name /\ n \in DOMAIN disk \ (complete \cup leftover) /\ disk'[n] = disk[n]
        BY <2>8 DEF RemovePartial, Without
      <3> QED BY <2>2, <2>3, <3>1
    <2> QED BY <1>4, <2>4, <2>5, <2>6, <2>7, <2>8 DEF WriteStep
  <1> QED BY <1>1, <1>2, <1>3, <1>4 DEF Next, Cleanup, Drop

-----------------------------------------------------------------------------
(* A number below the modulus is its own remainder.                        *)
LEMMA SmallRemainder ==
  ASSUME NEW m \in Nat \ {0}, NEW n \in 0..(m - 1)
  PROVE  n % m = n
  <1>1. m * 0 + n = n
    OBVIOUS
  <1> QED BY <1>1, RemainderUnique

(* Every step of a write moves the counter by exactly what it reserves.    *)
LEMMA WriteStepReservation ==
  ASSUME TypeOK, TypeOK', WritingInv, ReservationInv, NEW w \in Writers, WriteStep(w)
  PROVE  ReservationInv'
  <1> DEFINE n == job[w].length
             C == Cardinality(ReservedUnits)   D == Cardinality(CompleteUnits)
             Cn == Cardinality(ReservedUnits') Dn == Cardinality(CompleteUnits')
  <1>1. /\ MaxU64 \in Nat /\ Modulus \in Nat \ {0} /\ n \in 0..MaxU64 /\ lost \in 0..MaxU64
        /\ limit # Unlimited => limit \in 0..MaxU64
        /\ used \in 0..MaxU64
    BY TemporaryStorageAssumption DEF TypeOK, Lengths, Modulus
  <1>2. C \in Nat /\ D \in Nat /\ Cn \in Nat /\ Dn \in Nat
    BY UnitsFinite, UnitsTyped
  <1>3. UNCHANGED <<limit, lost>>
    BY DEF WriteStep, BeginWrite, Load, Refuse, Reserve, Retry, CreateFile, WriteAll,
       WriteFails, RemovePartial, Release, storage, history
  <1>4. /\ used = (C + D + lost) % Modulus
        /\ limit # Unlimited => C + D + lost <= limit
        /\ limit # Unlimited => used = C + D + lost
    <2>1. /\ used = (C + D + lost) % Modulus
          /\ limit # Unlimited => C + D + lost <= limit
      BY DEF ReservationInv, LedgerIsExact, Reserved, Modulus
    <2>2. CASE limit # Unlimited
      <3>1. C + D + lost \in 0..(Modulus - 1)
        BY <1>1, <1>2, <2>1, <2>2 DEF Modulus
      <3> QED BY <1>1, <2>1, <3>1, SmallRemainder
    <2> QED BY <2>1, <2>2
  <1>5. ~ WriteAll(w) => Dn = D
    <2>1. ~ WriteAll(w) => complete' = complete
      BY DEF WriteStep, BeginWrite, Load, Refuse, Reserve, Retry, CreateFile,
         WriteFails, RemovePartial, Release, history
    <2> QED BY <2>1, CompleteKeeps, WriterOwnsItsFile
  <1>6. SUFFICES /\ used' = (Cn + Dn + lost) % Modulus
                 /\ limit # Unlimited => Cn + Dn + lost <= limit
                 /\ \A v \in Writers : pc'[v] = "exchange" => limit # Unlimited
    BY <1>3 DEF ReservationInv, LedgerIsExact, Reserved, Modulus
  <1>7. \A v \in Writers : pc'[v] = "exchange" => limit # Unlimited
    BY OthersUndisturbed
    DEF ReservationInv, TypeOK, WriteStep, BeginWrite, Load, Refuse, Reserve, Retry,
        CreateFile, WriteAll, WriteFails, RemovePartial, Release, Return, Goto
  <1>8. CASE UNCHANGED used /\ Cn + Dn = C + D
    BY <1>4, <1>7, <1>8
  <1>9. CASE BeginWrite(w)
    <2>1. ReservedUnits' = ReservedUnits
      <3>1. CASE Return(w)
        BY <1>9, <3>1, ReturnKeeps DEF BeginWrite, Holding
      <3>2. CASE \E name \in Names, length \in Lengths :
                   /\ pc' = [pc EXCEPT ![w] = "load"]
                   /\ job' = [job EXCEPT ![w] = [name |-> name, length |-> length]]
        <4>1. ASSUME NEW u \in Writers \X (1..MaxLength)
              PROVE  u \in ReservedUnits' <=> u \in ReservedUnits
          BY <1>9, <3>2 DEF BeginWrite, ReservedUnits, TypeOK, Holding
        <4> QED BY <4>1, UnitsTyped
      <3> QED BY <1>9, <3>1, <3>2 DEF BeginWrite
    <2>2. used' = used /\ ~ WriteAll(w)
      BY <1>9 DEF BeginWrite, WriteAll
    <2> QED BY <1>5, <1>8, <2>1, <2>2
  <1>10. CASE Load(w)
    <2>0. ~ WriteAll(w) /\ pc[w] \notin Holding
      BY <1>10 DEF Load, WriteAll, Holding
    <2>1. CASE limit = Unlimited
      <3>1. Cn = C + n
        BY <1>10, <2>0, <2>1, HoldingAdds DEF Load, Goto
      <3>2. used' = (used + n) % Modulus
        BY <1>10, <2>1 DEF Load, Added, Modulus
      <3>3. (((C + D + lost) % Modulus) + n) % Modulus = (C + D + lost + n) % Modulus
        <4>1. C + D + lost \in Nat /\ n \in Nat
          BY <1>1, <1>2
        <4> HIDE DEF C, D, n
        <4> QED BY <1>1, <4>1, WrapOfWrapped
      <3>4. C + D + lost + n = Cn + Dn + lost
        BY <1>1, <1>2, <1>5, <2>0, <3>1
      <3> QED BY <1>4, <1>7, <2>1, <3>2, <3>3, <3>4
    <2>2. CASE limit # Unlimited
      <3>1. ReservedUnits' = ReservedUnits
        BY <1>10, <2>0, <2>2, HoldingKeeps DEF Load, Goto, Holding, Phases
      <3> QED BY <1>5, <1>8, <1>10, <2>0, <2>2, <3>1 DEF Load
    <2> QED BY <2>1, <2>2
  <1>11. CASE Refuse(w)
    <2>1. ReservedUnits' = ReservedUnits /\ ~ WriteAll(w) /\ used' = used
      BY <1>11, ReturnKeeps DEF Refuse, Holding, WriteAll
    <2> QED BY <1>5, <1>8, <2>1
  <1>12. CASE Reserve(w)
    <2>1. Cn = C + n /\ Dn = D
      BY <1>5, <1>12, HoldingAdds DEF Reserve, Goto, Holding, WriteAll
    <2>2. limit # Unlimited
      BY <1>12 DEF Reserve, ReservationInv
    <2>3. used' = used + n /\ used + n <= limit
      BY <1>12 DEF Reserve, Fits
    <2>4. used' = Cn + Dn + lost /\ Cn + Dn + lost \in 0..(Modulus - 1)
      <3>1. used = C + D + lost /\ limit \in 0..MaxU64
        BY <1>1, <1>4, <2>2
      <3> HIDE DEF C, D, Cn, Dn, n
      <3>2. n \in Int /\ C + D + lost + n = Cn + Dn + lost
        BY ONLY <1>1, <1>2, <2>1
      <3>3. used' = Cn + Dn + lost /\ Cn + Dn + lost <= MaxU64
        BY ONLY <1>1, <1>2, <2>3, <3>1, <3>2
      <3> QED BY ONLY <1>1, <1>2, <3>3 DEF Modulus
    <2>5. (Cn + Dn + lost) % Modulus = Cn + Dn + lost
      BY <1>1, <2>4, SmallRemainder
    <2> QED BY <1>7, <2>3, <2>4, <2>5
  <1>13. CASE Retry(w)
    <2>1. ReservedUnits' = ReservedUnits /\ ~ WriteAll(w) /\ used' = used
      BY <1>13 DEF Retry, ReservedUnits, WriteAll
    <2> QED BY <1>5, <1>8, <2>1
  <1>14. CASE CreateFile(w)
    <2>1. ReservedUnits' = ReservedUnits /\ ~ WriteAll(w) /\ used' = used
      BY <1>14, HoldingKeeps DEF CreateFile, Goto, Holding, Phases, WriteAll
    <2> QED BY <1>5, <1>8, <2>1
  <1>15. CASE WriteAll(w)
    <2>1. C = Cn + n
      BY <1>15, ReturnSubtracts DEF WriteAll, Holding
    <2>2. Dn = D + n
      <3>1. /\ job[w].name \in Names \ complete /\ n \in Nat /\ n <= MaxLength
            /\ MaxLength \in Nat
        BY <1>15, TemporaryStorageAssumption
        DEF WriteAll, WritingInv, Writing, TypeOK, Lengths
      <3>2. CompleteUnits' = CompleteUnits \cup ({job[w].name} \X (1..n))
        <4>1. ASSUME NEW m \in Names, NEW k \in 1..MaxLength
              PROVE  <<m, k>> \in CompleteUnits' <=>
                       <<m, k>> \in CompleteUnits \/ (m = job[w].name /\ k \in 1..n)
          BY <1>15, <3>1 DEF WriteAll, CompleteUnits, Put, TypeOK
        <4>2. {job[w].name} \X (1..n) \subseteq Names \X (1..MaxLength)
          BY <3>1
        <4> QED BY <4>1, <4>2, UnitsTyped
      <3>3. \A k \in 1..n : <<job[w].name, k>> \notin CompleteUnits
        BY <3>1 DEF CompleteUnits
      <3>4. IsFiniteSet(CompleteUnits)
        BY UnitsFinite, UnitsTyped
      <3> QED BY <3>1, <3>2, <3>3, <3>4, AddUnits
    <2>3. used' = used
      BY <1>15 DEF WriteAll
    <2> QED BY <1>1, <1>2, <1>8, <2>1, <2>2, <2>3
  <1>16. CASE WriteFails(w)
    <2>1. ReservedUnits' = ReservedUnits /\ ~ WriteAll(w) /\ used' = used
      <3>1. ReservedUnits' = ReservedUnits /\ used' = used /\ pc'[w] = "remove"
        BY <1>16, HoldingKeeps DEF WriteFails, Goto, Holding, Phases, TypeOK
      <3>2. WriteAll(w) => pc'[w] = "idle"
        BY DEF WriteAll, Return, TypeOK
      <3> QED BY <3>1, <3>2
    <2> QED BY <1>5, <1>8, <2>1
  <1>17. CASE RemovePartial(w)
    <2>1. ReservedUnits' = ReservedUnits /\ ~ WriteAll(w) /\ used' = used
      BY <1>17, HoldingKeeps DEF RemovePartial, Goto, Holding, Phases, WriteAll
    <2> QED BY <1>5, <1>8, <2>1
  <1>18. CASE Release(w)
    <2>1. C = Cn + n /\ Dn = D
      BY <1>5, <1>18, ReturnSubtracts DEF Release, Holding, WriteAll
    <2>2. used' = (used + Modulus - n) % Modulus
      <3>1. used' = (used + MaxU64 + 1 - n) % Modulus
        BY <1>18 DEF Release, Subtracted, Modulus
      <3>2. used + MaxU64 + 1 - n = used + Modulus - n
        BY <1>1 DEF Modulus
      <3> QED BY <3>1, <3>2
    <2>3. C + D + lost = (Cn + Dn + lost) + n
      BY <1>1, <1>2, <2>1
    <2>4. used' = (Cn + Dn + lost) % Modulus
      <3>1. Cn + Dn + lost \in Nat /\ n \in 0..(Modulus - 1)
        BY <1>1, <1>2 DEF Modulus
      <3>2. ((((Cn + Dn + lost) + n) % Modulus) + Modulus - n) % Modulus
              = (Cn + Dn + lost) % Modulus
        <4> HIDE DEF Cn, Dn, n
        <4> QED BY <1>1, <3>1, WrapOfReturned
      <3> QED BY <1>4, <2>2, <2>3, <3>2
    <2>5. limit # Unlimited => Cn + Dn + lost <= limit
      BY <1>1, <1>2, <1>4, <2>3
    <2> QED BY <1>7, <2>4, <2>5
  <1> QED BY <1>9, <1>10, <1>11, <1>12, <1>13, <1>14, <1>15, <1>16, <1>17, <1>18
      DEF WriteStep

(* What a cleanup removes moves from the files to the lost bytes.          *)
LEMMA RemovalReservation ==
  ASSUME TypeOK, ReservationInv, NEW gone \in SUBSET DOMAIN disk, RemoveFiles(gone),
         UNCHANGED <<limit, used, pc, job>>
  PROVE  ReservationInv'
  <1> DEFINE C == Cardinality(ReservedUnits)   D == Cardinality(CompleteUnits)
             G == {u \in CompleteUnits : u[1] \in gone}
             g == Cardinality(G)
             Dn == Cardinality(CompleteUnits')
  <1>1. /\ MaxU64 \in Nat /\ Modulus \in Nat \ {0} /\ lost \in 0..MaxU64
        /\ limit # Unlimited => limit \in 0..MaxU64
    BY TemporaryStorageAssumption DEF TypeOK, Modulus
  <1>2. ReservedUnits' = ReservedUnits
    BY DEF ReservedUnits
  <1>3. CompleteUnits = CompleteUnits' \cup G /\ CompleteUnits' \cap G = {}
    BY DEF CompleteUnits, RemoveFiles, Without, TypeOK
  <1>4. G \in SUBSET (Names \X (1..MaxLength))
    BY UnitsTyped
  <1>5. /\ IsFiniteSet(G) /\ g \in Nat /\ IsFiniteSet(CompleteUnits') /\ Dn \in Nat
        /\ C \in Nat /\ D \in Nat
    BY <1>4, UnitsFinite, UnitsTyped
  <1>6. D = Dn + g
    <2>1. Cardinality(CompleteUnits' \cup G) =
            Dn + g - Cardinality(CompleteUnits' \cap G)
      BY <1>5, FS_Union
    <2>2. Cardinality(CompleteUnits' \cap G) = 0
      BY <1>3, FS_EmptySet
    <2>3. D = Cardinality(CompleteUnits' \cup G)
      BY <1>3
    <2> HIDE DEF D, Dn, g, G
    <2> QED BY <1>5, <2>1, <2>2, <2>3
  <1>7. lost' = (lost + g) % Modulus
    BY DEF RemoveFiles, Modulus
  <1>8. used = (C + D + lost) % Modulus /\ (limit # Unlimited => C + D + lost <= limit)
    BY DEF ReservationInv, LedgerIsExact, Reserved, Modulus
  <1>9. (((lost + g) % Modulus) + (C + Dn)) % Modulus = (lost + g + (C + Dn)) % Modulus
    <2>1. lost + g \in Nat /\ C + Dn \in Nat
      BY <1>1, <1>5
    <2> HIDE DEF C, Dn, g
    <2> QED BY <1>1, <2>1, WrapOfWrapped
  <1>10. lost + g + (C + Dn) = C + D + lost
    BY <1>1, <1>5, <1>6
  <1>11. ((lost + g) % Modulus) + (C + Dn) = C + Dn + lost'
    <2>1. (lost + g) % Modulus \in Nat
      BY <1>1, <1>5
    <2> QED BY <1>5, <1>7, <2>1
  <1>12. used' = (C + Dn + lost') % Modulus
    BY <1>8, <1>9, <1>10, <1>11
  <1>13. limit # Unlimited => C + Dn + lost' <= limit
    <2>1. CASE limit # Unlimited
      <3>1. lost + g \in 0..(Modulus - 1)
        BY <1>1, <1>5, <1>6, <1>8, <2>1 DEF Modulus
      <3>2. lost' = lost + g
        BY <1>1, <1>7, <3>1, SmallRemainder
      <3> QED BY <1>1, <1>5, <1>6, <1>8, <2>1, <3>2
    <2> QED BY <2>1
  <1>14. \A w \in Writers : pc'[w] = "exchange" => limit' # Unlimited
    BY DEF ReservationInv
  <1> QED BY <1>2, <1>12, <1>13, <1>14 DEF ReservationInv, LedgerIsExact, Reserved, Modulus

LEMMA StepReservation ==
  ASSUME TypeOK, TypeOK', WritingInv, ReservationInv, [Next]_vars
  PROVE  ReservationInv'
  <1>1. ASSUME UNCHANGED <<limit, used, pc, job, disk, complete, lost>>
        PROVE  ReservationInv'
    BY <1>1 DEF ReservationInv, LedgerIsExact, Reserved, ReservedUnits, CompleteUnits
  <1>2. ASSUME CleanupBody, UNCHANGED <<limit, used, pc, job>>
        PROVE  ReservationInv'
    <2>1. CASE UNCHANGED <<directory, live, disk, history>>
      BY <1>1, <1>2, <2>1 DEF history
    <2>2. CASE RemoveDirectory
      BY <1>2, <2>2, RemovalReservation DEF RemoveDirectory
    <2> QED BY <1>2, <2>1, <2>2 DEF CleanupBody
  <1>3. CASE UNCHANGED vars
    BY <1>1, <1>3 DEF vars, storage, history
  <1>4. CASE Cleanup
    BY <1>2, <1>4 DEF Cleanup
  <1>5. CASE Drop
    BY <1>1, <1>2, <1>5 DEF Drop, history
  <1>6. CASE \E w \in Writers : WriteStep(w)
    BY <1>6, WriteStepReservation
  <1> QED BY <1>3, <1>4, <1>5, <1>6 DEF Next

-----------------------------------------------------------------------------
(* Every byte on disk belongs to a completed file or to the reservation of *)
(* the one writer filling the file, so the disk holds no more than is      *)
(* reserved.                                                               *)
LEMMA DiskIsReserved ==
  ASSUME TypeOK, WritingInv, FilesInv
  PROVE  Cardinality(DiskUnits) <= Reserved
  <1> DEFINE Name(u) == <<job[u[1]].name, u[2]>>
             R == {u \in ReservedUnits : u[1] \in Writing}
             Filling == {Name(u) : u \in R}
  <1>1. IsFiniteSet(ReservedUnits) /\ IsFiniteSet(CompleteUnits)
    BY UnitsFinite, UnitsTyped
  <1>2. /\ R \in SUBSET ReservedUnits /\ IsFiniteSet(R)
        /\ Cardinality(R) <= Cardinality(ReservedUnits)
    BY <1>1, FS_Subset
  <1>3. IsFiniteSet(Filling) /\ Cardinality(Filling) <= Cardinality(R)
    <2> DEFINE f == [u \in R |-> Name(u)]
    <2>1. f \in Surjection(R, Filling)
      BY DEF Surjection
    <2> QED BY <1>2, <2>1, FS_Surjection
  <1>4. DiskUnits \subseteq CompleteUnits \cup Filling
    <2> SUFFICES ASSUME NEW n \in Names, NEW k \in 1..MaxLength, <<n, k>> \in DiskUnits,
                        n \notin complete
                 PROVE  <<n, k>> \in Filling
      BY DEF DiskUnits, CompleteUnits
    <2>1. n \in DOMAIN disk \ leftover /\ k <= disk[n] /\ k \in Nat /\ k >= 1 /\ disk[n] # 0
      BY TemporaryStorageAssumption DEF DiskUnits
    <2>2. PICK w \in Writing : job[w].name = n
      BY <2>1 DEF FilesInv
    <2>3. k <= job[w].length
      <3>1. disk[n] <= job[w].length
        BY <2>2 DEF WritingInv
      <3>2. w \in Writers /\ job[w].length \in Nat
        BY <2>2, TemporaryStorageAssumption DEF Writing, TypeOK, Lengths
      <3>3. disk[n] \in Nat
        BY <2>1, TemporaryStorageAssumption DEF TypeOK, Lengths
      <3> QED BY <2>1, <3>1, <3>2, <3>3
    <2>4. <<w, k>> \in R
      BY <2>2, <2>3 DEF ReservedUnits, Writing, Holding
    <2>5. Name(<<w, k>>) = <<n, k>>
      BY <2>2
    <2> QED BY <2>4, <2>5
  <1>5. /\ IsFiniteSet(CompleteUnits \cup Filling)
        /\ Cardinality(CompleteUnits \cup Filling) <=
             Cardinality(CompleteUnits) + Cardinality(Filling)
    <2>1. /\ IsFiniteSet(CompleteUnits \cup Filling)
          /\ Cardinality(CompleteUnits \cup Filling) =
               Cardinality(CompleteUnits) + Cardinality(Filling)
                 - Cardinality(CompleteUnits \cap Filling)
      BY <1>1, <1>3, FS_Union
    <2>2. Cardinality(CompleteUnits \cap Filling) \in Nat
      BY <1>1, <1>3, FS_Intersection, FS_CardinalityType
    <2>3. Cardinality(CompleteUnits) \in Nat /\ Cardinality(Filling) \in Nat
      BY <1>1, <1>3, FS_CardinalityType
    <2> QED BY <2>1, <2>2, <2>3
  <1>6. Cardinality(DiskUnits) <= Cardinality(CompleteUnits \cup Filling)
    BY <1>4, <1>5, FS_Subset
  <1>7. /\ Cardinality(DiskUnits) \in Nat /\ Cardinality(CompleteUnits) \in Nat
        /\ Cardinality(ReservedUnits) \in Nat
    BY UnitsFinite, UnitsTyped
  <1>8. /\ Cardinality(Filling) \in Nat /\ Cardinality(R) \in Nat
        /\ Cardinality(CompleteUnits \cup Filling) \in Nat
    BY <1>2, <1>3, <1>5, FS_CardinalityType
  <1> HIDE DEF R, Filling
  <1> QED BY <1>2, <1>3, <1>5, <1>6, <1>7, <1>8 DEF Reserved

-----------------------------------------------------------------------------
IInv == TypeOK /\ ReservationInv /\ WritingInv /\ FilesInv

LEMMA InitEstablishes ==
  ASSUME Init
  PROVE  IInv
  <1>0. /\ MaxU64 \in Nat /\ MaxLength \in Nat /\ Modulus \in Nat \ {0}
        /\ 0 \in 0..(Modulus - 1) /\ Marker \in Names
        /\ limit # Unlimited => limit \in Nat
    BY TemporaryStorageAssumption DEF Modulus, Init
  <1>1. TypeOK
    BY <1>0 DEF Init, TypeOK, NoJob, Lengths, Phases
  <1>2. ReservedUnits = {} /\ CompleteUnits = {}
    BY DEF Init, ReservedUnits, CompleteUnits, Holding
  <1>3. Reserved = 0
    BY <1>2, FS_EmptySet DEF Reserved
  <1>4. 0 % Modulus = 0
    BY <1>0, SmallRemainder
  <1>5. ReservationInv
    <2>1. used = 0 /\ lost = 0 /\ Reserved + lost = 0
      BY <1>3 DEF Init
    <2> QED BY <1>0, <1>4, <2>1 DEF Init, ReservationInv, LedgerIsExact, Modulus
  <1>6. WritingInv
    BY DEF Init, WritingInv, Writing
  <1>7. FilesInv
    BY DEF Init, FilesInv, Writing
  <1> QED BY <1>1, <1>5, <1>6, <1>7 DEF IInv

LEMMA StepPreserves ==
  ASSUME IInv, [Next]_vars
  PROVE  IInv'
  <1>1. TypeOK'
    BY StepTyped DEF IInv
  <1> QED BY <1>1, StepReservation, StepWriting, StepFiles DEF IInv

THEOREM Inductive == Spec => []IInv
  <1>1. Init => IInv
    BY InitEstablishes
  <1>2. IInv /\ [Next]_vars => IInv'
    BY StepPreserves
  <1> QED BY <1>1, <1>2, PTL DEF Spec

(* Counters, phases and files stay in range in every behaviour.            *)
THEOREM TypeCorrect == Spec => []TypeOK
  <1>1. IInv => TypeOK
    BY DEF IInv
  <1> QED BY <1>1, Inductive, PTL

(* used_bytes is exact however the compare-and-exchange loops of any       *)
(* number of writers interleave and whichever writes fail.                 *)
THEOREM LedgerExact == Spec => []LedgerIsExact
  <1>1. IInv => LedgerIsExact
    BY DEF IInv, ReservationInv
  <1> QED BY <1>1, Inductive, PTL

(* The hard byte limit holds for what is really in the directory, but for  *)
(* partial files that could not be removed.                                *)
THEOREM DiskBounded == Spec => []DiskWithinLimit
  <1>1. ASSUME IInv
        PROVE  DiskWithinLimit
    <2> SUFFICES ASSUME limit # Unlimited
                 PROVE  Cardinality(DiskUnits) <= limit
      BY DEF DiskWithinLimit
    <2>1. Reserved + lost <= limit /\ limit \in Nat /\ lost \in Nat
      BY <1>1, TemporaryStorageAssumption DEF IInv, ReservationInv, TypeOK
    <2>2. Cardinality(DiskUnits) <= Reserved
      BY <1>1, DiskIsReserved DEF IInv
    <2>3. Cardinality(DiskUnits) \in Nat
      BY UnitsFinite, UnitsTyped
    <2> QED BY <2>1, <2>2, <2>3, ReservedTyped
  <1>2. IInv => DiskWithinLimit
    BY <1>1
  <1> QED BY <1>2, Inductive, PTL

(* No write, successful or failing, touches a file another write completed.*)
THEOREM CompletedSurvive == Spec => CompletedFilesSurvive
  <1>1. ASSUME IInv, [Next]_vars, NEW n \in complete
        PROVE  (n \in complete' /\ disk'[n] = disk[n]) \/ Exclusive
    <2>1. CASE Cleanup \/ Drop
      BY <2>1 DEF Cleanup, Drop
    <2>2. CASE UNCHANGED vars
      BY <2>2 DEF vars, history
    <2>3. ASSUME NEW w \in Writers, WriteStep(w)
          PROVE  n \in complete' /\ disk'[n] = disk[n]
      <3>1. disk'[n] = disk[n]
        BY <1>1, <2>3, WriterOwnsItsFile DEF IInv
      <3>2. complete \subseteq complete'
        BY <2>3 DEF WriteStep, BeginWrite, Load, Refuse, Reserve, Retry, CreateFile,
           WriteAll, WriteFails, RemovePartial, Release, history
      <3> QED BY <3>1, <3>2
    <2> QED BY <1>1, <2>1, <2>2, <2>3 DEF Next
  <1>2. IInv /\ [Next]_vars =>
          [\A n \in complete :
             \/ n \in complete' /\ disk'[n] = disk[n]
             \/ Exclusive]_vars
    BY <1>1
  <1> QED BY <1>2, Inductive, PTL DEF Spec, CompletedFilesSurvive

-----------------------------------------------------------------------------
(* The stable sort of a report's lists.                                    *)

(* Every position has a rank of its own, and the ranks fill the domain.    *)
LEMMA RanksFill ==
  ASSUME NEW n \in Nat, NEW place \in [1..n -> Nat]
  PROVE  /\ \A i \in 1..n : Cardinality(Upto(place, i)) \in 1..n
         /\ \A i, j \in 1..n :
              place[i] < place[j] \/ (place[i] = place[j] /\ i < j) =>
                Cardinality(Upto(place, i)) < Cardinality(Upto(place, j))
         /\ \A k \in 1..n : \E i \in 1..n : Cardinality(Upto(place, i)) = k
<1> DEFINE D == 1..n
           rank == [i \in D |-> Cardinality(Upto(place, i))]
<1>1. IsFiniteSet(D) /\ Cardinality(D) = n
  <2>1. /\ IsFiniteSet(1..n)
        /\ Cardinality(1..n) = IF 1 > n THEN 0 ELSE n - 1 + 1
    BY FS_Interval
  <2> QED BY <2>1
<1>2. ASSUME NEW i \in D
      PROVE  /\ Upto(place, i) \in SUBSET D /\ i \in Upto(place, i)
             /\ IsFiniteSet(Upto(place, i))
             /\ Cardinality(Upto(place, i)) \in 1..n
  <2>1. Upto(place, i) \in SUBSET D /\ i \in Upto(place, i)
    BY DEF Upto
  <2> HIDE DEF D
  <2>2. /\ IsFiniteSet(Upto(place, i)) /\ Cardinality(Upto(place, i)) <= Cardinality(D)
        /\ Cardinality(Upto(place, i)) \in Nat
    BY <2>1, <1>1, FS_Subset, FS_CardinalityType
  <2>3. Cardinality(Upto(place, i)) # 0
    BY <2>1, <2>2, FS_EmptySet
  <2> QED BY <2>1, <2>2, <2>3, <1>1
<1>3. ASSUME NEW i \in D, NEW j \in D, place[i] < place[j] \/ (place[i] = place[j] /\ i < j)
      PROVE  Cardinality(Upto(place, i)) < Cardinality(Upto(place, j))
  <2>1. j \notin Upto(place, i) /\ Upto(place, i) \subseteq Upto(place, j)
    BY <1>3 DEF Upto
  <2>2. /\ Cardinality(Upto(place, i)) <= Cardinality(Upto(place, j))
        /\ Cardinality(Upto(place, i)) # Cardinality(Upto(place, j))
    BY <2>1, <1>2, FS_Subset
  <2> QED BY <2>2, <1>2
<1>4. rank \in Injection(D, D)
  <2>1. rank \in [D -> D]
    BY <1>2
  <2>2. \A i, j \in D : rank[i] = rank[j] => i = j
    <3> SUFFICES ASSUME NEW i \in D, NEW j \in D, i # j PROVE rank[i] # rank[j]
      OBVIOUS
    <3>1. \/ place[i] < place[j] \/ (place[i] = place[j] /\ i < j)
          \/ place[j] < place[i] \/ (place[j] = place[i] /\ j < i)
      OBVIOUS
    <3>2. rank[i] < rank[j] \/ rank[j] < rank[i]
      BY <3>1, <1>3
    <3> QED BY <3>2, <1>2
  <2> QED BY <2>1, <2>2 DEF Injection, IsInjective
<1>5. rank \in Surjection(D, D)
  <2> HIDE DEF rank, D
  <2> QED BY <1>1, <1>4, FS_Injection
<1>6. \A k \in D : \E i \in D : Cardinality(Upto(place, i)) = k
  BY <1>5 DEF Surjection
<1> QED BY <1>2, <1>3, <1>6

(* Sorting permutes a list and leaves it in order.                         *)
Arranges(at, n) ==
  /\ at \in [1..n -> 1..n]
  /\ \A i \in 1..n : \E k \in 1..n : at[k] = i
  /\ \A k, l \in 1..n : at[k] = at[l] => k = l

Rearranged(t, s, at) == t = [k \in 1..Len(s) |-> s[at[k]]]

LEMMA SortedIs ==
  ASSUME NEW X, NEW s \in Seq(X), NEW place \in [DOMAIN s -> Nat]
  PROVE  \E at :
           /\ Arranges(at, Len(s))
           /\ Rearranged(Sorted(s, place), s, at)
           /\ \A k, l \in 1..Len(s) : k < l => place[at[k]] <= place[at[l]]
<1>1. PICK n \in Nat : n = Len(s) /\ DOMAIN s = 1..n
  OBVIOUS
<1>2. place \in [1..n -> Nat]
  BY <1>1
<1> DEFINE at == [k \in 1..n |-> CHOOSE i \in 1..n : Cardinality(Upto(place, i)) = k]
<1>3. \A k \in 1..n : at[k] \in 1..n /\ Cardinality(Upto(place, at[k])) = k
  BY <1>2, RanksFill
<1>4. Sorted(s, place) = [k \in 1..n |-> s[at[k]]]
  BY <1>1 DEF Sorted
<1>5. at \in [1..n -> 1..n]
  BY <1>3
<1> HIDE DEF at
<1>6. \A k, l \in 1..n : at[k] = at[l] => k = l
  BY ONLY <1>3
<1>7. ASSUME NEW i \in 1..n, NEW j \in 1..n, i # j
      PROVE  Cardinality(Upto(place, i)) # Cardinality(Upto(place, j))
  <2>1. \/ place[i] < place[j] \/ (place[i] = place[j] /\ i < j)
        \/ place[j] < place[i] \/ (place[j] = place[i] /\ j < i)
    BY <1>2, <1>7
  <2>2. \/ Cardinality(Upto(place, i)) < Cardinality(Upto(place, j))
        \/ Cardinality(Upto(place, j)) < Cardinality(Upto(place, i))
    BY <2>1, <1>2, RanksFill
  <2>3. Cardinality(Upto(place, i)) \in 1..n /\ Cardinality(Upto(place, j)) \in 1..n
    BY <1>2, RanksFill
  <2> QED BY ONLY <2>2, <2>3, n \in Nat
<1>8. ASSUME NEW i \in 1..n PROVE \E k \in 1..n : at[k] = i
  <2>1. PICK k \in 1..n : k = Cardinality(Upto(place, i))
    BY <1>2, RanksFill
  <2>2. at[k] = i
    BY ONLY <1>3, <1>7, <2>1, k \in 1..n, i \in 1..n
  <2> QED BY <2>2
<1>9. ASSUME NEW k \in 1..n, NEW l \in 1..n, k < l PROVE place[at[k]] <= place[at[l]]
  <2>1. PICK a \in 1..n, b \in 1..n : a = at[k] /\ b = at[l]
    BY <1>3
  <2>2. Cardinality(Upto(place, a)) = k /\ Cardinality(Upto(place, b)) = l
    BY ONLY <1>3, <2>1, k \in 1..n, l \in 1..n
  <2>3. place[b] < place[a] => l < k
    BY <2>2, <1>2, RanksFill
  <2>4. place[a] \in Nat /\ place[b] \in Nat
    BY <1>2
  <2>5. place[a] <= place[b]
    BY ONLY <2>3, <2>4, <1>9, k \in 1..n, l \in 1..n
  <2> QED BY ONLY <2>1, <2>5
<1>10. Arranges(at, n)
  BY <1>5, <1>6, <1>8 DEF Arranges
<1>11. Rearranged(Sorted(s, place), s, at)
  BY <1>1, <1>4 DEF Rearranged
<1> QED BY <1>1, <1>9, <1>10, <1>11

-----------------------------------------------------------------------------
(* The invariant of the traversal.                                         *)

Kinds == {"directory", "submodule", "symlink", "file"}

Dispositions ==
  {"traversed", "ignored", "skipped", "budget_limited", "failed", "parsed", "binary", "unsupported"}
PolicyReasons ==
  {"ignore_rule", "glob", "repository_metadata", "external_artifact_output",
   "default_excluded", "submodule_policy", "symlink_policy", "symlink_directory"}
LossReasons ==
  {"read_error", "parse_failed", "path_escapes_root", "symlink_escapes_root",
   "traversal_depth_limit", "repository_file_limit", "file_size_limit"}
AnswerReasons ==
  {"binary_file", "unsupported_format", "encrypted", "parse_ambiguous", "cancelled",
   "parse_failed"}
Reasons == PolicyReasons \cup LossReasons \cup AnswerReasons

EntryRecords ==
  [path: Paths \cup {Root}, kind: Kinds, disposition: Dispositions, reasons: SUBSET Reasons,
   status: Outcomes \cup {"failed", None}]
SkipRecords == [path: Paths \cup {Root}, reasons: SUBSET Reasons]
FileRecords == [path: Paths, size: Nat]
Reports ==
  [entries: Seq(EntryRecords), files: Seq(FileRecords),
   artifacts: SUBSET (Paths \cup {Root}), members: SUBSET (Paths \cup {Root}),
   ignored: SUBSET (Paths \cup {Root}), unsupported: SUBSET (Paths \cup {Root}),
   skipped: SUBSET SkipRecords, partial: BOOLEAN, diagnosed: BOOLEAN,
   status: {None, "complete", "partial"}]
Readings == [path: Paths, file: Paths, kind: {"file", "symlink"}]

TraversalTypeInv ==
  /\ options \in OptionSets
  /\ tree \in [Paths -> Nodes] /\ \A p \in Paths : tree[p] \in Possible[p]
  /\ changes \in Nat
  /\ phase \in {"walk", "traverse", "done"}
  /\ visible \subseteq Paths
  /\ stack \in Seq(SUBSET Paths)
  /\ entering \in Paths \cup {Root, None}
  /\ reading \in Readings \cup {None}
  /\ eligible \in Nat
  /\ report \in Reports
  /\ walkFailed \in BOOLEAN /\ flagged \in BOOLEAN /\ missed \in BOOLEAN
  /\ met \subseteq Paths /\ listed \subseteq met \cup {Root}

(* An entry that says what became of its path in the end.                  *)
Settles(e) == e.disposition # "traversed"

(* A list s of entries has one for p, or one that settles it.              *)
TellsOf(s, p) == \E i \in DOMAIN s : s[i].path = p
SettledIn(s, p) == \E i \in DOMAIN s : s[i].path = p /\ Settles(s[i])

(* A path may have two entries: a submodule that was opened, and then could *)
(* not be read.                                                            *)
Distinct(s) ==
  /\ \A i \in DOMAIN s : ~ Settles(s[i]) => s[i].kind = "submodule"
  /\ \A i, j \in DOMAIN s :
       i # j /\ s[i].path = s[j].path =>
         /\ Settles(s[i]) <=> ~ Settles(s[j])
         /\ Settles(s[i]) => s[i].kind = "directory"

Apart(s) == \A i, j \in DOMAIN s : i # j => s[i] \cap s[j] = {}
AllOf(s) == UNION {s[i] : i \in DOMAIN s}
Waiting == AllOf(stack)
InHand == IF reading = None THEN {} ELSE {reading.path}

(* Where each path that was met is: waiting, opened, in hand, or settled.  *)
PlaceInv ==
  /\ Apart(stack)
  /\ Waiting \subseteq met
  /\ \A p \in met : Parent[p] \in listed
  /\ entering # None =>
       /\ entering \in (met \cup {Root}) \ (Waiting \cup listed)
       /\ reading = None /\ ~ SettledIn(report.entries, entering)
  /\ reading # None =>
       /\ reading.path \in met \ (Waiting \cup listed)
       /\ stack # <<>> /\ ~ TellsOf(report.entries, reading.path)
  /\ \A p \in Waiting : p \notin listed /\ ~ TellsOf(report.entries, p)
  /\ \A p \in listed : ~ SettledIn(report.entries, p)
  /\ \A p \in met \cup {Root} :
       p \in Waiting \cup listed \cup InHand \cup {entering} \/ SettledIn(report.entries, p)
  /\ PathsOf(Range(report.entries)) \subseteq met \cup {Root}
  /\ Distinct(report.entries)
  /\ phase = "walk" => entering = Root /\ ~ walkFailed
  /\ phase = "done" => /\ entering = None /\ reading = None /\ stack = <<>>
                       /\ \A i, j \in DOMAIN report.entries :
                            i < j => InOrder(report.entries[i], report.entries[j])

(* A report of which something is lost, and what is lost without an entry: *)
(* a rule, an entry of a directory, or what a file's envelope says.        *)
Loss(r) == r.partial \/ r.diagnosed
Gap == walkFailed \/ flagged \/ missed

(* The lists of r are views of its entries; gap: something is lost that    *)
(* has no entry.                                                           *)
Views(r, gap) ==
  LET told == Range(r.entries) IN
  /\ r.ignored = PathsOf({e \in told : e.disposition = "ignored"})
  /\ r.unsupported = PathsOf({e \in told : e.reasons = {"unsupported_format"}})
  /\ r.artifacts = PathsOf({e \in told : e.disposition = "parsed"})
  /\ r.skipped = {Skip(e.path, e.reasons) : e \in {f \in told : f.reasons # {}}}
  /\ Loss(r) <=> gap \/ \E e \in told : Lossy(e)

ListsInv ==
  /\ Views(report, Gap)
  /\ report.members = ReadPaths
  /\ \A i, j \in DOMAIN report.files : report.files[i].path = report.files[j].path => i = j
  /\ \A p \in ReadPaths : \E e \in Told :
       e.path = p /\ e.disposition \in {"parsed", "binary", "unsupported", "failed"}

(* What is published says that a loss is one.                              *)
StatusIs(r) == r.status = IF Loss(r) THEN "partial" ELSE "complete"
StatusInv == phase = "done" => StatusIs(report)

(* What was read is before all that is still to come, and so is what is    *)
(* further up the stack.                                                   *)
LimitInv ==
  /\ \A n \in {eligible, options.files} :
       Len(report.files) + (IF reading = None THEN 0 ELSE 1) <= n
  /\ \A f \in Range(report.files) : f.size <= MaxBytes
  /\ \A i \in DOMAIN stack : \A p, q \in stack[i] : Parent[p] = Parent[q]
  /\ \A i, j \in DOMAIN stack : j < i => \A p \in stack[i], q \in stack[j] : Before(p, q)
  /\ \A p \in ReadPaths \cup InHand \cup ({entering} \cap Paths) : \A q \in Waiting : Before(p, q)
  /\ \A p \in ReadPaths, q \in InHand \cup ({entering} \cap Paths) : Before(p, q)
  /\ entering = Root => stack = <<>> /\ ReadPaths = {}
  /\ \A e \in Told : "repository_file_limit" \in e.reasons =>
       /\ eligible > options.files /\ reading = None
       /\ \A p \in ReadPaths : Before(p, e.path)

(* While nothing is missing: what was opened is what had to be, and a file *)
(* that was dealt with was read or ignored as it had to be.                *)
Quiet == changes = 0 /\ ~ Loss(report)

Ignorable == {p \in Reached : RulesApply /\ RuledOut(p)}

WholeInv ==
  Quiet =>
    /\ phase # "walk" =>
         visible = {p \in Paths : Filtering /\ Node(p).kind # "absent" /\ ~ RuledOut(p)}
    /\ \A p \in met : Ancestors[p] \subseteq listed /\ tree[p].kind # "absent"
    /\ \A d \in listed : Entered(d) /\ Children(d) \subseteq met
    /\ entering # None => Entered(entering)
    /\ \A d \in (met \cup {Root}) \ (Waiting \cup {entering}) : Entered(d) => d \in listed
    /\ \A p \in met \ (Waiting \cup {entering}) :
         /\ p \in Wanted => p \in ReadPaths \cup InHand
         /\ p \in Ignorable => p \in report.ignored
    /\ ReadPaths \cup InHand \subseteq Wanted
    /\ report.ignored \subseteq Ignorable

TraversalInv ==
  TraversalTypeInv /\ PlaceInv /\ ListsInv /\ StatusInv /\ LimitInv /\ WholeInv

-----------------------------------------------------------------------------
(* What a step does to the report.                                         *)

(* s is r with one more entry e, told of in every list it belongs in.      *)
Tells(r, s, e) ==
  /\ e \in EntryRecords /\ s \in Reports
  /\ s.entries = Append(r.entries, e)
  /\ s.files = r.files /\ s.members = r.members
  /\ s.ignored = r.ignored \cup {p \in {e.path} : e.disposition = "ignored"}
  /\ s.unsupported = r.unsupported \cup {p \in {e.path} : e.reasons = {"unsupported_format"}}
  /\ s.artifacts = r.artifacts \cup {p \in {e.path} : e.disposition = "parsed"}
  /\ s.skipped = r.skipped \cup {x \in {Skip(e.path, e.reasons)} : e.reasons # {}}
  /\ Loss(s) <=> Loss(r) \/ Lossy(e)

LEMMA SkippedEntryTells ==
  ASSUME NEW r \in Reports, NEW p \in Paths \cup {Root}, NEW k \in Kinds,
         NEW reasons \in SUBSET PolicyReasons,
         reasons # {},
         NEW d, d = IF "ignore_rule" \in reasons THEN "ignored" ELSE "skipped"
  PROVE  Tells(r, RecordSkippedEntry(r, p, k, reasons), Entry(p, k, d, reasons, None))
<1> DEFINE e == Entry(p, k, d, reasons, None)
           s == RecordSkippedEntry(r, p, k, reasons)
           q == Append(r.entries, e)
<1>0. /\ reasons \in SUBSET Reasons /\ d \in Dispositions /\ d \notin {"failed", "budget_limited"}
      /\ reasons \cap {"path_escapes_root", "symlink_escapes_root", "encrypted"} = {}
      /\ reasons # {"unsupported_format"}
  BY DEF Reasons, PolicyReasons, Dispositions
<1>1. e \in EntryRecords
  BY <1>0 DEF Entry, EntryRecords
<1>2. None # "partial"
  BY RepositoryAssumption
<1>7. ~ Lossy(e)
  BY <1>0, <1>2 DEF Lossy, Entry
<1>3. Skip(p, reasons) \in SkipRecords
  BY <1>0 DEF Skip, SkipRecords
<1>4. e = [path |-> p, kind |-> k, disposition |-> d, reasons |-> reasons, status |-> None]
  BY DEF Entry
<1>5. s = [r EXCEPT !.entries = q,
                    !.skipped = @ \cup {Skip(p, reasons)},
                    !.ignored = IF "ignore_rule" \in reasons THEN @ \cup {p} ELSE @]
  BY DEF RecordSkippedEntry
<1> HIDE DEF e, s
<1>9. q \in Seq(EntryRecords)
  BY <1>1 DEF Reports
<1> HIDE DEF q
<1>6. s \in Reports /\ s.entries = q /\ s.files = r.files
      /\ s.members = r.members /\ s.unsupported = r.unsupported /\ s.artifacts = r.artifacts
      /\ s.skipped = r.skipped \cup {Skip(p, reasons)} /\ s.partial = r.partial
      /\ s.diagnosed = r.diagnosed
      /\ s.ignored = IF "ignore_rule" \in reasons THEN r.ignored \cup {p} ELSE r.ignored
  BY <1>9, <1>3, <1>5 DEF Reports
<1>8. /\ e.path = p /\ e.disposition = d /\ e.reasons = reasons
      /\ d = "ignored" <=> "ignore_rule" \in reasons
      /\ d # "parsed"
  BY <1>4
<1>10. Loss(s) <=> Loss(r)
  BY ONLY <1>6 DEF Loss
<1> QED BY <1>0, <1>1, <1>7, <1>8, <1>6, <1>10, Zenon DEF Tells, e, s, q

LEMMA LossTells ==
  ASSUME NEW r \in Reports, NEW p \in Paths \cup {Root}, NEW k \in Kinds,
         NEW d, NEW reason \in LossReasons,
         \/ d \in {"failed", "budget_limited"}
         \/ d = "skipped" /\ reason \in {"path_escapes_root", "symlink_escapes_root"}
  PROVE  LET e == Entry(p, k, d, {reason}, None) IN
         Tells(r, RecordLoss(r, p, k, d, reason), e) /\ Lossy(e)
<1> DEFINE e == Entry(p, k, d, {reason}, None)
           s == RecordLoss(r, p, k, d, reason)
           q == Append(r.entries, e)
<1>0. {reason} \in SUBSET Reasons /\ d \in Dispositions /\ d \notin {"ignored", "parsed"}
      /\ {reason} # {"unsupported_format"}
  BY DEF Reasons, LossReasons, Dispositions
<1>1. e \in EntryRecords
  BY <1>0 DEF Entry, EntryRecords
<1>2. Lossy(e)
  BY DEF Lossy, Entry
<1>3. Skip(p, {reason}) \in SkipRecords
  BY <1>0 DEF Skip, SkipRecords
<1>4. e = [path |-> p, kind |-> k, disposition |-> d, reasons |-> {reason}, status |-> None]
  BY DEF Entry
<1>5. s = [r EXCEPT !.entries = q,
                    !.skipped = @ \cup {Skip(p, {reason})},
                    !.partial = TRUE,
                    !.diagnosed = @ \/ reason # "symlink_escapes_root"]
  BY DEF RecordLoss
<1> HIDE DEF e, s
<1>9. q \in Seq(EntryRecords)
  BY <1>1 DEF Reports
<1> HIDE DEF q
<1>6. s \in Reports /\ s.entries = q /\ s.files = r.files
      /\ s.members = r.members /\ s.unsupported = r.unsupported /\ s.artifacts = r.artifacts
      /\ s.skipped = r.skipped \cup {Skip(p, {reason})} /\ s.partial = TRUE
      /\ s.ignored = r.ignored
  BY <1>9, <1>3, <1>5 DEF Reports
<1>7. e.path = p /\ e.disposition = d /\ e.reasons = {reason}
  BY <1>4
<1>8. Loss(s)
  BY ONLY <1>6 DEF Loss
<1> QED BY <1>0, <1>1, <1>2, <1>6, <1>7, <1>8, Zenon DEF Tells, e, s, q

(* A submodule that is entered.                                            *)
LEMMA TraversedTells ==
  ASSUME NEW r \in Reports, NEW p \in Paths
  PROVE  LET e == Entry(p, "submodule", "traversed", {}, None) IN
         Tells(r, [r EXCEPT !.entries = Append(@, e)], e)
<1> DEFINE e == Entry(p, "submodule", "traversed", {}, None)
           q == Append(r.entries, e)
           s == [r EXCEPT !.entries = q]
<1>0. None # "partial"
  BY RepositoryAssumption
<1>1. e \in EntryRecords
  BY DEF Entry, EntryRecords, Kinds, Dispositions
<1>2. ~ Lossy(e)
  BY <1>0 DEF Lossy, Entry
<1>3. e.disposition = "traversed" /\ e.reasons = {}
  BY DEF Entry
<1> HIDE DEF e
<1>5. q \in Seq(EntryRecords)
  BY <1>1 DEF Reports
<1> HIDE DEF q
<1>4. s \in Reports /\ s.entries = q /\ s.files = r.files
      /\ s.members = r.members /\ s.unsupported = r.unsupported /\ s.artifacts = r.artifacts
      /\ s.skipped = r.skipped /\ s.partial = r.partial /\ s.diagnosed = r.diagnosed
      /\ s.ignored = r.ignored
  BY <1>5 DEF Reports
<1>6. Loss(s) <=> Loss(r)
  BY ONLY <1>4 DEF Loss
<1> QED BY <1>1, <1>2, <1>3, <1>4, <1>6 DEF Tells, e, q

(* What is recorded of a file that was read.                               *)
LEMMA RecordTells ==
  ASSUME NEW r \in Reports, NEW p \in Paths, NEW k \in Kinds, NEW answer \in Outcomes
  PROVE  \E e : /\ Tells(r, Record(r, p, k, answer), e)
                /\ e.path = p /\ "repository_file_limit" \notin e.reasons
                /\ e.disposition \in {"parsed", "binary", "unsupported", "failed"}
<1> DEFINE v == Verdict(answer)
           e == Entry(p, k, v[1], v[2], v[3])
           q == Append(r.entries, e)
           told == [r EXCEPT !.entries = q]
           s == Record(r, p, k, answer)
<1>1. CASE answer = "refused"
  <2>1. s = RecordLoss(r, p, k, "failed", "parse_failed")
    BY <1>1 DEF Record, RecordFailure
  <2>2. Tells(r, s, Entry(p, k, "failed", {"parse_failed"}, None))
    BY <2>1, LossTells DEF LossReasons
  <2> QED BY <2>2 DEF Entry
<1>2. CASE answer # "refused"
  <2>1. /\ v[1] \in {"parsed", "binary", "unsupported", "failed"}
        /\ v[2] \in SUBSET AnswerReasons /\ v[3] \in Outcomes \cup {"failed"}
    BY DEF Verdict, Outcomes, AnswerReasons
  <2>0. v[2] \in SUBSET Reasons /\ "repository_file_limit" \notin v[2] /\ v[1] \in Dispositions
    BY <2>1 DEF Reasons, AnswerReasons, Dispositions
  <2>2. e \in EntryRecords
    BY <2>0, <2>1 DEF Entry, EntryRecords
  <2>3. /\ e.path = p /\ e.kind = k /\ e.disposition = v[1] /\ e.reasons = v[2] /\ e.status = v[3]
    BY DEF Entry
  <2>4. told \in Reports /\ told.entries = q /\ told.files = r.files
        /\ told.members = r.members /\ told.unsupported = r.unsupported
        /\ told.artifacts = r.artifacts
        /\ told.skipped = r.skipped /\ told.partial = r.partial /\ told.diagnosed = r.diagnosed
        /\ told.ignored = r.ignored
    <3> HIDE DEF e
    <3>1. q \in Seq(EntryRecords)
      BY <2>2 DEF Reports
    <3> HIDE DEF q
    <3> QED BY <3>1 DEF Reports
  <2>5. Tells(r, s, e)
    <3>1. CASE answer \in {"complete", "partial"}
      <4>1. v = IF answer = "complete" THEN <<"parsed", {}, "complete">> ELSE <<"parsed", {}, "partial">>
        BY <3>1 DEF Verdict
      <4>2. v[1] = "parsed" /\ v[2] = {} /\ v[3] = answer
        BY <3>1, <4>1
      <4>3. s = [told EXCEPT !.artifacts = @ \cup {p}, !.partial = @ \/ answer = "partial"]
        BY <3>1 DEF Record
      <4>4. Lossy(e) <=> answer = "partial"
        BY <2>3, <4>2, <3>1 DEF Lossy
      <4> HIDE DEF e, v, told, s, q
      <4>5. s \in Reports /\ s.entries = told.entries /\ s.files = told.files
            /\ s.members = told.members /\ s.unsupported = told.unsupported
            /\ s.artifacts = told.artifacts \cup {p} /\ s.skipped = told.skipped
            /\ s.partial = (told.partial \/ answer = "partial")
            /\ s.diagnosed = told.diagnosed /\ s.ignored = told.ignored
        BY <2>4, <4>3 DEF Reports
      <4>6. s.entries = Append(r.entries, e) /\ s.files = r.files /\ s.members = r.members
        BY <2>4, <4>5 DEF q
      <4>7. /\ s.ignored = r.ignored \cup {x \in {e.path} : e.disposition = "ignored"}
            /\ s.unsupported = r.unsupported \cup {x \in {e.path} : e.reasons = {"unsupported_format"}}
            /\ s.skipped = r.skipped \cup {x \in {Skip(e.path, e.reasons)} : e.reasons # {}}
        BY ONLY <2>3, <2>4, <4>2, <4>5
      <4>8. s.artifacts = r.artifacts \cup {x \in {e.path} : e.disposition = "parsed"}
        BY ONLY <2>3, <2>4, <4>2, <4>5
      <4>9. Loss(s) <=> Loss(r) \/ Lossy(e)
        BY ONLY <2>4, <4>4, <4>5 DEF Loss
      <4> QED BY ONLY <2>2, <4>5, <4>6, <4>7, <4>8, <4>9 DEF Tells
    <3>2. CASE answer \in {"binary", "unsupported", "ambiguous", "encrypted", "cancelled", "empty"}
      <4> DEFINE x == CHOOSE x \in v[2] : TRUE
      <4>1. v = CASE answer = "binary"      -> <<"binary", {"binary_file"}, "unsupported">>
                  [] answer = "unsupported" -> <<"unsupported", {"unsupported_format"}, answer>>
                  [] answer = "encrypted"   -> <<"unsupported", {"encrypted"}, answer>>
                  [] answer = "ambiguous"   -> <<"failed", {"parse_ambiguous"}, answer>>
                  [] answer = "cancelled"   -> <<"failed", {"cancelled"}, answer>>
                  [] answer = "empty"       -> <<"failed", {"parse_failed"}, "failed">>
        BY <3>2 DEF Verdict
      <4>2. /\ v[2] = {x} /\ x \in AnswerReasons
            /\ v[1] \notin {"parsed", "ignored"}
            /\ v[3] # "partial"
            /\ x = "unsupported_format" <=> answer = "unsupported"
            /\ x \notin {"path_escapes_root", "symlink_escapes_root"}
            /\ answer \in {"binary", "unsupported"} => v[1] # "failed" /\ x # "encrypted"
            /\ answer \notin {"binary", "unsupported"} => v[1] = "failed" \/ x = "encrypted"
            /\ v[1] # "budget_limited"
            /\ answer = "binary" => x = "binary_file"
        BY <4>1, <3>2 DEF AnswerReasons
      <4>3. s = IF answer = "binary" THEN [told EXCEPT !.skipped = @ \cup {Skip(p, {"binary_file"})}]
                ELSE IF answer = "unsupported" THEN
                  [told EXCEPT !.unsupported = @ \cup {p},
                               !.skipped = @ \cup {Skip(p, {"unsupported_format"})}]
                ELSE [told EXCEPT !.skipped = @ \cup {Skip(p, {x})}, !.partial = TRUE]
        BY <3>2 DEF Record, RecordTerminalSkip
      <4> HIDE DEF e, v, told, s, q, x
      <4>4. Lossy(e) <=> answer \notin {"binary", "unsupported"}
        BY <2>3, <4>2 DEF Lossy
      <4>5. Skip(p, {x}) \in SkipRecords
        BY <4>2 DEF Skip, SkipRecords, Reasons
      <4>6. s \in Reports /\ s.entries = told.entries /\ s.files = told.files
            /\ s.members = told.members /\ s.artifacts = told.artifacts
            /\ s.unsupported = (IF answer = "unsupported" THEN told.unsupported \cup {p}
                                ELSE told.unsupported)
            /\ s.skipped = told.skipped \cup {Skip(p, {x})}
            /\ s.partial = (IF answer \in {"binary", "unsupported"} THEN told.partial ELSE TRUE)
            /\ s.diagnosed = told.diagnosed
            /\ s.ignored = told.ignored
        BY <2>4, <4>2, <4>3, <4>5, <3>2 DEF Reports
      <4>7. e.reasons = {x} /\ e.disposition \notin {"parsed", "ignored"}
            /\ (e.reasons = {"unsupported_format"} <=> answer = "unsupported")
        BY <2>3, <4>2
      <4>8. Loss(s) <=> Loss(r) \/ Lossy(e)
        BY ONLY <2>4, <4>4, <4>6 DEF Loss
      <4> QED BY <2>2, <2>3, <2>4, <4>4, <4>6, <4>7, <4>8 DEF Tells, q
    <3> QED BY <3>1, <3>2, <1>2 DEF Outcomes
  <2> HIDE DEF e, v, told, s, q
  <2> QED BY <2>0, <2>1, <2>3, <2>5 DEF s
<1> QED BY <1>1, <1>2

(* One more entry, one more thing told.                                    *)
LEMMA AppendTold ==
  ASSUME NEW s \in Seq(EntryRecords), NEW e \in EntryRecords
  PROVE  /\ Range(Append(s, e)) = Range(s) \cup {e}
         /\ \A p : TellsOf(Append(s, e), p) <=> TellsOf(s, p) \/ e.path = p
         /\ \A p : SettledIn(Append(s, e), p) <=> SettledIn(s, p) \/ (e.path = p /\ Settles(e))
<1> DEFINE q == Append(s, e)
<1>1. PICK n \in Nat : n = Len(s) /\ DOMAIN s = 1..n
  OBVIOUS
<1>2. DOMAIN q = 1..(n + 1) /\ q[n + 1] = e /\ \A i \in 1..n : q[i] = s[i]
  BY <1>1
<1> HIDE DEF q
<1>3. \A i \in DOMAIN q : (i \in DOMAIN s /\ q[i] = s[i]) \/ q[i] = e
  BY <1>1, <1>2
<1>4. n + 1 \in DOMAIN q /\ \A i \in DOMAIN s : i \in DOMAIN q /\ q[i] = s[i]
  BY <1>1, <1>2
<1>5. Range(q) = Range(s) \cup {e}
  BY <1>2, <1>3, <1>4 DEF Range
<1>6. ASSUME NEW p PROVE TellsOf(q, p) <=> TellsOf(s, p) \/ e.path = p
  BY <1>2, <1>3, <1>4 DEF TellsOf
<1>7. ASSUME NEW p PROVE SettledIn(q, p) <=> SettledIn(s, p) \/ (e.path = p /\ Settles(e))
  BY <1>2, <1>3, <1>4 DEF SettledIn
<1> QED BY <1>5, <1>6, <1>7 DEF q

LEMMA AppendDistinct ==
  ASSUME NEW s \in Seq(EntryRecords), NEW e \in EntryRecords, Distinct(s),
         \/ ~ TellsOf(s, e.path) /\ (Settles(e) \/ e.kind = "submodule")
         \/ ~ SettledIn(s, e.path) /\ Settles(e) /\ e.kind = "directory"
  PROVE  Distinct(Append(s, e))
<1> DEFINE q == Append(s, e)
<1>1. PICK n \in Nat : n = Len(s) /\ DOMAIN s = 1..n
  OBVIOUS
<1>2. DOMAIN q = 1..(n + 1) /\ q[n + 1] = e /\ \A i \in 1..n : q[i] = s[i]
  BY <1>1
<1> HIDE DEF q
<1>3. \A i \in DOMAIN q : (i \in DOMAIN s /\ q[i] = s[i]) \/ (i = n + 1 /\ q[i] = e)
  BY <1>1, <1>2
<1>4. \A i \in DOMAIN s : s[i].path = e.path =>
        Settles(e) /\ e.kind = "directory" /\ ~ Settles(s[i])
  BY DEF TellsOf, SettledIn
<1>5. \A i \in DOMAIN q : ~ Settles(q[i]) => q[i].kind = "submodule"
  BY <1>3 DEF Distinct
<1>6. ASSUME NEW i \in DOMAIN q, NEW j \in DOMAIN q, i # j, q[i].path = q[j].path
      PROVE  (Settles(q[i]) <=> ~ Settles(q[j])) /\ (Settles(q[i]) => q[i].kind = "directory")
  <2>1. CASE i \in DOMAIN s /\ j \in DOMAIN s /\ q[i] = s[i] /\ q[j] = s[j]
    BY <2>1, <1>6 DEF Distinct
  <2>2. CASE i \in DOMAIN s /\ q[i] = s[i] /\ q[j] = e
    BY <2>2, <1>4, <1>6
  <2>3. CASE j \in DOMAIN s /\ q[j] = s[j] /\ q[i] = e
    BY <2>3, <1>4, <1>6
  <2> QED BY <1>3, <1>6, <2>1, <2>2, <2>3
<1> QED BY <1>5, <1>6 DEF Distinct, q

LEMMA ViewsTold ==
  ASSUME NEW r \in Reports, NEW s, NEW e, NEW gap, Views(r, gap), Tells(r, s, e)
  PROVE  Views(s, gap)
<1> DEFINE told == Range(r.entries)
<1>1. Range(s.entries) = told \cup {e}
  BY AppendTold DEF Tells, Reports
<1> HIDE DEF told
<1>2. \A p : p \in s.ignored <=> p \in r.ignored \/ (p = e.path /\ e.disposition = "ignored")
  BY DEF Tells
<1>3. s.ignored = PathsOf({x \in told \cup {e} : x.disposition = "ignored"})
  BY <1>2 DEF Views, told, PathsOf
<1>4. \A p : p \in s.unsupported <=>
               p \in r.unsupported \/ (p = e.path /\ e.reasons = {"unsupported_format"})
  BY DEF Tells
<1>11. r.unsupported = PathsOf({x \in told : x.reasons = {"unsupported_format"}})
  BY DEF Views, told
<1>5. s.unsupported = PathsOf({x \in told \cup {e} : x.reasons = {"unsupported_format"}})
  <2> DEFINE Odd(x) == x.reasons = {"unsupported_format"}
  <2>1. r.unsupported = {x.path : x \in {y \in told : Odd(y)}}
    BY <1>11 DEF PathsOf
  <2>2. \A p : p \in s.unsupported <=> p \in r.unsupported \/ (p = e.path /\ Odd(e))
    BY <1>4
  <2> HIDE DEF Odd
  <2>3. s.unsupported = {x.path : x \in {y \in told \cup {e} : Odd(y)}}
    BY ONLY <2>1, <2>2
  <2> QED BY <2>3 DEF PathsOf, Odd
<1>6. \A p : p \in s.artifacts <=> p \in r.artifacts \/ (p = e.path /\ e.disposition = "parsed")
  BY DEF Tells
<1>7. s.artifacts = PathsOf({x \in told \cup {e} : x.disposition = "parsed"})
  BY <1>6 DEF Views, told, PathsOf
<1>8. \A y : y \in s.skipped <=> y \in r.skipped \/ (y = Skip(e.path, e.reasons) /\ e.reasons # {})
  BY DEF Tells
<1>9. s.skipped = {Skip(x.path, x.reasons) : x \in {y \in told \cup {e} : y.reasons # {}}}
  BY <1>8 DEF Views, told
<1>10. Loss(s) <=> gap \/ \E x \in told \cup {e} : Lossy(x)
  BY DEF Views, Tells, told
<1> QED BY <1>1, <1>3, <1>5, <1>7, <1>9, <1>10 DEF Views

-----------------------------------------------------------------------------
(* The stack of directories.                                               *)

LEMMA StackTake ==
  ASSUME NEW s \in Seq(SUBSET Paths), Apart(s), s # <<>>, NEW c \in s[Len(s)],
         NEW t, t = [s EXCEPT ![Len(s)] = @ \ {c}]
  PROVE  /\ t \in Seq(SUBSET Paths) /\ t # <<>> /\ DOMAIN t = DOMAIN s /\ Len(t) = Len(s)
         /\ Len(s) \in DOMAIN s
         /\ \A i \in DOMAIN s : t[i] \subseteq s[i]
         /\ Apart(t) /\ AllOf(t) = AllOf(s) \ {c} /\ c \in AllOf(s)
<1>1. PICK n \in Nat : n = Len(s) /\ DOMAIN s = 1..n
  OBVIOUS
<1>2. n \in DOMAIN s /\ n # 0
  BY <1>1
<1>9. s \in [1..n -> SUBSET Paths] /\ t = [s EXCEPT ![n] = s[n] \ {c}]
  BY <1>1
<1>3. t \in [1..n -> SUBSET Paths] /\ \A i \in 1..n : t[i] = IF i = n THEN s[i] \ {c} ELSE s[i]
  BY <1>2, <1>9
<1>4. t \in Seq(SUBSET Paths) /\ DOMAIN t = 1..n /\ Len(t) = n
  BY <1>3
<1>5. \A i \in 1..n : c \in s[i] => i = n
  BY <1>1, <1>2 DEF Apart
<1>6. AllOf(t) = AllOf(s) \ {c}
  BY <1>1, <1>3, <1>4, <1>5 DEF AllOf
<1>7. Apart(t)
  BY <1>1, <1>3, <1>4 DEF Apart
<1>8. c \in AllOf(s)
  BY <1>1, <1>2 DEF AllOf
<1> QED BY <1>1, <1>2, <1>3, <1>4, <1>6, <1>7, <1>8

(* t is the stack s with the set S on top.                                 *)
Pushed(s, S, t) ==
  /\ t \in Seq(SUBSET Paths) /\ Apart(t) /\ AllOf(t) = AllOf(s) \cup S /\ t # <<>>
  /\ \A i \in DOMAIN t : \/ i \in DOMAIN s /\ t[i] = s[i]
                         \/ i = Len(s) + 1 /\ t[i] = S
  /\ \A i \in DOMAIN s : i \in 1..Len(s) /\ i \in DOMAIN t /\ t[i] = s[i]

LEMMA StackPush ==
  ASSUME NEW s \in Seq(SUBSET Paths), Apart(s), NEW S \in SUBSET Paths, S \cap AllOf(s) = {}
  PROVE  Pushed(s, S, Append(s, S))
<1> DEFINE t == Append(s, S)
<1>1. PICK n \in Nat : n = Len(s) /\ DOMAIN s = 1..n
  OBVIOUS
<1>2. t \in Seq(SUBSET Paths) /\ DOMAIN t = 1..(n + 1) /\ t[n + 1] = S
      /\ \A i \in 1..n : t[i] = s[i]
  BY <1>1
<1>3. \A i \in DOMAIN t : (i \in DOMAIN s /\ t[i] = s[i]) \/ (i = n + 1 /\ t[i] = S)
  BY <1>1, <1>2
<1>4. \A i \in DOMAIN s : i \in DOMAIN t /\ t[i] = s[i] /\ t[i] \cap S = {}
  BY <1>1, <1>2 DEF AllOf
<1>5. n + 1 \in DOMAIN t
  BY <1>2
<1>6. AllOf(t) = AllOf(s) \cup S
  BY <1>2, <1>3, <1>4, <1>5 DEF AllOf
<1>7. Apart(t)
  BY <1>3, <1>4 DEF Apart
<1>8. t # <<>>
  BY <1>5
<1> HIDE DEF t
<1>9. Pushed(s, S, t)
  BY <1>1, <1>2, <1>3, <1>4, <1>6, <1>7, <1>8 DEF Pushed
<1> QED BY <1>9 DEF t

LEMMA StackPop ==
  ASSUME NEW s \in Seq(SUBSET Paths), Apart(s), s # <<>>, s[Len(s)] = {},
         NEW t, t = Front(s)
  PROVE  /\ t \in Seq(SUBSET Paths) /\ Apart(t) /\ AllOf(t) = AllOf(s)
         /\ \A i \in DOMAIN t : i \in DOMAIN s /\ t[i] = s[i]
<1>1. PICK n \in Nat : n = Len(s) /\ DOMAIN s = 1..n
  OBVIOUS
<1>2. n # 0
  BY <1>1
<1>3. t \in Seq(SUBSET Paths) /\ DOMAIN t = 1..(n - 1) /\ \A i \in 1..(n - 1) : t[i] = s[i]
  BY <1>1, <1>2 DEF Front
<1>4. \A i \in DOMAIN s : i \in DOMAIN t \/ s[i] = {}
  BY <1>1, <1>2, <1>3
<1>5. \A i \in DOMAIN t : i \in DOMAIN s /\ t[i] = s[i]
  BY <1>1, <1>3
<1>6. AllOf(t) = AllOf(s)
  BY <1>4, <1>5 DEF AllOf
<1>7. Apart(t)
  BY <1>5 DEF Apart
<1> QED BY <1>3, <1>5, <1>6, <1>7

-----------------------------------------------------------------------------
(* What the visit of a child comes to.                                     *)

(* Why an entry without a loss is neither opened nor read.                 *)
LeftOut(c, e) ==
  LET reasons == FilterReasons(c) IN
  /\ e.disposition = "ignored" <=>
       /\ c \notin GitNames \cup ArtifactOutput
       /\ Node(c).kind \in {"file", "link"} /\ "ignore_rule" \in reasons
  /\ \/ c \in GitNames \cup ArtifactOutput
     \/ Node(c).kind = "dir" /\ WhyClosed(c) \in {"default_excluded", "submodule_policy"}
     \/ Node(c).kind \in {"file", "link"} /\ reasons # {}
     \/ /\ Node(c).kind = "link" /\ reasons = {}
        /\ \/ ~ options.follow
           \/ Node(c).target = Root
           \/ Node(c).target \in Paths /\ Node(Node(c).target).kind # "file"

SettlesChild(c, e) ==
  /\ Tells(report, report', e) /\ e.path = c /\ Settles(e)
  /\ entering' = entering /\ reading' = reading
  /\ eligible' \in Nat /\ eligible' >= eligible
  /\ "repository_file_limit" \in e.reasons => eligible' > options.files
  /\ Lossy(e) \/ LeftOut(c, e)

OpensChild(c) ==
  /\ entering' = c /\ reading' = reading /\ eligible' = eligible
  /\ \/ report' = report
     \/ \E e : /\ Tells(report, report', e) /\ e.path = c /\ e.kind = "submodule"
               /\ e.disposition = "traversed" /\ e.reasons = {}
  /\ Node(c).kind = "dir" /\ c \notin GitNames \cup ArtifactOutput /\ WhyClosed(c) = None

HoldsChild(c) ==
  /\ entering' = entering /\ report' = report
  /\ reading' \in Readings /\ reading'.path = c /\ reading' # None
  /\ eligible' = eligible + 1 /\ eligible' <= options.files
  /\ c \notin GitNames \cup ArtifactOutput /\ FilterReasons(c) = {}
  /\ \/ Node(c).kind = "file"
     \/ /\ Node(c).kind = "link" /\ options.follow
        /\ Node(c).target \in Paths /\ Node(Node(c).target).kind = "file"

LEMMA NodeIs ==
  ASSUME TraversalTypeInv, NEW p \in Paths
  PROVE  /\ Node(p) \in Nodes
         /\ Node(p).kind # "absent" =>
              Node(p) = tree[p] /\ \A d \in Ancestors[p] : tree[d].kind = "dir"
         /\ Node(p).kind = "link" => Node(p).target \in Paths \cup {Root, Outside}
<1>1. Absent \in Nodes /\ Absent.kind = "absent"
  BY DEF Absent, Nodes
<1>2. tree[p] \in Nodes /\ tree[p] \in Possible[p]
  BY DEF TraversalTypeInv
<1>3. Node(p) = tree[p] \/ Node(p) = Absent
  BY DEF Node
<1>4. Node(p).kind # "absent" =>
        Node(p) = tree[p] /\ \A d \in Ancestors[p] : tree[d].kind = "dir"
  BY <1>1 DEF Node
<1>5. Node(p).kind = "link" => Node(p).target # None
  BY <1>1, <1>2, <1>3, RepositoryAssumption
<1>6. Node(p) \in Nodes
  BY <1>1, <1>2, <1>3
<1> QED BY <1>4, <1>5, <1>6 DEF Nodes

LEMMA FilterIs ==
  \A p : FilterReasons(p) \in SUBSET {"ignore_rule", "glob"}
BY DEF FilterReasons

LEMMA VisitFileIs ==
  ASSUME TraversalTypeInv, NEW c \in Paths, NEW q \in Paths, NEW k \in {"file", "symlink"},
         c \notin GitNames \cup ArtifactOutput,
         \/ Node(c).kind = "file"
         \/ /\ Node(c).kind = "link" /\ options.follow /\ q = Node(c).target
            /\ Node(q).kind = "file",
         VisitFile(c, q, k)
  PROVE  (\E e : SettlesChild(c, e)) \/ HoldsChild(c)
<1> DEFINE reasons == FilterReasons(c)
<1>0. /\ report \in Reports /\ k \in Kinds /\ eligible \in Nat /\ options.files \in Nat
      /\ entering' = entering
  BY RepositoryAssumption DEF TraversalTypeInv, Kinds, VisitFile
<1>1. CASE ~ Node(q).inside
  <2>1. /\ report' = RecordLoss(report, c, k, "skipped", "path_escapes_root")
        /\ reading' = reading /\ eligible' = eligible
    BY <1>1 DEF VisitFile, RecordEscape
  <2> DEFINE e == Entry(c, k, "skipped", {"path_escapes_root"}, None)
  <2>2. Tells(report, report', e) /\ Lossy(e)
    BY <1>0, <2>1, LossTells DEF LossReasons
  <2>3. e.path = c /\ e.reasons = {"path_escapes_root"} /\ Settles(e)
    BY DEF Entry, Settles
  <2> QED BY <1>0, <2>1, <2>2, <2>3 DEF SettlesChild
<1>2. CASE Node(q).inside /\ reasons # {}
  <2>1. /\ report' = RecordSkippedEntry(report, c, k, reasons)
        /\ reading' = reading /\ eligible' = eligible
    BY <1>2 DEF VisitFile
  <2> DEFINE d == IF "ignore_rule" \in reasons THEN "ignored" ELSE "skipped"
             e == Entry(c, k, d, reasons, None)
  <2>2. reasons \in SUBSET PolicyReasons
    BY FilterIs DEF PolicyReasons
  <2>3. Tells(report, report', e)
    BY <1>0, <1>2, <2>1, <2>2, SkippedEntryTells
  <2>4. e.path = c /\ e.reasons = reasons /\ e.disposition = d /\ Settles(e)
        /\ "repository_file_limit" \notin e.reasons
    BY <2>2 DEF Entry, Settles, PolicyReasons
  <2>5. LeftOut(c, e)
    BY <1>2, <2>4 DEF LeftOut
  <2> QED BY <1>0, <2>1, <2>3, <2>4, <2>5 DEF SettlesChild
<1>3. CASE Node(q).inside /\ reasons = {}
  <2>1. eligible' = eligible + 1
    BY <1>3 DEF VisitFile
  <2>2. ASSUME NEW reason \in {"repository_file_limit", "file_size_limit"},
               report' = RecordBudgetSkip(report, c, k, reason), reading' = reading,
               reason = "repository_file_limit" => eligible' > options.files
        PROVE  \E e : SettlesChild(c, e)
    <3> DEFINE e == Entry(c, k, "budget_limited", {reason}, None)
    <3>1. Tells(report, report', e) /\ Lossy(e)
      BY <1>0, <2>2, LossTells DEF LossReasons, RecordBudgetSkip
    <3>2. e.path = c /\ e.reasons = {reason} /\ Settles(e)
      BY DEF Entry, Settles
    <3>3. eligible' \in Nat /\ eligible' >= eligible
      BY <1>0, <2>1
    <3> HIDE DEF e
    <3> QED BY <1>0, <2>2, <3>1, <3>2, <3>3 DEF SettlesChild
  <2>3. CASE eligible + 1 > options.files
    BY <1>3, <2>1, <2>2, <2>3 DEF VisitFile
  <2>4. CASE ~ (eligible + 1 > options.files) /\ Node(q).size > MaxBytes
    BY <1>3, <2>2, <2>4 DEF VisitFile
  <2>5. CASE ~ (eligible + 1 > options.files) /\ ~ (Node(q).size > MaxBytes)
    <3>1. reading' = [path |-> c, file |-> q, kind |-> k] /\ report' = report
      BY <1>3, <2>5 DEF VisitFile
    <3>2. reading' \in Readings /\ reading' # None /\ reading'.path = c
      BY <3>1, RepositoryAssumption DEF Readings
    <3> QED BY <1>0, <1>3, <2>1, <2>5, <3>1, <3>2 DEF HoldsChild
  <2> QED BY <2>3, <2>4, <2>5
<1> QED BY <1>1, <1>2, <1>3

(* Every visit of a child settles it, opens it or holds it.                *)
LEMMA VisitChildIs ==
  ASSUME TraversalTypeInv, VisitChild
  PROVE  \E c \in Paths : /\ Visit(c) /\ reading = None
                          /\ (\E e : SettlesChild(c, e)) \/ OpensChild(c) \/ HoldsChild(c)
<1>0. /\ report \in Reports /\ eligible \in Nat /\ options.files \in Nat
      /\ {"directory", "submodule", "symlink", "file"} = Kinds
  BY RepositoryAssumption DEF TraversalTypeInv, Kinds
<1> DEFINE Still == entering' = entering /\ reading' = reading /\ eligible' = eligible
(* A policy, or a loss.                                                    *)
<1>1. ASSUME NEW c \in Paths, NEW k \in Kinds, NEW reasons \in SUBSET PolicyReasons,
             reasons # {}, Still, report' = RecordSkippedEntry(report, c, k, reasons),
             NEW d, d = IF "ignore_rule" \in reasons THEN "ignored" ELSE "skipped",
             LeftOut(c, Entry(c, k, d, reasons, None))
      PROVE  \E e : SettlesChild(c, e)
  <2> DEFINE e == Entry(c, k, d, reasons, None)
  <2>1. Tells(report, report', e)
    BY <1>0, <1>1, SkippedEntryTells
  <2>2. e.path = c /\ Settles(e) /\ "repository_file_limit" \notin e.reasons
    BY <1>1 DEF Entry, Settles, PolicyReasons
  <2> HIDE DEF e
  <2> QED BY <1>0, <1>1, <2>1, <2>2 DEF SettlesChild, e
<1>2. ASSUME NEW c \in Paths, NEW k \in Kinds, NEW d,
             NEW reason \in {"read_error", "path_escapes_root", "symlink_escapes_root"},
             Still, report' = RecordLoss(report, c, k, d, reason),
             d = "failed" \/ (d = "skipped" /\ reason # "read_error")
      PROVE  \E e : SettlesChild(c, e)
  <2> DEFINE e == Entry(c, k, d, {reason}, None)
  <2>1. Tells(report, report', e) /\ Lossy(e)
    BY <1>0, <1>2, LossTells DEF LossReasons
  <2>2. e.path = c /\ Settles(e) /\ "repository_file_limit" \notin e.reasons
    BY <1>2 DEF Entry, Settles
  <2> HIDE DEF e
  <2> QED BY <1>0, <1>2, <2>1, <2>2 DEF SettlesChild
<1> HIDE DEF Still
<1> DEFINE Goal(c) == Visit(c) /\ ((\E e : SettlesChild(c, e)) \/ OpensChild(c) \/ HoldsChild(c))
<1>3. ASSUME NEW c \in Paths, SetAside(c) PROVE Goal(c)
  <2> DEFINE reason == IF c \in GitNames THEN "repository_metadata" ELSE "external_artifact_output"
             k == IF Node(c).kind = "dir" THEN "directory" ELSE "file"
  <2>1. Visit(c) /\ Still /\ report' = RecordSkippedEntry(report, c, k, {reason})
    BY <1>3 DEF SetAside, Still
  <2>2. {reason} \in SUBSET PolicyReasons /\ "ignore_rule" \notin {reason} /\ k \in Kinds
    BY DEF PolicyReasons, Kinds
  <2>3. LeftOut(c, Entry(c, k, "skipped", {reason}, None))
    BY <1>3 DEF LeftOut, SetAside, Entry
  <2> QED BY <1>1, <2>1, <2>2, <2>3
<1>4. ASSUME NEW c \in Paths, CannotInspect(c) PROVE Goal(c)
  <2>1. Visit(c) /\ Still /\ report' = RecordLoss(report, c, "file", "failed", "read_error")
    BY <1>4 DEF CannotInspect, Still, RecordFailure
  <2> QED BY <1>0, <1>2, <2>1
<1>5. ASSUME NEW c \in Paths, CannotResolve(c) PROVE Goal(c)
  <2> DEFINE kind == Node(c).kind
             k == CASE kind = "dir" -> "directory" [] kind = "link" -> "symlink" [] OTHER -> "file"
  <2>1. Visit(c) /\ Still /\ report' = RecordLoss(report, c, k, "failed", "read_error")
    BY <1>5 DEF CannotResolve, Considered, Still, RecordFailure
  <2>2. k \in Kinds
    BY DEF Kinds
  <2> QED BY <1>2, <2>1, <2>2
<1>6. ASSUME NEW c \in Paths, ChildDirectory(c) PROVE Goal(c)
  <2>0. Visit(c) /\ Node(c).kind = "dir" /\ c \notin GitNames \cup ArtifactOutput
        /\ reading' = reading /\ eligible' = eligible
    BY <1>6 DEF ChildDirectory, Considered
  <2>1. CASE WhyClosed(c) = "path_escapes_root"
    <3>1. Still /\ report' = RecordLoss(report, c, "directory", "skipped", "path_escapes_root")
      BY <1>6, <2>0, <2>1 DEF ChildDirectory, Still, RecordEscape
    <3> QED BY <1>0, <1>2, <2>0, <3>1
  <2>2. ASSUME NEW why \in {"default_excluded", "submodule_policy"}, WhyClosed(c) = why,
               NEW k \in Kinds, Still, report' = RecordSkippedEntry(report, c, k, {why})
        PROVE  Goal(c)
    <3>1. {why} \in SUBSET PolicyReasons /\ "ignore_rule" \notin {why}
      BY DEF PolicyReasons
    <3>2. LeftOut(c, Entry(c, k, "skipped", {why}, None))
      BY <2>0, <2>2 DEF LeftOut, Entry
    <3> QED BY <1>1, <2>0, <2>2, <3>1, <3>2
  <2>3. CASE WhyClosed(c) = "default_excluded"
    <3>1. Still /\ report' = RecordSkippedEntry(report, c, "directory", {"default_excluded"})
      BY <1>6, <2>0, <2>3 DEF ChildDirectory, Still
    <3> QED BY <1>0, <2>2, <2>3, <3>1
  <2>4. CASE WhyClosed(c) = "submodule_policy"
    <3>1. Still /\ report' = RecordSkippedEntry(report, c, "submodule", {"submodule_policy"})
      BY <1>6, <2>0, <2>4 DEF ChildDirectory, Still
    <3> QED BY <1>0, <2>2, <2>4, <3>1
  <2>5. CASE WhyClosed(c) \notin {"path_escapes_root", "default_excluded", "submodule_policy"}
    <3> DEFINE e == Entry(c, "submodule", "traversed", {}, None)
    <3>1. WhyClosed(c) = None
      BY <2>5 DEF WhyClosed
    <3>2. /\ report' = IF Nested(c) THEN [report EXCEPT !.entries = Append(@, e)] ELSE report
          /\ entering' = c
      BY <1>6, <2>5 DEF ChildDirectory
    <3>3. e.path = c /\ e.kind = "submodule" /\ e.disposition = "traversed" /\ e.reasons = {}
      BY DEF Entry
    <3>4. Nested(c) => Tells(report, report', e)
      BY <1>0, <3>2, TraversedTells
    <3>5. ~ Nested(c) => report' = report
      BY <3>2
    <3> HIDE DEF e
    <3> QED BY <2>0, <3>1, <3>2, <3>3, <3>4, <3>5 DEF OpensChild
  <2> QED BY <2>1, <2>3, <2>4, <2>5
<1>7. ASSUME NEW c \in Paths, ChildFile(c) PROVE Goal(c)
  <2>1. Visit(c) /\ Node(c).kind = "file" /\ c \notin GitNames \cup ArtifactOutput
        /\ VisitFile(c, c, "file")
    BY <1>7 DEF ChildFile, Considered
  <2> QED BY <2>1, VisitFileIs
<1>8. ASSUME NEW c \in Paths, ChildLink(c) PROVE Goal(c)
  <2> DEFINE q == Node(c).target
             reasons == FilterReasons(c)
  <2>0. Visit(c) /\ Node(c).kind = "link" /\ c \notin GitNames \cup ArtifactOutput
    BY <1>8 DEF ChildLink, Considered
  <2>1. q \in Paths \cup {Root, Outside}
    BY <2>0, NodeIs
  <2>2. ASSUME NEW why \in SUBSET PolicyReasons, why # {}, Still,
               report' = RecordSkippedEntry(report, c, "symlink", why),
               LeftOut(c, Entry(c, "symlink", IF "ignore_rule" \in why THEN "ignored" ELSE "skipped",
                                why, None))
        PROVE  Goal(c)
    BY <1>0, <1>1, <2>0, <2>2
  <2>3. CASE reasons # {}
    <3>1. Still /\ report' = RecordSkippedEntry(report, c, "symlink", reasons)
      BY <1>8, <2>3 DEF ChildLink, Still
    <3>2. reasons \in SUBSET PolicyReasons
      BY FilterIs DEF PolicyReasons
    <3>3. LeftOut(c, Entry(c, "symlink",
                           IF "ignore_rule" \in reasons THEN "ignored" ELSE "skipped", reasons, None))
      BY <2>0, <2>3 DEF LeftOut, Entry
    <3> QED BY <2>2, <2>3, <3>1, <3>2, <3>3
  <2>4. ASSUME NEW why \in {"symlink_policy", "symlink_directory"}, reasons = {}, Still,
               report' = RecordSkippedEntry(report, c, "symlink", {why}),
               \/ ~ options.follow
               \/ q = Root
               \/ q \in Paths /\ Node(q).kind # "file"
        PROVE  Goal(c)
    <3>1. {why} \in SUBSET PolicyReasons /\ "ignore_rule" \notin {why}
      BY DEF PolicyReasons
    <3>2. LeftOut(c, Entry(c, "symlink", "skipped", {why}, None))
      BY <2>0, <2>4 DEF LeftOut, Entry
    <3> QED BY <2>2, <2>4, <3>1, <3>2
  <2>5. ASSUME NEW reason \in {"read_error", "symlink_escapes_root"}, Still,
               \/ report' = RecordFailure(report, c, "symlink", reason) /\ reason = "read_error"
               \/ report' = RecordEscape(report, c, "symlink", reason) /\ reason # "read_error"
        PROVE  Goal(c)
    <3>1. \E d : /\ report' = RecordLoss(report, c, "symlink", d, reason)
                 /\ d = "failed" \/ (d = "skipped" /\ reason # "read_error")
      BY <2>5 DEF RecordFailure, RecordEscape
    <3> QED BY <1>0, <1>2, <2>0, <2>5, <3>1
  <2>6. CASE reasons = {} /\ ~ options.follow
    BY <1>8, <2>4, <2>6 DEF ChildLink, Still
  <2>7. CASE reasons = {} /\ options.follow
    <3>1. CASE q = Outside
      BY <1>8, <2>5, <2>7, <3>1 DEF ChildLink, Still
    <3>2. CASE q # Outside /\ q = Root
      BY <1>8, <2>4, <2>7, <3>2 DEF ChildLink, Still
    <3>3. CASE q \notin {Outside, Root} /\ Node(q).kind = "absent"
      BY <1>8, <2>5, <2>7, <3>3 DEF ChildLink, Still
    <3>4. CASE q \notin {Outside, Root} /\ Node(q).kind # "absent" /\ ~ Node(q).inside
      BY <1>8, <2>5, <2>7, <3>4 DEF ChildLink, Still
    <3>5. CASE q \notin {Outside, Root} /\ Node(q).kind \notin {"absent", "file"} /\ Node(q).inside
      BY <1>8, <2>1, <2>4, <2>7, <3>5 DEF ChildLink, Still
    <3>6. CASE q \notin {Outside, Root} /\ Node(q).kind = "file" /\ Node(q).inside
      <4>1. q \in Paths /\ VisitFile(c, q, "symlink")
        BY <1>8, <2>1, <2>7, <3>6 DEF ChildLink
      <4> QED BY <2>0, <2>7, <3>6, <4>1, VisitFileIs
    <3> QED BY <3>1, <3>2, <3>3, <3>4, <3>5, <3>6
  <2> QED BY <2>3, <2>6, <2>7
<1>9. PICK c \in Paths : Goal(c)
  <2> HIDE DEF Goal
  <2> QED BY <1>3, <1>4, <1>5, <1>6, <1>7, <1>8 DEF VisitChild
<1>10. reading = None
  BY <1>9 DEF Visit
<1> QED BY <1>9, <1>10

(* A file that is held is told of: read and counted, or lost.              *)
FileOf(p, size) == [path |-> p, size |-> size]

(* s is r with the file p read in addition; d: its envelope tells a loss.  *)
Counts(r, s, p, size, d) ==
  /\ s \in Reports /\ s.files = Append(r.files, FileOf(p, size))
  /\ s.members = r.members \cup {p} /\ s.entries = r.entries /\ s.ignored = r.ignored
  /\ s.unsupported = r.unsupported /\ s.artifacts = r.artifacts
  /\ s.skipped = r.skipped /\ (Loss(s) <=> Loss(r) \/ d)

LEMMA InventoryIs ==
  ASSUME NEW r \in Reports, NEW p \in Paths, NEW size \in Nat, NEW d \in BOOLEAN
  PROVE  Counts(r, Inventory(r, p, size, d), p, size, d)
<1> DEFINE q == Append(r.files, FileOf(p, size))
           s == Inventory(r, p, size, d)
<1>1. q \in Seq(FileRecords)
  BY DEF Reports, FileRecords, FileOf
<1>2. s = [r EXCEPT !.files = q, !.members = @ \cup {p}, !.diagnosed = @ \/ d]
  BY DEF Inventory, FileOf
<1> HIDE DEF q, s
<1>3. /\ s \in Reports /\ s.files = q
      /\ s.members = r.members \cup {p} /\ s.entries = r.entries /\ s.ignored = r.ignored
      /\ s.unsupported = r.unsupported /\ s.artifacts = r.artifacts
      /\ s.skipped = r.skipped /\ s.partial = r.partial
      /\ s.diagnosed = (r.diagnosed \/ d)
  BY <1>1, <1>2 DEF Reports
<1>4. Loss(s) <=> Loss(r) \/ d
  BY ONLY <1>3 DEF Loss
<1> QED BY <1>3, <1>4 DEF q, s, Counts

LEMMA ReadFileIs ==
  ASSUME TraversalTypeInv, ReadFile
  PROVE  \E e : /\ e.path = reading.path /\ Settles(e)
                /\ "repository_file_limit" \notin e.reasons
                /\ e.disposition # "ignored"
                /\ \/ Tells(report, report', e) /\ Lossy(e) /\ flagged' = flagged
                   \/ \E size \in Nat, d \in BOOLEAN :
                        /\ size <= MaxBytes /\ flagged' = (flagged \/ d)
                        /\ Tells(Inventory(report, reading.path, size, d), report', e)
                        /\ e.disposition \in {"parsed", "binary", "unsupported", "failed"}
<1> DEFINE p == reading.path
           n == Opened(reading.file)
           k == reading.kind
<1>0. /\ report \in Reports /\ p \in Paths /\ reading.file \in Paths /\ k \in Kinds
      /\ MaxBytes \in Nat
  <2>1. reading \in Readings
    BY DEF TraversalTypeInv, ReadFile
  <2>2. p \in Paths /\ reading.file \in Paths /\ k \in Kinds
    BY <2>1 DEF Readings, Kinds
  <2> QED BY <2>2, RepositoryAssumption DEF TraversalTypeInv
<1>1. \A size \in Readable(n) \ {MaxBytes + 1} : size \in Nat /\ size <= MaxBytes
  BY <1>0 DEF Readable
<1>3. ASSUME NEW r \in Reports,
             NEW d \in {"failed", "budget_limited"}, NEW reason \in LossReasons,
             reason # "repository_file_limit", report' = RecordLoss(r, p, k, d, reason)
      PROVE  \E e : /\ Tells(r, report', e) /\ Lossy(e) /\ e.path = p /\ Settles(e)
                    /\ "repository_file_limit" \notin e.reasons /\ e.disposition = d
  <2> DEFINE e == Entry(p, k, d, {reason}, None)
  <2>1. Tells(r, report', e) /\ Lossy(e)
    BY <1>0, <1>3, LossTells
  <2>2. e.path = p /\ e.reasons = {reason} /\ e.disposition = d /\ Settles(e)
    BY <1>3 DEF Entry, Settles
  <2> HIDE DEF e
  <2> QED BY <1>3, <2>1, <2>2
<1>4. \/ report' = RecordLoss(report, p, k, "failed", "read_error") /\ flagged' = flagged
      \/ report' = RecordLoss(report, p, k, "budget_limited", "file_size_limit") /\ flagged' = flagged
      \/ \E size \in Readable(n) \ {MaxBytes + 1}, answer \in Answers[reading.file] :
           /\ flagged' = (flagged \/ answer.diagnosed)
           /\ \/ report' = Record(Inventory(report, p, size, answer.diagnosed), p, k, answer.outcome)
              \/ report' = RecordLoss(Inventory(report, p, size, answer.diagnosed), p, k,
                                      "failed", "parse_failed")
  BY DEF ReadFile, RecordFailure, RecordBudgetSkip
<1> HIDE DEF p, n, k
<1>5. CASE report' = RecordLoss(report, p, k, "failed", "read_error") /\ flagged' = flagged
  <2>1. "read_error" \in LossReasons
    BY DEF LossReasons
  <2> QED BY <1>0, <1>3, <1>5, <2>1 DEF p
<1>6. CASE report' = RecordLoss(report, p, k, "budget_limited", "file_size_limit") /\ flagged' = flagged
  <2>1. "file_size_limit" \in LossReasons
    BY DEF LossReasons
  <2> QED BY <1>0, <1>3, <1>6, <2>1 DEF p
<1>7. ASSUME NEW size \in Readable(n) \ {MaxBytes + 1}, NEW answer \in Answers[reading.file],
             flagged' = (flagged \/ answer.diagnosed),
             NEW read, read = Inventory(report, p, size, answer.diagnosed),
             \/ report' = Record(read, p, k, answer.outcome)
             \/ report' = RecordLoss(read, p, k, "failed", "parse_failed")
      PROVE  \E e : /\ e.path = p /\ Settles(e) /\ "repository_file_limit" \notin e.reasons
                    /\ e.disposition \in {"parsed", "binary", "unsupported", "failed"}
                    /\ \E m \in Nat, d \in BOOLEAN :
                         /\ m <= MaxBytes /\ flagged' = (flagged \/ d)
                         /\ Tells(Inventory(report, p, m, d), report', e)
  <2>1. answer.outcome \in Outcomes /\ answer.diagnosed \in BOOLEAN
    <3>1. answer \in Envelopes
      BY <1>0, RepositoryAssumption
    <3> QED BY <3>1 DEF Envelopes
  <2>2. size \in Nat /\ size <= MaxBytes
    BY <1>1
  <2>3. read \in Reports
    <3>1. Counts(report, read, p, size, answer.diagnosed)
      BY <1>0, <1>7, <2>1, <2>2, InventoryIs
    <3> QED BY <3>1 DEF Counts
  <2>4. PICK e : /\ Tells(read, report', e) /\ e.path = p /\ Settles(e)
                 /\ "repository_file_limit" \notin e.reasons
                 /\ e.disposition \in {"parsed", "binary", "unsupported", "failed"}
    <3>1. CASE report' = Record(read, p, k, answer.outcome)
      BY <1>0, <2>1, <2>3, <3>1, RecordTells DEF Settles
    <3>2. CASE report' = RecordLoss(read, p, k, "failed", "parse_failed")
      <4>1. "parse_failed" \in LossReasons
        BY DEF LossReasons
      <4> QED BY <1>3, <2>3, <3>2, <4>1
    <3> QED BY <1>7, <3>1, <3>2
  <2> QED BY <1>7, <2>1, <2>2, <2>4
<1>8. CASE \E size \in Readable(n) \ {MaxBytes + 1}, answer \in Answers[reading.file] :
             /\ flagged' = (flagged \/ answer.diagnosed)
             /\ \/ report' = Record(Inventory(report, p, size, answer.diagnosed), p, k, answer.outcome)
                \/ report' = RecordLoss(Inventory(report, p, size, answer.diagnosed), p, k,
                                        "failed", "parse_failed")
  <2>1. PICK e : /\ e.path = p /\ Settles(e) /\ "repository_file_limit" \notin e.reasons
                 /\ e.disposition \in {"parsed", "binary", "unsupported", "failed"}
                 /\ \E m \in Nat, d \in BOOLEAN :
                      /\ m <= MaxBytes /\ flagged' = (flagged \/ d)
                      /\ Tells(Inventory(report, p, m, d), report', e)
    BY <1>7, <1>8
  <2> QED BY <2>1 DEF p
<1> QED BY <1>4, <1>5, <1>6, <1>8

(* An open directory is lost, or its entries wait.                         *)
LEMMA VisitDirectoryIs ==
  ASSUME TraversalTypeInv, VisitDirectory
  PROVE  \/ /\ UNCHANGED <<stack, missed, met, listed>>
            /\ \E e : /\ Tells(report, report', e) /\ Lossy(e) /\ e.path = entering
                      /\ e.kind = "directory" /\ Settles(e) /\ e.disposition # "ignored"
                      /\ "repository_file_limit" \notin e.reasons
         \/ \E S \in SUBSET Children(entering) :
              /\ IsDirectory(entering)
              /\ stack' = Append(stack, S) /\ met' = met \cup S
              /\ listed' = listed \cup {entering}
              /\ \/ S = Children(entering) /\ report' = report /\ missed' = missed
                 \/ report' = [report EXCEPT !.partial = TRUE] /\ missed' = TRUE
<1>0. report \in Reports /\ entering \in Paths \cup {Root} /\ "directory" \in Kinds
  BY DEF TraversalTypeInv, VisitDirectory, Kinds
<1>1. ASSUME NEW d \in {"failed", "budget_limited"}, NEW reason \in LossReasons,
             reason # "repository_file_limit",
             report' = RecordLoss(report, entering, "directory", d, reason)
      PROVE  \E e : /\ Tells(report, report', e) /\ Lossy(e) /\ e.path = entering
                    /\ e.kind = "directory" /\ Settles(e) /\ e.disposition # "ignored"
                    /\ "repository_file_limit" \notin e.reasons
  <2> DEFINE e == Entry(entering, "directory", d, {reason}, None)
  <2>1. Tells(report, report', e) /\ Lossy(e)
    BY <1>0, <1>1, LossTells
  <2>2. e.path = entering /\ e.reasons = {reason} /\ e.disposition = d /\ Settles(e)
        /\ e.kind = "directory" /\ e.disposition # "ignored"
    BY <1>1 DEF Entry, Settles
  <2> HIDE DEF e
  <2> QED BY <1>1, <2>1, <2>2
<1>2. CASE /\ report' = RecordBudgetSkip(report, entering, "directory", "traversal_depth_limit")
           /\ UNCHANGED <<stack, missed, met, listed>>
  BY <1>1, <1>2 DEF RecordBudgetSkip, LossReasons
<1>3. CASE /\ report' = RecordFailure(report, entering, "directory", "read_error")
           /\ UNCHANGED <<stack, missed, met, listed>>
  BY <1>1, <1>3 DEF RecordFailure, LossReasons
<1>4. CASE /\ IsDirectory(entering)
           /\ stack' = Append(stack, Children(entering)) /\ met' = met \cup Children(entering)
           /\ listed' = listed \cup {entering} /\ UNCHANGED <<report, missed>>
  BY <1>4
<1>5. CASE /\ IsDirectory(entering)
           /\ \E p \in Children(entering) :
                /\ stack' = Append(stack, Children(entering) \ {p})
                /\ met' = met \cup (Children(entering) \ {p})
           /\ listed' = listed \cup {entering}
           /\ report' = [report EXCEPT !.partial = TRUE] /\ missed' = TRUE
  <2>1. PICK p \in Children(entering) :
               /\ stack' = Append(stack, Children(entering) \ {p})
               /\ met' = met \cup (Children(entering) \ {p})
    BY <1>5
  <2>2. Children(entering) \ {p} \in SUBSET Children(entering)
    OBVIOUS
  <2> QED BY <1>5, <2>1, <2>2
<1> QED BY <1>2, <1>3, <1>4, <1>5 DEF VisitDirectory

-----------------------------------------------------------------------------
(* What the final sort keeps.                                              *)
LEMMA ArrangedIs ==
  ASSUME NEW X, NEW s \in Seq(X), NEW at, Arranges(at, Len(s)),
         NEW t, Rearranged(t, s, at)
  PROVE  /\ t \in Seq(X) /\ Len(t) = Len(s) /\ DOMAIN t = DOMAIN s /\ Range(t) = Range(s)
         /\ \A i \in DOMAIN t : at[i] \in DOMAIN s /\ t[i] = s[at[i]]
         /\ \A i, j \in DOMAIN t : at[i] = at[j] => i = j
<1>1. PICK n \in Nat : n = Len(s) /\ DOMAIN s = 1..n
  OBVIOUS
<1>2. at \in [1..n -> 1..n] /\ t = [k \in 1..n |-> s[at[k]]]
  BY <1>1 DEF Arranges, Rearranged
<1>3. \A k \in 1..n : at[k] \in 1..n /\ s[at[k]] \in X
  BY <1>1, <1>2
<1>4. t \in [1..n -> X] /\ \A k \in 1..n : t[k] = s[at[k]]
  BY <1>2, <1>3
<1>5. t \in Seq(X) /\ Len(t) = n /\ DOMAIN t = 1..n
  BY <1>4
<1>6. \A i \in 1..n : \E k \in 1..n : s[i] = t[k]
  BY <1>1, <1>4 DEF Arranges
<1>7. Range(t) = Range(s)
  <2>1. \A i \in DOMAIN t : \E j \in DOMAIN s : t[i] = s[j]
    BY <1>1, <1>3, <1>4, <1>5
  <2>2. \A i \in DOMAIN s : \E j \in DOMAIN t : s[i] = t[j]
    BY <1>1, <1>5, <1>6
  <2> QED BY ONLY <2>1, <2>2 DEF Range
<1>8. \A k, l \in 1..n : at[k] = at[l] => k = l
  BY <1>1 DEF Arranges
<1> QED BY <1>1, <1>3, <1>4, <1>5, <1>7, <1>8

LEMMA TellsOfRange ==
  ASSUME NEW s, NEW p
  PROVE  /\ TellsOf(s, p) <=> \E e \in Range(s) : e.path = p
         /\ SettledIn(s, p) <=> \E e \in Range(s) : e.path = p /\ Settles(e)
BY DEF TellsOf, SettledIn, Range

LEMMA PlaceIsNat ==
  ASSUME NEW e, e.path \in Paths \cup {Root}, e.kind \in Kinds
  PROVE  Place(e) \in Nat /\ KindRank(e.kind) \in 0..3 /\ Rank[e.path] \in Nat
<1>1. Rank[e.path] \in Nat
  BY RepositoryAssumption
<1>2. KindRank(e.kind) \in 0..3
  BY DEF KindRank, Kinds
<1> QED BY <1>1, <1>2 DEF Place

LEMMA PlaceOrders ==
  ASSUME NEW e, NEW f, {e.path, f.path} \subseteq Paths \cup {Root}, {e.kind, f.kind} \subseteq Kinds,
         Place(e) <= Place(f),
         e.path = f.path => e.kind # f.kind /\ {e.kind, f.kind} \subseteq {"directory", "submodule"}
  PROVE  InOrder(e, f)
<1>1. /\ KindRank(e.kind) \in 0..3 /\ Rank[e.path] \in Nat
      /\ KindRank(f.kind) \in 0..3 /\ Rank[f.path] \in Nat
  BY PlaceIsNat
<1>2. Rank[e.path] <= Rank[f.path]
  BY <1>1 DEF Place
<1>3. CASE e.path # f.path
  <2>1. Rank[e.path] # Rank[f.path]
    BY <1>3, RepositoryAssumption
  <2> QED BY <1>1, <1>2, <2>1 DEF InOrder
<1>4. CASE e.path = f.path
  <2>1. KindRank(e.kind) <= KindRank(f.kind)
    BY <1>1, <1>4 DEF Place
  <2>2. KindRank(e.kind) # KindRank(f.kind)
    BY <1>4 DEF KindRank
  <2> QED BY <1>1, <1>4, <2>1, <2>2 DEF InOrder
<1> QED BY <1>3, <1>4

LEMMA SortKeeps ==
  ASSUME NEW r \in Reports, Distinct(r.entries), NEW s, s = Publish(SortOutput(r))
  PROVE  /\ s \in Reports
         /\ s.artifacts = r.artifacts /\ s.members = r.members /\ s.ignored = r.ignored
         /\ s.unsupported = r.unsupported /\ s.skipped = r.skipped
         /\ (Loss(s) <=> Loss(r)) /\ StatusIs(s)
         /\ Range(s.entries) = Range(r.entries) /\ Distinct(s.entries)
         /\ \A i, j \in DOMAIN s.entries : i < j => InOrder(s.entries[i], s.entries[j])
         /\ Len(s.files) = Len(r.files) /\ Range(s.files) = Range(r.files)
         /\ (\A i, j \in DOMAIN r.files : r.files[i].path = r.files[j].path => i = j) =>
              \A i, j \in DOMAIN s.files : s.files[i].path = s.files[j].path => i = j
<1> DEFINE a == r.entries
           b == r.files
           places == [i \in DOMAIN a |-> Place(a[i])]
           ranks == [i \in DOMAIN b |-> Rank[b[i].path]]
           ea == Sorted(a, places)
           fb == Sorted(b, ranks)
<1>1. a \in Seq(EntryRecords) /\ b \in Seq(FileRecords)
  BY DEF Reports
<1> DEFINE t == [r EXCEPT !.entries = ea, !.files = fb]
<1>2. s = [t EXCEPT !.status = IF t.partial \/ t.diagnosed THEN "partial" ELSE "complete"]
  BY DEF SortOutput, Publish
<1> HIDE DEF a, b
<1>3. places \in [DOMAIN a -> Nat]
  <2>1. \A i \in DOMAIN a : a[i] \in EntryRecords
    BY <1>1
  <2>2. \A i \in DOMAIN a : Place(a[i]) \in Nat
    BY <2>1, PlaceIsNat DEF EntryRecords
  <2> QED BY <2>2
<1>4. ranks \in [DOMAIN b -> Nat]
  <2>1. ASSUME NEW i \in DOMAIN b PROVE b[i].path \in Paths
    <3>1. b[i] \in FileRecords
      BY <1>1
    <3> QED BY <3>1 DEF FileRecords
  <2> QED BY <2>1, RepositoryAssumption
<1>5. \A i \in DOMAIN a : places[i] = Place(a[i])
  OBVIOUS
<1> HIDE DEF places, ranks
<1>6. PICK at : /\ Arranges(at, Len(a)) /\ Rearranged(ea, a, at)
                /\ \A k, l \in 1..Len(a) : k < l => places[at[k]] <= places[at[l]]
  BY <1>1, <1>3, SortedIs
<1>7. PICK bt : Arranges(bt, Len(b)) /\ Rearranged(fb, b, bt)
  BY <1>1, <1>4, SortedIs
<1> HIDE DEF ea, fb
<1>8. /\ ea \in Seq(EntryRecords) /\ DOMAIN ea = DOMAIN a /\ Range(ea) = Range(a)
      /\ \A i \in DOMAIN ea : at[i] \in DOMAIN a /\ ea[i] = a[at[i]]
      /\ \A i, j \in DOMAIN ea : at[i] = at[j] => i = j
  BY <1>1, <1>6, ArrangedIs
<1>9. /\ fb \in Seq(FileRecords) /\ Len(fb) = Len(b) /\ DOMAIN fb = DOMAIN b /\ Range(fb) = Range(b)
      /\ \A i \in DOMAIN fb : bt[i] \in DOMAIN b /\ fb[i] = b[bt[i]]
      /\ \A i, j \in DOMAIN fb : bt[i] = bt[j] => i = j
  BY <1>1, <1>7, ArrangedIs
<1>10. /\ s \in Reports /\ s.entries = ea /\ s.files = fb
       /\ s.artifacts = r.artifacts /\ s.members = r.members /\ s.ignored = r.ignored
       /\ s.unsupported = r.unsupported /\ s.skipped = r.skipped
       /\ (Loss(s) <=> Loss(r)) /\ StatusIs(s)
  <2>1. /\ t \in Reports /\ t.entries = ea /\ t.files = fb
        /\ t.artifacts = r.artifacts /\ t.members = r.members /\ t.ignored = r.ignored
        /\ t.unsupported = r.unsupported /\ t.skipped = r.skipped
        /\ t.partial = r.partial /\ t.diagnosed = r.diagnosed
    BY <1>8, <1>9 DEF Reports
  <2> HIDE DEF t
  <2>2. /\ s \in Reports /\ s.entries = t.entries /\ s.files = t.files
        /\ s.artifacts = t.artifacts /\ s.members = t.members /\ s.ignored = t.ignored
        /\ s.unsupported = t.unsupported /\ s.skipped = t.skipped
        /\ s.partial = t.partial /\ s.diagnosed = t.diagnosed
        /\ s.status = IF t.partial \/ t.diagnosed THEN "partial" ELSE "complete"
    BY <1>2, <2>1 DEF Reports
  <2>3. (Loss(s) <=> Loss(r)) /\ StatusIs(s)
    BY ONLY <2>1, <2>2 DEF Loss, StatusIs
  <2> QED BY <2>1, <2>2, <2>3
<1>11. Distinct(ea)
  <2>1. Distinct(a)
    BY DEF a
  <2>2. \A i \in DOMAIN ea : ~ Settles(ea[i]) => ea[i].kind = "submodule"
    BY <1>8, <2>1 DEF Distinct
  <2>3. ASSUME NEW i \in DOMAIN ea, NEW j \in DOMAIN ea, i # j, ea[i].path = ea[j].path
        PROVE  (Settles(ea[i]) <=> ~ Settles(ea[j])) /\ (Settles(ea[i]) => ea[i].kind = "directory")
    <3>1. /\ at[i] \in DOMAIN a /\ at[j] \in DOMAIN a /\ at[i] # at[j]
          /\ ea[i] = a[at[i]] /\ ea[j] = a[at[j]]
      BY <1>8, <2>3
    <3>2. a[at[i]].path = a[at[j]].path
      BY <2>3, <3>1
    <3>3. /\ Settles(a[at[i]]) <=> ~ Settles(a[at[j]])
          /\ Settles(a[at[i]]) => a[at[i]].kind = "directory"
      BY ONLY <2>1, <3>1, <3>2 DEF Distinct
    <3> QED BY ONLY <3>1, <3>3
  <2> QED BY <2>2, <2>3 DEF Distinct
<1>12. ASSUME NEW i \in DOMAIN ea, NEW j \in DOMAIN ea, i < j
       PROVE  InOrder(ea[i], ea[j])
  <2> DEFINE e == ea[i]
             f == ea[j]
  <2>1. DOMAIN ea = 1..Len(a) /\ Len(a) \in Nat
    BY <1>1, <1>8
  <2>2. e \in EntryRecords /\ f \in EntryRecords
    BY <1>8
  <2>3. Place(e) <= Place(f)
    BY <1>5, <1>6, <1>8, <1>12, <2>1
  <2>4. i # j
    BY <1>12, <2>1
  <2>5. e.path = f.path => e.kind # f.kind /\ {e.kind, f.kind} \subseteq {"directory", "submodule"}
    BY <1>11, <2>4 DEF Distinct
  <2> HIDE DEF e, f
  <2>6. {e.path, f.path} \subseteq Paths \cup {Root} /\ {e.kind, f.kind} \subseteq Kinds
    BY <2>2 DEF EntryRecords
  <2>7. InOrder(e, f)
    BY <2>3, <2>5, <2>6, PlaceOrders
  <2> QED BY <2>7 DEF e, f
<1>13. ASSUME \A i, j \in DOMAIN b : b[i].path = b[j].path => i = j,
              NEW i \in DOMAIN fb, NEW j \in DOMAIN fb, fb[i].path = fb[j].path
       PROVE  i = j
  BY <1>9, <1>13
<1> QED BY <1>8, <1>9, <1>10, <1>11, <1>12, <1>13 DEF a, b

-----------------------------------------------------------------------------
(* The type invariant.                                                     *)

LEMMA VisitIs ==
  ASSUME TraversalTypeInv, PlaceInv, NEW c \in Paths, Visit(c)
  PROVE  /\ stack' \in Seq(SUBSET Paths) /\ stack' # <<>> /\ Apart(stack')
         /\ DOMAIN stack' = DOMAIN stack /\ Len(stack) \in DOMAIN stack
         /\ \A i \in DOMAIN stack : stack'[i] \subseteq stack[i]
         /\ c \in stack[Len(stack)] /\ stack'[Len(stack)] = stack[Len(stack)] \ {c}
         /\ \A b \in stack[Len(stack)] : Rank[c] <= Rank[b]
         /\ Waiting' = Waiting \ {c} /\ c \in Waiting
         /\ entering = None /\ reading = None /\ phase = "traverse"
         /\ UNCHANGED <<world, phase, visible, witnessed>>
<1>1. /\ stack \in Seq(SUBSET Paths) /\ Apart(stack) /\ stack # <<>> /\ c \in stack[Len(stack)]
      /\ stack' = [stack EXCEPT ![Len(stack)] = @ \ {c}]
      /\ \A b \in stack[Len(stack)] : Rank[c] <= Rank[b]
      /\ entering = None /\ reading = None /\ phase = "traverse"
      /\ UNCHANGED <<world, phase, visible, witnessed>>
  BY DEF Visit, IsNext, Pending, TraversalTypeInv, PlaceInv
<1>2. /\ stack' \in Seq(SUBSET Paths) /\ stack' # <<>> /\ Apart(stack')
      /\ DOMAIN stack' = DOMAIN stack /\ Len(stack) \in DOMAIN stack
      /\ \A i \in DOMAIN stack : stack'[i] \subseteq stack[i]
      /\ AllOf(stack') = AllOf(stack) \ {c} /\ c \in AllOf(stack)
  BY <1>1, StackTake
<1>3. stack'[Len(stack)] = stack[Len(stack)] \ {c}
  BY <1>1, <1>2
<1> QED BY <1>1, <1>2, <1>3 DEF Waiting

LEMMA TraversalTypeInit ==
  RepositoryInit => TraversalTypeInv
<1> SUFFICES ASSUME RepositoryInit PROVE TraversalTypeInv
  OBVIOUS
<1>1. tree \in [Paths -> Nodes] /\ \A p \in Paths : tree[p] \in Possible[p]
  BY RepositoryAssumption DEF RepositoryInit
<1>2. report \in Reports
  <2>1. <<>> \in Seq(EntryRecords) /\ <<>> \in Seq(FileRecords)
    OBVIOUS
  <2> QED BY <2>1 DEF RepositoryInit, EmptyReport, Reports
<1>3. stack \in Seq(SUBSET Paths)
  BY DEF RepositoryInit
<1> QED BY <1>1, <1>2, <1>3 DEF RepositoryInit, TraversalTypeInv

LEMMA TraversalTypeStep ==
  ASSUME TraversalTypeInv, PlaceInv, [RepositoryNext]_repositoryVars
  PROVE  TraversalTypeInv'
<1> USE DEF TraversalTypeInv
<1>1. CASE UNCHANGED repositoryVars
  BY <1>1 DEF repositoryVars, world, witnessed
<1>2. CASE Walk
  <2>1. visible' \subseteq Paths /\ walkFailed' \in BOOLEAN /\ phase' = "traverse"
    BY <1>2 DEF Walk
  <2>2. report' \in Reports
    BY <1>2 DEF Walk, Reports
  <2> QED BY <1>2, <2>1, <2>2 DEF Walk, world
<1>3. CASE VisitDirectory
  <2>0. /\ UNCHANGED <<world, phase, visible, reading, eligible, walkFailed, flagged>> /\ entering' = None
        /\ entering # None /\ entering \in Paths \cup {Root}
    BY <1>3 DEF VisitDirectory
  <2>1. CASE /\ UNCHANGED <<stack, missed, met, listed>>
             /\ \E e : Tells(report, report', e)
    BY <2>0, <2>1 DEF Tells, world
  <2>2. ASSUME NEW S \in SUBSET Children(entering),
               stack' = Append(stack, S), met' = met \cup S,
               listed' = listed \cup {entering},
               \/ report' = report /\ missed' = missed
               \/ report' = [report EXCEPT !.partial = TRUE] /\ missed' = TRUE
        PROVE  TraversalTypeInv'
    <3>1. S \in SUBSET Paths
      BY DEF Children
    <3>2. stack' \in Seq(SUBSET Paths) /\ met' \subseteq Paths
      BY <2>2, <3>1
    <3>3. report' \in Reports /\ missed' \in BOOLEAN
      BY <2>2 DEF Reports
    <3>4. entering \in met \cup {Root}
      BY <2>0 DEF PlaceInv
    <3>5. listed' \subseteq met' \cup {Root}
      BY <2>2, <3>4
    <3> QED BY <2>0, <3>2, <3>3, <3>5 DEF world
  <2> HIDE DEF TraversalTypeInv
  <2> QED BY <1>3, <2>1, <2>2, VisitDirectoryIs
<1>4. CASE VisitChild
  <2>1. PICK c \in Paths : /\ Visit(c)
                           /\ (\E e : SettlesChild(c, e)) \/ OpensChild(c) \/ HoldsChild(c)
    <3> HIDE DEF TraversalTypeInv
    <3> QED BY <1>4, VisitChildIs
  <2>2. stack' \in Seq(SUBSET Paths) /\ UNCHANGED <<world, phase, visible, witnessed>>
    <3> HIDE DEF TraversalTypeInv
    <3> QED BY <2>1, VisitIs
  <2>3. CASE \E e : SettlesChild(c, e)
    BY <2>2, <2>3 DEF SettlesChild, Tells, world, witnessed
  <2>4. CASE OpensChild(c)
    <3>1. report' \in Reports
      BY <2>4 DEF OpensChild, Tells
    <3> QED BY <2>2, <2>4, <3>1 DEF OpensChild, world, witnessed
  <2>5. CASE HoldsChild(c)
    BY <2>2, <2>5 DEF HoldsChild, world, witnessed
  <2> QED BY <2>1, <2>3, <2>4, <2>5
<1>5. CASE ReadFile
  <2>1. \E r, e : Tells(r, report', e)
    <3> HIDE DEF TraversalTypeInv
    <3> QED BY <1>5, ReadFileIs
  <2>2. report' \in Reports
    BY <2>1 DEF Tells
  <2>3. flagged' \in BOOLEAN
    <3> HIDE DEF TraversalTypeInv
    <3>1. flagged' = flagged \/ \E d \in BOOLEAN : flagged' = (flagged \/ d)
      BY <1>5, ReadFileIs
    <3> QED BY <3>1 DEF TraversalTypeInv
  <2> QED BY <1>5, <2>2, <2>3 DEF ReadFile, world
<1>6. CASE CloseDirectory
  <2>1. stack' \in Seq(SUBSET Paths)
    BY <1>6, StackPop DEF CloseDirectory, Pending, PlaceInv
  <2> QED BY <1>6, <2>1 DEF CloseDirectory, world, witnessed
<1>7. CASE Finish
  <2>1. report' \in Reports
    BY <1>7, SortKeeps DEF Finish, PlaceInv
  <2> QED BY <1>7, <2>1 DEF Finish, world, witnessed
<1>8. ASSUME NEW p \in Paths, Change(p) PROVE TraversalTypeInv'
  <2>1. changes' \in Nat
    BY <1>8 DEF Change
  <2>2. PICK n \in Possible[p] : tree' = [tree EXCEPT ![p] = n]
    BY <1>8 DEF Change
  <2>3. n \in Nodes
    BY RepositoryAssumption
  <2>4. tree' \in [Paths -> Nodes] /\ \A q \in Paths : tree'[q] \in Possible[q]
    BY <2>2, <2>3
  <2> QED BY <1>8, <2>1, <2>4 DEF Change, witnessed
<1> QED BY <1>1, <1>2, <1>3, <1>4, <1>5, <1>6, <1>7, <1>8 DEF RepositoryNext, Advance

-----------------------------------------------------------------------------
(* Where each path is.                                                     *)

LEMMA PlaceInit ==
  RepositoryInit => PlaceInv
<1> SUFFICES ASSUME RepositoryInit PROVE PlaceInv
  OBVIOUS
<1>1. stack = <<>> /\ report.entries = <<>> /\ met = {} /\ listed = {} /\ reading = None
      /\ entering = Root /\ phase = "walk" /\ walkFailed = FALSE
  BY DEF RepositoryInit, EmptyReport
<1>2. Waiting = {} /\ Apart(stack) /\ Range(report.entries) = {} /\ Distinct(report.entries)
  BY <1>1 DEF Waiting, AllOf, Apart, Range, Distinct
<1>3. \A p : ~ SettledIn(report.entries, p)
  BY <1>1 DEF SettledIn
<1> QED BY <1>1, <1>2, <1>3 DEF PlaceInv, PathsOf

(* One more entry of the report, for TellsOf, SettledIn and the paths.     *)
LEMMA ToldOnceMore ==
  ASSUME NEW r \in Reports, NEW s, NEW e, Tells(r, s, e)
  PROVE  /\ \A p : TellsOf(s.entries, p) <=> TellsOf(r.entries, p) \/ e.path = p
         /\ \A p : SettledIn(s.entries, p) <=>
                     SettledIn(r.entries, p) \/ (e.path = p /\ Settles(e))
         /\ PathsOf(Range(s.entries)) = PathsOf(Range(r.entries)) \cup {e.path}
         /\ Range(s.entries) = Range(r.entries) \cup {e}
<1>1. /\ r.entries \in Seq(EntryRecords) /\ e \in EntryRecords
      /\ s.entries = Append(r.entries, e)
  BY DEF Tells, Reports
<1>2. /\ Range(s.entries) = Range(r.entries) \cup {e}
      /\ \A p : TellsOf(s.entries, p) <=> TellsOf(r.entries, p) \/ e.path = p
      /\ \A p : SettledIn(s.entries, p) <=>
                  SettledIn(r.entries, p) \/ (e.path = p /\ Settles(e))
  BY <1>1, AppendTold
<1> QED BY <1>2 DEF PathsOf

LEMMA DistinctOnceMore ==
  ASSUME NEW r \in Reports, NEW s, NEW e, Tells(r, s, e), Distinct(r.entries),
         \/ ~ TellsOf(r.entries, e.path) /\ (Settles(e) \/ e.kind = "submodule")
         \/ ~ SettledIn(r.entries, e.path) /\ Settles(e) /\ e.kind = "directory"
  PROVE  Distinct(s.entries)
BY AppendDistinct DEF Tells, Reports

LEMMA PlaceStep ==
  ASSUME TraversalTypeInv, PlaceInv, [RepositoryNext]_repositoryVars
  PROVE  PlaceInv'
<1>0. report \in Reports /\ met \subseteq Paths /\ listed \subseteq met \cup {Root}
      /\ reading \in Readings \cup {None} /\ entering \in Paths \cup {Root, None}
      /\ None \notin Paths \cup {Root} /\ Root \notin Paths
      /\ stack \in Seq(SUBSET Paths)
  BY RepositoryAssumption DEF TraversalTypeInv
<1>1. CASE /\ UNCHANGED <<stack, met, listed, entering, reading, report>>
           /\ phase' = "traverse" \/ (phase' = phase /\ walkFailed' = walkFailed)
  <2>1. Waiting' = Waiting /\ InHand' = InHand
    BY <1>1 DEF Waiting, InHand
  <2> QED BY <1>1, <2>1 DEF PlaceInv
<1>2. CASE UNCHANGED repositoryVars
  BY <1>1, <1>2 DEF repositoryVars, witnessed
<1>3. CASE Walk
  <2>1. UNCHANGED <<stack, met, listed, entering, reading>> /\ phase' = "traverse"
    BY <1>3 DEF Walk
  <2>2. report'.entries = report.entries
    BY <1>0, <1>3 DEF Walk, Reports
  <2>3. Waiting' = Waiting /\ InHand' = InHand
    BY <2>1 DEF Waiting, InHand
  <2> QED BY <2>1, <2>2, <2>3 DEF PlaceInv
<1>4. CASE VisitDirectory
  <2>0. /\ phase' = "traverse" /\ entering' = None /\ entering # None /\ reading' = reading
        /\ entering \in (met \cup {Root}) \ (Waiting \cup listed)
        /\ reading = None /\ ~ SettledIn(report.entries, entering)
        /\ InHand' = InHand
    BY <1>4 DEF VisitDirectory, PlaceInv, InHand
  <2>1. ASSUME UNCHANGED <<stack, met, listed>>,
               NEW e, Tells(report, report', e), e.path = entering,
               e.kind = "directory", Settles(e)
        PROVE  PlaceInv'
    <3>1. Waiting' = Waiting
      BY <2>1 DEF Waiting
    <3>2. Distinct(report'.entries)
      BY <1>0, <2>0, <2>1, DistinctOnceMore DEF PlaceInv
    <3>3. /\ \A p : TellsOf(report'.entries, p) <=> TellsOf(report.entries, p) \/ p = entering
          /\ \A p : SettledIn(report'.entries, p) <=> SettledIn(report.entries, p) \/ p = entering
          /\ PathsOf(Range(report'.entries)) = PathsOf(Range(report.entries)) \cup {entering}
      <4>1. report \in Reports /\ Tells(report, report', e) /\ e.path = entering /\ Settles(e)
        BY <1>0, <2>1
      <4>2. /\ \A p : TellsOf(report'.entries, p) <=> TellsOf(report.entries, p) \/ e.path = p
            /\ \A p : SettledIn(report'.entries, p) <=>
                        SettledIn(report.entries, p) \/ (e.path = p /\ Settles(e))
            /\ PathsOf(Range(report'.entries)) = PathsOf(Range(report.entries)) \cup {e.path}
        BY ONLY <4>1, ToldOnceMore
      <4> QED BY ONLY <4>1, <4>2
    <3>4. /\ \A d \in listed' : ~ SettledIn(report'.entries, d)
          /\ \A d \in Waiting' : d \notin listed' /\ ~ TellsOf(report'.entries, d)
          /\ \A d \in met' \cup {Root} :
               d \in Waiting' \cup listed' \cup InHand' \cup {entering'}
                 \/ SettledIn(report'.entries, d)
          /\ PathsOf(Range(report'.entries)) \subseteq met' \cup {Root}
      BY <2>0, <2>1, <3>1, <3>3 DEF PlaceInv
    <3> QED BY <1>0, <2>0, <2>1, <3>1, <3>2, <3>4 DEF PlaceInv
  <2>2. ASSUME NEW S \in SUBSET Children(entering),
               stack' = Append(stack, S), met' = met \cup S, listed' = listed \cup {entering},
               report'.entries = report.entries
        PROVE  PlaceInv'
    <3>1. S \subseteq Paths /\ \A p \in S : Parent[p] = entering
      BY DEF Children
    <3>2. S \cap met = {}
      BY <2>0, <3>1 DEF PlaceInv
    <3>3. S \cap AllOf(stack) = {} /\ Apart(stack)
      BY <3>2 DEF PlaceInv, Waiting
    <3>4. Apart(stack') /\ Waiting' = Waiting \cup S /\ stack' # <<>>
      <4>1. Apart(stack') /\ AllOf(stack') = AllOf(stack) \cup S /\ stack' # <<>>
        BY <1>0, <2>2, <3>1, <3>3, StackPush DEF Pushed
      <4> QED BY <4>1 DEF Waiting
    <3>5. \A p \in S : p \notin listed' /\ ~ TellsOf(report.entries, p)
      <4>1. \A p \in S : ~ TellsOf(report.entries, p)
        BY <1>0, <3>1, <3>2, TellsOfRange DEF PlaceInv, PathsOf
      <4>2. \A p \in S : p \notin listed'
        BY <1>0, <2>0, <2>2, <3>1, <3>2
      <4> QED BY <4>1, <4>2
    <3> QED BY <1>0, <2>0, <2>2, <3>1, <3>4, <3>5 DEF PlaceInv
  <2>3. ASSUME report' = [report EXCEPT !.partial = TRUE] PROVE report'.entries = report.entries
    BY <1>0, <2>3 DEF Reports
  <2> QED BY <1>4, <2>1, <2>2, <2>3, VisitDirectoryIs
<1>5. CASE VisitChild
  <2>1. PICK c \in Paths : /\ Visit(c)
                           /\ (\E e : SettlesChild(c, e)) \/ OpensChild(c) \/ HoldsChild(c)
    BY <1>5, VisitChildIs
  <2>2. /\ stack' # <<>> /\ Apart(stack') /\ Waiting' = Waiting \ {c} /\ c \in Waiting
        /\ entering = None /\ reading = None /\ phase' = "traverse"
        /\ met' = met /\ listed' = listed
    BY <2>1, VisitIs DEF witnessed
  <2>3. c \in met /\ c \notin listed /\ ~ TellsOf(report.entries, c)
        /\ ~ SettledIn(report.entries, c)
    BY <2>2 DEF PlaceInv, TellsOf, SettledIn
  <2>4. ASSUME NEW e, SettlesChild(c, e) PROVE PlaceInv'
    <3>1. /\ Tells(report, report', e) /\ e.path = c /\ Settles(e)
          /\ entering' = None /\ reading' = None
      BY <2>2, <2>4 DEF SettlesChild
    <3>2. Distinct(report'.entries)
      BY <1>0, <2>3, <3>1, DistinctOnceMore DEF PlaceInv
    <3>3. /\ \A p : TellsOf(report'.entries, p) <=> TellsOf(report.entries, p) \/ p = c
          /\ \A p : SettledIn(report'.entries, p) <=> SettledIn(report.entries, p) \/ p = c
          /\ PathsOf(Range(report'.entries)) = PathsOf(Range(report.entries)) \cup {c}
      BY <1>0, <3>1, ToldOnceMore
    <3>4. InHand = {} /\ InHand' = {}
      BY <2>2, <3>1 DEF InHand
    <3> QED BY <1>0, <2>2, <2>3, <3>1, <3>2, <3>3, <3>4 DEF PlaceInv
  <2>5. CASE OpensChild(c)
    <3>1. entering' = c /\ reading' = None
      BY <2>2, <2>5 DEF OpensChild
    <3> DEFINE Kept ==
          /\ Distinct(report'.entries)
          /\ \A p : p # c => (TellsOf(report'.entries, p) <=> TellsOf(report.entries, p))
          /\ \A p : SettledIn(report'.entries, p) <=> SettledIn(report.entries, p)
          /\ PathsOf(Range(report'.entries)) \subseteq PathsOf(Range(report.entries)) \cup {c}
    <3>2. Kept
      <4>1. CASE report' = report
        BY <4>1 DEF PlaceInv
      <4>2. ASSUME NEW e, Tells(report, report', e), e.path = c, e.kind = "submodule",
                   e.disposition = "traversed"
            PROVE  Kept
        <5>1. ~ Settles(e)
          BY <4>2 DEF Settles
        <5>2. Distinct(report'.entries)
          BY <1>0, <2>3, <4>2, DistinctOnceMore DEF PlaceInv
        <5> QED BY <1>0, <4>2, <5>1, <5>2, ToldOnceMore
      <4> QED BY <2>5, <4>1, <4>2 DEF OpensChild
    <3>3. InHand = {} /\ InHand' = {}
      BY <2>2, <3>1 DEF InHand
    <3> QED BY <1>0, <2>2, <2>3, <3>1, <3>2, <3>3 DEF PlaceInv
  <2>6. CASE HoldsChild(c)
    <3>1. /\ entering' = None /\ report' = report
          /\ reading' # None /\ reading'.path = c
      BY <2>2, <2>6 DEF HoldsChild
    <3>2. InHand = {} /\ InHand' = {c}
      BY <2>2, <3>1 DEF InHand
    <3> QED BY <1>0, <2>2, <2>3, <3>1, <3>2 DEF PlaceInv
  <2> QED BY <2>1, <2>4, <2>5, <2>6
<1>6. CASE ReadFile
  <2>0. /\ phase' = "traverse" /\ reading # None /\ reading' = None /\ entering' = None
        /\ entering = None
        /\ UNCHANGED <<stack, met, listed>>
    BY <1>6 DEF ReadFile, PlaceInv
  <2> DEFINE p == reading.path
  <2>1. p \in met \ (Waiting \cup listed) /\ p \in Paths /\ ~ TellsOf(report.entries, p)
    BY <1>0, <2>0 DEF PlaceInv
  <2>2. \E r \in Reports : \E e : /\ Tells(r, report', e) /\ e.path = p /\ Settles(e)
                                  /\ r.entries = report.entries
    <3>1. PICK e : /\ e.path = p /\ Settles(e)
                   /\ \/ Tells(report, report', e)
                      \/ \E size \in Nat, d \in BOOLEAN : Tells(Inventory(report, p, size, d), report', e)
      BY <1>6, ReadFileIs
    <3>2. CASE Tells(report, report', e)
      BY <1>0, <3>1, <3>2
    <3>3. ASSUME NEW size \in Nat, NEW d \in BOOLEAN, Tells(Inventory(report, p, size, d), report', e)
          PROVE  \E r \in Reports : \E f : /\ Tells(r, report', f) /\ f.path = p /\ Settles(f)
                                           /\ r.entries = report.entries
      <4>1. PICK r : r = Inventory(report, p, size, d)
        OBVIOUS
      <4> HIDE DEF p
      <4>2. r \in Reports /\ r.entries = report.entries
        <5>1. report \in Reports /\ p \in Paths /\ size \in Nat
          BY <1>0, <2>1
        <5>2. Counts(report, r, p, size, d)
          BY ONLY <4>1, <5>1, InventoryIs
        <5> QED BY <5>2 DEF Counts
      <4>3. Tells(r, report', e)
        BY <3>3, <4>1
      <4> QED BY <3>1, <4>2, <4>3
    <3> QED BY <3>1, <3>2, <3>3
  <2>6. PICK r \in Reports : \E e : /\ Tells(r, report', e) /\ e.path = p /\ Settles(e)
                                   /\ r.entries = report.entries
    BY <2>2
  <2>7. PICK e : /\ Tells(r, report', e) /\ e.path = p /\ Settles(e)
                 /\ r.entries = report.entries
    BY <2>6
  <2>3. Distinct(report'.entries)
    BY <2>1, <2>7, DistinctOnceMore DEF PlaceInv
  <2>4. /\ \A q : TellsOf(report'.entries, q) <=> TellsOf(report.entries, q) \/ q = p
        /\ \A q : SettledIn(report'.entries, q) <=> SettledIn(report.entries, q) \/ q = p
        /\ PathsOf(Range(report'.entries)) = PathsOf(Range(report.entries)) \cup {p}
    BY <2>7, ToldOnceMore
  <2>5. InHand = {p} /\ InHand' = {} /\ Waiting' = Waiting
    BY <2>0 DEF InHand, Waiting
  <2> HIDE DEF p
  <2> QED BY <1>0, <2>0, <2>1, <2>3, <2>4, <2>5 DEF PlaceInv
<1>7. CASE CloseDirectory
  <2>1. /\ phase' = "traverse" /\ entering' = None /\ reading' = None
        /\ entering = None /\ reading = None
        /\ UNCHANGED <<met, listed, report>>
        /\ stack # <<>> /\ stack[Len(stack)] = {} /\ stack' = Front(stack)
    BY <1>7 DEF CloseDirectory, Pending, witnessed
  <2>2. Apart(stack') /\ AllOf(stack') = AllOf(stack)
    BY <1>0, <2>1, StackPop DEF PlaceInv
  <2>3. Waiting' = Waiting /\ InHand' = InHand
    BY <2>1, <2>2 DEF Waiting, InHand
  <2> QED BY <2>1, <2>2, <2>3 DEF PlaceInv
<1>8. CASE Finish
  <2>1. /\ phase' = "done" /\ entering' = None /\ entering = None
        /\ UNCHANGED <<stack, met, listed, reading>> /\ stack = <<>>
        /\ report' = Publish(SortOutput(report))
    BY <1>8 DEF Finish, witnessed
  <2>2. reading = None /\ Distinct(report.entries)
    BY <2>1 DEF PlaceInv
  <2>3. /\ Range(report'.entries) = Range(report.entries) /\ Distinct(report'.entries)
        /\ \A i, j \in DOMAIN report'.entries :
             i < j => InOrder(report'.entries[i], report'.entries[j])
    BY <1>0, <2>1, <2>2, SortKeeps
  <2>4. \A p : /\ TellsOf(report'.entries, p) <=> TellsOf(report.entries, p)
               /\ SettledIn(report'.entries, p) <=> SettledIn(report.entries, p)
    BY <2>3, TellsOfRange
  <2>5. Waiting' = Waiting /\ InHand' = InHand
    BY <2>1 DEF Waiting, InHand
  <2> QED BY <2>1, <2>2, <2>3, <2>4, <2>5 DEF PlaceInv
<1>9. ASSUME NEW p \in Paths, Change(p) PROVE PlaceInv'
  BY <1>1, <1>9 DEF Change, witnessed
<1> QED BY <1>2, <1>3, <1>4, <1>5, <1>6, <1>7, <1>8, <1>9 DEF RepositoryNext, Advance

-----------------------------------------------------------------------------
(* The lists.                                                              *)

(* What any step does to the report.                                       *)
LEMMA ReportStep ==
  ASSUME TraversalTypeInv, PlaceInv, [RepositoryNext]_repositoryVars
  PROVE  \/ report' = report /\ Gap' = Gap
         \/ report' = [report EXCEPT !.partial = TRUE] /\ Gap' = TRUE
         \/ \E d \in BOOLEAN : report' = [report EXCEPT !.diagnosed = @ \/ d] /\ (Gap' <=> Gap \/ d)
         \/ Gap' = Gap /\ \E e : Tells(report, report', e)
         \/ /\ ReadFile
            /\ \E size \in Nat, d \in BOOLEAN : \E e :
                 /\ size <= MaxBytes /\ e.path = reading.path /\ (Gap' <=> Gap \/ d)
                 /\ Tells(Inventory(report, reading.path, size, d), report', e)
                 /\ e.disposition \in {"parsed", "binary", "unsupported", "failed"}
         \/ Gap' = Gap /\ Distinct(report.entries) /\ report' = Publish(SortOutput(report))
<1>1. CASE UNCHANGED repositoryVars \/ CloseDirectory \/ \E p \in Paths : Change(p)
  BY <1>1 DEF repositoryVars, witnessed, CloseDirectory, Change, Gap
<1>6. CASE Walk
  <2>1. PICK d \in BOOLEAN : /\ walkFailed' = d
                             /\ report' = [report EXCEPT !.diagnosed = @ \/ d]
    BY <1>6 DEF Walk
  <2>2. UNCHANGED <<flagged, missed>> /\ ~ walkFailed
    BY <1>6 DEF Walk, PlaceInv
  <2>3. Gap' <=> Gap \/ d
    BY ONLY <2>1, <2>2 DEF Gap
  <2> QED BY <2>1, <2>3
<1>2. CASE VisitDirectory
  <2>1. UNCHANGED <<walkFailed, flagged>>
    BY <1>2 DEF VisitDirectory
  <2>2. CASE UNCHANGED missed /\ \E e : Tells(report, report', e)
    BY <2>1, <2>2 DEF Gap
  <2>3. CASE report' = report /\ missed' = missed
    BY <2>1, <2>3 DEF Gap
  <2>4. CASE report' = [report EXCEPT !.partial = TRUE] /\ missed' = TRUE
    BY <2>4 DEF Gap
  <2> QED BY <1>2, <2>2, <2>3, <2>4, VisitDirectoryIs
<1>3. CASE VisitChild
  <2>1. PICK c \in Paths : /\ Visit(c)
                           /\ (\E e : SettlesChild(c, e)) \/ OpensChild(c) \/ HoldsChild(c)
    BY <1>3, VisitChildIs
  <2>2. Gap' = Gap
    BY <2>1 DEF Visit, witnessed, Gap
  <2> QED BY <2>1, <2>2 DEF SettlesChild, OpensChild, HoldsChild
<1>4. CASE ReadFile
  <2>1. UNCHANGED <<walkFailed, missed>>
    BY <1>4 DEF ReadFile
  <2>2. flagged' = flagged => Gap' = Gap
    BY <2>1 DEF Gap
  <2>3. \A d \in BOOLEAN : flagged' = (flagged \/ d) => (Gap' <=> Gap \/ d)
    BY <2>1 DEF Gap
  <2>4. PICK e : /\ e.path = reading.path
                 /\ \/ Tells(report, report', e) /\ flagged' = flagged
                    \/ \E size \in Nat, d \in BOOLEAN :
                         /\ size <= MaxBytes /\ flagged' = (flagged \/ d)
                         /\ Tells(Inventory(report, reading.path, size, d), report', e)
                         /\ e.disposition \in {"parsed", "binary", "unsupported", "failed"}
    BY <1>4, ReadFileIs
  <2> QED BY <1>4, <2>2, <2>3, <2>4
<1>5. CASE Finish
  BY <1>5 DEF Finish, witnessed, PlaceInv, Gap
<1> QED BY <1>1, <1>2, <1>3, <1>4, <1>5, <1>6 DEF RepositoryNext, Advance

LEMMA ReadPathsIs ==
  /\ Told = Range(report.entries) /\ ReadPaths = PathsOf(Range(report.files))
  /\ Told' = Range(report'.entries) /\ ReadPaths' = PathsOf(Range(report'.files))
BY DEF Told, ReadPaths, PathsOf, Range

(* What one more file p means for the list s of files.                     *)
MoreFiles(s, t, p, size) ==
  /\ PathsOf(Range(t)) = PathsOf(Range(s)) \cup {p} /\ Len(t) = Len(s) + 1
  /\ \A f \in Range(t) : f.size = size \/ f \in Range(s)
  /\ (p \notin PathsOf(Range(s)) /\
        \A i, j \in DOMAIN s : s[i].path = s[j].path => i = j) =>
       \A i, j \in DOMAIN t : t[i].path = t[j].path => i = j

LEMMA AppendFile ==
  ASSUME NEW s \in Seq(FileRecords), NEW p \in Paths, NEW size \in Nat,
         NEW t, t = Append(s, FileOf(p, size))
  PROVE  MoreFiles(s, t, p, size)
<1>1. PICK f \in FileRecords : f = FileOf(p, size) /\ f.path = p /\ f.size = size
  BY DEF FileOf, FileRecords
<1>2. PICK n \in Nat : n = Len(s) /\ DOMAIN s = 1..n
  OBVIOUS
<1>3. /\ DOMAIN t = 1..(n + 1) /\ Len(t) = n + 1 /\ t[n + 1] = f
      /\ \A i \in 1..n : t[i] = s[i]
  BY <1>1, <1>2
<1>4. \A i \in DOMAIN t : (i \in DOMAIN s /\ t[i] = s[i]) \/ (i = n + 1 /\ t[i] = f)
  BY <1>2, <1>3
<1>5. n + 1 \in DOMAIN t /\ \A i \in DOMAIN s : i \in DOMAIN t /\ t[i] = s[i]
  BY <1>2, <1>3
<1>6. Range(t) = Range(s) \cup {f}
  BY <1>3, <1>4, <1>5 DEF Range
<1>7. PathsOf(Range(t)) = PathsOf(Range(s)) \cup {p}
  BY <1>1, <1>6 DEF PathsOf
<1>10. \A g \in Range(t) : g.size = size \/ g \in Range(s)
  BY <1>1, <1>6
<1>8. \A i \in DOMAIN s : s[i].path \in PathsOf(Range(s))
  BY DEF PathsOf, Range
<1>9. ASSUME p \notin PathsOf(Range(s)), \A i, j \in DOMAIN s : s[i].path = s[j].path => i = j,
             NEW i \in DOMAIN t, NEW j \in DOMAIN t, t[i].path = t[j].path
      PROVE  i = j
  BY <1>1, <1>4, <1>8, <1>9
<1> QED BY <1>2, <1>3, <1>7, <1>9, <1>10 DEF MoreFiles

LEMMA ListsInit ==
  RepositoryInit => ListsInv
<1> SUFFICES ASSUME RepositoryInit PROVE ListsInv
  OBVIOUS
<1>1. /\ report.entries = <<>> /\ report.files = <<>> /\ report.artifacts = {}
      /\ report.members = {} /\ report.ignored = {} /\ report.unsupported = {}
      /\ report.skipped = {} /\ Loss(report) = FALSE /\ Gap = FALSE
  BY DEF RepositoryInit, EmptyReport, Loss, Gap
<1>2. Range(report.entries) = {} /\ Range(report.files) = {}
  BY <1>1 DEF Range
<1>3. ReadPaths = {}
  BY <1>2, ReadPathsIs DEF PathsOf
<1>4. Views(report, Gap)
  BY <1>1, <1>2 DEF Views, PathsOf
<1> QED BY <1>1, <1>3, <1>4 DEF ListsInv

(* The lists of r agree with its entries, and its files with both.         *)
Listed(r) ==
  /\ r.members = PathsOf(Range(r.files))
  /\ \A i, j \in DOMAIN r.files : r.files[i].path = r.files[j].path => i = j
  /\ \A p \in r.members : \E e \in Range(r.entries) :
       e.path = p /\ e.disposition \in {"parsed", "binary", "unsupported", "failed"}

LEMMA ListsStep ==
  ASSUME TraversalTypeInv, PlaceInv, ListsInv, [RepositoryNext]_repositoryVars
  PROVE  ListsInv'
<1>0. report \in Reports /\ Views(report, Gap) /\ Listed(report)
  BY ReadPathsIs DEF TraversalTypeInv, ListsInv, Listed
<1>1. SUFFICES Views(report', Gap') /\ Listed(report')
  BY ReadPathsIs DEF ListsInv, Listed
<1>2. CASE report' = report /\ Gap' = Gap
  BY <1>0, <1>2
<1>3. CASE report' = [report EXCEPT !.partial = TRUE] /\ Gap' = TRUE
  <2>1. PICK r : r = report'
    OBVIOUS
  <2>2. /\ r.entries = report.entries /\ r.files = report.files /\ r.members = report.members
        /\ r.ignored = report.ignored /\ r.unsupported = report.unsupported
        /\ r.artifacts = report.artifacts /\ r.skipped = report.skipped /\ Loss(r)
    BY <1>0, <1>3, <2>1 DEF Reports, Loss
  <2>3. Listed(r)
    BY <1>0, <2>2 DEF Listed
  <2>4. Views(r, Gap')
    BY <1>0, <1>3, <2>2 DEF Views
  <2> QED BY <2>1, <2>3, <2>4
<1>7. ASSUME NEW d \in BOOLEAN, report' = [report EXCEPT !.diagnosed = @ \/ d], Gap' <=> Gap \/ d
      PROVE  Views(report', Gap') /\ Listed(report')
  <2>1. PICK r : r = report'
    OBVIOUS
  <2>2. /\ r.entries = report.entries /\ r.files = report.files /\ r.members = report.members
        /\ r.ignored = report.ignored /\ r.unsupported = report.unsupported
        /\ r.artifacts = report.artifacts /\ r.skipped = report.skipped
        /\ r.partial = report.partial /\ r.diagnosed = (report.diagnosed \/ d)
    BY <1>0, <1>7, <2>1 DEF Reports
  <2>3. Loss(r) <=> Loss(report) \/ d
    BY ONLY <2>2 DEF Loss
  <2>4. Listed(r)
    BY <1>0, <2>2 DEF Listed
  <2>5. Views(r, Gap')
    BY <1>0, <1>7, <2>2, <2>3 DEF Views
  <2> QED BY <2>1, <2>4, <2>5
<1>4. ASSUME Gap' = Gap, NEW e, Tells(report, report', e)
      PROVE  Views(report', Gap') /\ Listed(report')
  <2>1. Views(report', Gap')
    BY <1>0, <1>4, ViewsTold
  <2>2. Range(report'.entries) = Range(report.entries) \cup {e}
    BY <1>0, <1>4, ToldOnceMore
  <2>3. report'.files = report.files /\ report'.members = report.members
    BY <1>4 DEF Tells
  <2> QED BY <1>0, <2>1, <2>2, <2>3 DEF Listed
<1>5. ASSUME ReadFile, NEW size \in Nat, NEW d \in BOOLEAN, NEW e, Gap' <=> Gap \/ d,
             e.path = reading.path,
             Tells(Inventory(report, reading.path, size, d), report', e),
             e.disposition \in {"parsed", "binary", "unsupported", "failed"}
      PROVE  Views(report', Gap') /\ Listed(report')
  <2>1. PICK p \in Paths : p = reading.path
    BY <1>5 DEF TraversalTypeInv, ReadFile, Readings
  <2>2. p \notin report.members
    <3>1. ~ TellsOf(report.entries, p)
      BY <1>5, <2>1 DEF PlaceInv, ReadFile
    <3> QED BY <1>0, <3>1, TellsOfRange DEF Listed
  <2>3. PICK r : r = Inventory(report, p, size, d)
    OBVIOUS
  <2>4. /\ r \in Reports /\ r.files = Append(report.files, FileOf(p, size))
        /\ r.members = report.members \cup {p} /\ r.entries = report.entries
        /\ r.ignored = report.ignored
        /\ r.unsupported = report.unsupported /\ r.artifacts = report.artifacts
        /\ r.skipped = report.skipped /\ (Loss(r) <=> Loss(report) \/ d)
    <3>1. Counts(report, r, p, size, d)
      BY <1>0, <2>3, InventoryIs
    <3> QED BY <3>1 DEF Counts
  <2>5. Tells(r, report', e)
    BY <1>5, <2>1, <2>3
  <2>6. Views(r, Gap')
    BY <1>0, <1>5, <2>4 DEF Views
  <2>7. Views(report', Gap')
    BY <1>5, <2>4, <2>5, <2>6, ViewsTold
  <2>8. Range(report'.entries) = Range(report.entries) \cup {e}
    BY <2>4, <2>5, ToldOnceMore
  <2>9. report'.files = r.files /\ report'.members = r.members
    BY <2>5 DEF Tells
  <2>10. /\ PathsOf(Range(r.files)) = PathsOf(Range(report.files)) \cup {p}
         /\ \A i, j \in DOMAIN r.files : r.files[i].path = r.files[j].path => i = j
    <3>1. report.files \in Seq(FileRecords)
      BY <1>0 DEF Reports
    <3>2. /\ p \notin PathsOf(Range(report.files))
          /\ \A i, j \in DOMAIN report.files :
               report.files[i].path = report.files[j].path => i = j
      BY <1>0, <2>2 DEF Listed
    <3>3. p \in Paths /\ size \in Nat /\ r.files = Append(report.files, FileOf(p, size))
      BY <2>4
    <3>4. MoreFiles(report.files, r.files, p, size)
      BY <3>1, <3>3, AppendFile
    <3> QED BY <3>2, <3>4 DEF MoreFiles
  <2>11. \A q \in report'.members : \E f \in Range(report'.entries) :
           f.path = q /\ f.disposition \in {"parsed", "binary", "unsupported", "failed"}
    <3>1. e \in Range(report'.entries) /\ e.path = p
      BY <1>5, <2>1, <2>8
    <3> QED BY <1>0, <1>5, <2>4, <2>8, <2>9, <3>1 DEF Listed
  <2>12. report'.members = PathsOf(Range(report'.files))
    BY <1>0, <2>4, <2>9, <2>10 DEF Listed
  <2> QED BY <2>7, <2>9, <2>10, <2>11, <2>12 DEF Listed
<1>6. CASE Gap' = Gap /\ Distinct(report.entries) /\ report' = Publish(SortOutput(report))
  <2>1. PICK r : r = report'
    OBVIOUS
  <2>2. /\ r.artifacts = report.artifacts /\ r.members = report.members
        /\ r.ignored = report.ignored
        /\ r.unsupported = report.unsupported /\ r.skipped = report.skipped
        /\ (Loss(r) <=> Loss(report))
        /\ Range(r.entries) = Range(report.entries)
        /\ Range(r.files) = Range(report.files)
        /\ (\A i, j \in DOMAIN report.files :
              report.files[i].path = report.files[j].path => i = j) =>
             \A i, j \in DOMAIN r.files : r.files[i].path = r.files[j].path => i = j
    BY <1>0, <1>6, <2>1, SortKeeps
  <2>3. Views(r, Gap)
    BY <1>0, <2>2 DEF Views
  <2>4. Listed(r)
    BY <1>0, <2>2 DEF Listed
  <2> QED BY <1>6, <2>1, <2>3, <2>4
<1> QED BY <1>2, <1>3, <1>4, <1>5, <1>6, <1>7, ReportStep

(* The status is published last, with the losses that were told by then.   *)
LEMMA StatusStep ==
  ASSUME TraversalTypeInv, PlaceInv, StatusInv, [RepositoryNext]_repositoryVars
  PROVE  StatusInv'
<1>1. CASE Finish
  <2>1. report \in Reports /\ Distinct(report.entries) /\ report' = Publish(SortOutput(report))
    BY <1>1 DEF Finish, TraversalTypeInv, PlaceInv
  <2>2. StatusIs(report')
    BY <2>1, SortKeeps
  <2> QED BY <2>2 DEF StatusInv
<1>2. CASE UNCHANGED repositoryVars
  BY <1>2 DEF repositoryVars, StatusInv
<1>3. CASE phase' # "done"
  BY <1>3 DEF StatusInv
<1>4. CASE Walk \/ VisitDirectory \/ ReadFile \/ CloseDirectory \/ \E p \in Paths : Change(p)
  BY <1>3, <1>4 DEF Walk, VisitDirectory, ReadFile, CloseDirectory, Change
<1>5. CASE VisitChild
  <2>1. PICK c \in Paths : Visit(c)
    BY <1>5, VisitChildIs
  <2> QED BY <1>3, <2>1 DEF Visit
<1> QED BY <1>1, <1>2, <1>4, <1>5 DEF RepositoryNext, Advance

-----------------------------------------------------------------------------
(* The limits.                                                             *)

LEMMA AncestorsOfChild ==
  ASSUME NEW c \in Paths, NEW d \in Paths, Parent[c] = d
  PROVE  Ancestors[c] = {d} \cup Ancestors[d]
BY RepositoryAssumption

LEMMA BeforeChild ==
  ASSUME NEW c \in Paths, NEW d \in Paths, Parent[c] = d, NEW p \in Paths
  PROVE  /\ Before(p, d) => Before(p, c)
         /\ Before(d, p) => Before(c, p)
<1>1. Ancestors[d] \cup {d} \subseteq Ancestors[c] \cup {c}
  BY AncestorsOfChild
<1> QED BY <1>1 DEF Before

LEMMA BeforeSibling ==
  ASSUME NEW p \in Paths, NEW q \in Paths, Parent[p] = Parent[q], p # q, Rank[p] <= Rank[q]
  PROVE  Before(p, q)
<1>1. Rank[p] < Rank[q]
  BY RepositoryAssumption
<1> QED BY <1>1 DEF Before

LEMMA ToldNext ==
  ASSUME report \in Reports, NEW e, Tells(report, report', e)
  PROVE  Told' = Told \cup {e} /\ report'.files = report.files /\ ReadPaths' = ReadPaths
<1>1. Range(report'.entries) = Range(report.entries) \cup {e}
  BY ToldOnceMore
<1>2. report'.files = report.files
  BY DEF Tells
<1> QED BY <1>1, <1>2, ReadPathsIs

LEMMA LimitInit ==
  RepositoryInit => LimitInv
<1> SUFFICES ASSUME RepositoryInit PROVE LimitInv
  OBVIOUS
<1>1. /\ report.entries = <<>> /\ report.files = <<>> /\ stack = <<>> /\ entering = Root
      /\ reading = None /\ eligible = 0 /\ options.files \in Nat
  BY RepositoryAssumption DEF RepositoryInit, EmptyReport
<1>2. Range(report.entries) = {} /\ Range(report.files) = {}
  BY <1>1 DEF Range
<1>3. ReadPaths = {} /\ Told = {}
  BY <1>2, ReadPathsIs DEF PathsOf
<1>4. Waiting = {} /\ InHand = {} /\ entering \notin Paths
  BY <1>1, RepositoryAssumption DEF Waiting, AllOf, InHand
<1> QED BY <1>1, <1>2, <1>3, <1>4 DEF LimitInv

LEMMA LimitStep ==
  ASSUME TraversalTypeInv, PlaceInv, LimitInv, [RepositoryNext]_repositoryVars
  PROVE  LimitInv'
<1>0. /\ report \in Reports /\ stack \in Seq(SUBSET Paths) /\ Apart(stack)
      /\ eligible \in Nat /\ options.files \in Nat
      /\ report.files \in Seq(FileRecords) /\ Len(report.files) \in Nat
      /\ None \notin Paths \cup {Root} /\ Root \notin Paths
      /\ entering \in Paths \cup {Root, None}
  BY RepositoryAssumption DEF TraversalTypeInv, PlaceInv, Reports
<1>p. ReadPaths \subseteq Paths /\ Waiting \subseteq Paths
  <2>1. \A f \in Range(report.files) : f.path \in Paths
    <3>1. \A f \in Range(report.files) : f \in FileRecords
      BY <1>0 DEF Range
    <3> QED BY <3>1 DEF FileRecords
  <2>2. ReadPaths \subseteq Paths
    BY <2>1, ReadPathsIs DEF PathsOf
  <2> QED BY <1>0, <2>2 DEF Waiting, AllOf
<1>1. CASE /\ UNCHANGED <<options, stack, entering, reading, eligible>>
           /\ report'.files = report.files /\ report'.entries = report.entries
  <2>1. Waiting' = Waiting /\ InHand' = InHand /\ ReadPaths' = ReadPaths /\ Told' = Told
    BY <1>1 DEF Waiting, InHand, ReadPaths, Told
  <2> QED BY <1>1, <2>1 DEF LimitInv
<1>2. CASE UNCHANGED repositoryVars \/ \E p \in Paths : Change(p)
  BY <1>1, <1>2 DEF repositoryVars, world, Change
<1>8. CASE Walk
  <2>1. report'.files = report.files /\ report'.entries = report.entries
    BY <1>0, <1>8 DEF Walk, Reports
  <2> QED BY <1>1, <1>8, <2>1 DEF Walk, world
<1>3. CASE VisitDirectory
  <2>0. /\ entering' = None /\ entering # None /\ reading' = reading /\ reading = None
        /\ eligible' = eligible /\ options' = options
        /\ InHand = {} /\ InHand' = {}
    BY <1>3 DEF VisitDirectory, PlaceInv, world, InHand
  <2>1. ASSUME stack' = stack,
               NEW e, Tells(report, report', e), "repository_file_limit" \notin e.reasons
        PROVE  LimitInv'
    <3>1. Told' = Told \cup {e} /\ report'.files = report.files
      BY <1>0, <2>1, ToldNext
    <3>2. ReadPaths' = ReadPaths /\ Waiting' = Waiting
      BY <2>1, <3>1 DEF ReadPaths, Waiting
    <3> QED BY <1>0, <2>0, <2>1, <3>1, <3>2 DEF LimitInv
  <2>2. ASSUME NEW S \in SUBSET Children(entering),
               stack' = Append(stack, S),
               report'.entries = report.entries, report'.files = report.files
        PROVE  LimitInv'
    <3>1. S \subseteq Paths /\ \A p \in S : Parent[p] = entering
      BY DEF Children
    <3>2. S \cap AllOf(stack) = {}
      BY <2>0, <3>1, <1>3 DEF PlaceInv, Waiting
    <3>3. Told' = Told /\ ReadPaths' = ReadPaths
      BY <2>2 DEF Told, ReadPaths
    <3>4. /\ AllOf(stack') = AllOf(stack) \cup S
          /\ \A i \in DOMAIN stack' : \/ i \in DOMAIN stack /\ stack'[i] = stack[i]
                                      \/ i = Len(stack) + 1 /\ stack'[i] = S
          /\ \A i \in DOMAIN stack : i \in 1..Len(stack)
      <4>1. Pushed(stack, S, stack')
        BY <1>0, <2>2, <3>1, <3>2, StackPush
      <4> QED BY <4>1 DEF Pushed
    <3>5. Waiting' = Waiting \cup S
      BY <3>4 DEF Waiting
    <3>6. \A i \in DOMAIN stack' : \A p, q \in stack'[i] : Parent[p] = Parent[q]
      BY <3>1, <3>4 DEF LimitInv
    <3>7. \A p \in S, q \in Waiting : Before(p, q)
      <4>1. CASE entering = Root
        BY <4>1 DEF LimitInv, Waiting, AllOf
      <4>2. CASE entering \in Paths
        BY <1>p, <3>1, <4>2, BeforeChild DEF LimitInv
      <4> QED BY <1>0, <2>0, <4>1, <4>2
    <3>8. \A p \in ReadPaths, q \in S : Before(p, q)
      <4>1. CASE entering = Root
        BY <4>1 DEF LimitInv
      <4>2. CASE entering \in Paths
        BY <1>p, <3>1, <4>2, BeforeChild DEF LimitInv
      <4> QED BY <1>0, <2>0, <4>1, <4>2
    <3>9. ASSUME NEW i \in DOMAIN stack', NEW j \in DOMAIN stack', j < i,
                 NEW p \in stack'[i], NEW q \in stack'[j]
          PROVE  Before(p, q)
      <4>1. CASE i \in DOMAIN stack /\ stack'[i] = stack[i]
        <5>1. j \in DOMAIN stack /\ stack'[j] = stack[j]
          BY <1>0, <3>4, <3>9, <4>1
        <5> QED BY <3>9, <4>1, <5>1 DEF LimitInv
      <4>2. CASE i = Len(stack) + 1 /\ stack'[i] = S
        <5>1. j \in DOMAIN stack /\ stack'[j] = stack[j]
          BY <1>0, <3>4, <3>9, <4>2
        <5>2. q \in Waiting
          BY <5>1 DEF Waiting, AllOf
        <5> QED BY <3>7, <4>2, <5>2
      <4> QED BY <3>4, <4>1, <4>2
    <3>10. \A p \in ReadPaths, q \in Waiting' : Before(p, q)
      BY <3>5, <3>8 DEF LimitInv
    <3>11. \A e \in Told' : "repository_file_limit" \in e.reasons =>
             eligible' > options'.files /\ reading' = None /\ \A p \in ReadPaths' : Before(p, e.path)
      BY <2>0, <3>3 DEF LimitInv
    <3>12. /\ \A n \in {eligible', options'.files} :
                Len(report'.files) + (IF reading' = None THEN 0 ELSE 1) <= n
           /\ \A f \in Range(report'.files) : f.size <= MaxBytes
      BY <2>0, <2>2 DEF LimitInv
    <3> QED BY <1>0, <2>0, <3>3, <3>6, <3>9, <3>10, <3>11, <3>12 DEF LimitInv
  <2>3. ASSUME report' = [report EXCEPT !.partial = TRUE]
        PROVE  report'.entries = report.entries /\ report'.files = report.files
    BY <1>0, <2>3 DEF Reports
  <2> QED BY <1>3, <2>1, <2>2, <2>3, VisitDirectoryIs
<1>4. CASE VisitChild
  <2>1. PICK c \in Paths : /\ Visit(c)
                           /\ (\E e : SettlesChild(c, e)) \/ OpensChild(c) \/ HoldsChild(c)
    BY <1>4, VisitChildIs
  <2>2. /\ DOMAIN stack' = DOMAIN stack /\ Len(stack) \in DOMAIN stack
        /\ \A i \in DOMAIN stack : stack'[i] \subseteq stack[i]
        /\ c \in stack[Len(stack)] /\ stack'[Len(stack)] = stack[Len(stack)] \ {c}
        /\ \A b \in stack[Len(stack)] : Rank[c] <= Rank[b]
        /\ Waiting' = Waiting \ {c} /\ c \in Waiting
        /\ entering = None /\ reading = None
        /\ options' = options
    BY <2>1, VisitIs DEF world
  <2>3. \A q \in Waiting' : Before(c, q)
    <3> SUFFICES ASSUME NEW q \in Waiting, q # c PROVE Before(c, q)
      BY <2>2
    <3>1. PICK i \in DOMAIN stack : q \in stack[i]
      BY DEF Waiting, AllOf
    <3>2. CASE i = Len(stack)
      <4>1. Parent[c] = Parent[q] /\ Rank[c] <= Rank[q]
        BY <2>2, <3>1, <3>2 DEF LimitInv
      <4> QED BY <1>p, <4>1, BeforeSibling
    <3>3. CASE i # Len(stack)
      <4>1. i < Len(stack)
        BY <1>0, <3>3
      <4> QED BY <2>2, <3>1, <4>1 DEF LimitInv
    <3> QED BY <3>2, <3>3
  <2>4. \A p \in ReadPaths : \A q \in Waiting : Before(p, q)
    BY DEF LimitInv
  <2>5. /\ \A i \in DOMAIN stack' : \A p, q \in stack'[i] : Parent[p] = Parent[q]
        /\ \A i, j \in DOMAIN stack' : j < i => \A p \in stack'[i], q \in stack'[j] : Before(p, q)
    BY <2>2 DEF LimitInv
  <2>6. InHand = {}
    BY <2>2 DEF InHand
  <2>7. Len(report.files) <= eligible /\ Len(report.files) <= options.files
        /\ \A f \in Range(report.files) : f.size <= MaxBytes
    BY <1>0, <2>2 DEF LimitInv
  <2>8. ASSUME NEW e, SettlesChild(c, e) PROVE LimitInv'
    <3>1. /\ Tells(report, report', e) /\ e.path = c /\ entering' = None /\ reading' = None
          /\ eligible' \in Nat /\ eligible' >= eligible
          /\ "repository_file_limit" \in e.reasons => eligible' > options.files
      BY <2>2, <2>8 DEF SettlesChild
    <3>2. Told' = Told \cup {e} /\ report'.files = report.files
      BY <1>0, <3>1, ToldNext
    <3>3. ReadPaths' = ReadPaths /\ InHand' = {}
      BY <3>1, <3>2 DEF ReadPaths, InHand
    <3>4. \A f \in Told' : "repository_file_limit" \in f.reasons =>
             eligible' > options'.files /\ reading' = None /\ \A p \in ReadPaths' : Before(p, f.path)
      <4>1. ASSUME NEW f \in Told, "repository_file_limit" \in f.reasons
            PROVE  eligible' > options'.files /\ \A p \in ReadPaths' : Before(p, f.path)
        <5>1. eligible > options.files /\ \A p \in ReadPaths : Before(p, f.path)
          BY <4>1 DEF LimitInv
        <5>2. eligible' > options.files
          BY <1>0, <3>1, <5>1
        <5> QED BY <2>2, <3>3, <5>1, <5>2
      <4>2. "repository_file_limit" \in e.reasons =>
              eligible' > options'.files /\ \A p \in ReadPaths' : Before(p, e.path)
        BY <2>2, <2>4, <3>1, <3>3
      <4> QED BY <3>1, <3>2, <4>1, <4>2
    <3>5. \A n \in {eligible', options'.files} :
             Len(report'.files) + (IF reading' = None THEN 0 ELSE 1) <= n
      BY <1>0, <2>2, <2>7, <3>1, <3>2
    <3> QED BY <1>0, <2>2, <2>4, <2>5, <2>7, <3>1, <3>2, <3>3, <3>4, <3>5 DEF LimitInv
  <2>9. CASE OpensChild(c)
    <3>1. entering' = c /\ reading' = None /\ eligible' = eligible /\ c # Root
      BY <1>0, <2>2, <2>9 DEF OpensChild
    <3>2. report'.files = report.files
          /\ \A f \in Told' : f \in Told \/ f.reasons = {}
      <4>1. CASE report' = report
        BY <4>1 DEF Told
      <4>2. ASSUME NEW e, Tells(report, report', e), e.reasons = {}
            PROVE  report'.files = report.files /\ \A f \in Told' : f \in Told \/ f.reasons = {}
        <5>1. Told' = Told \cup {e} /\ report'.files = report.files
          BY <1>0, <4>2, ToldNext
        <5> QED BY <4>2, <5>1
      <4> QED BY <2>9, <4>1, <4>2 DEF OpensChild
    <3>3. ReadPaths' = ReadPaths /\ InHand' = {}
      BY <3>1, <3>2 DEF ReadPaths, InHand
    <3>4. \A f \in Told' : "repository_file_limit" \in f.reasons =>
             eligible' > options'.files /\ reading' = None /\ \A p \in ReadPaths' : Before(p, f.path)
      BY <2>2, <3>1, <3>2, <3>3 DEF LimitInv
    <3>5. \A n \in {eligible', options'.files} :
             Len(report'.files) + (IF reading' = None THEN 0 ELSE 1) <= n
      BY <1>0, <2>2, <2>7, <3>1, <3>2
    <3>6. \A p \in ReadPaths' \cup InHand' \cup ({entering'} \cap Paths) : \A q \in Waiting' : Before(p, q)
      BY <2>2, <2>3, <2>4, <3>1, <3>3
    <3>7. \A p \in ReadPaths', q \in InHand' \cup ({entering'} \cap Paths) : Before(p, q)
      BY <2>2, <2>4, <3>1, <3>3
    <3> QED BY <2>5, <2>7, <3>1, <3>2, <3>4, <3>5, <3>6, <3>7 DEF LimitInv
  <2>10. CASE HoldsChild(c)
    <3>1. /\ entering' = None /\ report' = report /\ reading' # None /\ reading'.path = c
          /\ eligible' = eligible + 1 /\ eligible' <= options.files
      BY <2>2, <2>10 DEF HoldsChild
    <3>2. Told' = Told /\ ReadPaths' = ReadPaths /\ InHand' = {c}
      BY <3>1 DEF Told, ReadPaths, InHand
    <3>3. \A f \in Told' : "repository_file_limit" \notin f.reasons
      <4>1. ~ (eligible > options.files)
        BY <1>0, <3>1
      <4> QED BY <3>2, <4>1 DEF LimitInv
    <3>4. \A n \in {eligible', options'.files} :
             Len(report'.files) + (IF reading' = None THEN 0 ELSE 1) <= n
      BY <1>0, <2>2, <2>7, <3>1
    <3>5. \A p \in ReadPaths' \cup InHand' \cup ({entering'} \cap Paths) : \A q \in Waiting' : Before(p, q)
      BY <1>0, <2>2, <2>3, <2>4, <3>1, <3>2
    <3>6. \A p \in ReadPaths', q \in InHand' \cup ({entering'} \cap Paths) : Before(p, q)
      BY <1>0, <2>2, <2>4, <3>1, <3>2
    <3>7. entering' # Root
      BY <1>0, <3>1
    <3> QED BY <2>5, <2>7, <3>1, <3>3, <3>4, <3>5, <3>6, <3>7 DEF LimitInv
  <2> QED BY <2>1, <2>8, <2>9, <2>10
<1>5. CASE ReadFile
  <2>0. /\ reading # None /\ reading' = None /\ entering' = None /\ entering = None
        /\ UNCHANGED <<options, stack, eligible>>
    BY <1>5 DEF ReadFile, PlaceInv, world
  <2> DEFINE p == reading.path
  <2>1. p \in Paths /\ InHand = {p} /\ InHand' = {} /\ Waiting' = Waiting
    BY <2>0 DEF TraversalTypeInv, Readings, InHand, Waiting
  <2>2. \A f \in Told : "repository_file_limit" \notin f.reasons
    BY <2>0 DEF LimitInv
  <2>3. Len(report.files) + 1 <= eligible /\ Len(report.files) + 1 <= options.files
        /\ \A f \in Range(report.files) : f.size <= MaxBytes
    BY <1>0, <2>0 DEF LimitInv
  <2>4. /\ Len(report'.files) \in {Len(report.files), Len(report.files) + 1}
        /\ ReadPaths' \subseteq ReadPaths \cup {p}
        /\ \A f \in Range(report'.files) : f.size <= MaxBytes
        /\ \E e : Told' = Told \cup {e} /\ "repository_file_limit" \notin e.reasons
    <3>1. PICK e : /\ "repository_file_limit" \notin e.reasons
                   /\ \/ Tells(report, report', e)
                      \/ \E size \in Nat, d \in BOOLEAN :
                           size <= MaxBytes /\ Tells(Inventory(report, p, size, d), report', e)
      BY <1>5, ReadFileIs
    <3>2. CASE Tells(report, report', e)
      <4>1. Told' = Told \cup {e} /\ report'.files = report.files
        BY <1>0, <3>2, ToldNext
      <4>2. ReadPaths' = ReadPaths
        BY <4>1 DEF ReadPaths
      <4> QED BY <2>3, <3>1, <4>1, <4>2
    <3>3. ASSUME NEW size \in Nat, NEW d \in BOOLEAN, size <= MaxBytes,
                 Tells(Inventory(report, p, size, d), report', e)
          PROVE  /\ Len(report'.files) \in {Len(report.files), Len(report.files) + 1}
                 /\ ReadPaths' \subseteq ReadPaths \cup {p}
                 /\ \A f \in Range(report'.files) : f.size <= MaxBytes
                 /\ Told' = Told \cup {e}
      <4>1. PICK r : r = Inventory(report, p, size, d)
        OBVIOUS
      <4> HIDE DEF p
      <4>2. Counts(report, r, p, size, d)
        BY <1>0, <2>1, <4>1, InventoryIs
      <4>3. Told' = Told \cup {e} /\ report'.files = r.files
        <5>1. r \in Reports /\ r.entries = report.entries /\ Tells(r, report', e)
          BY <3>3, <4>1, <4>2 DEF Counts
        <5>2. Range(report'.entries) = Range(r.entries) \cup {e}
          BY <5>1, ToldOnceMore
        <5> QED BY <5>1, <5>2, ReadPathsIs DEF Tells
      <4>4. MoreFiles(report.files, r.files, p, size)
        BY <1>0, <2>1, <4>2, AppendFile DEF Counts
      <4> QED BY <2>3, <3>3, <4>3, <4>4, ReadPathsIs DEF MoreFiles
    <3> QED BY <3>1, <3>2, <3>3
  <2> HIDE DEF p
  <2>5. \A n \in {eligible', options'.files} :
           Len(report'.files) + (IF reading' = None THEN 0 ELSE 1) <= n
    BY <1>0, <2>0, <2>3, <2>4
  <2>6. \A q \in ReadPaths' \cup InHand' \cup ({entering'} \cap Paths) : \A w \in Waiting' : Before(q, w)
    BY <1>0, <2>0, <2>1, <2>4 DEF LimitInv
  <2>7. \A f \in Told' : "repository_file_limit" \notin f.reasons
    BY <2>2, <2>4
  <2> QED BY <1>0, <2>0, <2>1, <2>4, <2>5, <2>6, <2>7 DEF LimitInv
<1>6. CASE CloseDirectory
  <2>1. /\ entering' = None /\ reading' = None
        /\ UNCHANGED <<options, eligible, report, entering, reading>>
        /\ stack # <<>> /\ stack[Len(stack)] = {} /\ stack' = Front(stack)
    BY <1>6 DEF CloseDirectory, Pending, world
  <2>2. /\ AllOf(stack') = AllOf(stack)
        /\ \A i \in DOMAIN stack' : i \in DOMAIN stack /\ stack'[i] = stack[i]
    BY <1>0, <2>1, StackPop
  <2>3. Waiting' = Waiting /\ InHand' = InHand /\ ReadPaths' = ReadPaths /\ Told' = Told
    BY <2>1, <2>2 DEF Waiting, InHand, ReadPaths, Told
  <2> QED BY <1>0, <2>1, <2>2, <2>3 DEF LimitInv
<1>7. CASE Finish
  <2>1. /\ entering = None /\ UNCHANGED <<options, stack, entering, reading, eligible>>
        /\ report' = Publish(SortOutput(report)) /\ Distinct(report.entries)
    BY <1>7 DEF Finish, world, PlaceInv
  <2>2. /\ Range(report'.entries) = Range(report.entries)
        /\ Len(report'.files) = Len(report.files) /\ Range(report'.files) = Range(report.files)
    BY <1>0, <2>1, SortKeeps
  <2>3. Waiting' = Waiting /\ InHand' = InHand /\ ReadPaths' = ReadPaths /\ Told' = Told
    BY <2>1, <2>2, ReadPathsIs DEF Waiting, InHand
  <2>4. \A f \in Range(report'.files) : f.size <= MaxBytes
    BY <2>2 DEF LimitInv
  <2>5. \A n \in {eligible', options'.files} :
          Len(report'.files) + (IF reading' = None THEN 0 ELSE 1) <= n
    BY <2>1, <2>2 DEF LimitInv
  <2>6. /\ \A i \in DOMAIN stack' : \A p, q \in stack'[i] : Parent[p] = Parent[q]
        /\ \A i, j \in DOMAIN stack' : j < i => \A p \in stack'[i], q \in stack'[j] : Before(p, q)
    BY <2>1 DEF LimitInv
  <2>7. /\ \A p \in ReadPaths' \cup InHand' \cup ({entering'} \cap Paths) :
              \A q \in Waiting' : Before(p, q)
        /\ \A p \in ReadPaths', q \in InHand' \cup ({entering'} \cap Paths) : Before(p, q)
        /\ entering' = Root => stack' = <<>> /\ ReadPaths' = {}
        /\ \A e \in Told' : "repository_file_limit" \in e.reasons =>
             /\ eligible' > options'.files /\ reading' = None
             /\ \A p \in ReadPaths' : Before(p, e.path)
    BY <2>1, <2>3 DEF LimitInv
  <2> QED BY <2>4, <2>5, <2>6, <2>7 DEF LimitInv
<1> QED BY <1>2, <1>3, <1>4, <1>5, <1>6, <1>7, <1>8 DEF RepositoryNext, Advance

-----------------------------------------------------------------------------
(* What a report says when it is finished.                                 *)

LEMMA LimitsImplied ==
  ASSUME TraversalTypeInv, LimitInv
  PROVE  LimitsAreCanonical
<1>1. Len(report.files) \in Nat /\ options.files \in Nat
  BY RepositoryAssumption DEF TraversalTypeInv, Reports
<1>2. Len(report.files) <= options.files
  <2>1. Len(report.files) + (IF reading = None THEN 0 ELSE 1) <= options.files
    BY DEF LimitInv
  <2>2. CASE reading = None
    BY ONLY <1>1, <2>1, <2>2
  <2>3. CASE reading # None
    BY ONLY <1>1, <2>1, <2>3
  <2> QED BY <2>2, <2>3
<1>3. \A i \in DOMAIN report.files : report.files[i].size <= MaxBytes
  BY DEF LimitInv, Range
<1>4. \A e \in Told : "repository_file_limit" \in e.reasons => \A p \in ReadPaths : Before(p, e.path)
  BY DEF LimitInv
<1> QED BY <1>2, <1>3, <1>4 DEF LimitsAreCanonical

LEMMA ConsistencyImplied ==
  ASSUME TraversalTypeInv, PlaceInv, ListsInv, StatusInv
  PROVE  ReportIsConsistent
<1> SUFFICES ASSUME Done PROVE AllAccounted /\ ListsAgree /\ PartialMeansLoss
  BY DEF ReportIsConsistent, AllAccounted, ListsAgree, PartialMeansLoss
<1> DEFINE s == report.entries
<1>0. /\ Told = Range(s) /\ report \in Reports /\ None \notin Paths \cup {Root} /\ met \subseteq Paths
  BY ReadPathsIs, RepositoryAssumption DEF TraversalTypeInv
<1>1. /\ entering = None /\ stack = <<>> /\ reading = None
      /\ \A i, j \in DOMAIN s : i < j => InOrder(s[i], s[j])
  BY DEF PlaceInv, Done
<1>2. Waiting = {} /\ InHand = {}
  BY <1>1 DEF Waiting, AllOf, InHand
<1>3. AllAccounted
  <2>1. PathsOf(Told) \subseteq met \cup {Root}
    BY <1>0 DEF PlaceInv
  <2>2. ASSUME NEW p \in met \cup {Root}
        PROVE  Cardinality({i \in DOMAIN s : s[i].path = p /\ s[i].disposition # "traversed"})
                 = IF p \in listed THEN 0 ELSE 1
    <3> DEFINE S == {i \in DOMAIN s : s[i].path = p /\ s[i].disposition # "traversed"}
    <3>1. SettledIn(s, p) <=> S # {}
      BY DEF SettledIn, Settles
    <3>2. CASE p \in listed
      <4>1. S = {}
        BY <3>1, <3>2 DEF PlaceInv
      <4> HIDE DEF S
      <4> QED BY <3>2, <4>1, FS_EmptySet DEF S
    <3>3. CASE p \notin listed
      <4>1. SettledIn(s, p)
        BY <1>0, <1>1, <1>2, <3>3 DEF PlaceInv
      <4>2. PICK i : i \in S
        BY <3>1, <4>1
      <4>3. \A j \in S : j = i
        BY <4>2 DEF PlaceInv, Distinct, Settles
      <4>4. S = {i}
        BY <4>2, <4>3
      <4> HIDE DEF S
      <4> QED BY <3>3, <4>4, FS_Singleton DEF S
    <3> QED BY <3>2, <3>3
  <2> QED BY <1>1, <2>1, <2>2 DEF AllAccounted
<1>4. ListsAgree
  <2>1. /\ report.ignored = PathsOf({e \in Told : e.disposition = "ignored"})
        /\ report.unsupported = PathsOf({e \in Told : e.reasons = {"unsupported_format"}})
        /\ report.artifacts = PathsOf({e \in Told : e.disposition = "parsed"})
        /\ report.skipped = {Skip(e.path, e.reasons) : e \in {f \in Told : f.reasons # {}}}
    BY <1>0 DEF ListsInv, Views
  <2>2. Cardinality(ReadPaths) = Len(report.files)
    <3> DEFINE t == report.files
               f == [i \in DOMAIN t |-> t[i].path]
    <3>1. PICK n \in Nat : n = Len(t) /\ DOMAIN t = 1..n
      BY <1>0 DEF Reports
    <3>2. f \in Bijection(1..n, ReadPaths)
      <4>1. f \in [1..n -> ReadPaths]
        BY <3>1 DEF ReadPaths
      <4>2. \A i, j \in 1..n : f[i] = f[j] => i = j
        BY <3>1 DEF ListsInv
      <4>3. \A p \in ReadPaths : \E i \in 1..n : f[i] = p
        BY <3>1 DEF ReadPaths
      <4> QED BY <4>1, <4>2, <4>3 DEF Bijection, Injection, Surjection, IsInjective
    <3>3. IsFiniteSet(1..n) /\ Cardinality(1..n) = n
      <4>1. /\ IsFiniteSet(1..n)
            /\ Cardinality(1..n) = IF 1 > n THEN 0 ELSE n - 1 + 1
        BY FS_Interval
      <4> QED BY <4>1
    <3> HIDE DEF f
    <3>5. ExistsBijection(1..n, ReadPaths)
      BY <3>2 DEF ExistsBijection
    <3>4. Cardinality(ReadPaths) = Cardinality(1..n)
      BY <3>5, <3>3, FS_Bijection
    <3> QED BY <3>1, <3>3, <3>4
  <2>3. ReadPaths \subseteq PathsOf({e \in Told : e.disposition \in
                                       {"parsed", "binary", "unsupported", "failed"}})
    BY DEF ListsInv, PathsOf
  <2> QED BY <2>1, <2>2, <2>3 DEF ListsAgree, ListsInv
<1>5. PartialMeansLoss
  <2>1. Loss(report) <=> Gap \/ \E e \in Told : Lossy(e)
    BY <1>0 DEF ListsInv, Views
  <2>2. report.status = "partial" <=> Loss(report)
    BY DEF StatusInv, StatusIs, Done
  <2> QED BY <2>1, <2>2 DEF PartialMeansLoss, Gap
<1> QED BY <1>3, <1>4, <1>5

-----------------------------------------------------------------------------
(* A complete report.                                                      *)

LEMMA LeastNumber ==
  ASSUME NEW T \in SUBSET Nat, T # {}
  PROVE  \E n \in T : \A m \in T : n <= m
<1> DEFINE R == {ss \in Nat \X Nat : ss[1] < ss[2]}
<1>1. IsWellFoundedOn(R, Nat)
  BY NatLessThanWellFounded DEF OpToRel
<1>2. PICK x \in T : \A y \in T : ~(<<y, x>> \in R)
  <2> HIDE DEF R
  <2> QED BY <1>1, WFMin
<1>3. ASSUME NEW y \in T PROVE x <= y
  <2>1. x \in Nat /\ y \in Nat
    OBVIOUS
  <2>2. ~(y < x)
    BY <1>2, <2>1
  <2> QED BY <2>1, <2>2
<1> QED BY <1>3

(* The path of a set with the fewest directories above it: what is argued  *)
(* by induction along a path is argued from it.                            *)
LEMMA ShallowestPath ==
  ASSUME NEW B \in SUBSET Paths, B # {}
  PROVE  \E e \in B : Parent[e] \notin B
<1> DEFINE Depth(e) == Cardinality(Ancestors[e])
           T == {Depth(e) : e \in B}
<1>1. \A e \in Paths : IsFiniteSet(Ancestors[e]) /\ Depth(e) \in Nat
  BY RepositoryAssumption, FS_Subset, FS_CardinalityType
<1>2. T \in SUBSET Nat /\ T # {}
  BY <1>1
<1>3. PICK n \in T : \A m \in T : n <= m
  <2> HIDE DEF T
  <2> QED BY <1>2, LeastNumber
<1>4. PICK e \in B : n = Depth(e)
  OBVIOUS
<1>5. ASSUME Parent[e] \in B PROVE FALSE
  <2>1. /\ Parent[e] \in Paths /\ Parent[e] # Root
        /\ Ancestors[e] = {Parent[e]} \cup Ancestors[Parent[e]]
        /\ Parent[e] \notin Ancestors[Parent[e]]
    BY <1>5, RepositoryAssumption
  <2> HIDE DEF Depth
  <2>2. Depth(Parent[e]) < Depth(e)
    <3>1. /\ IsFiniteSet(Ancestors[e]) /\ Ancestors[Parent[e]] \in SUBSET Ancestors[e]
          /\ Ancestors[Parent[e]] # Ancestors[e]
          /\ IsFiniteSet(Ancestors[Parent[e]])
      BY <1>1, <2>1
    <3>2. /\ Cardinality(Ancestors[Parent[e]]) <= Cardinality(Ancestors[e])
          /\ Cardinality(Ancestors[Parent[e]]) # Cardinality(Ancestors[e])
      BY <3>1, FS_Subset
    <3>3. Depth(e) \in Nat /\ Depth(Parent[e]) \in Nat
      BY <1>1, <2>1
    <3> QED BY <3>2, <3>3 DEF Depth
  <2>3. Depth(e) <= Depth(Parent[e])
    BY <1>3, <1>4, <1>5
  <2>4. Depth(e) \in Nat /\ Depth(Parent[e]) \in Nat
    BY <1>1, <2>1
  <2> QED BY ONLY <2>2, <2>3, <2>4
<1> QED BY <1>5

(* Above a directory that is above p there is nothing that is not.         *)
LEMMA AncestorsClosed ==
  ASSUME NEW p \in Paths, NEW q \in Ancestors[p]
  PROVE  Parent[q] = Root \/ Parent[q] \in Ancestors[p]
<1> DEFINE Odd(x) == \E d \in Ancestors[x] : Parent[d] # Root /\ Parent[d] \notin Ancestors[x]
           B == {x \in Paths : Odd(x)}
<1>1. ASSUME B # {} PROVE FALSE
  <2>1. PICK e \in B : Parent[e] \notin B
    <3>1. B \in SUBSET Paths
      OBVIOUS
    <3> HIDE DEF B
    <3> QED BY <1>1, <3>1, ShallowestPath
  <2>2. e \in Paths /\ Odd(e)
    BY <2>1
  <2>3. PICK d \in Ancestors[e] : Parent[d] # Root /\ Parent[d] \notin Ancestors[e]
    BY <2>2
  <2>4. /\ Parent[e] \in Paths /\ Ancestors[e] = {Parent[e]} \cup Ancestors[Parent[e]]
    BY <2>2, <2>3, RepositoryAssumption
  <2>5. CASE d = Parent[e]
    <3>1. Parent[d] \in Ancestors[d]
      BY <2>3, <2>4, <2>5, RepositoryAssumption
    <3> QED BY <2>3, <2>4, <2>5, <3>1
  <2>6. CASE d \in Ancestors[Parent[e]]
    <3>1. ~ Odd(Parent[e])
      BY <2>1, <2>4
    <3> QED BY <2>3, <2>4, <2>6, <3>1
  <2> QED BY <2>3, <2>4, <2>5, <2>6
<1>2. ~ Odd(p)
  BY <1>1
<1> QED BY <1>2

LEMMA WholeInit ==
  RepositoryInit => WholeInv
<1> SUFFICES ASSUME RepositoryInit PROVE WholeInv
  OBVIOUS
<1>1. /\ phase = "walk" /\ met = {} /\ listed = {} /\ entering = Root /\ reading = None
      /\ report.files = <<>> /\ report.ignored = {}
  BY DEF RepositoryInit, EmptyReport
<1>2. ReadPaths = {} /\ InHand = {} /\ Entered(Root)
  BY <1>1 DEF ReadPaths, InHand, Entered
<1> QED BY <1>1, <1>2 DEF WholeInv

(* What a call asks for depends on the tree and the options alone.         *)
LEMMA AskedForIsSame ==
  ASSUME tree' = tree, options' = options
  PROVE  /\ Filtering' = Filtering /\ RulesApply' = RulesApply
         /\ \A p : Node(p)' = Node(p) /\ Children(p)' = Children(p) /\ Nested(p)' = Nested(p)
         /\ \A p : Entered(p)' = Entered(p)
         /\ Reached' = Reached /\ Wanted' = Wanted /\ Ignorable' = Ignorable
<1>1. Filtering' = Filtering /\ RulesApply' = RulesApply
  BY DEF Filtering, RulesApply
<1>2. \A p : Node(p)' = Node(p) /\ Children(p)' = Children(p)
  BY DEF Node, Children
<1>3. \A p : Nested(p)' = Nested(p)
  BY <1>2 DEF Nested
<1>4. \A p : Entered(p)' = Entered(p)
  BY <1>3 DEF Entered
<1>5. Reached' = Reached
  BY <1>4 DEF Reached
<1>6. Wanted' = Wanted
  BY <1>1, <1>2, <1>5 DEF Wanted
<1>7. Ignorable' = Ignorable
  BY <1>1, <1>5 DEF Ignorable
<1> QED BY <1>1, <1>2, <1>3, <1>4, <1>5, <1>6, <1>7

LEMMA QuietBefore ==
  ASSUME TraversalTypeInv, PlaceInv, [RepositoryNext]_repositoryVars, Quiet'
  PROVE  /\ Quiet /\ tree' = tree /\ options' = options
         /\ \A p \in Paths : ~ Change(p)
         /\ ~ Loss(report')
<1>1. changes' = 0 /\ ~ Loss(report')
  BY DEF Quiet, Loss
<1>2. \A p \in Paths : ~ Change(p)
  BY <1>1 DEF Change, TraversalTypeInv
<1>3. /\ tree' = tree /\ options' = options /\ changes' = changes
  BY <1>2 DEF RepositoryNext, Advance, Walk, VisitDirectory, VisitChild, SetAside, CannotInspect,
    CannotResolve, ChildDirectory, ChildFile, ChildLink, Considered, Visit, ReadFile,
    CloseDirectory, Finish, repositoryVars, world
<1>5. ~ Loss(report)
  <2>0. report \in Reports
    BY DEF TraversalTypeInv
  <2>1. CASE report' = report
    BY <1>1, <2>1
  <2>2. CASE report' = [report EXCEPT !.partial = TRUE]
    BY <1>1, <2>0, <2>2 DEF Reports, Loss
  <2>7. ASSUME NEW d \in BOOLEAN, report' = [report EXCEPT !.diagnosed = @ \/ d]
        PROVE  ~ Loss(report)
    <3>1. report'.partial = report.partial /\ report'.diagnosed = (report.diagnosed \/ d)
      BY <2>0, <2>7 DEF Reports
    <3> QED BY ONLY <1>1, <3>1 DEF Loss
  <2>3. ASSUME NEW e, Tells(report, report', e) PROVE ~ Loss(report)
    BY <1>1, <2>3 DEF Tells
  <2>4. ASSUME ReadFile, NEW size \in Nat, NEW d \in BOOLEAN, NEW e,
               Tells(Inventory(report, reading.path, size, d), report', e)
        PROVE  ~ Loss(report)
    <3>1. reading.path \in Paths
      BY <2>4 DEF TraversalTypeInv, ReadFile, Readings
    <3>2. Loss(Inventory(report, reading.path, size, d)) <=> Loss(report) \/ d
      BY <2>0, <3>1, InventoryIs DEF Counts
    <3> QED BY <1>1, <2>4, <3>2 DEF Tells
  <2>5. CASE Distinct(report.entries) /\ report' = Publish(SortOutput(report))
    <3>1. Loss(report') <=> Loss(report)
      BY <2>0, <2>5, SortKeeps
    <3> QED BY <1>1, <3>1
  <2> QED BY <2>1, <2>2, <2>3, <2>4, <2>5, <2>7, ReportStep
<1> QED BY <1>1, <1>2, <1>3, <1>5 DEF Quiet

(* While nothing is missing, a child is left out for the reasons that the  *)
(* call gives, and the file system answers what the tree holds.            *)
LEMMA ChildOfWhole ==
  ASSUME TraversalTypeInv, PlaceInv, WholeInv, Quiet, NEW c \in Waiting, phase = "traverse"
  PROVE  /\ c \in Paths /\ c \in met /\ Node(c) = tree[c] /\ Node(c).kind # "absent"
         /\ c \in Reached <=>
              tree[c].kind \in {"file", "link"} /\ c \notin GitNames \cup ArtifactOutput
         /\ "ignore_rule" \in FilterReasons(c) <=> (RulesApply /\ RuledOut(c))
         /\ "glob" \in FilterReasons(c) <=> c \in GlobsOut
<1>1. c \in met /\ c \in Paths /\ tree[c].kind # "absent" /\ Ancestors[c] \subseteq listed
  BY DEF PlaceInv, TraversalTypeInv, WholeInv
<1>2. \A d \in Ancestors[c] : Entered(d) /\ d \in Paths /\ d # Root
  BY <1>1, RepositoryAssumption DEF WholeInv
<1>3. \A d \in Ancestors[c] : tree[d].kind = "dir"
  BY <1>2 DEF Entered
<1>4. Node(c) = tree[c]
  BY <1>3 DEF Node
<1>5. c \in Reached <=>
        tree[c].kind \in {"file", "link"} /\ c \notin GitNames \cup ArtifactOutput
  BY <1>1, <1>2 DEF Reached
<1>6. visible = {p \in Paths : Filtering /\ Node(p).kind # "absent" /\ ~ RuledOut(p)}
  BY DEF WholeInv
<1>7. "ignore_rule" \in FilterReasons(c) <=> (RulesApply /\ RuledOut(c))
  <2>1. "ignore_rule" \in FilterReasons(c) <=> Filtering /\ c \notin visible
    BY DEF FilterReasons
  <2> QED BY <1>1, <1>4, <1>6, <2>1 DEF Filtering, RulesApply
<1>8. "glob" \in FilterReasons(c) <=> c \in GlobsOut
  BY DEF FilterReasons
<1> QED BY <1>1, <1>4, <1>5, <1>7, <1>8

LEMMA LeftOutIs ==
  ASSUME TraversalTypeInv, PlaceInv, WholeInv, Quiet, NEW c \in Waiting, phase = "traverse",
         NEW e, LeftOut(c, e)
  PROVE  /\ e.disposition = "ignored" <=> c \in Ignorable
         /\ c \notin Wanted /\ ~ Entered(c)
<1>0. /\ c \in Paths /\ c \in met /\ Node(c) = tree[c] /\ Node(c).kind # "absent"
      /\ c \in Reached <=>
           tree[c].kind \in {"file", "link"} /\ c \notin GitNames \cup ArtifactOutput
      /\ "ignore_rule" \in FilterReasons(c) <=> (RulesApply /\ RuledOut(c))
      /\ "glob" \in FilterReasons(c) <=> c \in GlobsOut
      /\ c # Root /\ FilterReasons(c) \subseteq {"ignore_rule", "glob"}
      /\ Root \notin Paths
  BY ChildOfWhole, FilterIs, RepositoryAssumption
<1>1. e.disposition = "ignored" <=> c \in Ignorable
  BY <1>0 DEF LeftOut, Ignorable
<1>2. CASE c \in GitNames \cup ArtifactOutput
  BY <1>0, <1>1, <1>2 DEF Wanted, Entered
<1>3. CASE Node(c).kind = "dir" /\ WhyClosed(c) \in {"default_excluded", "submodule_policy"}
  <2>1. c \notin Wanted
    BY <1>0, <1>3 DEF Wanted
  <2>2. ~ Entered(c)
    <3>1. (c \in DefaultExcluded /\ ~ options.ignored) \/ (Nested(c) /\ ~ options.submodules)
      BY <1>3, RepositoryAssumption DEF WhyClosed
    <3> QED BY <1>0, <3>1 DEF Entered
  <2> QED BY <1>1, <2>1, <2>2
<1>4. CASE Node(c).kind \in {"file", "link"} /\ FilterReasons(c) # {}
  <2>1. "ignore_rule" \in FilterReasons(c) \/ "glob" \in FilterReasons(c)
    BY <1>0, <1>4
  <2> QED BY <1>0, <1>1, <1>4, <2>1 DEF Wanted, Entered
<1>5. CASE /\ Node(c).kind = "link"
           /\ \/ ~ options.follow
              \/ Node(c).target = Root
              \/ Node(c).target \in Paths /\ Node(Node(c).target).kind # "file"
  BY <1>0, <1>1, <1>5 DEF Wanted, Entered
<1> QED BY <1>2, <1>3, <1>4, <1>5 DEF LeftOut

LEMMA WholeStep ==
  ASSUME TraversalTypeInv, PlaceInv, WholeInv, [RepositoryNext]_repositoryVars
  PROVE  WholeInv'
<1> SUFFICES ASSUME Quiet' PROVE WholeInv'
  BY DEF WholeInv
<1>0. /\ Quiet /\ tree' = tree /\ options' = options /\ \A p \in Paths : ~ Change(p)
      /\ ~ Loss(report')
      /\ report \in Reports /\ met \subseteq Paths /\ listed \subseteq met \cup {Root}
      /\ None \notin Paths \cup {Root} /\ Root \notin Paths
      /\ entering \in Paths \cup {Root, None}
  BY QuietBefore, RepositoryAssumption DEF TraversalTypeInv
<1>s. /\ Filtering' = Filtering /\ RulesApply' = RulesApply
      /\ \A p : Node(p)' = Node(p) /\ Children(p)' = Children(p)
      /\ \A p : Entered(p)' = Entered(p)
      /\ Reached' = Reached /\ Wanted' = Wanted /\ Ignorable' = Ignorable
  BY <1>0, AskedForIsSame
<1>w. /\ phase # "walk" =>
           visible = {p \in Paths : Filtering /\ Node(p).kind # "absent" /\ ~ RuledOut(p)}
      /\ \A p \in met : Ancestors[p] \subseteq listed /\ tree[p].kind # "absent"
      /\ \A d \in listed : Entered(d) /\ Children(d) \subseteq met
      /\ entering # None => Entered(entering)
      /\ \A d \in (met \cup {Root}) \ (Waiting \cup {entering}) : Entered(d) => d \in listed
      /\ \A p \in met \ (Waiting \cup {entering}) :
           /\ p \in Wanted => p \in ReadPaths \cup InHand
           /\ p \in Ignorable => p \in report.ignored
      /\ ReadPaths \cup InHand \subseteq Wanted
      /\ report.ignored \subseteq Ignorable
  BY <1>0 DEF WholeInv
(* The goal, part by part.                                                 *)
<1> DEFINE W1 == phase' # "walk" =>
                   visible' = {p \in Paths : Filtering /\ Node(p).kind # "absent" /\ ~ RuledOut(p)}
           W2 == \A p \in met' : Ancestors[p] \subseteq listed' /\ tree[p].kind # "absent"
           W3 == \A d \in listed' : Entered(d) /\ Children(d) \subseteq met'
           W4 == entering' # None => Entered(entering')
           W5 == \A d \in (met' \cup {Root}) \ (Waiting' \cup {entering'}) : Entered(d) => d \in listed'
           W6 == \A p \in met' \ (Waiting' \cup {entering'}) :
                   /\ p \in Wanted => p \in ReadPaths' \cup InHand'
                   /\ p \in Ignorable => p \in report'.ignored
           W7 == ReadPaths' \cup InHand' \subseteq Wanted
           W8 == report'.ignored \subseteq Ignorable
<1>g. SUFFICES W1 /\ W2 /\ W3 /\ W4 /\ W5 /\ W6 /\ W7 /\ W8
  <2>1. Entered(entering)' <=> Entered(entering')
    BY <1>0 DEF Entered, Nested, Children
  <2> QED BY <1>0, <1>s DEF WholeInv, RuledOut
<1>1. CASE /\ UNCHANGED <<met, listed, entering, reading, stack>>
           /\ report'.files = report.files /\ report'.ignored = report.ignored
           /\ W1
  <2>1. Waiting' = Waiting /\ InHand' = InHand /\ ReadPaths' = ReadPaths
    BY <1>1 DEF Waiting, InHand, ReadPaths
  <2> QED BY <1>1, <1>w, <2>1
<1>2. CASE UNCHANGED repositoryVars
  <2>1. W1
    BY <1>w, <1>2 DEF repositoryVars
  <2> QED BY <1>1, <1>2, <2>1 DEF repositoryVars, witnessed
<1>3. CASE Walk
  <2>1. PICK failed \in SUBSET Paths :
               /\ report' = [report EXCEPT !.diagnosed = @ \/ failed # {}]
               /\ visible' = {p \in Paths : /\ Filtering
                                            /\ Node(p).kind # "absent"
                                            /\ ~RuledOut(p)
                                            /\ (Ancestors[p] \cup {p}) \cap failed = {}}
    BY <1>3 DEF Walk
  <2>4. /\ report'.files = report.files /\ report'.ignored = report.ignored
        /\ report'.diagnosed = (report.diagnosed \/ failed # {})
    BY <1>0, <2>1 DEF Reports
  <2>2. failed = {}
    BY <1>0, <2>4 DEF Loss
  <2>3. W1
    BY <2>1, <2>2
  <2> QED BY <1>1, <1>3, <2>3, <2>4 DEF Walk
<1>4. CASE VisitDirectory
  <2>0. /\ entering' = None /\ entering # None /\ reading' = reading /\ reading = None
        /\ entering \in (met \cup {Root}) \ (Waiting \cup listed)
        /\ phase = "traverse" /\ phase' = phase /\ visible' = visible
        /\ InHand = {} /\ InHand' = {}
    BY <1>4 DEF VisitDirectory, PlaceInv, InHand
  <2>1. PICK S : /\ S = Children(entering)
                 /\ stack' = Append(stack, S) /\ met' = met \cup S
                 /\ listed' = listed \cup {entering} /\ report' = report
    <3>1. ASSUME NEW e, Tells(report, report', e), Lossy(e) PROVE FALSE
      BY <1>0, <3>1 DEF Tells
    <3>2. report' # [report EXCEPT !.partial = TRUE]
      BY <1>0 DEF Reports, Loss
    <3> QED BY <1>4, <3>1, <3>2, VisitDirectoryIs
  <2>2. Waiting' = Waiting \cup S /\ ReadPaths' = ReadPaths
    <3>1. S \in SUBSET Paths /\ \A p \in S : Parent[p] = entering
      BY <2>1 DEF Children
    <3>2. S \cap AllOf(stack) = {} /\ stack \in Seq(SUBSET Paths) /\ Apart(stack)
      BY <2>0, <3>1 DEF PlaceInv, Waiting, TraversalTypeInv
    <3>3. Pushed(stack, S, stack')
      BY <2>1, <3>1, <3>2, StackPush
    <3> QED BY <2>1, <3>3 DEF Waiting, ReadPaths, Pushed
  <2>3. W1 /\ W4 /\ W7 /\ W8
    BY <1>w, <2>0, <2>1, <2>2
  <2>4. W2
    <3>1. ASSUME NEW p \in S
          PROVE  Ancestors[p] \subseteq listed' /\ tree[p].kind # "absent"
      <4>1. p \in Paths /\ Parent[p] = entering /\ tree[p].kind # "absent"
        BY <2>1 DEF Children
      <4>2. CASE entering = Root
        BY <4>1, <4>2, RepositoryAssumption
      <4>3. CASE entering \in met
        <5>1. Ancestors[p] = {entering} \cup Ancestors[entering]
          BY <1>0, <4>1, <4>3, AncestorsOfChild
        <5> QED BY <1>w, <2>1, <4>1, <4>3, <5>1
      <4> QED BY <2>0, <4>2, <4>3
    <3> QED BY <1>w, <2>1, <3>1
  <2>5. W3
    BY <1>w, <2>0, <2>1
  <2>6. W5
    BY <1>w, <2>0, <2>1, <2>2
  <2>7. W6
    <3> SUFFICES ASSUME NEW p \in met, p \notin Waiting
                 PROVE  /\ p \in Wanted => p \in ReadPaths
                        /\ p \in Ignorable => p \in report.ignored
      BY <2>0, <2>1, <2>2
    <3>1. CASE p = entering
      <4>1. tree[p].kind = "dir"
        BY <1>0, <1>w, <2>0, <3>1 DEF Entered
      <4>2. p \notin Reached
        BY <4>1 DEF Reached
      <4> QED BY <4>2 DEF Wanted, Ignorable
    <3> QED BY <1>w, <2>0, <3>1
  <2> QED BY <2>3, <2>4, <2>5, <2>6, <2>7
<1>5. CASE VisitChild
  <2>1. PICK c \in Paths : /\ Visit(c)
                           /\ (\E e : SettlesChild(c, e)) \/ OpensChild(c) \/ HoldsChild(c)
    BY <1>5, VisitChildIs
  <2>2. /\ Waiting' = Waiting \ {c} /\ c \in Waiting
        /\ entering = None /\ reading = None /\ phase = "traverse"
        /\ UNCHANGED <<phase, visible, met, listed>>
    BY <2>1, VisitIs DEF witnessed
  <2>3. /\ c \in met /\ Node(c) = tree[c] /\ Node(c).kind # "absent"
        /\ c \in Reached <=>
             tree[c].kind \in {"file", "link"} /\ c \notin GitNames \cup ArtifactOutput
        /\ "ignore_rule" \in FilterReasons(c) <=> (RulesApply /\ RuledOut(c))
        /\ "glob" \in FilterReasons(c) <=> c \in GlobsOut
        /\ c # Root
    BY <1>0, <2>2, ChildOfWhole
  <2>4. InHand = {}
    BY <2>2 DEF InHand
  <2>5. W1 /\ W2 /\ W3
    BY <1>w, <2>2
  <2>6. ASSUME NEW e, SettlesChild(c, e) PROVE W4 /\ W5 /\ W6 /\ W7 /\ W8
    <3>1. /\ Tells(report, report', e) /\ e.path = c
          /\ entering' = None /\ reading' = None
          /\ Lossy(e) \/ LeftOut(c, e)
      BY <2>2, <2>6 DEF SettlesChild
    <3>2. ~ Lossy(e)
      BY <1>0, <3>1 DEF Tells
    <3>3. /\ e.disposition = "ignored" <=> c \in Ignorable
          /\ c \notin Wanted /\ ~ Entered(c)
      BY <1>0, <2>2, <3>1, <3>2, LeftOutIs
    <3>4. report'.ignored = report.ignored \cup {p \in {c} : c \in Ignorable}
      BY <3>1, <3>3 DEF Tells
    <3>5. ReadPaths' = ReadPaths /\ InHand' = {}
      <4>1. ReadPaths' = ReadPaths
        BY <1>0, <3>1, ToldNext
      <4> QED BY <3>1, <4>1 DEF InHand
    <3>6. W4
      BY <3>1
    <3>7. W5
      BY <1>w, <2>2, <3>1, <3>3
    <3>8. W6
      BY <1>w, <2>2, <2>4, <3>1, <3>3, <3>4, <3>5
    <3>9. W7 /\ W8
      BY <1>w, <2>4, <3>4, <3>5
    <3> QED BY <3>6, <3>7, <3>8, <3>9
  <2>7. CASE OpensChild(c)
    <3>1. /\ entering' = c /\ reading' = None /\ c \notin GitNames \cup ArtifactOutput
          /\ tree[c].kind = "dir" /\ WhyClosed(c) = None
      BY <2>2, <2>3, <2>7 DEF OpensChild
    <3>2. Entered(c)
      <4>1. /\ tree[c].inside
            /\ c \notin DefaultExcluded \/ options.ignored
            /\ ~ Nested(c) \/ options.submodules
        BY <2>3, <3>1, RepositoryAssumption DEF WhyClosed
      <4> QED BY <3>1, <4>1 DEF Entered
    <3>3. report'.ignored = report.ignored /\ ReadPaths' = ReadPaths
      <4>1. CASE report' = report
        BY <4>1 DEF ReadPaths
      <4>2. ASSUME NEW e, Tells(report, report', e), e.disposition = "traversed"
            PROVE  report'.ignored = report.ignored /\ ReadPaths' = ReadPaths
        <5>1. ReadPaths' = ReadPaths
          BY <1>0, <4>2, ToldNext
        <5>2. report'.ignored = report.ignored \cup {p \in {e.path} : FALSE}
          BY <4>2 DEF Tells
        <5> QED BY <5>1, <5>2
      <4> QED BY <2>7, <4>1, <4>2 DEF OpensChild
    <3>4. InHand' = {}
      BY <3>1 DEF InHand
    <3>5. c \notin Wanted /\ c \notin Ignorable
      BY <2>3, <3>1 DEF Wanted, Ignorable
    <3>6. W4
      BY <3>1, <3>2
    <3>7. W5
      <4> SUFFICES ASSUME NEW d \in met \cup {Root}, d \notin Waiting' \cup {c}, Entered(d)
                   PROVE  d \in listed
        BY <2>2, <3>1
      <4> d \notin Waiting \cup {entering}
        BY <1>0, <2>2
      <4> QED BY <1>w
    <3>8. W6
      <4> SUFFICES ASSUME NEW p \in met, p \notin Waiting' \cup {c}
                   PROVE  /\ p \in Wanted => p \in ReadPaths
                          /\ p \in Ignorable => p \in report.ignored
        BY <2>2, <3>1, <3>3, <3>4
      <4> p \notin Waiting \cup {entering}
        BY <1>0, <2>2
      <4> QED BY <1>w, <2>4
    <3>9. W7 /\ W8
      BY <1>w, <2>4, <3>3, <3>4
    <3> QED BY <2>5, <3>6, <3>7, <3>8, <3>9
  <2>8. CASE HoldsChild(c)
    <3>1. /\ entering' = None /\ report' = report /\ reading' # None /\ reading'.path = c
          /\ c \notin GitNames \cup ArtifactOutput /\ FilterReasons(c) = {}
          /\ \/ tree[c].kind = "file"
             \/ /\ tree[c].kind = "link" /\ options.follow
                /\ tree[c].target \in Paths /\ Node(tree[c].target).kind = "file"
      BY <2>2, <2>3, <2>8 DEF HoldsChild
    <3>2. InHand' = {c} /\ ReadPaths' = ReadPaths
      BY <3>1 DEF InHand, ReadPaths
    <3>3. c \in Wanted /\ c \notin Ignorable
      BY <2>3, <3>1 DEF Wanted, Ignorable
    <3>4. ~ Entered(c)
      BY <2>3, <3>1 DEF Entered
    <3>5. W4 /\ W7 /\ W8
      BY <1>w, <3>1, <3>2, <3>3
    <3>6. W5
      BY <1>w, <2>2, <3>1, <3>4
    <3>7. W6
      BY <1>w, <2>2, <2>4, <3>1, <3>2, <3>3
    <3> QED BY <2>5, <3>5, <3>6, <3>7
  <2> QED BY <2>1, <2>5, <2>6, <2>7, <2>8
<1>6. CASE ReadFile
  <2>0. /\ reading # None /\ reading' = None /\ entering' = None /\ entering = None
        /\ UNCHANGED <<phase, visible, stack, met, listed>>
    BY <1>6 DEF ReadFile, PlaceInv
  <2>1. PICK p \in Paths : p = reading.path
    BY <2>0 DEF TraversalTypeInv, Readings
  <2>2. InHand = {p} /\ InHand' = {} /\ Waiting' = Waiting
    BY <2>0, <2>1 DEF InHand, Waiting
  <2>3. ReadPaths' = ReadPaths \cup {p} /\ report'.ignored = report.ignored
    <3>0. PICK size \in Nat, d \in BOOLEAN :
            \E e : /\ e.disposition # "ignored"
                   /\ Tells(Inventory(report, p, size, d), report', e)
      <4>1. ASSUME NEW e, Tells(report, report', e), Lossy(e) PROVE FALSE
        BY <1>0, <4>1 DEF Tells
      <4> QED BY <1>6, <2>1, <4>1, ReadFileIs
    <3>1. PICK e : /\ e.disposition # "ignored"
                   /\ Tells(Inventory(report, p, size, d), report', e)
      BY <3>0
    <3>2. PICK r : r = Inventory(report, p, size, d)
      OBVIOUS
    <3>3. Counts(report, r, p, size, d) /\ Tells(r, report', e)
      BY <1>0, <3>1, <3>2, InventoryIs
    <3>4. report'.ignored = report.ignored /\ report'.files = r.files
      <4>1. report'.ignored = r.ignored \cup {q \in {e.path} : FALSE}
        BY <3>1, <3>3 DEF Tells
      <4> QED BY <3>3, <4>1 DEF Counts, Tells
    <3>5. MoreFiles(report.files, r.files, p, size)
      <4>1. report.files \in Seq(FileRecords) /\ r.files = Append(report.files, FileOf(p, size))
        BY <1>0, <3>3 DEF Reports, Counts
      <4> QED BY <4>1, AppendFile
    <3> QED BY <3>4, <3>5, ReadPathsIs DEF MoreFiles
  <2>4. W1 /\ W2 /\ W3
    BY <1>w, <2>0
  <2>5. W4 /\ W5
    BY <1>w, <2>0, <2>2
  <2>6. W6
    BY <1>w, <2>0, <2>2, <2>3
  <2>7. W7 /\ W8
    BY <1>w, <2>2, <2>3
  <2> QED BY <2>4, <2>5, <2>6, <2>7
<1>7. CASE CloseDirectory
  <2>1. /\ UNCHANGED <<met, listed, report, entering, reading, phase, visible>>
        /\ stack # <<>> /\ stack[Len(stack)] = {} /\ stack' = Front(stack)
    BY <1>7 DEF CloseDirectory, Pending, witnessed
  <2>2. AllOf(stack') = AllOf(stack)
    BY <2>1, StackPop DEF TraversalTypeInv, PlaceInv
  <2>3. Waiting' = Waiting /\ InHand' = InHand /\ ReadPaths' = ReadPaths
    BY <2>1, <2>2 DEF Waiting, InHand, ReadPaths
  <2> QED BY <1>w, <2>1, <2>3
<1>8. CASE Finish
  <2>1. /\ phase = "traverse" /\ UNCHANGED <<stack, met, listed, entering, reading, visible>>
        /\ report' = Publish(SortOutput(report)) /\ Distinct(report.entries)
    BY <1>8 DEF Finish, witnessed, PlaceInv
  <2>2. Range(report'.files) = Range(report.files) /\ report'.ignored = report.ignored
    BY <1>0, <2>1, SortKeeps
  <2>3. Waiting' = Waiting /\ InHand' = InHand /\ ReadPaths' = ReadPaths
    BY <2>1, <2>2, ReadPathsIs DEF Waiting, InHand
  <2> QED BY <1>w, <2>1, <2>2, <2>3
<1> QED BY <1>0, <1>2, <1>3, <1>4, <1>5, <1>6, <1>7, <1>8 DEF RepositoryNext, Advance

(* When nothing is missing and nothing is left to do, every file that has  *)
(* to be reached was met.                                                  *)
LEMMA ReachedIsMet ==
  ASSUME met \subseteq Paths, WholeInv, Quiet, Waiting = {}, entering = None,
         NEW p \in Reached
  PROVE  p \in met
<1>0. None \notin Paths \cup {Root} /\ p \in Paths /\ Ancestors[p] \subseteq Paths
      /\ Root \notin Paths
  BY RepositoryAssumption DEF Reached
<1>1. /\ \A d \in met \cup {Root} : Entered(d) => d \in listed
      /\ \A d \in listed : Children(d) \subseteq met
  <2>1. \A d \in (met \cup {Root}) \ (Waiting \cup {entering}) : Entered(d) => d \in listed
    BY DEF WholeInv
  <2>2. None \notin met \cup {Root}
    BY <1>0
  <2> QED BY <1>0, <2>1, <2>2 DEF WholeInv
<1> DEFINE B == ({p} \cup Ancestors[p]) \ met
<1>2. ASSUME p \notin met PROVE FALSE
  <2>1. PICK e \in B : Parent[e] \notin B
    <3>1. B \in SUBSET Paths /\ B # {}
      BY <1>0, <1>2
    <3> HIDE DEF B
    <3> QED BY <3>1, ShallowestPath
  <2>2. Parent[e] = Root \/ Parent[e] \in Ancestors[p]
    BY <1>0, <2>1, AncestorsClosed, RepositoryAssumption
  <2>3. Parent[e] \in met \cup {Root}
    BY <2>1, <2>2
  <2>4. Entered(Parent[e])
    BY <2>2 DEF Reached, Entered
  <2>5. tree[e].kind # "absent"
    BY <1>0, <2>1 DEF Reached, Entered
  <2>6. e \in Children(Parent[e])
    BY <1>0, <2>1, <2>5 DEF Children
  <2> QED BY <1>1, <2>1, <2>3, <2>4, <2>6
<1> QED BY <1>2

LEMMA WholeImplied ==
  ASSUME TraversalTypeInv, PlaceInv, StatusInv, WholeInv
  PROVE  CompleteIsWhole
<1> SUFFICES ASSUME Done, report.status = "complete", changes = 0
             PROVE  ReadPaths = Wanted /\ report.ignored = Ignorable
  BY DEF CompleteIsWhole, Ignorable
<1>1. /\ Quiet /\ Waiting = {} /\ InHand = {} /\ entering = None
      /\ met \subseteq Paths /\ None \notin Paths
  <2>1. stack = <<>> /\ reading = None /\ entering = None
    BY DEF PlaceInv, Done
  <2>2. Waiting = {} /\ InHand = {}
    BY <2>1 DEF Waiting, AllOf, InHand
  <2>3. ~ Loss(report)
    BY DEF StatusInv, StatusIs, Done
  <2> QED BY <2>1, <2>2, <2>3, RepositoryAssumption DEF Quiet, TraversalTypeInv
<1>2. Reached \subseteq met
  BY <1>1, ReachedIsMet
<1>3. /\ \A p \in met \ (Waiting \cup {entering}) :
           /\ p \in Wanted => p \in ReadPaths \cup InHand
           /\ p \in Ignorable => p \in report.ignored
      /\ ReadPaths \cup InHand \subseteq Wanted
      /\ report.ignored \subseteq Ignorable
  BY <1>1 DEF WholeInv
<1>4. Wanted \subseteq Reached /\ Ignorable \subseteq Reached
  BY DEF Wanted, Ignorable
<1>5. \A p \in met : /\ p \in Wanted => p \in ReadPaths
                     /\ p \in Ignorable => p \in report.ignored
  BY <1>1, <1>3
<1> QED BY <1>1, <1>2, <1>3, <1>4, <1>5

(* The invariant of a repository traversal holds through every change of   *)
(* the tree that puts no link in place of a directory or of a link's end.  *)
THEOREM TraversalInvHolds ==
  RepositorySpec => []TraversalInv
<1>1. RepositoryInit => TraversalInv
  <2>1. RepositoryInit => StatusInv
    BY DEF RepositoryInit, StatusInv
  <2> QED BY <2>1, TraversalTypeInit, PlaceInit, ListsInit, LimitInit, WholeInit DEF TraversalInv
<1>2. TraversalInv /\ [RepositoryNext]_repositoryVars => TraversalInv'
  BY TraversalTypeStep, PlaceStep, ListsStep, StatusStep, LimitStep, WholeStep DEF TraversalInv
<1> QED BY <1>1, <1>2, PTL DEF RepositorySpec

(* Every path that was met is told of once, the lists of a finished report *)
(* are views of its entries, and its envelope is partial exactly when a    *)
(* rule, a directory entry or a file was lost, or a file's envelope had a  *)
(* partial diagnostic (repository.rs:119-143, 193-703, 941-972).           *)
THEOREM ReportIsConsistentHolds ==
  RepositorySpec => []ReportIsConsistent
<1>1. TraversalInv => ReportIsConsistent
  BY ConsistencyImplied DEF TraversalInv
<1> QED BY <1>1, TraversalInvHolds, PTL

(* The file limit leaves out what comes last in canonical order, and no    *)
(* file is read beyond either limit (repository.rs:442-516).               *)
THEOREM LimitsAreCanonicalHolds ==
  RepositorySpec => []LimitsAreCanonical
<1>1. TraversalInv => LimitsAreCanonical
  BY LimitsImplied DEF TraversalInv
<1> QED BY <1>1, TraversalInvHolds, PTL

(* An envelope that calls itself complete has read every file asked for,   *)
(* and no other, if the tree stayed as it was: the traversal reaches what  *)
(* a definition without a traversal says it must.                          *)
THEOREM CompleteIsWholeHolds ==
  RepositorySpec => []CompleteIsWhole
<1>1. TraversalInv => CompleteIsWhole
  BY WholeImplied DEF TraversalInv
<1> QED BY <1>1, TraversalInvHolds, PTL
=============================================================================
