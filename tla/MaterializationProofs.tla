------------------------ MODULE MaterializationProofs ------------------------
(***************************************************************************)
(* Proofs about Materialization, for any number of callers, contents,      *)
(* hand-made records, attempts, calls and crashes.                         *)
(***************************************************************************)
EXTENDS Materialization, TLAPS

(* The types of what the proofs need.                                      *)
Jobs ==
  [raw: Contents \cup {None}, unsafe: BOOLEAN,
   attempts: 0..MaxNameAttempts, attempt: 0..MaxNameAttempts]

TypeOK ==
  /\ captured \subseteq Records
  /\ disk \in [Names -> Files \cup {None, Planted}]
  /\ pc \in [Callers -> Phases]
  /\ job \in [Callers -> Jobs]
  /\ told \subseteq [name: Names, content: Contents]
  /\ orphans \subseteq Names

(* A call past its checks has a content and a number that is no further    *)
(* than its attempts; one that made a file is still short of them.         *)
Busy == Phases \ {"idle"}
Writing == {"write", "remove"}

JobInv ==
  \A w \in Callers :
    /\ pc[w] \in Busy => job[w].raw \in Contents /\ job[w].attempt <= job[w].attempts
    /\ pc[w] \in Writing => job[w].attempt < job[w].attempts

(* What nobody fills any more stays a part.                                *)
OrphansArePartial == \A n \in orphans : disk[n] \in Files /\ ~disk[n].whole

Inv == TypeOK /\ JobInv /\ OrphansArePartial /\ DirectoryIsTruthful

-----------------------------------------------------------------------------
LEMMA NameIsAName ==
  ASSUME TypeOK, NEW w \in Callers, job[w].raw \in Contents,
         job[w].attempt < job[w].attempts
  PROVE  Name(w) \in Names
  BY MaterializationAssumption DEF TypeOK, Jobs, Name, Names

LEMMA WriterOwnsAPart ==
  ASSUME Inv, NEW w \in Callers, pc[w] \in Writing
  PROVE  /\ Name(w) \in Names /\ job[w].raw \in Contents
         /\ disk[Name(w)] = FileOf(w, FALSE)
         /\ Name(w) \notin orphans
         /\ \A v \in Callers : pc[v] \in Writing /\ Name(v) = Name(w) => v = w
  <1>1. Name(w) \in Names /\ job[w].raw \in Contents
    BY NameIsAName DEF Inv, JobInv, Writing, Busy, Phases
  <1>2. /\ disk[Name(w)] \in Files /\ ~disk[Name(w)].whole
        /\ Name(w) \notin orphans
        /\ disk[Name(w)].content = job[w].raw
        /\ \A v \in Callers : pc[v] \in Writing /\ Name(v) = Name(w) => v = w
    BY <1>1 DEF Inv, DirectoryIsTruthful, PartsAreOwned, Writing, Name
  <1> QED BY <1>1, <1>2 DEF Files, FileOf

LEMMA InitInv == Init => Inv
  <1> SUFFICES ASSUME Init PROVE Inv
    OBVIOUS
  <1>1. TypeOK
    BY MaterializationAssumption DEF Init, TypeOK, Jobs, NoJob, Phases
  <1>2. JobInv /\ OrphansArePartial
    BY DEF Init, JobInv, OrphansArePartial, Busy, Writing
  <1>3. ToldIsOnDisk
    BY DEF Init, ToldIsOnDisk
  <1>4. \A n \in Names : disk[n] \notin Files
    BY RecordsAndFiles DEF Init
  <1>5. PartsAreOwned
    BY <1>4 DEF Init, PartsAreOwned
  <1> QED BY <1>1, <1>2, <1>3, <1>5 DEF Inv, DirectoryIsTruthful

(* A step that leaves the directory and its writers as they are.           *)
LEMMA SameWriters ==
  ASSUME Inv, UNCHANGED <<disk, told, orphans>>,
         \A v \in Callers :
           /\ pc'[v] \in Writing <=> pc[v] \in Writing
           /\ pc[v] \in Writing => job'[v] = job[v]
  PROVE  OrphansArePartial' /\ DirectoryIsTruthful'
  <1>1. OrphansArePartial' /\ ToldIsOnDisk'
    BY DEF Inv, OrphansArePartial, DirectoryIsTruthful, ToldIsOnDisk
  <1>2. PartsAreOwned'
    BY DEF Inv, DirectoryIsTruthful, PartsAreOwned, Name, Writing
  <1> QED BY <1>1, <1>2 DEF DirectoryIsTruthful

LEMMA CaptureTypes ==
  ASSUME Inv, CaptureAny
  PROVE  captured' \subseteq Records
  <1>1. \A status \in Statuses, raw \in Contents \cup {None}, unsafe \in BOOLEAN,
          storage \in {"inline", "external", "none"},
          t \in Thresholds \cup {Length[c] : c \in Contents} \cup {0} :
            Record(status, raw, storage, t, unsafe) \in Records
    BY DEF Record, Records
  <1>2. \A r \in Records : Keep(r) => captured' \subseteq Records
    BY DEF Keep, Inv, TypeOK
  <1>3. \A unsafe \in BOOLEAN : Extracted(unsafe) \in Statuses
    BY DEF Extracted, Statuses
  <1>4. UNCHANGED captured => captured' \subseteq Records
    BY DEF Inv, TypeOK
  <1>5. PICK e \in Evidence :
          \/ \E c \in Contents :
               \/ \E t \in Thresholds : Capture(c, t, RequiresOptIn(e))
               \/ CaptureInline(c, RequiresOptIn(e))
               \/ CaptureContentAddressed(c, RequiresOptIn(e))
               \/ RecordWithoutContent(c, "inventory_only", RequiresOptIn(e))
          \/ \E c \in Contents \cup {None} :
               RecordWithoutContent(c, "unavailable", RequiresOptIn(e))
    BY DEF CaptureAny
  <1> DEFINE unsafe == RequiresOptIn(e)
  <1>6. unsafe \in BOOLEAN
    BY DEF RequiresOptIn
  <1> HIDE DEF unsafe
  <1>7. ASSUME NEW c \in Contents, NEW t \in Thresholds, Capture(c, t, unsafe)
        PROVE  captured' \subseteq Records
    BY <1>1, <1>2, <1>3, <1>4, <1>6, <1>7 DEF Capture, StoreThenKeep
  <1>8. ASSUME NEW c \in Contents, CaptureInline(c, unsafe)
        PROVE  captured' \subseteq Records
    BY <1>1, <1>2, <1>3, <1>4, <1>6, <1>8 DEF CaptureInline
  <1>9. ASSUME NEW c \in Contents, CaptureContentAddressed(c, unsafe)
        PROVE  captured' \subseteq Records
    BY <1>1, <1>2, <1>3, <1>4, <1>6, <1>9 DEF CaptureContentAddressed, StoreThenKeep
  <1>10. ASSUME NEW c \in Contents \cup {None}, NEW status \in Statuses,
                RecordWithoutContent(c, status, unsafe)
         PROVE  captured' \subseteq Records
    BY <1>1, <1>2, <1>4, <1>6, <1>10 DEF RecordWithoutContent
  <1>11. {"inventory_only", "unavailable"} \subseteq Statuses
    BY DEF Statuses
  <1> QED BY <1>5, <1>7, <1>8, <1>9, <1>10, <1>11 DEF unsafe

-----------------------------------------------------------------------------
(* One lemma per action.                                                   *)
LEMMA BeginStep ==
  ASSUME Inv, NEW w \in Callers, Begin(w)
  PROVE  Inv'
  <1>1. CASE UNCHANGED <<pc, job>>
    <2>1. TypeOK' /\ JobInv'
      BY <1>1 DEF Begin, Inv, TypeOK, JobInv, stored, history
    <2>2. OrphansArePartial' /\ DirectoryIsTruthful'
      BY <1>1, SameWriters DEF Begin, history
    <2> QED BY <2>1, <2>2 DEF Inv
  <1>2. CASE ~UNCHANGED <<pc, job>>
    <2>1. PICK r \in captured \cup Foreign, allowed \in BOOLEAN, n \in 0..MaxNameAttempts :
            /\ Admitted(r, allowed, n)
            /\ job' = [job EXCEPT ![w] =
                 [raw |-> r.raw, unsafe |-> r.unsafe, attempts |-> n, attempt |-> 0]]
            /\ pc' = [pc EXCEPT ![w] = "prepare"]
      BY <1>2 DEF Begin, Goto
    <2>2. r \in Records
      BY RecordsAndFiles DEF Inv, TypeOK
    <2>3. r.raw \in Contents /\ n > 0
      BY <2>1, <2>2 DEF Admitted, Valid, ContentIsLawful, Available, Records
    <2>4. /\ job'[w].raw \in Contents /\ job'[w].attempt <= job'[w].attempts
          /\ job'[w] \in Jobs /\ pc'[w] = "prepare" /\ pc[w] = "idle"
      BY <2>1, <2>2, <2>3, MaterializationAssumption DEF Jobs, Records, Inv, TypeOK, Begin
    <2>5. \A v \in Callers \ {w} : job'[v] = job[v] /\ pc'[v] = pc[v]
      BY <2>1 DEF Inv, TypeOK
    <2>6. pc' \in [Callers -> Phases] /\ job' \in [Callers -> Jobs]
      BY <2>1, <2>4 DEF Inv, TypeOK, Phases
    <2>7. TypeOK'
      BY <2>6 DEF Begin, Inv, TypeOK, stored, history
    <2>8. JobInv'
      BY <2>4, <2>5 DEF Inv, JobInv, Busy, Writing
    <2>9. OrphansArePartial' /\ DirectoryIsTruthful'
      BY <2>4, <2>5, SameWriters DEF Begin, history, Writing
    <2> QED BY <2>7, <2>8, <2>9 DEF Inv
  <1> QED BY <1>1, <1>2

(* A caller that owns no part returns.                                     *)
LEMMA ReturnStep ==
  ASSUME Inv, NEW w \in Callers, pc[w] \notin Writing, Return(w),
         UNCHANGED <<captured, disk, told, orphans>>
  PROVE  Inv'
  <1>1. /\ pc'[w] = "idle" /\ NoJob \in Jobs
        /\ \A v \in Callers \ {w} : job'[v] = job[v] /\ pc'[v] = pc[v]
    BY MaterializationAssumption DEF Return, Goto, Inv, TypeOK, NoJob, Jobs
  <1>2. TypeOK'
    BY <1>1 DEF Return, Goto, Inv, TypeOK, Phases
  <1>3. JobInv'
    BY <1>1 DEF Inv, JobInv, Busy, Writing
  <1>4. OrphansArePartial' /\ DirectoryIsTruthful'
    BY <1>1, SameWriters DEF Writing
  <1> QED BY <1>2, <1>3, <1>4 DEF Inv

(* A caller changes its phase and stays a writer, or stays none.           *)
LEMMA GotoStep ==
  ASSUME Inv, NEW w \in Callers, NEW phase \in Busy, Goto(w, phase),
         pc[w] \in Busy, phase \in Writing <=> pc[w] \in Writing,
         UNCHANGED <<captured, disk, job, told, orphans>>
  PROVE  Inv'
  <1>1. /\ pc'[w] = phase
        /\ \A v \in Callers \ {w} : pc'[v] = pc[v]
    BY DEF Goto, Inv, TypeOK
  <1>2. TypeOK'
    BY <1>1 DEF Goto, Inv, TypeOK, Busy
  <1>3. JobInv'
    BY <1>1 DEF Inv, JobInv
  <1>4. OrphansArePartial' /\ DirectoryIsTruthful'
    BY <1>1, SameWriters
  <1> QED BY <1>2, <1>3, <1>4 DEF Inv

LEMMA PrepareStep ==
  ASSUME Inv, NEW w \in Callers, PrepareDirectory(w)
  PROVE  Inv'
  <1>1. CASE Goto(w, "create") /\ UNCHANGED job
    BY <1>1, GotoStep DEF PrepareDirectory, Busy, Phases, Writing, stored, history
  <1>2. CASE Return(w)
    BY <1>2, ReturnStep DEF PrepareDirectory, Writing, stored, history
  <1> QED BY <1>1, <1>2 DEF PrepareDirectory

LEMMA NextNameStep ==
  ASSUME Inv, NEW w \in Callers, pc[w] = "create",
         job[w].attempt < job[w].attempts, NextName(w),
         UNCHANGED <<captured, disk, pc, told, orphans>>
  PROVE  Inv'
  <1>1. job[w] \in Jobs /\ job[w].raw \in Contents
    BY DEF Inv, TypeOK, JobInv, Busy, Phases
  <1>2. job' = [job EXCEPT ![w] = [job[w] EXCEPT !.attempt = job[w].attempt + 1]]
    BY DEF NextName
  <1>3. /\ job'[w] \in Jobs /\ job'[w].raw \in Contents
        /\ job'[w].attempt <= job'[w].attempts
        /\ \A v \in Callers \ {w} : job'[v] = job[v]
    BY <1>1, <1>2, MaterializationAssumption DEF Jobs, Inv, TypeOK
  <1>4. TypeOK'
    BY <1>2, <1>3 DEF Inv, TypeOK
  <1>5. JobInv'
    BY <1>3 DEF Inv, JobInv, Writing
  <1>6. OrphansArePartial' /\ DirectoryIsTruthful'
    BY <1>3, SameWriters DEF Writing
  <1> QED BY <1>4, <1>5, <1>6 DEF Inv

(* create_new: the name was free, so nobody fills it and nobody was told.  *)
LEMMA CreateStep ==
  ASSUME Inv, NEW w \in Callers, pc[w] = "create",
         job[w].attempt < job[w].attempts, MayCreate(Name(w)),
         disk' = [disk EXCEPT ![Name(w)] = FileOf(w, FALSE)],
         Goto(w, "write"), UNCHANGED <<captured, job, told, orphans>>
  PROVE  Inv'
  <1>1. job[w].raw \in Contents /\ Name(w) \in Names
    BY NameIsAName DEF Inv, JobInv, Busy, Phases
  <1>2. /\ pc'[w] = "write"
        /\ \A v \in Callers \ {w} : pc'[v] = pc[v]
        /\ \A v \in Callers : Name(v)' = Name(v)
    BY DEF Goto, Inv, TypeOK, Name
  <1>3. /\ FileOf(w, FALSE) \in Files /\ ~FileOf(w, FALSE).whole
        /\ FileOf(w, FALSE).content = Name(w)[1]
    BY <1>1 DEF FileOf, Files, Name
  <1>4. /\ disk'[Name(w)] = FileOf(w, FALSE)
        /\ \A n \in Names \ {Name(w)} : disk'[n] = disk[n]
    BY <1>1 DEF Inv, TypeOK
  <1>5. disk[Name(w)] \notin Files
    BY RecordsAndFiles DEF MayCreate
  <1>6. TypeOK'
    BY <1>1, <1>3 DEF Goto, Inv, TypeOK, Phases
  <1>7. JobInv'
    BY <1>2, <1>1 DEF Inv, JobInv, Busy, Phases, Writing
  <1>8. OrphansArePartial'
    BY <1>4, <1>5 DEF Inv, TypeOK, OrphansArePartial
  <1>9. ToldIsOnDisk'
    BY <1>4, <1>5 DEF Inv, TypeOK, DirectoryIsTruthful, ToldIsOnDisk
  <1>10. \A v \in Callers : pc[v] \in Writing => Name(v) # Name(w)
    <2> SUFFICES ASSUME NEW v \in Callers, pc[v] \in Writing
                 PROVE  disk[Name(v)] \in Files
      BY <1>5
    <2>1. disk[Name(v)] = FileOf(v, FALSE) /\ job[v].raw \in Contents
      BY WriterOwnsAPart
    <2> QED BY <2>1 DEF FileOf, Files
  <1>11. Name(w) \notin orphans
    BY <1>5 DEF Inv, OrphansArePartial
  <1>12. PartsAreOwned'
    <2> SUFFICES ASSUME NEW n \in Names
                 PROVE  LET writers == {v \in Callers : pc'[v] \in Writing /\ Name(v)' = n} IN
                        /\ disk'[n] \in Files => disk'[n].content = n[1]
                        /\ disk'[n] \in Files /\ ~disk'[n].whole => n \in orphans' \/ writers # {}
                        /\ \A u, v \in writers : u = v
                        /\ writers # {} => disk'[n] \in Files /\ ~disk'[n].whole /\ n \notin orphans'
      BY DEF PartsAreOwned, Writing
    <2>1. CASE n = Name(w)
      BY <2>1, <1>2, <1>3, <1>4, <1>10, <1>11 DEF Writing
    <2>2. CASE n # Name(w)
      <3>1. \A v \in Callers : pc'[v] \in Writing /\ Name(v)' = n <=> pc[v] \in Writing /\ Name(v) = n
        BY <2>2, <1>2 DEF Writing
      <3> QED BY <3>1, <2>2, <1>4 DEF Inv, DirectoryIsTruthful, PartsAreOwned, Writing
    <2> QED BY <2>1, <2>2
  <1> QED BY <1>6, <1>7, <1>8, <1>9, <1>12 DEF Inv, DirectoryIsTruthful

LEMMA AttemptStep ==
  ASSUME Inv, NEW w \in Callers, Attempt(w)
  PROVE  Inv'
  <1>1. CASE Return(w) /\ UNCHANGED disk
    BY <1>1, ReturnStep DEF Attempt, Writing, stored, history
  <1>2. CASE /\ job[w].attempt < job[w].attempts
             /\ MayCreate(Name(w))
             /\ disk' = [disk EXCEPT ![Name(w)] = FileOf(w, FALSE)]
             /\ Goto(w, "write")
             /\ UNCHANGED job
    BY <1>2, CreateStep DEF Attempt, stored, history
  <1>3. CASE job[w].attempt < job[w].attempts /\ NextName(w) /\ UNCHANGED <<pc, disk>>
    BY <1>3, NextNameStep DEF Attempt, stored, history
  <1> QED BY <1>1, <1>2, <1>3 DEF Attempt

(* The writer of a part lets go of it: the part is completed and told,     *)
(* removed, or left for good.                                              *)
LEMMA LetGoStep ==
  ASSUME Inv, NEW w \in Callers, pc[w] \in Writing, Return(w), UNCHANGED captured,
         \/ /\ disk' = [disk EXCEPT ![Name(w)] = FileOf(w, TRUE)]
            /\ told' = told \cup {[name |-> Name(w), content |-> job[w].raw]}
            /\ UNCHANGED orphans
         \/ disk' = [disk EXCEPT ![Name(w)] = None] /\ UNCHANGED <<told, orphans>>
         \/ orphans' = orphans \cup {Name(w)} /\ UNCHANGED <<disk, told>>
  PROVE  Inv'
  <1>1. /\ Name(w) \in Names /\ job[w].raw \in Contents
        /\ disk[Name(w)] = FileOf(w, FALSE) /\ Name(w) \notin orphans
        /\ \A v \in Callers : pc[v] \in Writing /\ Name(v) = Name(w) => v = w
    BY WriterOwnsAPart
  <1>2. /\ \A whole \in BOOLEAN : /\ FileOf(w, whole) \in Files
                                  /\ FileOf(w, whole).whole = whole
                                  /\ FileOf(w, whole).content = job[w].raw
        /\ Name(w)[1] = job[w].raw
    BY <1>1 DEF FileOf, Files, Name
  <1>3. /\ pc'[w] = "idle" /\ NoJob \in Jobs
        /\ \A v \in Callers \ {w} : pc'[v] = pc[v] /\ job'[v] = job[v]
    BY MaterializationAssumption DEF Return, Goto, Inv, TypeOK, NoJob, Jobs
  <1>4. \A v \in Callers, n \in Names :
          pc'[v] \in Writing /\ Name(v)' = n <=>
            pc[v] \in Writing /\ Name(v) = n /\ v # w
    BY <1>3 DEF Name, Writing
  <1>5. /\ disk' \in [Names -> Files \cup {None, Planted}]
        /\ told' \subseteq [name: Names, content: Contents]
        /\ orphans' \subseteq Names
    <2>1. FileOf(w, TRUE) \in Files /\ Name(w) \in Names
      BY <1>1, <1>2
    <2>2. [name |-> Name(w), content |-> job[w].raw] \in [name: Names, content: Contents]
      BY <1>1
    <2>3. disk' \in [Names -> Files \cup {None, Planted}]
      BY <2>1 DEF Inv, TypeOK
    <2>4. told' \subseteq [name: Names, content: Contents]
      <3>1. told \subseteq [name: Names, content: Contents]
        BY DEF Inv, TypeOK
      <3>2. UNCHANGED told \/ told' = told \cup {[name |-> Name(w), content |-> job[w].raw]}
        OBVIOUS
      <3> QED BY <2>2, <3>1, <3>2
    <2>5. orphans' \subseteq Names
      BY <2>1 DEF Inv, TypeOK
    <2> QED BY <2>3, <2>4, <2>5
  <1>6. TypeOK'
    BY <1>3, <1>5 DEF Inv, TypeOK, Return, Goto, Phases
  <1>7. JobInv'
    BY <1>3 DEF Inv, JobInv, Busy, Writing
  <1>8. \A n \in Names \ {Name(w)} :
          disk'[n] = disk[n] /\ (n \in orphans' <=> n \in orphans)
    BY DEF Inv, TypeOK
  <1>9. \/ disk'[Name(w)] = FileOf(w, TRUE) /\ Name(w) \notin orphans'
        \/ disk'[Name(w)] = None /\ Name(w) \notin orphans'
        \/ disk'[Name(w)] = FileOf(w, FALSE) /\ Name(w) \in orphans'
    BY <1>1 DEF Inv, TypeOK
  <1>10. OrphansArePartial'
    BY <1>1, <1>2, <1>5, <1>8, <1>9 DEF Inv, OrphansArePartial
  <1>11. \A t \in told : t.name \in Names \ {Name(w)}
    BY <1>1, <1>2 DEF Inv, TypeOK, DirectoryIsTruthful, ToldIsOnDisk
  <1>12. ToldIsOnDisk'
    <2>1. \A t \in told : disk'[t.name] \in Files /\ disk'[t.name].whole
                            /\ disk'[t.name].content = t.content
      BY <1>8, <1>11 DEF Inv, DirectoryIsTruthful, ToldIsOnDisk
    <2>2. CASE told' = told
      BY <2>1, <2>2 DEF ToldIsOnDisk
    <2>3. CASE /\ disk' = [disk EXCEPT ![Name(w)] = FileOf(w, TRUE)]
               /\ told' = told \cup {[name |-> Name(w), content |-> job[w].raw]}
      <3>1. disk'[Name(w)] = FileOf(w, TRUE)
        BY <2>3, <1>1 DEF Inv, TypeOK
      <3>2. ASSUME NEW t \in told'
            PROVE  /\ disk'[t.name] \in Files /\ disk'[t.name].whole
                   /\ disk'[t.name].content = t.content
        <4>1. CASE t \in told
          BY <2>1, <4>1
        <4>2. CASE t = [name |-> Name(w), content |-> job[w].raw]
          <5>1. t.name = Name(w) /\ t.content = job[w].raw
            BY <4>2
          <5> QED BY <5>1, <3>1, <1>2
        <4> QED BY <2>3, <4>1, <4>2
      <3> QED BY <3>2 DEF ToldIsOnDisk
    <2>4. \/ UNCHANGED told
          \/ /\ disk' = [disk EXCEPT ![Name(w)] = FileOf(w, TRUE)]
             /\ told' = told \cup {[name |-> Name(w), content |-> job[w].raw]}
      OBVIOUS
    <2> QED BY <2>2, <2>3, <2>4
  <1>13. PartsAreOwned'
    <2> SUFFICES ASSUME NEW n \in Names
                 PROVE  LET writers == {v \in Callers : pc'[v] \in Writing /\ Name(v)' = n} IN
                        /\ disk'[n] \in Files => disk'[n].content = n[1]
                        /\ disk'[n] \in Files /\ ~disk'[n].whole => n \in orphans' \/ writers # {}
                        /\ \A u, v \in writers : u = v
                        /\ writers # {} => disk'[n] \in Files /\ ~disk'[n].whole /\ n \notin orphans'
      BY DEF PartsAreOwned, Writing
    <2>1. CASE n = Name(w)
      <3>1. \A v \in Callers : ~(pc'[v] \in Writing /\ Name(v)' = n)
        BY <2>1, <1>1, <1>4
      <3> QED BY <3>1, <2>1, <1>2, <1>9, RecordsAndFiles
    <2>2. CASE n # Name(w)
      <3>1. \A v \in Callers : pc'[v] \in Writing /\ Name(v)' = n <=> pc[v] \in Writing /\ Name(v) = n
        BY <2>2, <1>4
      <3> QED BY <3>1, <2>2, <1>8 DEF Inv, DirectoryIsTruthful, PartsAreOwned, Writing
    <2> QED BY <2>1, <2>2
  <1> QED BY <1>6, <1>7, <1>10, <1>12, <1>13 DEF Inv, DirectoryIsTruthful

LEMMA CrashStep ==
  ASSUME Inv, NEW w \in Callers, Crash(w)
  PROVE  Inv'
  <1>1. CASE pc[w] \in Writing
    BY <1>1, LetGoStep DEF Crash, Writing, stored
  <1>2. CASE pc[w] \notin Writing
    BY <1>2, ReturnStep DEF Crash, Writing, stored
  <1> QED BY <1>1, <1>2

LEMMA NextInv == Inv /\ [Next]_vars => Inv'
  <1> SUFFICES ASSUME Inv, [Next]_vars PROVE Inv'
    OBVIOUS
  <1>1. CASE UNCHANGED <<disk, pc, job, told, orphans>> /\ captured' \subseteq Records
    <2>1. TypeOK' /\ JobInv'
      BY <1>1 DEF Inv, TypeOK, JobInv
    <2>2. OrphansArePartial' /\ DirectoryIsTruthful'
      BY <1>1, SameWriters
    <2> QED BY <2>1, <2>2 DEF Inv
  <1>2. CASE CaptureAny
    BY <1>1, <1>2, CaptureTypes DEF CaptureAny, history
  <1>3. CASE UNCHANGED vars \/ \E c \in Contents : Damage(c)
    BY <1>1, <1>3 DEF vars, stored, history, Damage, Inv, TypeOK
  <1>4. ASSUME NEW w \in Callers, CreateFails(w)
        PROVE  Inv'
    BY <1>4, ReturnStep DEF CreateFails, Writing, stored, history
  <1>5. ASSUME NEW w \in Callers, WriteFails(w)
        PROVE  Inv'
    BY <1>5, GotoStep DEF WriteFails, Busy, Phases, Writing, stored, history
  <1>6. ASSUME NEW w \in Callers, Write(w) \/ Remove(w)
        PROVE  Inv'
    BY <1>6, LetGoStep DEF Write, Remove, Writing, stored
  <1> QED
    BY <1>2, <1>3, <1>4, <1>5, <1>6, BeginStep, PrepareStep, AttemptStep, CrashStep
    DEF Next, Materialize

THEOREM Invariance == Spec => []Inv
  <1>1. Init => Inv
    BY InitInv
  <1>2. Inv /\ [Next]_vars => Inv'
    BY NextInv
  <1> QED BY <1>1, <1>2, PTL DEF Spec

(* What callers were told is on disk for good, and every part of a content *)
(* has one living owner or is lost (materialize.rs:130-163), for any       *)
(* number of processes that materialize, fail and die.                     *)
THEOREM DirectoryTruthful == Spec => []DirectoryIsTruthful
  <1>1. Inv => DirectoryIsTruthful
    BY DEF Inv
  <1> QED BY <1>1, Invariance, PTL

-----------------------------------------------------------------------------
Kept(n) ==
  \/ disk'[n] = disk[n]
  \/ disk[n] = None
  \/ disk[n] \in Files /\ ~disk[n].whole
       /\ disk'[n] \in {None, [content |-> disk[n].content, whole |-> TRUE]}

LEMMA StepKeeps ==
  ASSUME Inv, [Next]_vars, NEW n \in Names
  PROVE  Kept(n)
  <1>1. CASE UNCHANGED disk
    BY <1>1 DEF Kept
  <1>2. ASSUME NEW w \in Callers, Attempt(w)
        PROVE  Kept(n)
    <2>1. MayCreate(Name(w)) => disk[Name(w)] = None
      BY DEF MayCreate
    <2>2. \/ UNCHANGED disk
          \/ MayCreate(Name(w)) /\ disk' = [disk EXCEPT ![Name(w)] = FileOf(w, FALSE)]
      BY <1>2 DEF Attempt
    <2>3. n = Name(w) \/ disk'[n] = disk[n]
      BY <2>2 DEF Inv, TypeOK
    <2> QED BY <2>1, <2>2, <2>3 DEF Kept
  <1>3. ASSUME NEW w \in Callers, Write(w) \/ Remove(w)
        PROVE  Kept(n)
    <2>1. pc[w] \in Writing
      BY <1>3 DEF Write, Remove, Writing
    <2>2. disk[Name(w)] = FileOf(w, FALSE) /\ Name(w) \in Names /\ job[w].raw \in Contents
      BY <2>1, WriterOwnsAPart
    <2>3. FileOf(w, FALSE) \in Files /\ ~FileOf(w, FALSE).whole
      BY <2>2 DEF FileOf, Files
    <2>4. \/ UNCHANGED disk
          \/ disk' = [disk EXCEPT ![Name(w)] = FileOf(w, TRUE)]
          \/ disk' = [disk EXCEPT ![Name(w)] = None]
      BY <1>3 DEF Write, Remove
    <2>5. CASE n = Name(w)
      <3>1. disk'[n] \in {disk[n], FileOf(w, TRUE), None}
        BY <2>2, <2>4, <2>5 DEF Inv, TypeOK
      <3>2. FileOf(w, TRUE) = [content |-> disk[n].content, whole |-> TRUE]
        <4>1. disk[n] = FileOf(w, FALSE)
          BY <2>2, <2>5
        <4>2. FileOf(w, FALSE).content = job[w].raw
          BY DEF FileOf
        <4>3. disk[n].content = job[w].raw
          BY <4>1, <4>2
        <4> QED BY <4>3 DEF FileOf
      <3> QED BY <2>2, <2>3, <2>5, <3>1, <3>2 DEF Kept
    <2>6. CASE n # Name(w)
      BY <2>4, <2>6 DEF Inv, TypeOK, Kept
    <2> QED BY <2>5, <2>6
  <1> QED
    BY <1>1, <1>2, <1>3
    DEF Next, vars, CaptureAny, Damage, Begin, Materialize, PrepareDirectory,
        CreateFails, WriteFails, Crash

(* No call changes or removes a whole file or one that something else put  *)
(* there: create_new (materialize.rs:137) and the roll-back of the own     *)
(* part alone, for any number of callers.                                  *)
THEOREM NothingOverwritten == Spec => NothingIsOverwritten
  <1>1. Inv /\ [Next]_vars => \A n \in Names : Kept(n)
    BY StepKeeps
  <1>2. Inv /\ [Next]_vars => [\A n \in Names : Kept(n)]_vars
    BY <1>1
  <1>3. Spec => [][\A n \in Names : Kept(n)]_vars
    BY <1>2, Invariance, PTL DEF Spec
  <1> QED BY <1>3 DEF NothingIsOverwritten, Kept
=============================================================================
