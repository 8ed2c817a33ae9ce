-------------------------- MODULE TemporaryStorage --------------------------
(***************************************************************************)
(* PrivateTemporaryStorage (src/security/temporary.rs): one private        *)
(* directory, a hard limit on the bytes in it, and an atomic counter of    *)
(* reserved bytes shared by the threads that write generated files.        *)
(*                                                                         *)
(* A write reserves its length with a compare-and-exchange loop, creates   *)
(* its file exclusively, fills it, and on a failure removes the file and   *)
(* gives the reservation back.  cleanup and drop take the storage          *)
(* exclusively, so no write is under way when they run.                    *)
(*                                                                         *)
(* The counter's loads are relaxed: a load that returns an old value is a  *)
(* load that happened earlier, which the interleavings contain.            *)
(***************************************************************************)
EXTENDS Integers, FiniteSets

CONSTANTS
  Writers,         \* threads sharing the storage
  Names,           \* generated names, the marker's among them
  Marker,          \* the name of the ownership marker
  InvalidNames,    \* names valid_generated_name turns down
  MaxLength,       \* lengths are 0..MaxLength
  Limits,          \* max_bytes values a storage may be created with
  Unlimited,       \* stands for max_bytes = None
  BudgetLimit,     \* limit of the temporary-storage budget axis
  MaxU64           \* largest counter value

ASSUME TemporaryStorageAssumption ==
  /\ IsFiniteSet(Writers) /\ IsFiniteSet(Names)
  /\ Marker \in Names \ InvalidNames
  /\ MaxU64 \in Nat /\ MaxLength \in 0..MaxU64 /\ BudgetLimit \in Nat
  /\ Limits \ {Unlimited} \subseteq 0..MaxU64
  /\ Unlimited \notin 0..MaxU64

Lengths == 0..MaxLength

VARIABLES
  limit,     \* max_bytes
  retention, \* the retention policy
  live,      \* the live field; the value itself is gone once owned is FALSE
  owned,     \* the storage value has not been dropped
  directory, \* the directory exists
  disk,      \* bytes in each existing file of the directory
  used,      \* used_bytes
  peak,      \* usage of the temporary-storage budget axis
  pc,        \* where each writer is
  job,       \* the name and length each writer was given
  seen,      \* the counter value each writer last saw
  (* History only: nothing below is read by an action.                     *)
  complete,  \* files present whose write returned Ok
  leftover,  \* files present that a failed write could not remove
  lost       \* bytes of such files removed by a cleanup, at counter width

storage == <<limit, retention, live, owned, directory>>
history == <<complete, leftover, lost>>
vars == <<storage, disk, used, peak, pc, job, seen, history>>

Phases == {"idle", "load", "exchange", "create", "write", "remove", "release"}

(* Phases in which a writer holds a reservation.                           *)
Holding == {"create", "write", "remove", "release"}

NoJob == [name |-> Marker, length |-> 0]

Put(files, n, length) ==
  [m \in DOMAIN files \cup {n} |-> IF m = n THEN length ELSE files[m]]

Without(files, gone) == [m \in DOMAIN files \ gone |-> files[m]]

-----------------------------------------------------------------------------
(* create_in_with_limit leaves a directory holding the empty marker.       *)
Init ==
  /\ limit \in Limits
  /\ retention \in {"delete_on_drop", "retain"}
  /\ live = TRUE /\ owned = TRUE /\ directory = TRUE
  /\ disk = [n \in {Marker} |-> 0]
  /\ used = 0
  /\ peak = 0
  /\ pc = [w \in Writers |-> "idle"]
  /\ job = [w \in Writers |-> NoJob]
  /\ seen = [w \in Writers |-> 0]
  /\ complete = {} /\ leftover = {} /\ lost = 0

(* Bytes are counted as sets of units, one per byte of a reservation or    *)
(* a file; the bytes on disk that no reservation covers any more are left  *)
(* out.                                                                    *)
ReservedUnits ==
  {u \in Writers \X (1..MaxLength) : pc[u[1]] \in Holding /\ u[2] <= job[u[1]].length}

CompleteUnits ==
  {u \in Names \X (1..MaxLength) : u[1] \in complete /\ u[2] <= disk[u[1]]}

DiskUnits ==
  {u \in Names \X (1..MaxLength) : u[1] \in DOMAIN disk \ leftover /\ u[2] <= disk[u[1]]}

Reserved == Cardinality(ReservedUnits) + Cardinality(CompleteUnits)

Goto(w, next) == pc' = [pc EXCEPT ![w] = next] /\ UNCHANGED job

(* The call returns; the writer's locals die.                              *)
Return(w) ==
  /\ pc' = [pc EXCEPT ![w] = "idle"]
  /\ job' = [job EXCEPT ![w] = NoJob]
  /\ seen' = [seen EXCEPT ![w] = 0]

(* write_generated: the name is checked, then the length is observed on    *)
(* the budget, where a refusal stays recorded.                             *)
BeginWrite(w) ==
  /\ owned /\ pc[w] = "idle"
  /\ \E n \in Names \ InvalidNames, length \in Lengths :
       /\ peak' = IF length > peak THEN length ELSE peak
       /\ IF peak' <= BudgetLimit
          THEN /\ pc' = [pc EXCEPT ![w] = "load"]
               /\ job' = [job EXCEPT ![w] = [name |-> n, length |-> length]]
               /\ UNCHANGED seen
          ELSE Return(w)
  /\ UNCHANGED <<storage, disk, used, history>>

Added(n) == (used + n) % (MaxU64 + 1)

Subtracted(n) == (used + MaxU64 + 1 - n) % (MaxU64 + 1)

(* reserve_bytes: without a limit the length is simply added; with one the *)
(* counter is read for the loop.                                           *)
Load(w) ==
  /\ pc[w] = "load"
  /\ IF limit = Unlimited
     THEN used' = Added(job[w].length) /\ Goto(w, "create") /\ UNCHANGED seen
     ELSE seen' = [seen EXCEPT ![w] = used] /\ Goto(w, "exchange") /\ UNCHANGED used
  /\ UNCHANGED <<storage, disk, peak, history>>

(* checked_add, then the comparison with the limit.                        *)
Fits(w) ==
  /\ seen[w] + job[w].length <= MaxU64
  /\ seen[w] + job[w].length <= limit

Refuse(w) ==
  /\ pc[w] = "exchange" /\ ~ Fits(w)
  /\ Return(w)
  /\ UNCHANGED <<storage, disk, used, peak, history>>

(* Fault: the new value is stored without comparing.                       *)
ReserveBlindly(w) ==
  /\ pc[w] = "exchange" /\ Fits(w)
  /\ used' = seen[w] + job[w].length
  /\ Goto(w, "create")
  /\ UNCHANGED <<storage, disk, peak, seen, history>>

Reserve(w) ==
  /\ pc[w] = "exchange" /\ Fits(w) /\ seen[w] = used
  /\ used' = seen[w] + job[w].length
  /\ Goto(w, "create")
  /\ UNCHANGED <<storage, disk, peak, seen, history>>

(* The exchange fails, for a new value or spuriously: the loop goes on     *)
(* with the value it observed.                                             *)
Retry(w) ==
  /\ pc[w] = "exchange" /\ Fits(w)
  /\ seen' = [seen EXCEPT ![w] = used]
  /\ UNCHANGED <<storage, disk, used, peak, pc, job, history>>

(* Fault: an existing file of the same name is opened and truncated.       *)
MayCreateOver(w) == directory

(* create_new wants a directory and a free name.                           *)
MayCreate(w) == directory /\ job[w].name \notin DOMAIN disk

(* The file system may also refuse a creation that was possible.           *)
CreateFile(w) ==
  /\ pc[w] = "create"
  /\ \/ /\ MayCreate(w)
        /\ disk' = Put(disk, job[w].name, 0)
        /\ Goto(w, "write")
     \/ Goto(w, "release") /\ UNCHANGED disk
  /\ UNCHANGED <<storage, used, peak, seen, history>>

(* All bytes reach the file.                                               *)
WriteAll(w) ==
  /\ pc[w] = "write"
  /\ disk' = Put(disk, job[w].name, job[w].length)
  /\ complete' = complete \cup {job[w].name}
  /\ Return(w)
  /\ UNCHANGED <<storage, used, peak, leftover, lost>>

(* Fault: the reservation is given back while the partial file exists.     *)
WriteFailsInPlace(w) ==
  /\ pc[w] = "write"
  /\ \E part \in 0..job[w].length : disk' = Put(disk, job[w].name, part)
  /\ Goto(w, "release")
  /\ UNCHANGED <<storage, used, peak, seen, history>>

(* Some bytes reach it and write_all or sync_all reports an error.         *)
WriteFails(w) ==
  /\ pc[w] = "write"
  /\ \E part \in 0..job[w].length : disk' = Put(disk, job[w].name, part)
  /\ Goto(w, "remove")
  /\ UNCHANGED <<storage, used, peak, seen, history>>

(* The result of the removal is ignored.                                   *)
RemovePartial(w) ==
  /\ pc[w] = "remove"
  /\ \/ disk' = Without(disk, {job[w].name}) /\ UNCHANGED leftover
     \/ leftover' = leftover \cup {job[w].name} /\ UNCHANGED disk
  /\ Goto(w, "release")
  /\ UNCHANGED <<storage, used, peak, seen, complete, lost>>

Release(w) ==
  /\ pc[w] = "release"
  /\ used' = Subtracted(job[w].length)
  /\ Return(w)
  /\ UNCHANGED <<storage, disk, peak, history>>

-----------------------------------------------------------------------------
(* cleanup and drop take &mut self: no write is under way.                 *)

Exclusive == owned /\ \A w \in Writers : pc[w] = "idle"

(* remove_dir_all removes everything, or stops with an error having        *)
(* removed some of the files, possibly the marker.                         *)
RemoveFiles(gone) ==
  /\ disk' = Without(disk, gone)
  /\ complete' = complete \ gone
  /\ leftover' = leftover \ gone
  /\ lost' = (lost + Cardinality({u \in CompleteUnits : u[1] \in gone})) % (MaxU64 + 1)

RemoveDirectory ==
  \/ RemoveFiles(DOMAIN disk) /\ directory' = FALSE /\ live' = FALSE
  \/ /\ \E gone \in SUBSET DOMAIN disk : RemoveFiles(gone)
     /\ UNCHANGED <<directory, live>>

(* Without the marker the directory is left alone.                         *)
CleanupBody ==
  IF live /\ Marker \in DOMAIN disk
  THEN RemoveDirectory
  ELSE UNCHANGED <<directory, live, disk, history>>

Cleanup ==
  /\ Exclusive
  /\ CleanupBody
  /\ UNCHANGED <<limit, retention, owned, used, peak, pc, job, seen>>

Drop ==
  /\ Exclusive
  /\ owned' = FALSE
  /\ IF retention = "delete_on_drop"
     THEN CleanupBody
     ELSE UNCHANGED <<directory, live, disk, history>>
  /\ UNCHANGED <<limit, retention, used, peak, pc, job, seen>>

WriteStep(w) ==
  \/ BeginWrite(w) \/ Load(w) \/ Refuse(w) \/ Reserve(w) \/ Retry(w)
  \/ CreateFile(w) \/ WriteAll(w) \/ WriteFails(w) \/ RemovePartial(w) \/ Release(w)

Next ==
  \/ Cleanup \/ Drop
  \/ \E w \in Writers : WriteStep(w)

Spec == Init /\ [][Next]_vars

-----------------------------------------------------------------------------
(* Variables stay in their ranges.                                         *)
TypeOK ==
  /\ limit \in Limits /\ retention \in {"delete_on_drop", "retain"}
  /\ live \in BOOLEAN /\ owned \in BOOLEAN /\ directory \in BOOLEAN
  /\ DOMAIN disk \subseteq Names /\ \A n \in DOMAIN disk : disk[n] \in Lengths
  /\ used \in 0..MaxU64
  /\ peak \in Lengths
  /\ pc \in [Writers -> Phases]
  /\ job \in [Writers -> [name : Names, length : Lengths]]
  /\ seen \in [Writers -> 0..MaxU64]
  /\ complete \subseteq DOMAIN disk /\ leftover \subseteq DOMAIN disk \ complete
  /\ lost \in 0..MaxU64

(* The counter is exactly what is reserved by writes under way plus what   *)
(* was written successfully, modulo its width: no interleaving loses a     *)
(* reservation, and no failure keeps or returns one twice.  The bytes a    *)
(* cleanup removes are never given back.                                   *)
LedgerIsExact == used = (Reserved + lost) % (MaxU64 + 1)

(* At every moment, with writes failing half-way and retried, the bytes in *)
(* the directory stay within the limit the storage was created with: only  *)
(* a partial file whose removal failed may exceed it (temporary.rs:134).   *)
DiskWithinLimit == limit # Unlimited => Cardinality(DiskUnits) <= limit

(* While writes are under way no file that was completed is touched:       *)
(* neither a writer of the same name nor its roll-back harms it.           *)
CompletedFilesSurvive ==
  [][\A n \in complete :
       \/ n \in complete' /\ disk'[n] = disk[n]
       \/ Exclusive]_vars

(***************************************************************************)
(* The inductive invariant behind the safety properties.  ReservationInv   *)
(* bounds what is reserved; WritingInv says that a writer alone owns the   *)
(* file it is filling, FilesInv that every other byte on disk belongs to a *)
(* completed file or to a partial one that could not be removed.           *)
(***************************************************************************)
ReservationInv ==
  /\ LedgerIsExact
  /\ limit # Unlimited => Reserved + lost <= limit
  /\ \A w \in Writers : pc[w] = "exchange" => limit # Unlimited

Writing == {w \in Writers : pc[w] \in {"write", "remove"}}

WritingInv ==
  /\ \A w \in Writing : /\ job[w].name \in DOMAIN disk \ (complete \cup leftover)
                        /\ disk[job[w].name] <= job[w].length
  /\ \A v, w \in Writing : job[v].name = job[w].name => v = w

FilesInv ==
  \A n \in DOMAIN disk \ (complete \cup leftover) :
    disk[n] = 0 \/ \E w \in Writing : job[w].name = n
=============================================================================
