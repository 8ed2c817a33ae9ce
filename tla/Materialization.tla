--------------------------- MODULE Materialization ---------------------------
(***************************************************************************)
(* Embedded artifacts: capturing a child's bytes into a record             *)
(* (src/container/artifact.rs) and writing a record's bytes into a         *)
(* directory (src/container/materialize.rs).                               *)
(*                                                                         *)
(* Callers in any number of processes materialize into one directory.  A   *)
(* file's name is made of the digest of its content, so callers collide on *)
(* names on purpose; create_new decides who gets a name.  A process may    *)
(* die between any two steps.  The content-addressed store and the records *)
(* a caller hands in are not trusted: both may have been altered.          *)
(*                                                                         *)
(* A content stands for its bytes and for their SHA-256 digest, and an     *)
(* artifact id for the raw identity it was made from.                      *)
(***************************************************************************)
EXTENDS Integers, FiniteSets

CONSTANTS
  Callers,          \* processes that materialize
  Contents,         \* distinct byte strings
  Length,           \* their lengths
  Thresholds,       \* inline_threshold_bytes values
  Foreign,          \* records callers hand in that no capture made
  MaxNameAttempts,  \* largest max_name_attempts of a request
  StorageLimit,     \* limit of the temporary-storage budget axis
  Occupied,         \* names that may be taken before anybody starts
  MaxRecords,       \* bound: records captured in a behaviour
  MaxCalls,         \* bound: calls that get past their checks
  MaxCrashes,       \* bound: processes that die in a behaviour
  None,             \* no identity, no content, no file
  Planted           \* a file that something else made

ASSUME MaterializationAssumption ==
  /\ Length \in [Contents -> Nat]
  /\ Thresholds \subseteq Nat
  /\ MaxNameAttempts \in Nat \ {0} /\ StorageLimit \in Nat
  /\ None \notin Contents \cup {Planted}

Statuses == {"extracted", "quarantined", "inventory_only", "unavailable"}
RequiresContent(status) == status \in {"extracted", "quarantined"}

(* What the child's evidence says: parser hint, magic bytes, media type    *)
(* and extension each give a class, and only "passive" is harmless.        *)
Evidence == SUBSET {"passive", "risky"}
RequiresOptIn(evidence) == evidence # {"passive"}

Records ==
  [status: Statuses, raw: Contents \cup {None}, id: Contents \cup {None},
   storage: {"inline", "external", "none"}, held: Contents \cup {None},
   threshold: Thresholds \cup {Length[c] : c \in Contents} \cup {0},
   unsafe: BOOLEAN]

(* The directory holds files named after a content, an extension and the   *)
(* number of the attempt.  Planted is a file that something else made.     *)
Names == Contents \X BOOLEAN \X (0..MaxNameAttempts - 1)
Files == [content: Contents, whole: BOOLEAN]

ASSUME RecordsAndFiles == Foreign \subseteq Records /\ {None, Planted} \cap Files = {}

VARIABLES
  captured,   \* records made by capture and its siblings
  store,      \* what the content-addressed store answers for a digest
  directory,  \* what the requested directory is
  disk,       \* the file under each name
  pc, job,    \* where each caller is, and with what
  calls, crashes,
  (* History only: nothing below is read by an action.                     *)
  told,       \* names and contents of Materialized outcomes
  orphans     \* names whose writer died or could not remove its part

stored == <<captured, store>>
history == <<told, orphans>>
bounds == <<calls, crashes>>
vars == <<stored, directory, disk, pc, job, bounds, history>>

Phases == {"idle", "prepare", "create", "write", "remove"}
NoJob == [raw |-> None, unsafe |-> FALSE, attempts |-> 0, attempt |-> 0]

Init ==
  /\ captured = {}
  /\ store = [c \in Contents |-> None]
  /\ directory \in {"missing", "directory", "symlink", "file"}
  /\ \E taken \in SUBSET Occupied :
       /\ taken # {} => directory = "directory"
       /\ disk = [n \in Names |-> IF n \in taken THEN Planted ELSE None]
  /\ pc = [w \in Callers |-> "idle"]
  /\ job = [w \in Callers |-> NoJob]
  /\ calls = 0 /\ crashes = 0
  /\ told = {}
  /\ orphans = {}

-----------------------------------------------------------------------------
(* Records.                                                                *)

(* EmbeddedArtifact::validate: status, content and identity agree.         *)
ContentIsLawful(r) ==
  \/ r.storage = "none"
  \/ r.storage = "inline" /\ r.held = r.raw /\ r.raw # None
       /\ Length[r.held] <= r.threshold
  \/ r.storage = "external" /\ r.held = r.raw /\ r.raw # None
       /\ (Length[r.raw] = 0 \/ Length[r.raw] > r.threshold)

Valid(r) ==
  /\ r.unsafe => r.status # "extracted"
  /\ (r.storage # "none") <=> RequiresContent(r.status)
  /\ ContentIsLawful(r)
  /\ r.id = r.raw

Extracted(unsafe) == IF unsafe THEN "quarantined" ELSE "extracted"

Record(status, raw, storage, threshold, unsafe) ==
  [status |-> status, raw |-> raw, id |-> raw, storage |-> storage,
   held |-> IF storage = "none" THEN None ELSE raw,
   threshold |-> threshold, unsafe |-> unsafe]

(* A capture returns its record if the record and its metadata are valid.  *)
Keep(r) ==
  /\ Valid(r)
  /\ Cardinality(captured) < MaxRecords
  /\ captured' = captured \cup {r}

(* The sink runs before the record is validated: when the metadata turn    *)
(* out to be invalid the bytes stay in the store without a record.         *)
StoreThenKeep(c, r) ==
  /\ store' = [store EXCEPT ![c] = c]
  /\ \/ Keep(r)
     \/ UNCHANGED captured

Capture(c, threshold, unsafe) ==
  \/ /\ Length[c] <= threshold
     /\ Keep(Record(Extracted(unsafe), c, "inline", threshold, unsafe))
     /\ UNCHANGED store
  \/ /\ Length[c] > threshold
     /\ StoreThenKeep(c, Record(Extracted(unsafe), c, "external", threshold, unsafe))

CaptureInline(c, unsafe) ==
  /\ Keep(Record(Extracted(unsafe), c, "inline", Length[c], unsafe))
  /\ UNCHANGED store

CaptureContentAddressed(c, unsafe) ==
  StoreThenKeep(c, Record(Extracted(unsafe), c, "external", 0, unsafe))

(* inventory, record_known_unavailable and record_unavailable keep no      *)
(* bytes; the last has no identity either.                                 *)
RecordWithoutContent(raw, status, unsafe) ==
  /\ ~RequiresContent(status)
  /\ Keep(Record(status, raw, "none", 0, unsafe))
  /\ UNCHANGED store

CaptureAny ==
  /\ \E e \in Evidence :
       LET unsafe == RequiresOptIn(e) IN
       \/ \E c \in Contents :
            \/ \E t \in Thresholds : Capture(c, t, unsafe)
            \/ CaptureInline(c, unsafe)
            \/ CaptureContentAddressed(c, unsafe)
            \/ RecordWithoutContent(c, "inventory_only", unsafe)
       \/ \E c \in Contents \cup {None} :
            RecordWithoutContent(c, "unavailable", unsafe)
  /\ UNCHANGED <<directory, disk, pc, job, bounds, history>>

(* The store belongs to the caller; it may lose or mix up what it holds.   *)
Damage(c) ==
  /\ store[c] = c
  /\ \E d \in (Contents \cup {None}) \ {c} : store' = [store EXCEPT ![c] = d]
  /\ UNCHANGED <<captured, directory, disk, pc, job, bounds, history>>

-----------------------------------------------------------------------------
(* EmbeddedArtifact::materialize.                                          *)

Goto(w, phase) == pc' = [pc EXCEPT ![w] = phase]

(* The call returns: an error, or an outcome that wrote nothing.           *)
Return(w) == Goto(w, "idle") /\ job' = [job EXCEPT ![w] = NoJob]

(* resolve_bytes, for an external record from whatever the resolver gives; *)
(* what comes back must be what the reference and the identity name.       *)
Available(r) ==
  CASE r.storage = "inline"   -> {r.held} \cap {r.raw}
    [] r.storage = "external" -> {store[r.held]} \cap {r.held} \cap {r.raw}
    [] OTHER                  -> {}

(* Requests that end here (an invalid record, no directory, no attempts,   *)
(* content that needs an opt-in, bytes that cannot be had) leave no trace. *)
Admitted(r, allowed, attempts) ==
  Valid(r) /\ attempts > 0 /\ (r.unsafe => allowed) /\ Available(r) # {}

(* The checks, the resolver and the budget, whose axis keeps the largest   *)
(* length that was asked for and so refuses on this length alone.          *)
Begin(w) ==
  /\ pc[w] = "idle"
  /\ calls < MaxCalls
  /\ calls' = calls + 1
  /\ \E r \in captured \cup Foreign, allowed \in BOOLEAN, n \in 0..MaxNameAttempts :
       /\ Admitted(r, allowed, n)
       /\ IF Length[r.raw] <= StorageLimit
            THEN /\ job' = [job EXCEPT ![w] =
                      [raw |-> r.raw, unsafe |-> r.unsafe, attempts |-> n, attempt |-> 0]]
                 /\ Goto(w, "prepare")
            ELSE UNCHANGED <<pc, job>>
  /\ UNCHANGED <<stored, directory, disk, crashes, history>>

(* prepare_directory; making or resolving the directory may fail.          *)
PrepareDirectory(w) ==
  /\ pc[w] = "prepare"
  /\ \/ /\ directory \in {"missing", "directory"}
        /\ directory' = "directory"
        /\ Goto(w, "create")
        /\ UNCHANGED job
     \/ /\ directory' \in {directory, "directory"}
        /\ directory # "missing" => directory' = directory
        /\ Return(w)
  /\ UNCHANGED <<stored, disk, bounds, history>>

Name(w) == <<job[w].raw, job[w].unsafe, job[w].attempt>>

(* Fault: the file is opened with create and truncate.                     *)
MayCreateAnyway(n) == TRUE

MayCreate(n) == disk[n] = None

(* Fault: the number in the name does not move on.                         *)
NextNameStuck(w) == UNCHANGED job

NextName(w) == job' = [job EXCEPT ![w].attempt = @ + 1]

FileOf(w, whole) == [content |-> job[w].raw, whole |-> whole]

(* One turn of the loop over the attempts: create_new makes the file, or   *)
(* the name is taken and the next one is tried.                            *)
Attempt(w) ==
  /\ pc[w] = "create"
  /\ \/ /\ job[w].attempt = job[w].attempts    \* NameAttemptsExhausted
        /\ Return(w)
        /\ UNCHANGED disk
     \/ /\ job[w].attempt < job[w].attempts
        /\ MayCreate(Name(w))
        /\ disk' = [disk EXCEPT ![Name(w)] = FileOf(w, FALSE)]
        /\ Goto(w, "write")
        /\ UNCHANGED job
     \/ /\ job[w].attempt < job[w].attempts
        /\ ~MayCreate(Name(w))
        /\ NextName(w)
        /\ UNCHANGED <<pc, disk>>
  /\ UNCHANGED <<stored, directory, bounds, history>>

CreateFails(w) ==
  /\ pc[w] = "create"
  /\ job[w].attempt < job[w].attempts
  /\ Return(w)
  /\ UNCHANGED <<stored, directory, disk, bounds, history>>

Write(w) ==
  /\ pc[w] = "write"
  /\ disk' = [disk EXCEPT ![Name(w)] = FileOf(w, TRUE)]
  /\ told' = told \cup {[name |-> Name(w), content |-> job[w].raw]}
  /\ Return(w)
  /\ UNCHANGED <<stored, directory, bounds, orphans>>

(* Fault: the part is left where it is.                                    *)
WriteFailsInPlace(w) ==
  /\ pc[w] = "write"
  /\ Return(w)
  /\ UNCHANGED <<stored, directory, disk, bounds, history>>

WriteFails(w) ==
  /\ pc[w] = "write"
  /\ Goto(w, "remove")
  /\ UNCHANGED <<stored, directory, disk, job, bounds, history>>

(* The result of removing the part is ignored.                             *)
Remove(w) ==
  /\ pc[w] = "remove"
  /\ Return(w)
  /\ \/ disk' = [disk EXCEPT ![Name(w)] = None] /\ UNCHANGED orphans
     \/ orphans' = orphans \cup {Name(w)} /\ UNCHANGED disk
  /\ UNCHANGED <<stored, directory, bounds, told>>

Materialize(w) ==
  PrepareDirectory(w) \/ Attempt(w) \/ Write(w) \/ Remove(w)

(* The process dies; its file stays as it is.                              *)
Crash(w) ==
  /\ pc[w] # "idle"
  /\ crashes < MaxCrashes
  /\ crashes' = crashes + 1
  /\ orphans' = IF pc[w] \in {"write", "remove"} THEN orphans \cup {Name(w)} ELSE orphans
  /\ Return(w)
  /\ UNCHANGED <<stored, directory, disk, calls, told>>

Next ==
  \/ CaptureAny
  \/ \E c \in Contents : Damage(c)
  \/ \E w \in Callers : Begin(w) \/ Materialize(w) \/ CreateFails(w) \/ WriteFails(w) \/ Crash(w)

(* A call runs on as long as its process does; nothing has to fail.        *)
Spec == Init /\ [][Next]_vars /\ \A w \in Callers : WF_vars(Materialize(w))

-----------------------------------------------------------------------------
(* A caller that was told Materialized finds, from then on, the whole      *)
(* content of the artifact under the name it was told, whoever else        *)
(* writes, fails, rolls back or dies beside it (materialize.rs:130-163).   *)
ToldIsOnDisk ==
  \A t \in told :
    /\ disk[t.name] \in Files
    /\ disk[t.name].whole
    /\ disk[t.name].content = t.content

(* A file holds no other content than the one its name is the digest of,   *)
(* and a part of a content has exactly one caller filling or removing it   *)
(* unless that caller died or could not remove it: no failure passes a     *)
(* name, or a part, on to somebody else (materialize.rs:137-155).          *)
PartsAreOwned ==
  \A n \in Names :
    LET writers == {w \in Callers : pc[w] \in {"write", "remove"} /\ Name(w) = n} IN
    /\ disk[n] \in Files => disk[n].content = n[1]
    /\ disk[n] \in Files /\ ~disk[n].whole => n \in orphans \/ writers # {}
    /\ \A v, w \in writers : v = w
    /\ writers # {} => disk[n] \in Files /\ ~disk[n].whole /\ n \notin orphans

(* What callers were told and what the directory holds agree at every      *)
(* moment, with calls under way, failed and abandoned.                     *)
DirectoryIsTruthful == ToldIsOnDisk /\ PartsAreOwned

(* Whole files, and files that something else put there, are never changed *)
(* or removed; a part is only completed or removed (materialize.rs:137).   *)
NothingIsOverwritten ==
  [][\A n \in Names :
       \/ disk'[n] = disk[n]
       \/ disk[n] = None
       \/ disk[n] \in Files /\ ~disk[n].whole
            /\ disk'[n] \in {None, [content |-> disk[n].content, whole |-> TRUE]}]_vars

(* Every call ends: collisions cannot keep the loop over the names going   *)
(* (materialize.rs:130).                                                   *)
CallsEnd == \A w \in Callers : pc[w] # "idle" ~> pc[w] = "idle"
=============================================================================
