------------------------- MODULE RepositoryTraversal -------------------------
(***************************************************************************)
(* ingest_repo (src/ingest/repository.rs): one pass that honours ignore    *)
(* rules collects the visible paths, a second one visits the directories   *)
(* in canonical order and gives every entry a disposition, and a report    *)
(* with several lists over the same entries is published as complete or    *)
(* partial.                                                                *)
(*                                                                         *)
(* The tree is not frozen: it may change between any two visits and        *)
(* between looking at a file and reading it, and a system call may fail.   *)
(* What a path means to the rules (its name, globs, ignore files, where    *)
(* external artifacts go) is a constant set; what lies at a path is state. *)
(***************************************************************************)
EXTENDS Integers, Sequences, FiniteSets, SequencesExt

CONSTANTS
  Paths, Root,      \* the paths below the root, and the root
  Parent,           \* the directory each path is in
  Ancestors,        \* the directories each path is below, but the root
  Rank,             \* position of a path in the order of paths
  GitNames,         \* paths named .git
  DefaultExcluded,  \* paths below target or .bathysphere
  ArtifactOutput,   \* paths in the external artifact directory
  IgnoreRules,      \* paths that an ignore rule names
  GlobsOut,         \* paths the include or exclude globs leave out
  Possible,         \* the nodes each path may come to hold
  Trees,            \* what the call may find
  Answers,          \* the results ingestion may give for what is read at a path
  OptionSets,       \* options of a call
  MaxBytes,         \* max_file_bytes
  MaxChanges,       \* bound: changes of the tree while it is read
  MaxFaults,        \* bound: system calls that fail
  Outside, None

Outcomes == {"binary", "refused", "complete", "partial", "empty", "unsupported",
             "ambiguous", "encrypted", "cancelled"}

(* A result and whether one of its diagnostics is marked partial: never on *)
(* a complete envelope, and there is none for a file that is not parsed.   *)
Envelopes == {a \in [outcome: Outcomes, diagnosed: BOOLEAN] :
                a.outcome \in {"binary", "refused", "complete"} => ~a.diagnosed}

(* A link is known by the path canonicalize ends at, Outside if beyond the root. *)
Nodes == [kind: {"file", "dir", "link", "special", "absent"}, size: Nat, inside: BOOLEAN,
          target: Paths \cup {Root, Outside, None}]
Absent == [kind |-> "absent", size |-> 0, inside |-> TRUE, target |-> None]

ASSUME RepositoryAssumption ==
  /\ IsFiniteSet(Paths) /\ Root \notin Paths
  /\ Parent \in [Paths -> Paths \cup {Root}]
  /\ Ancestors \in [Paths -> SUBSET Paths]
  /\ \A p \in Paths :
       /\ Ancestors[p] = IF Parent[p] = Root THEN {} ELSE {Parent[p]} \cup Ancestors[Parent[p]]
       /\ p \notin Ancestors[p]
  /\ Rank \in [Paths \cup {Root} -> Nat]
  /\ \A p, q \in Paths \cup {Root} : Rank[p] = Rank[q] => p = q
  /\ OptionSets \subseteq [honor: BOOLEAN, ignored: BOOLEAN, follow: BOOLEAN,
                           submodules: BOOLEAN, files: Nat, depth: Nat]
  /\ MaxBytes \in Nat
  /\ Trees \subseteq [Paths -> Nodes]
  /\ \A t \in Trees : \A p \in Paths : t[p] \in Possible[p]
  /\ Possible \in [Paths -> SUBSET Nodes] /\ Answers \in [Paths -> SUBSET Envelopes]
  /\ \A p \in Paths : \A n \in Possible[p] : n.kind = "link" => n.target # None
  (* Neither a directory nor what a link ends at is replaced by a link.    *)
  /\ \A p \in Paths : \A m, n \in Possible[p] : m.kind = "dir" => n.kind # "link"
  /\ \A p, q \in Paths : \A m \in Possible[p], n \in Possible[q] :
       m.kind = "link" /\ m.target = q => n.kind # "link"
  /\ None \notin Paths \cup {Root, "partial", "path_escapes_root", "default_excluded",
                             "submodule_policy"}
  /\ \A p, q \in Paths : \A k \in {"file", "symlink"} : None # [path |-> p, file |-> q, kind |-> k]

KindRank(k) == CASE k = "directory" -> 0 [] k = "submodule" -> 1
                 [] k = "symlink" -> 2 [] k = "file" -> 3

VARIABLES
  options, tree, changes, faults,
  phase,      \* "walk", "traverse", "done"
  visible,    \* paths the ignore-aware walk found
  stack,      \* children still to visit of each open directory
  entering,   \* directory about to be enumerated
  reading,    \* file that was admitted and is about to be read
  eligible,   \* eligible_file_count
  report,
  (* History only: nothing below is read by an action.                     *)
  walkFailed, \* the ignore-aware walk could not inspect an entry
  flagged,    \* the envelope of a file had a partial diagnostic
  missed,     \* an entry of a directory could not be read
  met,        \* paths that were enumerated
  listed      \* directories whose entries were enumerated

world == <<options, tree, changes>>
witnessed == <<walkFailed, flagged, missed, met, listed>>
repositoryVars == <<world, faults, phase, visible, stack, entering, reading, eligible, report, witnessed>>

(* Besides the lists: whether a loss was noted, whether a diagnostic of the *)
(* call is partial, and the status of the envelope, once published.        *)
EmptyReport ==
  [entries |-> <<>>, files |-> <<>>, artifacts |-> {}, members |-> {},
   ignored |-> {}, unsupported |-> {}, skipped |-> {},
   partial |-> FALSE, diagnosed |-> FALSE, status |-> None]

RepositoryInit ==
  /\ options \in OptionSets
  /\ tree \in Trees
  /\ changes = 0 /\ faults = 0
  /\ phase = "walk"
  /\ visible = {}
  /\ stack = <<>>
  /\ entering = Root
  /\ reading = None
  /\ eligible = 0
  /\ report = EmptyReport
  /\ walkFailed = FALSE /\ flagged = FALSE /\ missed = FALSE
  /\ met = {} /\ listed = {}

-----------------------------------------------------------------------------
(* The tree.                                                               *)

(* What the file system answers for a path now.                            *)
Node(p) ==
  IF \A d \in Ancestors[p] : tree[d].kind = "dir" THEN tree[p] ELSE Absent

IsDirectory(d) == IF d = Root THEN TRUE ELSE Node(d).kind = "dir"

Children(d) == {p \in Paths : Parent[p] = d /\ tree[p].kind # "absent"}

(* is_nested_repository *)
Nested(d) == \E p \in Children(d) : p \in GitNames

Change(p) ==
  /\ phase # "done"
  /\ changes < MaxChanges
  /\ changes' = changes + 1
  /\ \E n \in Possible[p] \ {tree[p]} : tree' = [tree EXCEPT ![p] = n]
  /\ UNCHANGED <<options, faults, phase, visible, stack, entering, reading, eligible, report, witnessed>>

-----------------------------------------------------------------------------
(* The report.                                                             *)

Entry(p, k, disposition, reasons, status) ==
  [path |-> p, kind |-> k, disposition |-> disposition, reasons |-> reasons,
   status |-> status]

Skip(p, reasons) == [path |-> p, reasons |-> reasons]

RecordSkippedEntry(r, p, k, reasons) ==
  LET ignored == "ignore_rule" \in reasons IN
  [r EXCEPT !.entries = Append(@, Entry(p, k, IF ignored THEN "ignored" ELSE "skipped",
                                        reasons, None)),
            !.skipped = @ \cup {Skip(p, reasons)},
            !.ignored = IF ignored THEN @ \cup {p} ELSE @]

(* record_budget_skip, record_failure_with_reason, record_path_escape and  *)
(* the link that leads outside: an entry that makes the report partial;    *)
(* the diagnostic of the last one is not marked so.                        *)
RecordLoss(r, p, k, disposition, reason) ==
  [r EXCEPT !.entries = Append(@, Entry(p, k, disposition, {reason}, None)),
            !.skipped = @ \cup {Skip(p, {reason})},
            !.partial = TRUE,
            !.diagnosed = @ \/ reason # "symlink_escapes_root"]

RecordBudgetSkip(r, p, k, reason) == RecordLoss(r, p, k, "budget_limited", reason)
RecordFailure(r, p, k, reason) == RecordLoss(r, p, k, "failed", reason)
RecordEscape(r, p, k, reason) == RecordLoss(r, p, k, "skipped", reason)

(* Fault: the reason is recorded, the loss is not.                         *)
RecordTerminalSkipQuietly(r, p, reason) == [r EXCEPT !.skipped = @ \cup {Skip(p, {reason})}]

RecordTerminalSkip(r, p, reason) ==
  [r EXCEPT !.skipped = @ \cup {Skip(p, {reason})}, !.partial = TRUE]

-----------------------------------------------------------------------------
(* visible_paths.                                                          *)

Filtering == options.honor /\ ~options.ignored

RuledOut(p) == (Ancestors[p] \cup {p}) \cap IgnoreRules # {}

(* The walk prunes what a rule names and what it fails to inspect; a       *)
(* failure is told in a diagnostic only, which is marked partial.          *)
Walk ==
  /\ phase = "walk"
  /\ phase' = "traverse"
  /\ \E failed \in {f \in SUBSET Paths : Cardinality(f) + faults <= MaxFaults} :
       /\ Filtering \/ failed = {}
       /\ faults' = faults + Cardinality(failed)
       /\ walkFailed' = (failed # {})
       /\ report' = [report EXCEPT !.diagnosed = @ \/ failed # {}]
       /\ visible' = {p \in Paths : /\ Filtering
                                    /\ Node(p).kind # "absent"
                                    /\ ~RuledOut(p)
                                    /\ (Ancestors[p] \cup {p}) \cap failed = {}}
  /\ UNCHANGED <<world, stack, entering, reading, eligible, flagged, missed, met, listed>>

FilterReasons(p) ==
  {x \in {"ignore_rule", "glob"} :
     \/ x = "ignore_rule" /\ Filtering /\ p \notin visible
     \/ x = "glob" /\ p \in GlobsOut}

-----------------------------------------------------------------------------
(* visit_directory.                                                        *)

Fault == faults < MaxFaults /\ faults' = faults + 1

VisitDirectory ==
  LET d == entering IN
  /\ phase = "traverse" /\ d # None
  /\ entering' = None
  /\ \/ /\ Len(stack) > options.depth
        /\ report' = RecordBudgetSkip(report, d, "directory", "traversal_depth_limit")
        /\ UNCHANGED <<faults, stack, missed, met, listed>>
     \/ /\ Len(stack) <= options.depth
        /\ IF IsDirectory(d) THEN Fault ELSE UNCHANGED faults
        /\ report' = RecordFailure(report, d, "directory", "read_error")
        /\ UNCHANGED <<stack, missed, met, listed>>
     \/ /\ Len(stack) <= options.depth
        /\ IsDirectory(d)
        /\ stack' = Append(stack, Children(d))
        /\ met' = met \cup Children(d)
        /\ listed' = listed \cup {d}
        /\ UNCHANGED <<faults, report, missed>>
     \/ /\ Len(stack) <= options.depth      \* one entry of the directory is missed
        /\ IsDirectory(d)
        /\ Fault
        /\ \E p \in Children(d) :
             /\ stack' = Append(stack, Children(d) \ {p})
             /\ met' = met \cup (Children(d) \ {p})
        /\ listed' = listed \cup {d}
        /\ report' = [report EXCEPT !.partial = TRUE]
        /\ missed' = TRUE
  /\ UNCHANGED <<world, phase, visible, reading, eligible, walkFailed, flagged>>

Pending == stack[Len(stack)]

(* Fault: children are visited in the order read_dir returns them.         *)
IsNextUnsorted(c) == c \in Pending

IsNext(c) == c \in Pending /\ \A b \in Pending : Rank[c] <= Rank[b]

(* The entry at c is being dealt with; it is not pending any more.         *)
Visit(c) ==
  /\ phase = "traverse" /\ entering = None /\ reading = None
  /\ stack # <<>>
  /\ IsNext(c)
  /\ stack' = [stack EXCEPT ![Len(stack)] = @ \ {c}]
  /\ UNCHANGED <<world, phase, visible, witnessed>>

(* Entries that are never looked into, whatever the options.               *)
SetAside(c) ==
  LET k == IF Node(c).kind = "dir" THEN "directory" ELSE "file" IN
  /\ Visit(c)
  /\ Node(c).kind # "absent"
  /\ c \in GitNames \cup ArtifactOutput
  /\ report' = RecordSkippedEntry(report, c, k,
       {IF c \in GitNames THEN "repository_metadata" ELSE "external_artifact_output"})
  /\ UNCHANGED <<faults, entering, reading, eligible>>

CannotInspect(c) ==
  /\ Visit(c)
  /\ Node(c).kind \in {"absent", "special"}
  /\ Node(c).kind = "special" => c \notin GitNames \cup ArtifactOutput
  /\ report' = RecordFailure(report, c, "file", "read_error")
  /\ UNCHANGED <<faults, entering, reading, eligible>>

Considered(c, kind) ==
  Visit(c) /\ Node(c).kind = kind /\ c \notin GitNames \cup ArtifactOutput

(* Directories that stay closed, each for the first reason that applies.   *)
WhyClosed(c) ==
  IF ~Node(c).inside THEN "path_escapes_root"
  ELSE IF c \in DefaultExcluded /\ ~options.ignored THEN "default_excluded"
  ELSE IF Nested(c) /\ ~options.submodules THEN "submodule_policy"
  ELSE None

ChildDirectory(c) ==
  LET why == WhyClosed(c) IN
  /\ Considered(c, "dir")
  /\ CASE why = "path_escapes_root" ->
            report' = RecordEscape(report, c, "directory", why) /\ UNCHANGED entering
       [] why = "default_excluded" ->
            report' = RecordSkippedEntry(report, c, "directory", {why}) /\ UNCHANGED entering
       [] why = "submodule_policy" ->
            report' = RecordSkippedEntry(report, c, "submodule", {why}) /\ UNCHANGED entering
       [] OTHER ->
            /\ report' = IF Nested(c)
                 THEN [report EXCEPT !.entries = Append(@, Entry(c, "submodule", "traversed", {}, None))]
                 ELSE report
            /\ entering' = c
  /\ UNCHANGED <<faults, reading, eligible>>

(* A system call on the way to the entry's content fails.                  *)
CannotResolve(c) ==
  LET kind == Node(c).kind IN
  /\ \E k \in {"file", "link", "dir"} : Considered(c, k)
  /\ kind = "link" => FilterReasons(c) = {} /\ options.follow
  /\ Fault
  /\ report' = RecordFailure(report, c,
       CASE kind = "dir" -> "directory" [] kind = "link" -> "symlink" [] OTHER -> "file",
       "read_error")
  /\ UNCHANGED <<entering, reading, eligible>>

(* visit_file up to the read: c is the path in the report, q the file.     *)
VisitFile(c, q, k) ==
  LET reasons == FilterReasons(c)
      counted == eligible + 1
  IN
  /\ UNCHANGED <<faults, entering>>
  /\ IF ~Node(q).inside
       THEN /\ report' = RecordEscape(report, c, k, "path_escapes_root")
            /\ UNCHANGED <<reading, eligible>>
     ELSE IF reasons # {}
       THEN /\ report' = RecordSkippedEntry(report, c, k, reasons)
            /\ UNCHANGED <<reading, eligible>>
     ELSE /\ eligible' = counted
          /\ IF counted > options.files
               THEN /\ report' = RecordBudgetSkip(report, c, k, "repository_file_limit")
                    /\ UNCHANGED reading
             ELSE IF Node(q).size > MaxBytes
               THEN /\ report' = RecordBudgetSkip(report, c, k, "file_size_limit")
                    /\ UNCHANGED reading
             ELSE /\ reading' = [path |-> c, file |-> q, kind |-> k]
                  /\ UNCHANGED report

ChildFile(c) == Considered(c, "file") /\ VisitFile(c, c, "file")

(* visit_symlink: the filters and the policy come before the target.       *)
ChildLink(c) ==
  LET reasons == FilterReasons(c)
      q == Node(c).target
      Aside(what) == report' = what /\ UNCHANGED <<faults, entering, reading, eligible>>
  IN
  /\ Considered(c, "link")
  /\ IF reasons # {} THEN Aside(RecordSkippedEntry(report, c, "symlink", reasons))
     ELSE IF ~options.follow THEN Aside(RecordSkippedEntry(report, c, "symlink", {"symlink_policy"}))
     ELSE IF q = Outside THEN Aside(RecordEscape(report, c, "symlink", "symlink_escapes_root"))
     ELSE IF q = Root THEN Aside(RecordSkippedEntry(report, c, "symlink", {"symlink_directory"}))
     ELSE IF Node(q).kind = "absent" THEN Aside(RecordFailure(report, c, "symlink", "read_error"))
     ELSE IF ~Node(q).inside THEN Aside(RecordEscape(report, c, "symlink", "symlink_escapes_root"))
     ELSE IF Node(q).kind # "file" THEN Aside(RecordSkippedEntry(report, c, "symlink", {"symlink_directory"}))
     ELSE VisitFile(c, q, "symlink")

-----------------------------------------------------------------------------
(* visit_file from the read on.                                            *)

(* What the answer of ingestion means: disposition, reasons, status.       *)
Verdict(answer) ==
  CASE answer = "complete"    -> <<"parsed", {}, "complete">>
    [] answer = "partial"     -> <<"parsed", {}, "partial">>
    [] answer = "binary"      -> <<"binary", {"binary_file"}, "unsupported">>
    [] answer = "unsupported" -> <<"unsupported", {"unsupported_format"}, answer>>
    [] answer = "encrypted"   -> <<"unsupported", {"encrypted"}, answer>>
    [] answer = "ambiguous"   -> <<"failed", {"parse_ambiguous"}, answer>>
    [] answer = "cancelled"   -> <<"failed", {"cancelled"}, answer>>
    [] OTHER                  -> <<"failed", {"parse_failed"}, "failed">>

(* The file is inventoried before it is parsed, and stays so whatever the  *)
(* parser says; a status that is neither a result nor a policy is a loss.  *)
Record(r, p, k, answer) ==
  LET verdict == Verdict(answer)
      told == [r EXCEPT !.entries = Append(@, Entry(p, k, verdict[1], verdict[2], verdict[3]))]
  IN
  CASE answer \in {"complete", "partial"} ->
         [told EXCEPT !.artifacts = @ \cup {p}, !.partial = @ \/ answer = "partial"]
    [] answer = "binary" -> [told EXCEPT !.skipped = @ \cup {Skip(p, {"binary_file"})}]
    [] answer = "unsupported" ->
         [told EXCEPT !.unsupported = @ \cup {p},
                      !.skipped = @ \cup {Skip(p, {"unsupported_format"})}]
    [] answer = "refused" -> RecordFailure(r, p, k, "parse_failed")
    [] OTHER -> RecordTerminalSkip(told, p, CHOOSE x \in verdict[2] : TRUE)

(* What open finds: it follows a link, whatever was inspected before.      *)
Opened(q) ==
  LET n == Node(q) IN IF n.kind = "link" /\ n.target \in Paths THEN Node(n.target) ELSE n

(* How many bytes may come of it: any number from a device or from a file  *)
(* beyond the root, none from a directory or nothing.                      *)
Readable(n) ==
  {size \in 0..MaxBytes + 1 :
     \/ n.kind = "file" /\ size = (IF n.size > MaxBytes THEN MaxBytes + 1 ELSE n.size)
     \/ n.kind = "special"
     \/ n.kind = "link" /\ n.target = Outside}

(* The report once the bytes are hashed and listed, before the answer.     *)
Inventory(r, p, size, diagnosed) ==
  [r EXCEPT !.files = Append(@, [path |-> p, size |-> size]),
            !.members = @ \cup {p},
            !.diagnosed = @ \/ diagnosed]

(* The file is opened anew: it may not be what was inspected any more. The *)
(* diagnostics of its envelope become the report's.                        *)
ReadFile ==
  LET p == reading.path
      n == Opened(reading.file)
      k == reading.kind
  IN
  /\ phase = "traverse" /\ reading # None
  /\ reading' = None
  /\ \/ /\ IF n.kind = "file" THEN Fault ELSE UNCHANGED faults
        /\ report' = RecordFailure(report, p, k, "read_error")
        /\ UNCHANGED flagged
     \/ /\ MaxBytes + 1 \in Readable(n)
        /\ report' = RecordBudgetSkip(report, p, k, "file_size_limit")
        /\ UNCHANGED <<faults, flagged>>
     \/ \E size \in Readable(n) \ {MaxBytes + 1}, answer \in Answers[reading.file] :
          LET read == Inventory(report, p, size, answer.diagnosed) IN
          /\ flagged' = (flagged \/ answer.diagnosed)
          /\ \/ report' = Record(read, p, k, answer.outcome) /\ UNCHANGED faults
             \/ /\ answer.outcome \in {"complete", "partial"}     \* store_artifact fails
                /\ Fault
                /\ report' = RecordFailure(read, p, k, "parse_failed")
  /\ UNCHANGED <<world, phase, visible, stack, entering, eligible, walkFailed, missed, met, listed>>

CloseDirectory ==
  /\ phase = "traverse" /\ entering = None /\ reading = None
  /\ stack # <<>> /\ Pending = {}
  /\ stack' = Front(stack)
  /\ UNCHANGED <<world, faults, phase, visible, entering, reading, eligible, report, witnessed>>

(* sort_output; the lists kept as sets are sorted by being sets.           *)
InOrder(e, f) ==
  \/ Rank[e.path] < Rank[f.path]
  \/ e.path = f.path /\ KindRank(e.kind) < KindRank(f.kind)

(* A path and a kind as one number.                                        *)
Place(e) == 4 * Rank[e.path] + KindRank(e.kind)

(* A stable sort of s by the place of each of its elements: one comes      *)
(* where it has as many up to it, itself included.                         *)
Upto(place, i) ==
  {j \in DOMAIN place : place[j] < place[i] \/ (place[j] = place[i] /\ j <= i)}

Sorted(s, place) ==
  [k \in DOMAIN s |-> s[CHOOSE i \in DOMAIN s : Cardinality(Upto(place, i)) = k]]

SortOutput(r) ==
  [r EXCEPT !.entries = Sorted(@, [i \in DOMAIN r.entries |-> Place(r.entries[i])]),
            !.files = Sorted(@, [i \in DOMAIN r.files |-> Rank[r.files[i].path]])]

(* Fault: the diagnostics are attached and the status is left as it was.   *)
PublishByState(r) == [r EXCEPT !.status = IF r.partial THEN "partial" ELSE "complete"]

(* with_diagnostics: a complete envelope with a partial diagnostic is not. *)
Publish(r) ==
  [r EXCEPT !.status = IF r.partial \/ r.diagnosed THEN "partial" ELSE "complete"]

Finish ==
  /\ phase = "traverse" /\ entering = None /\ stack = <<>>
  /\ phase' = "done"
  /\ report' = Publish(SortOutput(report))
  /\ UNCHANGED <<world, faults, visible, stack, entering, reading, eligible, witnessed>>

VisitChild ==
  \E c \in Paths : \/ SetAside(c)
                   \/ CannotInspect(c)
                   \/ CannotResolve(c)
                   \/ ChildDirectory(c)
                   \/ ChildFile(c)
                   \/ ChildLink(c)

Advance == Walk \/ VisitDirectory \/ VisitChild \/ ReadFile \/ CloseDirectory \/ Finish

RepositoryNext == Advance \/ \E p \in Paths : Change(p)

RepositorySpec == RepositoryInit /\ [][RepositoryNext]_repositoryVars

-----------------------------------------------------------------------------
(* Properties of a finished report.                                        *)

Done == phase = "done"

Told == {report.entries[i] : i \in DOMAIN report.entries}
PathsOf(S) == {e.path : e \in S}
ReadPaths == {report.files[i].path : i \in DOMAIN report.files}

(* Whatever happens to the tree, every path that was enumerated and is not *)
(* a directory that was opened has exactly one entry that says what became *)
(* of it, nothing else is told of, and the entries are in order.           *)
AllAccounted ==
  Done =>
    /\ PathsOf(Told) \subseteq met \cup {Root}
    /\ \A p \in met \cup {Root} :
         Cardinality({i \in DOMAIN report.entries :
                        /\ report.entries[i].path = p
                        /\ report.entries[i].disposition # "traversed"})
           = IF p \in listed THEN 0 ELSE 1
    /\ \A i, j \in DOMAIN report.entries :
         i < j => InOrder(report.entries[i], report.entries[j])

(* The lists of the report are views of one inventory: what each of them   *)
(* says of a path is what its entry says, and a file counts as read when,  *)
(* and only when, its bytes count in the aggregate hash.                   *)
ListsAgree ==
  Done =>
    /\ report.ignored = PathsOf({e \in Told : e.disposition = "ignored"})
    /\ report.unsupported = PathsOf({e \in Told : e.reasons = {"unsupported_format"}})
    /\ report.artifacts = PathsOf({e \in Told : e.disposition = "parsed"})
    /\ report.skipped = {Skip(e.path, e.reasons) : e \in {f \in Told : f.reasons # {}}}
    /\ report.members = ReadPaths
    /\ Cardinality(ReadPaths) = Len(report.files)
    /\ ReadPaths \subseteq PathsOf({e \in Told : e.disposition \in
                                      {"parsed", "binary", "unsupported", "failed"}})

(* The envelope is partial exactly when something asked for may be missing *)
(* - a rule or a directory entry was not read, an entry is a loss - or a   *)
(* file's envelope had a partial diagnostic: "Any child result that is     *)
(* partial, failed, ambiguous, encrypted, cancelled, or security-rejected  *)
(* makes the repository envelope partial; policy-compliant skips remain    *)
(* normal outcomes" (docs/spec.md).                                        *)
Lossy(e) ==
  \/ e.disposition \in {"failed", "budget_limited"}
  \/ e.reasons \cap {"path_escapes_root", "symlink_escapes_root", "encrypted"} # {}
  \/ e.status = "partial"

PartialMeansLoss ==
  Done => (report.status = "partial"
             <=> (walkFailed \/ flagged \/ missed \/ \E e \in Told : Lossy(e)))

(* A finished report is one account of the traversal in three forms: the   *)
(* entries, the lists (repository.rs:193-703, 941-972) and the status      *)
(* (repository.rs:119-143).                                                *)
ReportIsConsistent == AllAccounted /\ ListsAgree /\ PartialMeansLoss

(* What a call asks for, defined without a traversal.                      *)
Entered(d) ==
  d = Root \/ /\ tree[d].kind = "dir" /\ tree[d].inside
              /\ d \notin GitNames \cup ArtifactOutput
              /\ options.ignored \/ d \notin DefaultExcluded
              /\ options.submodules \/ ~Nested(d)

RulesApply == options.honor /\ ~options.ignored

Reached == {p \in Paths : /\ tree[p].kind \in {"file", "link"}
                          /\ p \notin GitNames \cup ArtifactOutput
                          /\ \A d \in Ancestors[p] : Entered(d)}

Wanted ==
  {p \in Reached :
     /\ p \notin GlobsOut
     /\ RulesApply => ~RuledOut(p)
     /\ tree[p].kind = "link" =>
          /\ options.follow
          /\ tree[p].target \in Paths
          /\ Node(tree[p].target).kind = "file"}

(* An envelope that calls itself complete, of a tree that did not change,  *)
(* has read exactly the files that were asked for and calls ignored        *)
(* exactly those a rule names, although a walk that failed on the rules    *)
(* leaves no other trace than a diagnostic.                                *)
CompleteIsWhole ==
  (Done /\ report.status = "complete" /\ changes = 0) =>
    /\ ReadPaths = Wanted
    /\ report.ignored = {p \in Reached : RulesApply /\ RuledOut(p)}

(* Path p is visited before path q.                                        *)
Before(p, q) ==
  \E a \in Ancestors[p] \cup {p}, b \in Ancestors[q] \cup {q} :
    a # b /\ Parent[a] = Parent[b] /\ Rank[a] < Rank[b]

(* A limit leaves out the files that come last in canonical order, never   *)
(* others, so a report does not depend on the order of a directory; and no *)
(* file is read beyond either limit, even one that grew meanwhile.         *)
LimitsAreCanonical ==
  /\ Len(report.files) <= options.files
  /\ \A i \in DOMAIN report.files : report.files[i].size <= MaxBytes
  /\ \A e \in Told : "repository_file_limit" \in e.reasons =>
       \A p \in ReadPaths : Before(p, e.path)
=============================================================================
