# A formal model of grist

grist is a Rust library (with an optional command line) that interprets
documents, code, archives, repositories and model outputs and returns versioned
envelopes. It runs no agents and keeps no database: what is hard about it is
that foreign parsers, decoders, providers, readers and cache owners are called
in the middle of its work, under one budget that many calls share, with a
cancellation flag and a deadline that may strike between any two instructions,
and that the answer must still be lawful and honest afterwards.

These modules model that machinery. They are checked by TLC on small instances
and, where a theorem is stated, proved by TLAPS for every value of the constants.
Source references are relative to the repository's root.

## Inventory

For each component: the state it keeps, its operations, whom it talks to, what
is hard, and what makes it correct.

**Operation control** (`src/core/budget.rs`, `src/core/cancellation.rs`).
State: a usage table of 15 axes behind a mutex, limits, a start instant, an
atomic flag; clones of a control share all of it. Operations: `consume` (sum
axes), `observe` (peak axes), `observe_archive_expansion`, `checkpoint`,
`run_provider`, `cancel`. Used by every other component. Hard: clones charge
concurrently; a checkpoint reads flag, clock and table in three steps, so a
stale reading can arrive late; refused charges are recorded; counters
saturate; durations are rounded. Correct when: the accepted work never
exceeds a limit, no charge is lost, an exhausted axis stays exhausted, and a
provider's result is delivered only in time.

**Bounded parallel preparation** (`src/runtime/parallel.rs`). State: a chunk of
at most `max_in_flight` jobs, scoped threads, the outputs so far. Operations:
`deterministic_parallel_collect` and the lazy
`deterministic_parallel_for_each_ordered`, each with and without metrics. Hard: workers finish in any order
and may fail or panic; the lazy variant hands outputs out before it has seen the
rest of its input. Correct when: delivery is in canonical order, memory is
bounded, and the number of workers shows neither in outputs nor in errors.

**Private temporary storage** (`src/security/temporary.rs`). State: a directory
with an ownership marker and an atomic counter of reserved bytes. Operations:
creation, `write_generated`, `cleanup`, `drop`. Hard: reservation by
compare-and-exchange, concurrent writers of one name, writes that fail
half-way. Correct when: the directory stays within its limit at every moment,
the counter is exact, and completed files survive other writers.

**Event streams** (`src/core/streaming.rs`). `StreamEvent`, `StreamTerminal` and
`collect_batch`, which turns any stream into a batch or an error. Producers are
the ingestor's `BatchIter` and the model-output parser. Correct when: a producer
emits contiguous items and one truthful terminal, and the collector accepts
exactly such streams.

**Unified ingestion** (`src/ingest/batch.rs`, `src/ingest/engine.rs`), with
**input resolution** (`src/core/input.rs`), **detection** (`src/detect`) and
**parser dispatch** (`src/registry/parser/dispatch.rs`, `api.rs`). State: the
requests left, the sequence number, the pending terminal, one shared control.
Operations: `stream`, `next`, `batch`, `ingest`. Hard: a dozen exits of a request,
each before or after a charge; foreign readers and parsers that loop, lie or
panic; a terminal that must agree with what was emitted before it. Correct when:
items answer requests in order, limits close the stream, outputs fit the
budget, a stopped control starts nothing, and a batch ends.

**Container recursion** (`src/container/recursion.rs`), with the **archive member
policy** (`src/security/archive.rs`). State: the recursion of frames, the
expanded bytes, the tree of children and the tree of budget allocations.
Operations: `parse`, `parse_with_control`; decoders and the ingestor are called
for each member. Hard: one budget for a whole tree, an error in one member
discards what its container recorded, status and loss must travel through any
depth. Correct when: what is admitted is bounded as one sum, the audit tree
tells the truth, and a complete traversal lost nothing.

**Model-output streaming** (`src/model_output/streaming.rs`). State: the retained
bytes, the count of decoded characters, open candidates, the termination.
Operations: `push_bytes`, `finish`, `fail`. Hard: UTF-8 cut anywhere, a scan of
a prefix that finds what the whole text does not, a checkpoint before every
single event, four places that change the told state. Correct when: what is
retained was charged exactly once, candidates live one life at a time, and one
terminal agrees with the envelope.

**Operation cache** (`src/runtime/cache.rs`). No state of its own: keys, entries
and reuse records over a store that the caller owns. Operation:
`load_or_compute`. Hard: racing callers, eviction, damaged, misplaced or
re-encoded entries, callers that die in between, edited keys. Correct when:
nothing but the result of the very operation is ever served, and damage is
reported.

**Artifacts** (`src/container/artifact.rs`, `materialize.rs`). State: records that
are inline, content-addressed or inventory only, the caller's store, a directory.
Operations: `capture`, the sink, `validate`, `materialize`, which writes the content
under a name that carries its digest, created exclusively, with a bounded number
of attempts. Hard: other processes want the same name, a write or its roll-back
fails, a process dies between creating and filling the file, records come
from outside. Correct when: what a caller was told is on disk, whole, under its
own digest, and nothing that was there is overwritten.

**Repository ingestion** (`src/ingest/repository.rs`). State: the ignore-aware walk,
the stack of the traversal, the lists of the report. Operations: one traversal,
confined to its root, with depth, count and size limits, symbolic links and nested
repositories. Hard: the tree changes while it is walked and read, one file is
recorded in several lists that must agree, a limit must not depend on the order a
directory is listed in. Correct when: each entry gets one disposition, the lists
agree, and a complete report read what was asked for.

**Registries** (`src/registry/parser`, `src/registry/provider.rs`). State: parsers by
format and selectors by namespace; providers by kind. Operations: registration,
selection by format, media type and extension, binding of providers. Hard: two
spellings of one name, a selector that several formats claim, a registration
refused half-way. Correct when: a name selects at most one parser, the one its
priority says, and a refused registration leaves nothing.

**Graph analysis** (`src/graph/analysis.rs`). State: two depth-first searches with
explicit stacks, the queue of the schedule. Operations: `validate_graph`,
`analyze_graph`. Hard: iterative searches that imitate recursion, parallel and
undirected edges, loops, errors that must not stop the analysis. Correct when:
components are the classes of mutual reachability, a cycle is shown by a shortest
witness, and a schedule is a topological order that exists exactly when
there is no cycle.

**Segmentation** (`src/segment`). State: the draft being filled, the last heading
path, the overlap carried over. Operation: `segment_document_graph`. Hard: atomic nodes larger
than a segment, overlap that must not starve progress, parents that are cut.
Correct when: segments cover every text once, in order and within the limits
that can be kept.

**Document graph merging** (`src/document_graph/projection.rs`). State: nodes and edges
with identities given, derived, or not yet known. Operations: `merge_parallel`,
`finalize_projection`. Hard: fragments arrive in any order and groups, and an
identity changes when the projection is finalized. Correct when: neither order nor
grouping shows in the answer or in the graph.

**Providers** (`src/provider`, `src/core/provider.rs`). Records and validation
around foreign OCR, transcription and decryption; the checkpoints and charges of
a provider call are part of the operation control, registration and binding of the
registries. *Otherwise not modelled.*

**Graph input, detection, decoding, payload projections, rendering, transforms,
schemas, serialization, records of the core, security predicates, metrics,
fixtures, the promotion harness, the command line** and the **format
parsers**: pure functions of one buffer or of tables, or tests. They have no
state between calls; where their outcome matters to the machinery above it is a
choice in a model (what a parser returns, what detection decides, what a scan
finds). PROJECT.json lists each with its reason.

### How the parts interact

    caller ── cancel ──┐                         (flag, clock, usage table)
      │                ▼
      │        operation control ◄── charged and polled by everything below
      ▼
    ingestor ── input resolution ── detection ── parser dispatch ── parser
      │  ▲                                                │
      │  └────────── container recursion ◄── decoders     └── providers
      ▼                     │
    StreamEvents ──► collect_batch           artifacts ──► materialize
      ▲                                      providers ──► temporary storage
    repository ingestion (one parse per file, under the same control)

    envelopes ──► document graph merging ──► segmentation      graph analysis

The control is the only state that components share. Everything else is
passed by value or by callback.

## Modules

| module | models | how it corresponds |
|---|---|---|
| `BudgetTree` | what a budget promises | abstract specification |
| `OperationControl` | budget and cancellation | a charge is one critical section, one step; a checkpoint is flag, clock, table: three steps; `run_provider` is nine phases of a thread |
| `OrderedParallel` | `src/runtime/parallel.rs` | one step per pull of a chunk, per dispatch, per job of a worker, per join, per output handed over |
| `TemporaryStorage` | `src/security/temporary.rs` | one step per atomic access and per file-system call |
| `EventStream` | what a producer promises | abstract specification |
| `StreamCollector` | `collect_batch` | one step per event received, one for the end |
| `Ingestion` | batch, engine, input, dispatch | a step reaches from one checkpoint or charge to the next; extends `StreamCollector`, which consumes its events |
| `ContainerTraversal` | `src/container/recursion.rs` | the recursion is a stack of frames; a step reaches from one checkpoint to the next |
| `ModelOutputStream` | `src/model_output/streaming.rs` | a step hands over one event, since each passes a checkpoint of its own |
| `OperationCache` | `src/runtime/cache.rs` | get, compute and put are separate steps of each caller |
| `Materialization` | `artifact.rs`, `materialize.rs` | one step per call of the file system; a process may die between any two |
| `RepositoryTraversal` | `src/ingest/repository.rs` | one step per path of the walk, per entry met, per list, read and answer; the tree may change between any two |
| `GraphAnalysis` | `src/graph/analysis.rs` | one step per turn of a loop: an edge of a frame, a return, a pop of the queue |
| `Registries` | `src/registry` | one step per registration or request |
| `StructuralSegmentation` | `src/segment` | one step per prepared node, unit and draft |
| `GraphProjection` | `src/document_graph/projection.rs` | one step per merge of a group of fragments and per finalization |

`MCx` instantiates module `x` for TLC; `xProofs` holds its theorems
(those of `StreamCollector` and `Registries` are in `IngestionProofs`, those of
`StructuralSegmentation` and `GraphAnalysis` in `OrderedParallelProofs`, those of
`RepositoryTraversal` in `TemporaryStorageProofs`, that of `GraphProjection` in
`ContainerTraversalProofs`). `MCAlgorithms` does
so for the five sequential machines (`GraphAnalysis`, `Registries`,
`StructuralSegmentation`, `StreamCollector`, `GraphProjection`): they share nothing, and a
behaviour of it is one of one of them. Conventions:

* A name is the name of the function, field or type in the source where there is one.
* History variables are marked in the VARIABLES list; no guard reads them (a
  bound may).
* The fault operators (`(* Fault: ... *)` before a definition) are plausible bugs
  of the definition that follows; PROJECT.json pairs each property with one that
  breaks it.
* Foreign code is existential: a parser, decoder, reader, provider, cache owner
  or caller does whatever its interface lets it.

### Composition and refinement

* `OperationControl` implements `BudgetTree` (`ImplementsBudgetTree`; proved). The
  map is the identity on the history of admitted charges and refused axes: the
  detailed table also counts refused attempts, saturates, and is reached by
  stale readings, and none of that shows through.
* `Ingestion` and `ModelOutputStream` each implement `EventStream`
  (`ImplementsEventStream`; proved). For ingestion the events are those received by the
  collector and `closed` is its end; for model output the counted events are
  the completed candidates and the terminal, and the other events stutter.
* `Ingestion` EXTENDS `StreamCollector`: producer and consumer run together.
* `Ingestion`, `ContainerTraversal` and `ModelOutputStream` do not repeat the
  phases of `OperationControl`: they use what it is proved to provide. A charge
  is an atomic addition that refuses above the limit, a checkpoint is a test of
  `cancelled` and `late`, and both may become true at any time. The clock's
  detail disappears behind `late`, an axis that, once exhausted, stays so
  (`ExhaustedForGood`).

## Runs

All bounds are constants or definitions of the MC modules. Each is chosen so that
every axis, queue and counter reaches its limit in some behaviour; every action
and every disjunct fires.

| run | question | bounds, and why they are enough |
|---|---|---|
| `control` | Is the account exact and bounded whatever two clones do; is a provider's result delivered in time or not at all; does provider work die out after a cancellation? | Two threads: a lost update and a stale clock reading need two. `MaxU64` = 3 with amounts of 2 saturates; two ticks make a millisecond, so rounding matters; limits 0 to 2 are below the maximum and are all passed. |
| `parallel_ordered` | Is delivery canonical, reading-ahead bounded, and the outcome that of one worker? | Two workers, windows of 3 jobs, all inputs of up to 4 jobs with keys 1 to 4: two windows, unequal buckets, every order and repetition. At most one panic: two are a finding below. |
| `storage_writes` | Is the ledger exact and the disk within its limit at every moment, whatever fails, and do completed files survive? | Two writers (a race for the counter, a race for a name), two free names, the marker's and an invalid one, lengths 0 to 2, a limit of 2 that two files fill, and a counter of 2 bits that wraps when there is no limit. |
| `ingest_batch` | Does a batch keep the protocol, order and budget, stop when it must, and end? | Two requests (also with one identity, and none), every input kind, reads of 1 or 2 bytes, every axis limited so that the first or the second request exhausts it. |
| `ingest_cancelled` | Is a reported cancellation the status of the item? | Violation, even with parsers that keep all rules. |
| `containers` | Is a whole tree bounded as one; is the audit true; is complete whole? | Nine member lists at every level, two levels below the root, roots of 0 and 2 bytes (a ratio from nothing, and one that rounds), two classes of container, all modes. Members of several containers together exceed each limit that none exceeds alone. |
| `containers_partial` | Does a partial leaf reach the root? | Violation. |
| `model_output_stream` | Are charges, candidates, told state and terminal consistent? | Nine chunks that cut a three-byte scalar in every way, blank, malformed; a buffer of 6 bytes; candidates found, lost, reordered and repeated; all axes exhausted somewhere. |
| `cache` | Is anything but the right result ever served? | Two callers of two calls each (one hits what the other stored), requests that differ in options, in provider order only, and in type; two entries damaged, so one damage can follow another. |
| `materialization` | Is what a caller was told on disk, is nothing overwritten, does every call end? | Two processes that want one name or two; a short and a long content, one above the capture threshold; two name attempts, so that the second can be exhausted; records captured, stored, quarantined and hand-made; a directory that is missing, a link, or holds the name already; two calls, one crash. |
| `repository` | Has each entry one disposition, do the lists agree, what do partial and complete mean, are limits independent of listing order? | Nine paths on three levels: ignored, excluded, nested repository, link, output directory, too large, too deep; four option sets; one change and one failed call at any point; a parse answers with or without a partial diagnostic. |
| `algorithms` | Are the five sequential machines right? | Every directed graph of three nodes, and larger ones with parallel, undirected and missing ends; all orders of eight parser and five provider registrations, with two spellings of one name; four documents under 768 option sets; every stream of up to four events (all mistakes in pairs; proved without bound); up to three of six fragments in every order and grouping, with edges that collide only when they get their final identity. |

Symmetry is used for the writers of the storage and the callers of the cache, which
are interchangeable and in runs without liveness properties.
Deadlock is checked except where the system rests: a stream that is closed, a
storage that is dropped, a cache nobody calls any more, a directory that no process
writes to, an algorithm at its end.

### Fairness

* `control`: `WF(Proceed(t))` for each thread: a thread inside an operation keeps
  running and a provider returns. No caller is obliged to begin an operation, to
  cancel, or the clock to advance.
* `parallel_ordered`: the calling thread and each worker make progress and closures
  return; `std::thread::scope` waits for exactly that.
* `ingest_batch`: the consumer keeps calling `next` and code that can go on does.
  Readers and parsers may go on for ever if the budget lets them: `Termination`
  holds because reads and units of work are charged.
* `materialization`: `WF(Materialize(w))`: a call runs on as long as its process does.
  Nothing is obliged to fail, and nobody to call.
* The other runs assume none.

### Properties and what they are about

The properties relate a component's bookkeeping to what really happened, kept in
history variables: charges accepted (`BudgetIsExact`), ticks a provider spent
(`ProviderTimeIsCovered`), bytes on disk (`LedgerIsExact`, `DiskWithinLimit`), the stream
received (`CollectsExactlyWellFormed`, `BatchAnswersInOrder`), members admitted and
discovered (`AdmittedWithinLimits`, `CompleteIsWhole`), the audit tree (`AuditIsTrue`),
events told (`CandidateLife`, `ToldStateIsTrue`), the operation a value came from
(`ServedIsResult`), what a caller was told of a file (`DirectoryIsTruthful`). The
algorithms are compared with definitions by reachability, by order or by exhaustive
choice (`ComponentsAreClasses`, `VerdictIsProved`, `SelectionIsUnambiguous`,
`SegmentsCoverOnce`, `SegmentsAreTight`, `ProjectionIsCanonical`). Four properties
are liveness: `CancellationStopsProviders`, both `Termination` and `CallsEnd`. Type
invariants are stated where they are proved.

## Findings

Two runs end in a violation of what the repository says of itself; PROJECT.json
quotes the lines.

1. `ingest_cancelled`. A cancelled request whose envelope outgrows the output budget
   in the ingestor's last charge is answered as failed, and the stream closes as
   partial: the cancellation is lost.
2. `containers_partial`. A leaf parsed into a partial envelope is the child status
   `parsed`, which counts as lossless; the root is complete.

Divergences met while modelling that no run repeats:

* Joins stop at the first panicked handle (`src/runtime/parallel.rs:314`). A second
  panicked scoped thread is then never joined and the scope itself panics: with
  two workers the call unwinds where with one it returns `WorkerPanic`, although
  `docs/runtime-observability-cache-parallelism.md:56` gives both the same
  semantics. The
  model has it; the run allows one panic.
* The temporary-storage axis observes the length of one write
  (`src/security/temporary.rs:120`), which `docs/resource-budget-streaming.md:21`
  calls live storage: several live files are more than it has seen.
* The result of removing a partial file is ignored although its reservation is
  returned (`src/security/temporary.rs:134`). `DiskWithinLimit` therefore leaves out
  exactly the partial files whose removal failed (`leftover`).
* A parser that returns the error of a cancelled checkpoint is reported as failed by
  the registry (`dispatch.rs:169`); the ingestor repairs it.
* A cancellation seen by the last member of a nested container leaves the root
  partial, not cancelled (`recursion.rs:1450`).
* When a member is in error, the allocation nodes of its earlier siblings are dropped
  although their charges stay (`recursion.rs:871`); `AuditIsTrue` holds because the
  children are dropped with them.
* The comment on `push_bytes` says candidate events are emitted at finish only
  (`streaming.rs:145`); scans emit them earlier.
* `fail` on a stopped parser would contradict the terminal already told
  (`streaming.rs:264`); the command line never does that, and the model's `fail`
  closes active streams only.
* Starts and completions of candidates can come in different orders (scan order and
  that of the final parse), which `tests/model_output_universal_contract.rs:1009`
  compares as equal sequences on an input where they agree.
* `FollowFilesWithinRoot` reads a link whose target is ignored or is an artifact output.
* A file that appears between the walk and the traversal is reported as ignored
  (`src/ingest/repository.rs:45`); the model has it, and `CompleteIsWhole` is about
  trees that stayed still.
* A refused merge leaves the graph concatenated and unsorted, and an edge that is
  merged again after finalization clashes only at the next `finalize_projection`.

## Proofs

All eight proof modules check without unproved leaves. Each theorem holds for any
sets of threads, writers, callers, descriptors, members or events, any limits and any
counter width allowed by the module's named assumption.

Nothing here uses the library's induction theorems, whose operator parameter no
installed prover instantiates. Where an argument runs over a sequence (the bytes of
a transport, the levels of a tree, the positions of a queue) it takes the least
number that fails, or a set of naturals closed under successor, or it is carried by
the invariant of the state machine that walks the sequence.

**`OperationControlProofs`.** `TypeCorrect`, `BudgetExact`, `ProviderTimeCovered`,
`ExhaustedForGood`, `DeliveryIsTimely`, `ImplementsTree`. Three invariants.
`TableInv`: the table is the saturated exact total of all attempts, an exhausted
axis is above its limit, and an axis that has never refused has admitted all that
was attempted. The last part is what makes the bound inductive: while nothing was
refused, the table being within the limit bounds what was admitted. `StartedInv`:
the reading a running provider was started at is not after the clock. `LocalInv`:
between a provider's end and its delivery the second flag test and the second
reading come after the end; without it `DeliveredInTime` has no inductive step.
Rounding rests on the lemma `CeilCovers`. Assumptions: the two kinds of axis
are disjoint, limits and amounts fit a counter, a millisecond has a tick.

**`OrderedParallelProofs`.** `ParallelTypeCorrect`, `WindowIsBoundedHolds`,
`DeliveryIsCanonicalHolds`, `WorkersDoNotMatterHolds`, `OnlyPanicsMatter`. The stable sort is
modelled by ranks: the place of a result is the number of results that go before it,
and the lemmas show that ranks are a permutation, and that sorting any rearrangement of
an ascending chunk gives back the chunk. The invariant has four parts: where each job of
the chunk is (in a bucket, in a worker's hand, in its results, in the merged chunk), what is
ahead of the caller, what a scope may leave unjoined, and that what was delivered is a
prefix of what a serial run delivers. `WorkersDoNotMatterHolds` has the hypothesis
`MaxPanics <= 1`, since with two panics it is false of the code (Findings).
`OnlyPanicsMatter` is the part that holds without it: a call in which no closure panicked
ends as one worker would have ended it.

`SegmentsCoverOnceHolds`, `SegmentsAreTightHolds` (segmentation; in this module because it
shares the induction). What is made of the text and the options alone does not change, which
the lemmas named `...Fixed` say operator by operator. Positions are put in order as the k-th
smallest of a set, and the path to a root of a well-parented text never meets itself, so a
node is in one unit and at one place of it; hence no segment has a node twice. The
invariant says that the contents of the drafts and of the one under way, laid end to
end, are the units taken so far (`CoverInv`), and that these drafts form a chain in which every
link is one that `build_drafts` may make (`TightInv`): its end was a preferred boundary or
the next unit was too much, and what the next draft repeats is what is chosen of it.

`ComponentsAreClassesHolds`, `VerdictIsProvedHolds` (graph analysis; in this module because it
shares the ordering by rank). Reachability is stated without induction: m is reached
from n when every set that is closed under the edges and has n has m. Five arguments, one
for each phase. First search (`Deepening`, `Finishing`): a node that was left leads to no node
still unfinished, except those that lead back to it. Second search (`Gathering`): what
is gathered is part of one class, and a member that is off the stack leads only to what is
gathered or waits; hence a component is a whole class. Witness (`Walking`): the queue holds
shortest walks from the first neighbour, in order of length, that differ by at most one edge; it cannot run
dry before the start is met because a class is strongly connected. Schedule
(`Scheduled`): the in-degrees count the nodes not yet placed; were it to end early, the
nodes left would each have another before them, and the finite graph a cycle, which the
witnesses exclude. Diagnostics: an analysis fails exactly for the rules that are broken. The
assumption is that ids are naturals and documents are sequences of nodes and edges.

**`TemporaryStorageProofs`.** `TypeCorrect`, `LedgerExact`, `DiskBounded`,
`CompletedSurvive`. Invariant: `TypeOK`, `ReservationInv` (the counter is, modulo its
width, what is held by writers plus what was completed, and with a limit that sum
is within it), `WritingInv` (a writer in the act owns its file alone) and `FilesInv`
(every other non-empty file is complete or left over). Sums of lengths are cardinalities of
sets of byte positions, so that finite-set lemmas replace induction over data;
the modular steps are three lemmas on remainders. A partial file whose
removal failed is kept apart in `leftover`: its bytes are no longer reserved,
nobody writes to it again, and everything else on disk is within the limit. That
makes `DiskBounded` unconditional.

`TraversalInvHolds`, `ReportIsConsistentHolds`, `LimitsAreCanonicalHolds`,
`CompleteIsWholeHolds` (repository traversal; in this module because it shares the
finite-set lemmas). The invariant has five parts beside the types. `PlaceInv`: every path that was met is
in one place, waiting in the stack, about to be opened, opened, in hand, or settled by one entry;
so no path is told of twice whatever the file system does between two steps. `ListsInv`: the
lists are views of the entries, and a loss is noted exactly when a rule, a directory entry
or a file was lost or a file's envelope had a partial diagnostic. `LimitInv`: what was read comes, in canonical order, before
all that waits. `WholeInv`: as long as nothing changed and nothing was lost, what was
opened, read and ignored so far is what a definition without a traversal asks for.
That the traversal then reaches everything is argued from a path with the fewest directories
above it that was not met: its parent was opened, so it was met. The sort of the lists is
written by ranks (the number of elements that come no later), and `SortedIs` proves that
it arranges every sequence. `StatusInv`: a published status
says partial exactly when the report noted a loss.
The proofs rest on `RepositoryAssumption`; of the changes a file system may
make it leaves out the two links named under "What is left out".

**`IngestionProofs`** has the theorems of ingestion, of the collector it feeds and of the
registries it selects from.
`BatchAnswersHolds`, `StopsAreFinalHolds`, `OutputWithinBudgetHolds`,
`IngestImplementsEventStream` rest on one invariant, which says for each
stage of a call what has been emitted, received, answered and charged, and that a
stop seen once is in force at every later stage. The stream refinement reads the
counted places of `EventStream` off the events the caller received.
`CollectorTypeCorrect`, `CollectorIsExact`, on streams of any length. Invariant: while
collecting, the received stream is a well-formed prefix and the collector's fields are
its items and its terminal; the lemmas say how well-formedness changes when one event is
appended.
`SelectionUnambiguous`, `BindingsLawful`. Invariant: the installed claims are exactly
those of the registered parsers, no two clash, and the parsers of one format differ in
priority; every provider is lawful for its kind. It holds because a refused registration
installs nothing, which is the step where a plausible bug would break it.

**`ContainerTraversalProofs`.** `AdmittedWithinLimitsHolds`, `AuditIsTrueHolds`,
`CompleteIsWholeHolds`. Limits: what was admitted on each axis was charged to it, and while no
charge was refused what was charged is within the limit. Audit: the trees of a result
are of any depth and no invariant descends into them; there is a set of nodes and a
relation between audits and children among them that is closed under children, and closing a
member adds one pair to it. Wholeness: a function gives each node the size of its
tree, and what decoders returned is counted by the frames and by the trees of their
children, so a complete root has a child for all of it. Assumption: the members of a
decoded container are a finite sequence.
`ProjectionIsCanonicalHolds`, for any fragments. Invariant: the nodes of a graph, and its
edges, match the cells of the fragments handed over (the place of a node or an edge in a
fragment of one of the merges) one to one, each edge with its fallback identity
or its final one. A finalization is refused exactly when a cell's edge lacks an endpoint or
two cells claim one identity, which no order of arrival changes; and keys of nodes, which end
in their ids, and of edges, which do too, differ in a graph that passed, so sorting by them has
one outcome. Preorder follows from the keys: the key of a node is that of its parent and
one more step, except on a circle of parents, which the property leaves aside. Assumption:
`ProjectionAssumption`, that an identity which begins as a fallback was made by
`ensure_fallback_edge_id`, so that edges which share it would share their final one as well.
Without it two edges that came with one fallback identity are refused when they are merged,
and accepted when that graph is finalized, which gives them two.

**`ModelOutputStreamProofs`.** `RetainedWasAdmittedHolds`, `ToldStateIsTrueHolds`,
`CandidateLifeHolds`, `ImplementsEventStreamHolds`. Four arguments. Bytes: what is retained
was charged, across the bytes of a scalar that wait for their end. Telling: the state a
caller was told last is the state the session had when it was told. Candidates: the events
handed over followed by those still planned are one lawful tale, in which each candidate is
opened once, retold only forward and closed once, and whose open candidates are those the
parser holds; planning appends to the tale and handing over moves its
boundary, which is why the invariant must speak of both queues at once. Refinement: the
n-th counted event of the session is the n-th of `EventStream`.

**`OperationCacheProofs`.** `ServedIsResultHolds`, `RecordProves`, `DamageReported`.
Invariant: the digest of every entry's output is that of a result of the operation its
key digest names, for every type, and one still of canonical bytes is the digest of what some
caller stored for that key. It survives each kind of damage because damage that keeps an
entry decodable keeps its bytes; so an entry that decodes is what was stored. A value in
flight is the result of its key. Digests are modelled by what they are taken of, that
is, collisions of SHA-256 are assumed away.

**`MaterializationProofs`.** `DirectoryTruthful`, `NothingOverwritten`. Invariant:
`TypeOK`; `JobInv` (a call past its checks has a content and is short of its attempts);
`OrphansArePartial` (what a dead or failing process left is a part for good); and
`DirectoryIsTruthful` itself, whose clause that a part of a file has one living owner
or is an orphan is what lets a writer's step change its own file and no other.
Assumptions: `MaterializationAssumption`, and `RecordsAndFiles` (hand-made records are
records, and a planted file is none of the model's). Digests stand for contents.

Only model-checked: the four liveness properties, since liveness under fairness and
`ENABLED` are out of the prover's reach. The functions that
are recursive on data are compared with their reference definitions on bounded inputs only.

## What is left out, and why

* Text, formatting, diagnostics' wording, metrics and identities, where no property
  depends on them. Sizes are small numbers, contents are classes.
* Allocation failure and aborts (`max_in_flight` = `usize::MAX` aborts).
* Weak memory: the atomics are relaxed, but each is a single counter or flag, and a
  relaxed load of an old value is an earlier load, which the interleavings contain.
* Poisoned mutexes: no code panics while it holds the usage table.
* A budget axis not charged by the modelled code of a module is not in that module.
* The grammar of model outputs and of all formats.
* `ContainerRecursor::parse_with_control`: the same traversal with an input already
  charged. `Ingestion` has its own nested members, as deep as its bound.
* Segment sizes add up in the model, as bytes and scalars do; counts of tokens need
  not. The parallel preparation of nodes returns graph order, which is what
  `OrderedParallel` establishes for it.
* Graph analysis and segmentation charge and poll the control as well; a stopped
  one returns nothing, so the models have no partial answer to check.
* `GraphProjection` has identities, order and refusals of merging; diagnostics,
  `add_contains`, migration, citations and the projection of payloads are left out.
* Repository ingestion: detection hints, languages, test hints and hashes. The
  inspection of an entry (`symlink_metadata`, `canonicalize`, `metadata`) is one step;
  between it and `File::open` the entry may become anything its path may hold, a link
  and a device included, and the read follows what is there then. The assumption on
  the tree leaves out two changes: a link in the place of a directory, and a link
  in the place of what another link ends at.
* Segmentation: the refusal of a node whose parent is missing
  (`src/segment/structural.rs:277`); the parents of the model are nodes.
* Finalization: of the reasons why an edge gets no identity
  (`src/document_graph/identity.rs:87`) only an empty endpoint, which stands for a blank
  part of a path, an empty relation and a locator that is not valid as well: each ends the
  finalization at that edge.
* Graph analysis: the checks for empty and repeated ids, for a source map that does not
  match and for the depth of attributes (`src/graph/analysis.rs:151`, `179`, `213`); like the
  modelled ones, each of them only adds a diagnostic.
* Names, media types and extensions are normalised by a function that is given
  (`Normal`), whatever it is.

## Plan

Done, in this order: operation control; parallel preparation; temporary storage;
event streams and collector; ingestion; container recursion; model-output
streaming; operation cache; materialization; repository traversal; graph analysis;
registries; segmentation; document graph merging. Proofs of control, storage,
collector, registries, cache, materialization, ingestion, model-output streaming,
container recursion, parallel preparation, segmentation, repository traversal, graph
analysis and document graph merging: every safety invariant of these.

Next, by importance:

1. `ContainerTraversal` with the leaf ingestion of `Ingestion` in one module, and
   `parse_with_control` with it.
2. Recorded providers: a request that is replayed gets the answer that was recorded
   for it, or none.
3. The parse of a graph text and its projection, and the scoring of detection, as
   operators against reference definitions.
