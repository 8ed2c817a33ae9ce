-------------------------- MODULE OrderedParallel --------------------------
(***************************************************************************)
(* Bounded parallel preparation with canonical-order delivery              *)
(* (src/runtime/parallel.rs).  Two entry points share run_chunk:           *)
(*   "collect"  takes every job first, sorts by order key, returns all     *)
(*              outputs or one error;                                      *)
(*   "lazy"     pulls at most MaxInFlight jobs, runs them, emits their     *)
(*              outputs to the caller and only then pulls again.           *)
(* A chunk is dealt round-robin to scoped threads that run concurrently;   *)
(* the scope ends when every thread has stopped.                           *)
(***************************************************************************)
EXTENDS Integers, Sequences, FiniteSets, SequencesExt

CONSTANTS
  Workers,      \* ParallelismOptions.workers
  MaxInFlight,  \* ParallelismOptions.max_in_flight
  Keys,         \* canonical order keys
  MaxJobs,      \* bound: jobs in an input
  MaxPanics     \* bound: jobs of an input whose closure panics

ASSUME OrderedParallelAssumption ==
  /\ Workers \in Nat \ {0} /\ MaxInFlight \in Nat \ {0}
  /\ Keys \subseteq Nat
  /\ MaxJobs \in Nat /\ MaxPanics \in Nat

Jobs == [order : Keys, does : {"ok", "fail", "panic"}]

Inputs == {s \in BoundedSeq(Jobs, MaxJobs) :
             Cardinality({i \in DOMAIN s : s[i].does = "panic"}) <= MaxPanics}

VARIABLES
  mode,      \* "collect" or "lazy"
  input,     \* the caller's jobs, in the caller's order
  queue,     \* the jobs in the order they will be chunked
  pulled,    \* how many of queue have been taken
  chunk,     \* the jobs in flight
  finished,  \* positions of chunk whose closure has returned
  crashed,   \* workers whose closure has panicked
  output,    \* outputs prepared and not yet handed over
  emitted,   \* outputs the caller has been given
  outcome,   \* how the call ended
  pc

vars == <<mode, input, queue, pulled, chunk, finished, crashed, output,
          emitted, outcome, pc>>

Running == [kind |-> "none"]
Done == [kind |-> "ok"]
Failure(kind, order) == [kind |-> kind, order |-> order]

Before(a, b) == a.order < b.order

(* sort_by_key, which is stable: a job's rank is the number of positions   *)
(* that do not come after its own.                                         *)
Precedes(jobs, i, j) ==
  Before(jobs[i], jobs[j]) \/ (jobs[i].order = jobs[j].order /\ i <= j)

Rank(jobs, i) == Cardinality({j \in DOMAIN jobs : Precedes(jobs, j, i)})

Sorted(jobs) ==
  [k \in DOMAIN jobs |-> jobs[CHOOSE i \in DOMAIN jobs : Rank(jobs, i) = k]]

-----------------------------------------------------------------------------
(* run_chunk.                                                              *)

WorkerCount == Max({1, Min({Workers, Len(chunk)})})

Threads == 0..(WorkerCount - 1)

Bucket(w) == {i \in DOMAIN chunk : (i - 1) % WorkerCount = w}

(* Fault: the scope waits for jobs a panicked worker left behind.          *)
StoppedOnlyWhenEmpty(w) == Bucket(w) \subseteq finished

Stopped(w) == w \in crashed \/ Bucket(w) \subseteq finished

(* A worker runs the next job of its bucket; a panic abandons the rest.    *)
RunJob(w) ==
  /\ pc = "run"
  /\ ~ Stopped(w)
  /\ LET i == Min(Bucket(w) \ finished)
     IN  IF chunk[i].does = "panic"
         THEN crashed' = crashed \cup {w} /\ UNCHANGED finished
         ELSE finished' = finished \cup {i} /\ UNCHANGED crashed
  /\ UNCHANGED <<mode, input, queue, pulled, chunk, output, emitted, outcome, pc>>

(* Results as the joins produce them: one bucket after another.            *)
Results(w) ==
  [k \in 1..Cardinality(Bucket(w)) |-> chunk[w + 1 + (k - 1) * WorkerCount]]

Joined == FlattenSeq([k \in 1..WorkerCount |-> Results(k - 1)])

(* Fault: the joined results are not sorted.                               *)
MergedUnsorted == Joined

Merged == Sorted(Joined)

Failing(jobs) == SelectSeq(jobs, LAMBDA job : job.does = "fail")

(* The handles are joined in order until one has panicked; a panic among   *)
(* those left to the scope is raised again by the scope itself.            *)
ChunkOutcome ==
  IF Cardinality(crashed) > 1 THEN [kind |-> "unwound"]
  ELSE IF crashed # {} THEN [kind |-> "worker_panic"]
  ELSE IF Failing(Merged) # <<>> THEN Failure("task", Head(Failing(Merged)).order)
  ELSE Done

Finish(result) == outcome' = result /\ pc' = "done"

JoinChunk ==
  /\ pc = "run"
  /\ \A w \in Threads : Stopped(w)
  /\ IF ChunkOutcome # Done
     THEN Finish(ChunkOutcome) /\ UNCHANGED output
     ELSE /\ output' = output \o Merged
          /\ pc' = IF mode = "lazy" THEN "emit" ELSE "fill"
          /\ UNCHANGED outcome
  /\ chunk' = <<>> /\ finished' = {} /\ crashed' = {}
  /\ UNCHANGED <<mode, input, queue, pulled, emitted>>

-----------------------------------------------------------------------------
Duplicates(jobs) ==
  {i \in 1..(Len(jobs) - 1) : jobs[i].order = jobs[i + 1].order}

Init ==
  /\ mode \in {"collect", "lazy"}
  /\ input \in Inputs
  /\ queue = <<>> /\ pulled = 0 /\ chunk = <<>> /\ output = <<>> /\ emitted = <<>>
  /\ finished = {} /\ crashed = {}
  /\ outcome = Running
  /\ pc = "start"

(* collect sorts and rejects repeated keys before anything runs.           *)
Start ==
  /\ pc = "start"
  /\ IF mode = "lazy"
     THEN queue' = input /\ pc' = "fill" /\ UNCHANGED outcome
     ELSE /\ queue' = Sorted(input)
          /\ IF Duplicates(Sorted(input)) = {}
             THEN pc' = "fill" /\ UNCHANGED outcome
             ELSE Finish(Failure("duplicate_order",
                      Sorted(input)[Min(Duplicates(Sorted(input)))].order))
  /\ UNCHANGED <<mode, input, pulled, chunk, finished, crashed, output, emitted>>

(* Fault: one job too many is prefetched.                                  *)
ChunkIsFullLate == Len(chunk) > MaxInFlight

ChunkIsFull == Len(chunk) = MaxInFlight

(* Fault: the order of lazy input is taken on trust.                       *)
OrderErrorIgnored(job) == Done

(* The lazy path compares each job with the one pulled before it; the key  *)
(* it complains about is the job's own.                                    *)
OrderError(job) ==
  IF mode = "collect" \/ pulled = 0 \/ queue[pulled].order < job.order THEN Done
  ELSE IF queue[pulled].order = job.order
  THEN Failure("duplicate_order", job.order)
  ELSE Failure("out_of_order", job.order)

Pull ==
  /\ pc = "fill"
  /\ ~ ChunkIsFull
  /\ pulled < Len(queue)
  /\ LET job == queue[pulled + 1]
     IN  IF OrderError(job) # Done
         THEN /\ Finish(OrderError(job))
              /\ chunk' = <<>>
              /\ UNCHANGED pulled
         ELSE /\ chunk' = Append(chunk, job)
              /\ pulled' = pulled + 1
              /\ UNCHANGED <<outcome, pc>>
  /\ UNCHANGED <<mode, input, queue, finished, crashed, output, emitted>>

(* A full or last chunk is run; with nothing left the call succeeds.       *)
Dispatch ==
  /\ pc = "fill"
  /\ ChunkIsFull \/ pulled = Len(queue)
  /\ IF chunk = <<>>
     THEN /\ Finish(Done)
          /\ emitted' = emitted \o output
          /\ output' = <<>>
     ELSE pc' = "run" /\ UNCHANGED <<outcome, emitted, output>>
  /\ UNCHANGED <<mode, input, queue, pulled, chunk, finished, crashed>>

(* The lazy path hands the outputs of a chunk over one by one.             *)
Emit ==
  /\ pc = "emit"
  /\ IF output = <<>>
     THEN pc' = "fill" /\ UNCHANGED <<output, emitted>>
     ELSE /\ emitted' = Append(emitted, Head(output))
          /\ output' = Tail(output)
          /\ UNCHANGED pc
  /\ UNCHANGED <<mode, input, queue, pulled, chunk, finished, crashed, outcome>>

Next ==
  \/ Start \/ Pull \/ Dispatch \/ JoinChunk \/ Emit
  \/ \E w \in 0..(Workers - 1) : w \in Threads /\ RunJob(w)
  \/ pc = "done" /\ UNCHANGED vars

Spec == Init /\ [][Next]_vars

(* The caller's thread and every worker keep running, closures return.     *)
FairSpec ==
  /\ Spec
  /\ WF_vars(Start \/ Pull \/ Dispatch \/ JoinChunk \/ Emit)
  /\ \A w \in 0..(Workers - 1) : WF_vars(w \in Threads /\ RunJob(w))

-----------------------------------------------------------------------------
(* At no moment are more than MaxInFlight inputs and outputs of a lazy     *)
(* call retained: the source is not read ahead of the consumer.            *)
WindowIsBounded ==
  mode = "lazy" => pulled - Len(emitted) <= MaxInFlight

Ordered == IF mode = "lazy" THEN input ELSE Sorted(input)

(* What the caller has been given is always a prefix of the canonical      *)
(* order without repetition, however the workers interleave and however    *)
(* the input is ordered.                                                   *)
DeliveryIsCanonical ==
  /\ IsPrefix(emitted, Ordered)
  /\ \A i \in 2..Len(emitted) : Before(emitted[i - 1], emitted[i])

(***************************************************************************)
(* The result one worker would produce: cut the ordered jobs into windows, *)
(* stop at the first window that cannot be completed.                      *)
(***************************************************************************)
Window(k) ==
  SubSeq(Ordered, (k - 1) * MaxInFlight + 1, Min({k * MaxInFlight, Len(input)}))

Misordered(k) ==
  {i \in 2..Len(input) : /\ (i - 1) \div MaxInFlight = k - 1
                         /\ Ordered[i].order <= Ordered[i - 1].order}

WindowOutcome(k) ==
  IF Misordered(k) # {}
  THEN LET i == Min(Misordered(k))
       IN  Failure(IF Ordered[i].order = Ordered[i - 1].order
                   THEN "duplicate_order" ELSE "out_of_order", Ordered[i].order)
  ELSE IF \E i \in DOMAIN Window(k) : Window(k)[i].does = "panic"
  THEN [kind |-> "worker_panic"]
  ELSE IF Failing(Window(k)) # <<>>
  THEN Failure("task", Head(Failing(Window(k))).order)
  ELSE Done

Windows == 1..((Len(input) + MaxInFlight - 1) \div MaxInFlight)

SerialOutcome ==
  IF mode = "collect" /\ Duplicates(Sorted(input)) # {}
  THEN Failure("duplicate_order", Sorted(input)[Min(Duplicates(Sorted(input)))].order)
  ELSE LET bad == {k \in Windows : WindowOutcome(k) # Done}
       IN  IF bad = {} THEN Done ELSE WindowOutcome(Min(bad))

(* The outcome depends on the jobs and the window only: neither the number *)
(* of workers nor their timing shows, and of several failures the first in *)
(* canonical order is the one reported.                                    *)
WorkersDoNotMatter == pc = "done" => outcome = SerialOutcome

(* Every call ends.                                                        *)
Termination == <>(pc = "done")
=============================================================================
