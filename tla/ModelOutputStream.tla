------------------------- MODULE ModelOutputStream -------------------------
(***************************************************************************)
(* StreamingModelOutputParserV2 (src/model_output/streaming.rs): bytes are *)
(* pushed in chunks cut anywhere, retained under the budgets, and told as  *)
(* events: changes of the parser's state, the life of every candidate,     *)
(* and one terminal.                                                       *)
(*                                                                         *)
(* Every event passes a checkpoint before it is handed over, so a step     *)
(* hands over one event and the caller may cancel, or the parse deadline   *)
(* pass, between any two.  What the batch parser finds in the retained     *)
(* text is left open: a candidate may be found in a prefix and not in the  *)
(* whole, and one identity may be found twice.                             *)
(***************************************************************************)
EXTENDS Naturals, SequencesExt

CONSTANTS
  Chunks,     \* byte sequences a caller may push
  Stable,     \* candidates a scan of the prefix may find, in order
  Final,      \* candidates the final parse may find, in order
  EventSizes, \* bytes of a serialized event
  MaxBuffer,  \* max_buffer_bytes
  Limit       \* inclusive limit of each limited budget axis

(* Bytes by what the parser tells apart: blank, text, a byte that may      *)
(* close a candidate, the head of a scalar of three bytes and its tails.   *)
Bytes == {"blank", "text", "closer", "head", "tail"}

SumAxes == {"decoded_characters", "input_bytes", "records", "nodes", "output_bytes"}
Axes == SumAxes \cup {"memory_bytes"}

ASSUME ModelOutputStreamAssumption ==
  /\ Chunks \subseteq Seq(Bytes)
  /\ Stable \cup Final \subseteq Seq(Nat)
  /\ EventSizes \subseteq Nat \ {0} /\ MaxBuffer \in Nat
  /\ DOMAIN Limit \subseteq Axes /\ \A a \in DOMAIN Limit : Limit[a] \in Nat

VARIABLES
  buffer,      \* bytes retained
  decoded,     \* decoded_characters
  state,       \* the parser's state
  emitted,     \* completed candidates handed over
  candidates,  \* bytes_seen of every candidate started and not completed
  termination, \* why the stream was stopped, or "none"
  closed,      \* terminal_event_emitted
  usage,       \* the budget tree
  cancelled,   \* the cancellation flag
  late,        \* the parse-time axis is exhausted
  phase,       \* where the call is
  plan,        \* events it has still to hand over
  report,      \* status and candidates of the final parse
  envelope,    \* status of the envelope returned, or "none"
  events       \* history: every event handed over

parser == <<buffer, decoded, state, emitted, candidates, termination, closed>>
control == <<cancelled, late>>
call == <<phase, plan, report, envelope>>
vars == <<parser, usage, control, call, events>>

-----------------------------------------------------------------------------
(* UTF-8.                                                                  *)

(* A whole scalar of b begins at i.                                        *)
ScalarAt(b, i) ==
  \/ b[i] \in {"blank", "text", "closer"}
  \/ b[i] = "head" /\ i + 2 <= Len(b) /\ b[i + 1] = "tail" /\ b[i + 2] = "tail"

Belongs(b, i) ==
  \/ ScalarAt(b, i)
  \/ b[i] = "tail" /\ \E j \in {i - 1, i - 2} : j > 0 /\ b[j] = "head" /\ ScalarAt(b, j)

(* valid_utf8_prefix, and how many characters it has.                      *)
Valid(b) ==
  SubSeq(b, 1, Max({n \in 0..Len(b) : \A i \in 1..n : Belongs(b, i)}))

Characters(b) == Cardinality({i \in 1..Len(Valid(b)) : b[i] # "tail"})

Rest(b) == SubSeq(b, Len(Valid(b)) + 1, Len(b))

(* The rest may still become a scalar: the validator has no error length.  *)
Pending(b) == Rest(b) \in {<<"head">>, <<"head", "tail">>}

(* Fault: the scalar that a chunk completes is not counted.                *)
NewlyCompletedAlone(b, chunk) ==
  IF Rest(b) = <<>> THEN Characters(chunk)
  ELSE IF ~ Pending(b) \/ Len(chunk) < 3 - Len(Rest(b)) THEN 0
  ELSE Characters(SubSeq(chunk, 3 - Len(Rest(b)) + 1, Len(chunk)))

(* newly_completed_utf8_characters                                         *)
NewlyCompleted(b, chunk) ==
  LET needed == 3 - Len(Rest(b))
      scalar == Rest(b) \o SubSeq(chunk, 1, needed)
  IN  IF Rest(b) = <<>> THEN Characters(chunk)
      ELSE IF ~ Pending(b) \/ Len(chunk) < needed \/ ~ ScalarAt(scalar, 1) THEN 0
      ELSE 1 + Characters(SubSeq(chunk, needed + 1, Len(chunk)))

Blank(b) == \A i \in 1..Len(b) : b[i] = "blank"

MayComplete(chunk) == \E i \in 1..Len(chunk) : chunk[i] = "closer"

-----------------------------------------------------------------------------
(* The control.                                                            *)

Used(a, n) == IF a \in SumAxes THEN usage[a] + n ELSE Max({usage[a], n})

Accepts(a, n) == a \in DOMAIN Limit => Used(a, n) <= Limit[a]

(* Charges are made in order up to the first that is refused; a refused    *)
(* one is recorded too.                                                    *)
Affordable(charges) == \A i \in 1..Len(charges) : Accepts(charges[i][1], charges[i][2])

Spend(charges) ==
  LET refused == {i \in 1..Len(charges) : ~ Accepts(charges[i][1], charges[i][2])}
      made == 1..(IF refused = {} THEN Len(charges) ELSE Min(refused))
  IN  usage' = [a \in Axes |->
        IF \E i \in made : charges[i][1] = a
        THEN Used(a, charges[CHOOSE i \in made : charges[i][1] = a][2])
        ELSE usage[a]]

Stopped == cancelled \/ late

Interruption == IF cancelled THEN "cancelled" ELSE "budget"

(* estimated_finish_peak, with a factor and a base of one.                 *)
Peak(n) == n + 1

-----------------------------------------------------------------------------
(* Events.                                                                 *)

Started(id) == [event |-> "candidate_started", candidate_id |-> id]
Updated(id) == [event |-> "candidate_updated", candidate_id |-> id,
                bytes_seen |-> Len(buffer)]
Completed(id) == [event |-> "candidate_completed", candidate_id |-> id]
StateChanged(s) == [event |-> "parser_state_changed", state |-> s]
Diagnostic == [event |-> "diagnostic"]
Terminal(status) == [event |-> "terminal", status |-> status, emitted_items |-> emitted]

(* termination_parts                                                       *)
StatusOf(reason) ==
  CASE reason = "cancelled" -> "cancelled"
    [] reason = "budget" -> IF emitted = 0 THEN "failed" ELSE "partial"
    [] reason = "failed" -> "failed"
    [] reason = "lost" -> "partial"

StateOf(reason) == IF reason = "cancelled" THEN "cancelled" ELSE "failed"

(* Fault: the terminal is told by every call after the stop.               *)
TerminationEventsAgain(reason) ==
  <<Diagnostic, StateChanged(StateOf(reason)), Terminal(StatusOf(reason))>>

(* take_termination_events                                                 *)
TerminationEvents(reason) ==
  IF closed THEN <<>>
  ELSE <<Diagnostic, StateChanged(StateOf(reason)), Terminal(StatusOf(reason))>>

(* One candidate of the final parse: it is started unless a scan started   *)
(* it, told once more unless nothing was appended since, and completed.    *)
Life(found, i) ==
  LET id == found[i]
      fresh == id \notin DOMAIN candidates \/ \E j \in 1..(i - 1) : found[j] = id
      detects == i = 1 /\ state # "candidate_detected"
  IN  (IF fresh THEN <<Started(id)>> ELSE <<>>)
      \o (IF detects THEN <<StateChanged("candidate_detected")>> ELSE <<>>)
      \o (IF fresh \/ candidates[id] # Len(buffer) THEN <<Updated(id)>> ELSE <<>>)
      \o <<Completed(id)>>

Lives(found) == FlattenSeq([i \in 1..Len(found) |-> Life(found, i)])

(* The n-th smallest of a set of numbers.                                  *)
Nth(S, n) == CHOOSE x \in S : Cardinality({y \in S : y < x}) = n - 1

Updates(ids) == [i \in 1..Cardinality(ids) |-> Updated(Nth(ids, i))]

(* Fault: a scan does not ask whether a candidate was started before.      *)
FreshAgain(found) ==
  {i \in 1..Len(found) : \A j \in 1..(i - 1) : found[j] # found[i]}

(* Where a scan found candidates that are new, each at its first place.    *)
Fresh(found) ==
  {i \in 1..Len(found) : /\ found[i] \notin DOMAIN candidates
                         /\ \A j \in 1..(i - 1) : found[j] # found[i]}

(* Fault: a candidate found by a scan leaves the state as it was.          *)
BirthsUntold(found) ==
  FlattenSeq([i \in 1..Len(found) |->
    IF i \in Fresh(found) THEN <<Started(found[i]), Updated(found[i])>> ELSE <<>>])

(* The events of emit_incremental_candidates for the new ones.             *)
Births(found) ==
  LET detects(i) == i = Min(Fresh(found)) /\ state # "candidate_detected"
      birth(i) == <<Started(found[i])>>
                  \o (IF detects(i) THEN <<StateChanged("candidate_detected")>> ELSE <<>>)
                  \o <<Updated(found[i])>>
  IN  FlattenSeq([i \in 1..Len(found) |-> IF i \in Fresh(found) THEN birth(i) ELSE <<>>])

Stale == {id \in DOMAIN candidates : candidates[id] # Len(buffer)}

-----------------------------------------------------------------------------
Init ==
  /\ buffer = <<>> /\ decoded = 0 /\ state = "empty" /\ emitted = 0
  /\ candidates = <<>> /\ termination = "none" /\ closed = FALSE
  /\ usage = [a \in Axes |-> 0]
  /\ cancelled = FALSE /\ late = FALSE
  /\ phase = "idle" /\ plan = <<>>
  /\ report = [status |-> "none", state |-> "none"] /\ envelope = "none"
  /\ events = <<>>

Cancel ==
  /\ ~ cancelled /\ cancelled' = TRUE
  /\ UNCHANGED <<parser, usage, late, call, events>>

(* Elapsed time only grows, so the axis stays exhausted.                   *)
Deadline ==
  /\ ~ late /\ late' = TRUE
  /\ UNCHANGED <<parser, usage, cancelled, call, events>>

(* A stop: what was still to be handed over is dropped, the terminal told. *)
Stop(reason, next) ==
  /\ termination' = reason
  /\ state' = StateOf(reason)
  /\ closed' = TRUE
  /\ events' = events \o TerminationEvents(reason)
  /\ plan' = <<>> /\ phase' = next
  /\ UNCHANGED <<buffer, decoded, emitted, candidates, control, report, envelope>>

Idle == phase = "idle" /\ termination = "none"

PushStopped ==
  /\ Idle /\ Stopped
  /\ Stop(Interruption, "idle")
  /\ UNCHANGED usage

Fits(chunk) == Len(buffer) + Len(chunk) <= MaxBuffer

PushTooLong(chunk) ==
  /\ Idle /\ ~ Stopped /\ ~ Fits(chunk)
  /\ Stop("failed", "idle")
  /\ UNCHANGED usage

Charges(chunk) ==
  << <<"decoded_characters", NewlyCompleted(buffer, chunk)>>,
     <<"input_bytes", Len(chunk)>>,
     <<"memory_bytes", Peak(Len(buffer) + Len(chunk))>> >>

PushRefused(chunk) ==
  /\ Idle /\ ~ Stopped /\ Fits(chunk) /\ ~ Affordable(Charges(chunk))
  /\ Spend(Charges(chunk))
  /\ Stop("budget", "idle")

AllocationFails(chunk) ==
  /\ Idle /\ ~ Stopped /\ Fits(chunk) /\ Affordable(Charges(chunk))
  /\ Spend(Charges(chunk))
  /\ Stop("failed", "idle")

StateFor(b) ==
  IF candidates # <<>> THEN "candidate_detected"
  ELSE IF Blank(Valid(b)) THEN "empty" ELSE "accumulating"

(* The chunk is retained.  A whole text that may have closed a candidate   *)
(* is scanned; otherwise the candidates are told of the new length.        *)
PushAccepted(chunk) ==
  /\ Idle /\ ~ Stopped /\ Fits(chunk) /\ Affordable(Charges(chunk))
  /\ Spend(Charges(chunk))
  /\ LET b == buffer \o chunk
         scans == b # <<>> /\ Valid(b) = b /\ MayComplete(chunk)
     IN  /\ buffer' = b
         /\ phase' = IF scans THEN "scan" ELSE IF candidates # <<>> THEN "update" ELSE "emit"
         /\ plan' = IF state # StateFor(b) THEN <<StateChanged(StateFor(b))>> ELSE <<>>
  /\ decoded' = decoded + NewlyCompleted(buffer, chunk)
  /\ UNCHANGED <<state, emitted, candidates, termination, closed, control, report, envelope, events>>

PushChunk ==
  \/ PushStopped
  \/ \E chunk \in Chunks :
       PushTooLong(chunk) \/ PushRefused(chunk) \/ AllocationFails(chunk) \/ PushAccepted(chunk)

-----------------------------------------------------------------------------
(* emit: one event, after a checkpoint and its charge.                     *)

Ending == IF phase = "finish" THEN "ending" ELSE "idle"

EmitStopped ==
  /\ plan # <<>> /\ Stopped
  /\ Stop(Interruption, Ending)
  /\ UNCHANGED usage

EmitRefused(n) ==
  /\ plan # <<>> /\ ~ Stopped /\ ~ Accepts("output_bytes", n)
  /\ Spend(<< <<"output_bytes", n>> >>)
  /\ Stop("budget", Ending)

(* A candidate told of during a push is remembered with what was told.     *)
Noted(id, n) == [x \in DOMAIN candidates \cup {id} |-> IF x = id THEN n ELSE candidates[x]]

Handed(e) ==
  /\ events' = Append(events, e)
  /\ state' = IF e.event = "parser_state_changed" THEN e.state ELSE state
  /\ emitted' = IF e.event = "candidate_completed" THEN emitted + 1 ELSE emitted
  /\ candidates' = IF e.event = "candidate_updated" /\ phase # "finish"
                   THEN Noted(e.candidate_id, e.bytes_seen) ELSE candidates

EmitEvent(n) ==
  /\ plan # <<>> /\ ~ Stopped /\ Accepts("output_bytes", n)
  /\ Spend(<< <<"output_bytes", n>> >>)
  /\ Handed(Head(plan))
  /\ plan' = Tail(plan)
  /\ UNCHANGED <<buffer, decoded, termination, closed, control, phase, report, envelope>>

Emit == EmitStopped \/ \E n \in EventSizes : EmitRefused(n) \/ EmitEvent(n)

(* emit_incremental_candidates; the updates of the others follow.          *)
Scan(found) ==
  /\ phase = "scan" /\ plan = <<>>
  /\ Spend(<< <<"nodes", Len(found)>> >>)
  /\ IF Affordable(<< <<"nodes", Len(found)>> >>)
     THEN /\ plan' = Births(found) /\ phase' = "update"
          /\ UNCHANGED <<parser, control, report, envelope, events>>
     ELSE Stop("budget", "idle")

(* emit_candidate_updates                                                  *)
Update ==
  /\ phase = "update" /\ plan = <<>>
  /\ plan' = Updates(Stale) /\ phase' = "emit"
  /\ UNCHANGED <<parser, usage, control, report, envelope, events>>

PushReturns ==
  /\ phase = "emit" /\ plan = <<>>
  /\ phase' = "idle"
  /\ UNCHANGED <<parser, usage, control, plan, report, envelope, events>>

-----------------------------------------------------------------------------
(* fail, for an external error.  The CLI leaves its loop once the parser   *)
(* is terminated, so it closes an active stream only.                      *)
Fail ==
  /\ Idle
  /\ Stop("failed", "ending")
  /\ UNCHANGED usage

FinishTerminated ==
  /\ phase = "idle" /\ termination # "none"
  /\ events' = events \o TerminationEvents(termination)
  /\ closed' = TRUE /\ phase' = "ending"
  /\ UNCHANGED <<buffer, decoded, state, emitted, candidates, termination, usage, control,
                 plan, report, envelope>>

FinishStopped ==
  /\ Idle /\ Stopped
  /\ Stop(Interruption, "ending")
  /\ UNCHANGED usage

FinishInvalid ==
  /\ Idle /\ ~ Stopped /\ Valid(buffer) # buffer
  /\ Stop("failed", "ending")
  /\ UNCHANGED usage

(* parse_model_output: nothing is found in a blank text.                   *)
Verdicts(found) ==
  IF found # <<>> THEN {"complete", "incomplete", "malformed", "ambiguous"}
  ELSE IF Blank(buffer) THEN {"empty"} ELSE {"empty", "unparsed"}

Parsed(found, verdict) ==
  /\ Blank(buffer) => found = <<>>
  /\ report' = [status |-> IF verdict = "complete" THEN "complete" ELSE "partial",
                state |-> verdict]

FinalCharges(found) == << <<"records", Len(found)>>, <<"nodes", Len(found)>> >>

FinishRefused(found) ==
  /\ Idle /\ ~ Stopped /\ Valid(buffer) = buffer /\ ~ Affordable(FinalCharges(found))
  /\ Blank(buffer) => found = <<>>
  /\ Spend(FinalCharges(found))
  /\ Stop("budget", "ending")

(* The candidates that the final parse did not find again stay behind.     *)
FinishParsed(found, verdict) ==
  /\ Idle /\ ~ Stopped /\ Valid(buffer) = buffer /\ Affordable(FinalCharges(found))
  /\ Spend(FinalCharges(found))
  /\ Parsed(found, verdict)
  /\ LET left == DOMAIN candidates \ ToSet(found)
     IN  /\ candidates' = Restrict(candidates, left)
         /\ plan' = Lives(found) \o (IF left = {} THEN <<StateChanged(verdict)>> ELSE <<>>)
  /\ phase' = "finish"
  /\ UNCHANGED <<buffer, decoded, state, emitted, termination, closed, control, envelope, events>>

CandidateLost ==
  /\ phase = "finish" /\ plan = <<>> /\ candidates # <<>>
  /\ Stop("lost", "ending")
  /\ UNCHANGED usage

FinishSucceeds ==
  /\ phase = "finish" /\ plan = <<>> /\ candidates = <<>>
  /\ events' = Append(events, Terminal(report.status))
  /\ closed' = TRUE /\ phase' = "ending"
  /\ UNCHANGED <<buffer, decoded, state, emitted, candidates, termination, usage, control,
                 plan, report, envelope>>

(* terminal_envelope, or the report.                                       *)
Return ==
  /\ phase = "ending"
  /\ envelope' = IF termination = "none" THEN report.status ELSE StatusOf(termination)
  /\ phase' = "done"
  /\ UNCHANGED <<parser, usage, control, plan, report, events>>

Finish ==
  \/ FinishTerminated \/ FinishStopped \/ FinishInvalid
  \/ \E found \in Final :
       \/ FinishRefused(found)
       \/ \E verdict \in Verdicts(found) : FinishParsed(found, verdict)
  \/ CandidateLost \/ FinishSucceeds \/ Return

Next ==
  \/ Cancel \/ Deadline
  \/ PushChunk \/ Emit \/ (\E found \in Stable : Scan(found)) \/ Update \/ PushReturns
  \/ Fail \/ Finish

Spec == Init /\ [][Next]_vars

-----------------------------------------------------------------------------
Identities == UNION {ToSet(s) : s \in Stable \cup Final}

(* Wherever the chunks are cut, also inside a scalar, every character of   *)
(* the retained text is charged once and only once; the assertion of       *)
(* push_bytes says the same of its counter.                                *)
CharactersChargedOnce ==
  /\ decoded = Characters(buffer)
  /\ termination = "none" => usage["decoded_characters"] = decoded

(* What is retained was admitted first: every character is paid for, the   *)
(* bytes fit the buffer and are charged as input, and the peak that        *)
(* finishing them needs is within the budget.                              *)
RetainedWasAdmitted ==
  /\ CharactersChargedOnce
  /\ Len(buffer) <= MaxBuffer
  /\ Len(buffer) <= usage["input_bytes"]
  /\ buffer # <<>> => Peak(Len(buffer)) <= usage["memory_bytes"]
  /\ buffer # <<>> /\ "memory_bytes" \in DOMAIN Limit =>
       Peak(Len(buffer)) <= Limit["memory_bytes"]

At(kind, id) == {i \in 1..Len(events) : events[i].event = kind /\ events[i].candidate_id = id}

Before(places, i) == Cardinality({j \in places : j < i})

(* A candidate is open at i when one start more than completions precede.  *)
OpenAt(id, i) == Before(At("candidate_started", id), i) = Before(At("candidate_completed", id), i) + 1

(* The life of a candidate: it starts when it is not open, is told of and  *)
(* completed only while open, and completed when the last the consumer was *)
(* told of it, since its start, is the length of the whole text.  A stream *)
(* that was not stopped leaves none open, whether a push or the end        *)
(* started it.                                                             *)
CandidateLife ==
  \A id \in Identities :
    /\ \A i \in At("candidate_started", id) : ~ OpenAt(id, i)
    /\ \A i \in At("candidate_updated", id) : OpenAt(id, i)
    /\ \A i \in At("candidate_completed", id) :
         LET begun == {j \in At("candidate_started", id) : j < i}
             told == {j \in At("candidate_updated", id) : j < i}
         IN  /\ OpenAt(id, i) /\ told # {} /\ Max(told) > Max(begun)
             /\ events[Max(told)].bytes_seen = Len(buffer)
    /\ closed /\ termination = "none" => ~ OpenAt(id, Len(events) + 1)

ToldStates == {i \in 1..Len(events) : events[i].event = "parser_state_changed"}

LastToldState == IF ToldStates = {} THEN "empty" ELSE events[Max(ToldStates)].state

(* Between two calls the consumer knows the state that the retained bytes  *)
(* and the open candidates make, or that of the stop.                      *)
ToldStateIsCurrent ==
  phase = "idle" =>
    LastToldState = IF termination = "none" THEN StateFor(buffer) ELSE StateOf(termination)

(* The terminal and the envelope say the same, and a cancelled status goes *)
(* with a cancelled state.                                                 *)
EnvelopeEchoesTerminal ==
  phase = "done" =>
    /\ events # <<>> /\ events[Len(events)].event = "terminal"
    /\ envelope = events[Len(events)].status
    /\ envelope = "cancelled" <=> LastToldState = "cancelled"
    /\ envelope = "complete" <=> LastToldState = "complete"

(* Events, terminal and envelope tell one story, at rest and at the end.   *)
ToldStateIsTrue == ToldStateIsCurrent /\ EnvelopeEchoesTerminal

-----------------------------------------------------------------------------
(* The stream as its consumers count it: completed candidates as items.    *)

Counted ==
  {i \in 1..Len(events) : events[i].event \in {"candidate_completed", "terminal"}}

Mapped ==
  [n \in 1..Cardinality(Counted) |->
     LET e == events[Nth(Counted, n)]
     IN  IF e.event = "terminal"
         THEN [event |-> "terminal", status |-> e.status, emitted_items |-> e.emitted_items,
               partial |-> \E j \in 1..Len(events) : events[j] = Diagnostic]
         ELSE [event |-> "item", sequence |-> n - 1]]

Promise == INSTANCE EventStream WITH events <- Mapped, closed <- phase = "done"

(* Completed candidates, then exactly one terminal that counts them, then  *)
(* nothing, whichever way the stream ends: the comment of the terminal     *)
(* event in mod.rs.                                                        *)
ImplementsEventStream == Promise!Spec
=============================================================================
