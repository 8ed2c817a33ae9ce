----------------------------- MODULE Ingestion -----------------------------
(***************************************************************************)
(* Ingestor::stream and batch (src/ingest/batch.rs): requests ingested in  *)
(* caller order under one budget tree and one cancellation token, each by  *)
(* ingest_with_control (src/ingest/engine.rs), which resolves the input    *)
(* (src/core/input.rs), detects its format and dispatches it to a parser   *)
(* (src/registry/parser/dispatch.rs).  The batch is collected by           *)
(* StreamCollector.                                                        *)
(*                                                                         *)
(* The control is only looked at in checkpoints and charges, so a step     *)
(* reaches from one of them to the next; the caller may cancel and the     *)
(* parse deadline may pass between any two.  A parser is foreign code: it  *)
(* charges units of work, passes checkpoints and returns what it likes.    *)
(***************************************************************************)
EXTENDS StreamCollector, FiniteSets

CONSTANTS
  Batches,    \* request sequences the caller may submit
  Limit,      \* inclusive limit of each limited budget axis
  ChunkSizes, \* bytes a read may return
  MaxNesting, \* compound members nest at most this deep in an input
  OutputSizes,\* bytes of a serialized envelope
  Growth,     \* bytes the ingestor may add to it
  ParsersKeepRules \* whether parsers keep to the rules on payloads and metadata

SumAxes == {"input_bytes", "decoded_characters", "nodes", "output_bytes"}
PeakAxes == {"nesting_depth", "memory_bytes"}
Axes == SumAxes \cup PeakAxes

ASSUME IngestionAssumption ==
  /\ DOMAIN Limit \subseteq Axes /\ \A a \in DOMAIN Limit : Limit[a] \in Nat
  /\ ChunkSizes \subseteq Nat \ {0} /\ OutputSizes \subseteq Nat \ {0}
  /\ Growth \subseteq Nat /\ MaxNesting \in Nat
  /\ Batches \subseteq Seq(Nat)
  /\ ParsersKeepRules \in BOOLEAN

VARIABLES
  requests,  \* requests not yet begun
  sequence,  \* items emitted
  pending,   \* pending_terminal, in a sequence of at most one
  finished,  \* the terminal has been handed over
  cancelled, \* the cancellation flag
  late,      \* the parse-time axis is exhausted
  usage,     \* the budget tree
  phase,     \* where the call to next() is
  request,   \* the request it works on
  input,     \* kind of its input, nesting depth, bytes held
  envelope,  \* the envelope built so far
  detected,  \* diagnostics of the detection
  (* History only: nothing below is read by an action.                     *)
  batch,       \* the requests submitted
  startedLate, \* requests begun after cancellation or the deadline
  interrupted  \* requests of which a checkpoint has reported cancellation

stream == <<requests, sequence, pending, finished>>
control == <<cancelled, late>>
call == <<request, input, envelope, detected>>
history == <<batch, startedLate, interrupted>>
vars == <<collector, stream, control, usage, phase, call, history>>

Statuses == {"complete", "partial", "failed", "unsupported", "ambiguous", "cancelled"}

PermitsPayload(status) == status \in {"complete", "partial"}

(* The classes of diagnostic the code tells apart. A diagnostic of a       *)
(* budget hit or of a loss is marked partial.                              *)
Diagnostics == {"cancelled", "budget", "lossy", "other"}
PartialDiagnostics == {"budget", "lossy"}

Envelope(status, diagnostics, payload, bytes) ==
  [status |-> status, diagnostics |-> diagnostics, payload |-> payload, bytes |-> bytes]

(* terminal_envelope and its kin: no payload, one diagnostic, no charge.   *)
TerminalEnvelope(status, diagnostic) == Envelope(status, {diagnostic}, FALSE, 0)

NoInput == [kind |-> "none", depth |-> 0, held |-> 0]
NoEnvelope == Envelope("failed", {}, FALSE, 0)

Item(r, n, e) == [event |-> "item", sequence |-> n, request |-> r, envelope |-> e]

StreamTerminal(status, n, partial) ==
  [event |-> "terminal", status |-> status, emitted_items |-> n, partial |-> partial]

Distinct(s) == \A i, j \in 1..Len(s) : s[i] = s[j] => i = j

-----------------------------------------------------------------------------
(* The budget tree, as seen by one caller at a time.                       *)

(* Fault: every axis keeps its largest charge.                             *)
UsedAtMost(a, n) == IF n > usage[a] THEN n ELSE usage[a]

Used(a, n) ==
  IF a \in SumAxes THEN usage[a] + n
  ELSE IF n > usage[a] THEN n ELSE usage[a]

Charge(a, n) == usage' = [usage EXCEPT ![a] = Used(a, n)]

Accepts(a, n) == a \in DOMAIN Limit => Used(a, n) <= Limit[a]

(* checkpoint fails with a cancellation first, then for the parse time.    *)
Stopped == cancelled \/ late

Interruption == IF cancelled THEN "cancelled" ELSE "budget"

(* The history of checkpoints that reported a cancellation.                *)
Witness(reported) ==
  interrupted' = IF reported = "cancelled" THEN interrupted \cup {request} ELSE interrupted

StatusOf(reason) == IF reason = "cancelled" THEN "cancelled" ELSE "failed"

-----------------------------------------------------------------------------
Init ==
  /\ CollectorInit
  /\ batch \in Batches
  /\ requests = batch
  /\ sequence = 0 /\ pending = <<>> /\ finished = FALSE
  /\ cancelled = FALSE /\ late = FALSE
  /\ usage = [a \in Axes |-> 0]
  /\ phase = "submitted"
  /\ request = 0 /\ input = NoInput /\ envelope = NoEnvelope /\ detected = {}
  /\ startedLate = {} /\ interrupted = {}

(* stream: a repeated request id is refused before anything is emitted.    *)
Open ==
  /\ phase = "submitted"
  /\ phase' = IF Distinct(requests) THEN "idle" ELSE "refused"
  /\ UNCHANGED <<collector, stream, control, usage, call, history>>

Cancel ==
  /\ ~ cancelled /\ cancelled' = TRUE
  /\ UNCHANGED <<collector, stream, late, usage, phase, call, history>>

(* Elapsed time only grows, so the axis stays exhausted.                   *)
Deadline ==
  /\ ~ late /\ late' = TRUE
  /\ UNCHANGED <<collector, stream, cancelled, usage, phase, call, history>>

(* next() while the collector is collecting.                               *)
MayPull == phase = "idle" /\ outcome = "collecting"

PullAfterEnd ==
  /\ MayPull /\ finished
  /\ EndOfStream
  /\ UNCHANGED <<stream, control, usage, phase, call, history>>

PullPending ==
  /\ MayPull /\ ~ finished /\ pending # <<>>
  /\ Receive(pending[1])
  /\ pending' = <<>> /\ finished' = TRUE
  /\ UNCHANGED <<requests, sequence, control, usage, phase, call, history>>

PullComplete ==
  /\ MayPull /\ ~ finished /\ pending = <<>> /\ requests = <<>>
  /\ Receive(StreamTerminal("complete", sequence, FALSE))
  /\ finished' = TRUE
  /\ UNCHANGED <<requests, sequence, pending, control, usage, phase, call, history>>

(* Fault: the newest request is taken first.                               *)
BeginNewest ==
  /\ MayPull /\ ~ finished /\ pending = <<>> /\ requests # <<>>
  /\ request' = requests[Len(requests)]
  /\ requests' = SubSeq(requests, 1, Len(requests) - 1)
  /\ phase' = "enter"
  /\ startedLate' = IF Stopped THEN startedLate \cup {request'} ELSE startedLate
  /\ UNCHANGED <<collector, sequence, pending, finished, control, usage, input,
                 envelope, detected, batch, interrupted>>

Begin ==
  /\ MayPull /\ ~ finished /\ pending = <<>> /\ requests # <<>>
  /\ request' = Head(requests)
  /\ requests' = Tail(requests)
  /\ phase' = "enter"
  /\ startedLate' = IF Stopped THEN startedLate \cup {request'} ELSE startedLate
  /\ UNCHANGED <<collector, sequence, pending, finished, control, usage, input,
                 envelope, detected, batch, interrupted>>

-----------------------------------------------------------------------------
(* Resolving the input.                                                    *)

(* input_error_envelope is not charged.                                    *)
InputFails(reason) ==
  /\ envelope' = TerminalEnvelope(StatusOf(reason), reason)
  /\ phase' = "emit"
  /\ Witness(reason)

Resolving(next) ==
  /\ phase' = next
  /\ UNCHANGED <<envelope, interrupted>>

ChargeInput(a, n, next) ==
  /\ Charge(a, n)
  /\ IF Accepts(a, n) THEN Resolving(next) ELSE InputFails("budget")

(* Fault: the input is entered without a checkpoint.                       *)
EnterUnchecked ==
  /\ phase = "enter"
  /\ ChargeInput("nesting_depth", input.depth, "open")
  /\ UNCHANGED <<collector, stream, control, request, input, detected, batch, startedLate>>

Enter ==
  /\ phase = "enter"
  /\ IF Stopped
     THEN InputFails(Interruption) /\ UNCHANGED usage
     ELSE ChargeInput("nesting_depth", input.depth, "open")
  /\ UNCHANGED <<collector, stream, control, request, input, detected, batch, startedLate>>

OpenMember ==
  /\ phase = "open" /\ input.depth < MaxNesting
  /\ input' = [input EXCEPT !.depth = @ + 1]
  /\ Resolving("enter")
  /\ UNCHANGED <<collector, stream, control, usage, request, detected, batch, startedLate>>

(* Bytes and text arrive whole.                                            *)
OpenWhole ==
  /\ phase = "open"
  /\ \E kind \in {"bytes", "text"}, n \in ChunkSizes :
       /\ input' = [input EXCEPT !.kind = kind, !.held = n]
       /\ ChargeInput("input_bytes", n, IF kind = "text" THEN "characters" ELSE "memory")
  /\ UNCHANGED <<collector, stream, control, request, detected, batch, startedLate>>

CountCharacters ==
  /\ phase = "characters"
  /\ ChargeInput("decoded_characters", input.held, "memory")
  /\ UNCHANGED <<collector, stream, control, request, input, detected, batch, startedLate>>

(* A file or reader is opened, rewound if it can be; both may fail.        *)
OpenReader ==
  /\ phase = "open"
  /\ input' = [input EXCEPT !.kind = "reader"]
  /\ Resolving("read") \/ InputFails("other")
  /\ UNCHANGED <<collector, stream, control, usage, request, detected, batch, startedLate>>

(* read_controlled: a checkpoint, then the end, an error or a chunk.       *)
ReadChunk ==
  /\ phase = "read"
  /\ IF Stopped
     THEN InputFails(Interruption) /\ UNCHANGED <<usage, input>>
     ELSE \/ Resolving("detect") /\ UNCHANGED <<usage, input>>
          \/ InputFails("other") /\ UNCHANGED <<usage, input>>
          \/ \E n \in ChunkSizes :
               /\ input' = [input EXCEPT !.held = @ + n]
               /\ ChargeInput("input_bytes", n, "memory")
  /\ UNCHANGED <<collector, stream, control, request, detected, batch, startedLate>>

ObserveMemory ==
  /\ phase = "memory"
  /\ ChargeInput("memory_bytes", input.held,
                 IF input.kind = "reader" THEN "read" ELSE "detect")
  /\ UNCHANGED <<collector, stream, control, request, input, detected, batch, startedLate>>

-----------------------------------------------------------------------------
(* Detection and dispatch.                                                 *)

Keep == UNCHANGED <<collector, stream, control, request, input, batch, startedLate>>

(* An envelope without payload leaves the registry.                        *)
Dispatched(status, reason) ==
  /\ envelope' = TerminalEnvelope(status, reason)
  /\ phase' = "finish"
  /\ Witness(reason)

(* detect_source may add diagnostics of its own.                           *)
Select ==
  /\ phase = "detect"
  /\ detected' \in {{}, {"other"}, {"lossy"}}
  /\ phase' = "dispatch"
  /\ UNCHANGED <<usage, envelope, interrupted>> /\ Keep

(* detection_terminal: nothing to dispatch to; its envelope is charged.    *)
DetectionTerminal ==
  /\ phase = "detect"
  /\ \E status \in {"ambiguous", "unsupported"}, n \in OutputSizes :
       /\ Charge("output_bytes", n)
       /\ envelope' = IF Accepts("output_bytes", n)
                      THEN Envelope(status, {"other"}, FALSE, n)
                      ELSE TerminalEnvelope("failed", "budget")
  /\ phase' = "emit"
  /\ UNCHANGED <<detected, interrupted>> /\ Keep

ProviderMissing ==
  /\ phase = "dispatch"
  /\ Dispatched("unsupported", "other")
  /\ UNCHANGED <<usage, detected>> /\ Keep

RunParser ==
  /\ phase = "dispatch"
  /\ IF Stopped
     THEN Dispatched(StatusOf(Interruption), Interruption)
     ELSE phase' = "parse" /\ UNCHANGED <<envelope, interrupted>>
  /\ UNCHANGED <<usage, detected>> /\ Keep

(* The parser hands its output to the registry.                            *)
Returns(output) ==
  /\ envelope' = output
  /\ phase' = "output"

(* A parser told to stop reports an error, or an output that names the     *)
(* reason; the registry calls every error of a parser a failure.           *)
ParserStops(reason) ==
  /\ \/ Dispatched("failed", reason)
     \/ /\ \E payload \in BOOLEAN : Returns(Envelope("partial", {reason}, payload, 0))
        /\ Witness(reason)
     \/ Returns(TerminalEnvelope(StatusOf(reason), reason)) /\ Witness(reason)
  /\ UNCHANGED detected

ParserCheckpoints ==
  /\ phase = "parse"
  /\ IF Stopped
     THEN ParserStops(Interruption)
     ELSE phase' = "unit" /\ UNCHANGED <<envelope, detected, interrupted>>
  /\ UNCHANGED usage /\ Keep

ParserCharges ==
  /\ phase = "unit"
  /\ Charge("nodes", 1)
  /\ IF Accepts("nodes", 1)
     THEN phase' = "parse" /\ UNCHANGED <<envelope, detected, interrupted>>
     ELSE ParserStops("budget")
  /\ Keep

(* Outputs of a parser; two break the payload rules.                       *)
Outputs ==
  {Envelope("complete", {}, TRUE, 0), Envelope("partial", {"other"}, TRUE, 0),
   Envelope("failed", {"other"}, FALSE, 0)}
    \cup IF ParsersKeepRules THEN {}
         ELSE {Envelope("complete", {}, FALSE, 0), Envelope("failed", {"other"}, TRUE, 0)}

ParserReturns ==
  /\ phase = "parse"
  /\ \E output \in Outputs : Returns(output)
  /\ UNCHANGED <<usage, detected, interrupted>> /\ Keep

(* An error of the parser's own, or a panic.                               *)
ParserFails ==
  /\ phase = "parse"
  /\ Dispatched("failed", "other")
  /\ UNCHANGED <<usage, detected>> /\ Keep

PayloadAllowed ==
  /\ envelope.status = "complete" => envelope.payload
  /\ envelope.payload => PermitsPayload(envelope.status)

(* finish_output: provider metadata, payload rules and a last checkpoint.  *)
FinishOutput ==
  /\ phase = "output"
  /\ \/ ~ ParsersKeepRules /\ Dispatched("failed", "other")
     \/ ~ PayloadAllowed /\ Dispatched("failed", "other")
     \/ /\ PayloadAllowed
        /\ IF Stopped
           THEN Dispatched(StatusOf(Interruption), Interruption)
           ELSE phase' = "charge" /\ UNCHANGED <<envelope, interrupted>>
  /\ UNCHANGED <<usage, detected>> /\ Keep

(* enforce_output_budget: the serialized envelope is charged.              *)
EnforceOutputBudget ==
  /\ phase = "charge"
  /\ \E n \in OutputSizes :
       /\ Charge("output_bytes", n)
       /\ envelope' = IF Accepts("output_bytes", n)
                      THEN [envelope EXCEPT !.bytes = n]
                      ELSE TerminalEnvelope("failed", "budget")
  /\ phase' = "finish"
  /\ UNCHANGED <<detected, interrupted>> /\ Keep

(* The parser's metadata breaks an envelope invariant: ingestion itself    *)
(* returns an error.                                                       *)
InvalidMetadata ==
  /\ phase = "charge" /\ ~ ParsersKeepRules
  /\ phase' = "error"
  /\ UNCHANGED <<usage, envelope, detected, interrupted>> /\ Keep

(* finish_detected: the detection's diagnostics join the parser's. A       *)
(* cancellation among them decides the status, and a partial one makes a   *)
(* complete envelope partial (with_diagnostics).                           *)
Normalized ==
  LET diagnostics == detected \cup envelope.diagnostics
  IN  IF "cancelled" \in diagnostics
      THEN Envelope("cancelled", diagnostics, FALSE, envelope.bytes)
      ELSE [envelope EXCEPT
              !.diagnostics = diagnostics,
              !.status = IF @ = "complete" /\ diagnostics \cap PartialDiagnostics # {}
                         THEN "partial" ELSE @]

(* Fault: what the ingestor adds is not charged.                           *)
FinishDetectedUncharged ==
  /\ phase = "finish"
  /\ \E n \in Growth : envelope' = [Normalized EXCEPT !.bytes = @ + n]
  /\ phase' = "emit"
  /\ UNCHANGED <<usage, detected, interrupted>> /\ Keep

(* What the ingestor adds to the envelope is charged as well.              *)
FinishDetected ==
  /\ phase = "finish"
  /\ \E n \in Growth :
       /\ Charge("output_bytes", n)
       /\ envelope' = IF n = 0 \/ Accepts("output_bytes", n)
                      THEN [Normalized EXCEPT !.bytes = @ + n]
                      ELSE TerminalEnvelope("failed", "budget")
  /\ phase' = "emit"
  /\ UNCHANGED <<detected, interrupted>> /\ Keep

-----------------------------------------------------------------------------
(* next() hands over the item or the error.                                *)

(* The locals of the call die with it.                                     *)
CallReturns ==
  /\ phase' = "idle"
  /\ request' = 0 /\ input' = NoInput /\ envelope' = NoEnvelope /\ detected' = {}

ClosesStream == envelope.status = "cancelled" \/ "budget" \in envelope.diagnostics

(* Fault: the items before the last are counted.                           *)
TerminalAfterUncounted ==
  IF ClosesStream
  THEN <<StreamTerminal(IF envelope.status = "cancelled" THEN "cancelled" ELSE "partial",
                        sequence, "budget" \in envelope.diagnostics)>>
  ELSE <<>>

(* terminal_after: an item has been emitted, so a budget hit is partial.   *)
TerminalAfter ==
  IF ClosesStream
  THEN <<StreamTerminal(IF envelope.status = "cancelled" THEN "cancelled" ELSE "partial",
                        sequence + 1, "budget" \in envelope.diagnostics)>>
  ELSE <<>>

EmitItem ==
  /\ phase = "emit"
  /\ Receive(Item(request, sequence, envelope))
  /\ sequence' = sequence + 1
  /\ pending' = TerminalAfter
  /\ CallReturns
  /\ UNCHANGED <<requests, finished, control, usage, history>>

EmitError ==
  /\ phase = "error"
  /\ Receive(StreamTerminal("failed", sequence, FALSE))
  /\ finished' = TRUE
  /\ CallReturns
  /\ UNCHANGED <<requests, sequence, pending, control, usage, history>>

Pull == PullAfterEnd \/ PullPending \/ PullComplete \/ Begin

Resolve ==
  \/ Enter \/ OpenMember \/ OpenWhole \/ CountCharacters \/ OpenReader
  \/ ReadChunk \/ ObserveMemory

Parse ==
  \/ Select \/ DetectionTerminal \/ ProviderMissing \/ RunParser
  \/ ParserCheckpoints \/ ParserCharges \/ ParserReturns \/ ParserFails
  \/ FinishOutput \/ EnforceOutputBudget \/ InvalidMetadata \/ FinishDetected

Work == Open \/ Pull \/ Resolve \/ Parse \/ EmitItem \/ EmitError

Next == Work \/ Cancel \/ Deadline

(* The consumer keeps pulling and code that can go on does; nothing is     *)
(* assumed of the caller's cancellation or of the clock.                   *)
Spec == Init /\ [][Next]_vars /\ WF_vars(Work)

-----------------------------------------------------------------------------
Requests == UNION {{b[i] : i \in 1..Len(b)} : b \in Batches}

MaxSequence == CHOOSE n \in {Len(b) : b \in Batches} : \A b \in Batches : Len(b) <= n

Emitted == 1..Len(items)

(* Whatever parsers return and wherever a request stops, the collector     *)
(* accepts the stream; its items answer the requests one by one in caller  *)
(* order, each with a payload its status allows, and a complete batch has  *)
(* answered all of them.                                                   *)
BatchAnswersInOrder ==
  /\ outcome \notin Errors
  /\ \A i \in Emitted :
       /\ items[i].request = batch[i]
       /\ items[i].envelope.status = "complete" => items[i].envelope.payload
       /\ items[i].envelope.payload => items[i].envelope.status \in {"complete", "partial"}
  /\ (outcome = "collected" /\ ending[1].status = "complete") => Len(items) = Len(batch)

Limited(item) ==
  item.envelope.status = "cancelled" \/ "budget" \in item.envelope.diagnostics

(* An item that hit a budget or the cancellation is the last one, and the  *)
(* terminal says why the stream ended.                                     *)
LimitClosesStream ==
  /\ \A i \in Emitted : Limited(items[i]) => i = Len(items)
  /\ ending # <<>> =>
       /\ ending[1].status = "cancelled" <=>
            \E i \in Emitted : items[i].envelope.status = "cancelled"
       /\ ending[1].status = "complete" => \A i \in Emitted : ~ Limited(items[i])

Paid(e) == IF e.payload THEN e.bytes ELSE 0

PayloadBytes(handed) ==
  LET sum[n \in 0..Len(handed)] ==
        IF n = 0 THEN 0 ELSE sum[n - 1] + Paid(handed[n].envelope)
  IN  sum[Len(handed)]

(* The payloads handed over fit the output budget of the batch together.   *)
OutputWithinBudget ==
  "output_bytes" \in DOMAIN Limit => PayloadBytes(items) <= Limit["output_bytes"]

(* A request begun after the cancellation or the deadline reaches no       *)
(* parser, yields an item that says so, and closes the stream.             *)
StoppedControlStartsNothing ==
  /\ Cardinality(startedLate) <= 1
  /\ phase \in {"parse", "unit", "output", "charge"} => request \notin startedLate
  /\ \A i \in Emitted :
       items[i].request \in startedLate => ~ items[i].envelope.payload /\ Limited(items[i])

(* A limit, the deadline or a cancellation ends the work and the stream at *)
(* once, and the consumer is told why.                                     *)
StopsAreFinal == LimitClosesStream /\ StoppedControlStartsNothing

(* The batch ends, whatever is read from endless streams and whatever      *)
(* parsers do, because both are charged.                                   *)
Termination == <>(phase = "refused" \/ outcome # "collecting")

(* The producer's side of the protocol.                                    *)
producer == INSTANCE EventStream WITH events <- received, closed <- outcome # "collecting"

ImplementsEventStream == producer!Spec

(* A cancellation that a checkpoint reported is the status of the item.    *)
CancellationIsReported ==
  \A i \in Emitted : items[i].request \in interrupted => items[i].envelope.status = "cancelled"

IngestItems ==
  [event : {"item"}, sequence : 0..(MaxSequence - 1), request : Requests,
   envelope : [status : Statuses, diagnostics : SUBSET Diagnostics, payload : BOOLEAN,
               bytes : {0} \cup OutputSizes \cup {n + g : n \in {0} \cup OutputSizes, g \in Growth}]]

IngestTerminals ==
  [event : {"terminal"}, status : {"complete", "partial", "failed", "cancelled"},
   emitted_items : 0..MaxSequence, partial : BOOLEAN]
=============================================================================
