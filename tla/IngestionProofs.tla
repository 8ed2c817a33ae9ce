-------------------------- MODULE IngestionProofs --------------------------
(***************************************************************************)
(* A batch answers its requests in order, stops when it must, keeps its    *)
(* output budget and the protocol of events, whatever inputs, parsers and  *)
(* limits there are; the collector alone accepts exactly the streams that  *)
(* follow the protocol, whoever produces them; and the registries that its *)
(* dispatch asks select one parser for a name.                             *)
(***************************************************************************)
EXTENDS Ingestion, Registries, FiniteSetTheorems, SequenceTheorems, WellFoundedInduction,
        TLAPS

-----------------------------------------------------------------------------
(* Numbers and sums.                                                       *)

(* Every set of numbers that is not empty has a least element: induction   *)
(* over data is argued from it.                                            *)
LEMMA LeastNumber ==
  ASSUME NEW T \in SUBSET Nat, T # {}
  PROVE  \E n \in T : \A m \in T : n <= m
<1> DEFINE R == {ss \in Nat \X Nat : ss[1] < ss[2]}
<1>1. IsWellFoundedOn(R, Nat)
  BY NatLessThanWellFounded DEF OpToRel
<1>2. PICK x \in T : \A y \in T : ~(<<y, x>> \in R)
  <2> HIDE DEF R
  <2> QED BY <1>1, WFMin
<1>3. ASSUME NEW y \in T PROVE x <= y
  <2>1. x \in Nat /\ y \in Nat
    OBVIOUS
  <2>2. ~(y < x)
    BY <1>2, <2>1
  <2> QED BY <2>1, <2>2
<1> QED BY <1>3

LEMMA SetInduction ==
  ASSUME NEW T \in SUBSET Nat, 0 \in T, \A n \in T : n + 1 \in T
  PROVE  T = Nat
<1> SUFFICES ASSUME T # Nat PROVE FALSE
  OBVIOUS
<1>1. PICK n \in Nat \ T : \A m \in Nat \ T : n <= m
  BY LeastNumber
<1>2. n # 0 /\ n - 1 \in Nat
  OBVIOUS
<1>3. n - 1 \in T
  BY <1>1, <1>2
<1> QED BY <1>2, <1>3

Sums(f, s) ==
  f = [n \in 0..Len(s) |-> IF n = 0 THEN 0 ELSE f[n - 1] + Paid(s[n].envelope)]

(* PayloadBytes is a recursive function; it is what its recursion says.    *)
LEMMA SumExists ==
  ASSUME NEW s, Len(s) \in Nat
  PROVE  \E f : Sums(f, s) /\ PayloadBytes(s) = f[Len(s)]
<1> DEFINE G(f, n) == [i \in 0..n |-> IF i = 0 THEN 0 ELSE f[i - 1] + Paid(s[i].envelope)]
           T == {n \in Nat : \E f : f = G(f, n)}
<1>1. 0 \in T
  <2> DEFINE z == [i \in 0..0 |-> 0]
  <2>1. z = G(z, 0)
    OBVIOUS
  <2>2. \E f : f = G(f, 0)
    <3> HIDE DEF G, z
    <3> QED BY <2>1
  <2> HIDE DEF G
  <2> QED BY <2>2
<1>2. ASSUME NEW n \in T PROVE n + 1 \in T
  <2>1. PICK f : f = G(f, n)
    OBVIOUS
  <2> DEFINE e(i) == IF i = 0 THEN 0 ELSE f[i - 1] + Paid(s[i].envelope)
             h == [i \in 0..n + 1 |-> e(i)]
  <2>2. n \in Nat /\ f = [i \in 0..n |-> e(i)]
    BY <2>1
  <2>3. \A i \in 0..n : f[i] = e(i)
    <3> HIDE DEF e
    <3> QED BY <2>2
  <2>4. \A i \in 0..n : h[i] = f[i]
    <3> HIDE DEF e
    <3> QED BY <2>2, <2>3
  <2>5. \A i \in 0..n + 1 : i # 0 => i - 1 \in 0..n
    BY <2>2
  <2>6. \A i \in 0..n + 1 : e(i) = IF i = 0 THEN 0 ELSE h[i - 1] + Paid(s[i].envelope)
    <3> HIDE DEF h
    <3> QED BY <2>4, <2>5
  <2>7. h = G(h, n + 1)
    <3> HIDE DEF e
    <3> QED BY <2>6
  <2>8. \E g : g = G(g, n + 1)
    <3> HIDE DEF G, h
    <3> QED BY <2>7
  <2>9. n + 1 \in Nat
    BY <2>2
  <2> HIDE DEF G, h
  <2> QED BY <2>8, <2>9
<1>3. T = Nat
  <2>1. T \in SUBSET Nat
    OBVIOUS
  <2> HIDE DEF T
  <2> QED BY <1>1, <1>2, <2>1, SetInduction
<1>4. \E f : f = G(f, Len(s))
  <2> HIDE DEF G
  <2> QED BY <1>3
<1> DEFINE c == CHOOSE f : f = G(f, Len(s))
<1>5. c = G(c, Len(s))
  <2> HIDE DEF G
  <2> QED BY <1>4
<1>6. PayloadBytes(s) = c[Len(s)]
  BY DEF PayloadBytes
<1> QED BY <1>5, <1>6 DEF Sums

-----------------------------------------------------------------------------
(* What the types are.                                                     *)

Envelopes == [status : Statuses, diagnostics : SUBSET Diagnostics,
              payload : BOOLEAN, bytes : Nat]

Replies == [event : {"item"}, sequence : Nat, request : Nat, envelope : Envelopes]

Endings == [event : {"terminal"}, status : {"complete", "partial", "failed", "cancelled"},
            emitted_items : Nat, partial : BOOLEAN]

Inside == {"enter", "open", "characters", "read", "memory", "detect", "dispatch",
           "parse", "unit", "output", "charge", "finish", "emit", "error"}

TypeOK ==
  /\ items \in Seq(Replies)
  /\ \E t \in Endings : ending \in {<<>>, <<t>>}
  /\ \E t \in Endings : pending \in {<<>>, <<t>>}
  /\ batch \in Seq(Nat) /\ sequence \in Nat /\ finished \in BOOLEAN
  /\ cancelled \in BOOLEAN /\ late \in BOOLEAN
  /\ phase \in Inside \cup {"submitted", "refused", "idle"}
  /\ request \in Nat

(* The locals of a call, and the budget tree.                              *)
CallTypeOK ==
  /\ usage \in [Axes -> Nat]
  /\ envelope \in Envelopes /\ detected \in SUBSET Diagnostics
  /\ input \in [kind : {"none", "bytes", "text", "reader"}, depth : Nat, held : Nat]

-----------------------------------------------------------------------------
(* The invariant.                                                          *)

Begun == sequence + IF phase \in Inside THEN 1 ELSE 0

(* The items answer the first requests, the one under way is the next.     *)
PositionInv ==
  /\ Len(items) = sequence
  /\ \A i \in 1..Len(items) : items[i].sequence = i - 1 /\ items[i].request = batch[i]
  /\ Begun <= Len(batch)
  /\ ~ finished => requests = SubSeq(batch, Begun + 1, Len(batch))
  /\ phase \in Inside => request = batch[Begun]
  /\ IF phase \in {"submitted", "refused"} THEN sequence = 0 ELSE Distinct(batch)

AnyLimited == \E i \in Emitted : Limited(items[i])

(* What a terminal says is so.                                             *)
Tells(t) ==
  /\ t.emitted_items = sequence
  /\ t.status = "complete" => ~ t.partial /\ Len(items) = Len(batch) /\ ~ AnyLimited
  /\ t.status = "cancelled" <=> \E i \in Emitted : items[i].envelope.status = "cancelled"

ProtocolInv ==
  /\ outcome \in {"collecting", "collected"} /\ (outcome = "collected" => finished)
  /\ finished <=> ending # <<>>
  /\ received = items \o ending
  /\ finished \/ pending # <<>> => phase = "idle"
  /\ finished => pending = <<>>
  /\ pending # <<>> => Tells(pending[1])
  /\ ending # <<>> => Tells(ending[1])
  /\ AnyLimited => finished \/ pending # <<>>
  /\ \A i \in Emitted : Limited(items[i]) => i = Len(items)

PayloadRules(e) ==
  /\ e.status = "complete" => e.payload
  /\ e.payload => PermitsPayload(e.status)

RulesInv ==
  /\ \A i \in Emitted : PayloadRules(items[i].envelope)
  /\ phase \in {"charge", "finish", "emit"} => PayloadRules(envelope)

Due == PayloadBytes(items) + Paid(envelope)

(* The payload under way is charged like those handed over.                *)
BudgetInv ==
  /\ Due <= usage["output_bytes"]
  /\ "output_bytes" \in DOMAIN Limit => Due <= Limit["output_bytes"]

Refuses(e) == ~ e.payload /\ (e.status = "cancelled" \/ "budget" \in e.diagnostics)

(* A request begun late goes from its first checkpoint to its item, and    *)
(* its item closes the stream.                                             *)
LateInv ==
  \/ startedLate = {}
  \/ /\ phase \in Inside /\ startedLate = {request}
     /\ Stopped
     /\ phase = "enter" \/ (phase = "emit" /\ Refuses(envelope))
  \/ /\ finished \/ pending # <<>>
     /\ items # <<>> /\ startedLate = {batch[Len(items)]}
     /\ Refuses(items[Len(items)].envelope)

IngestInv ==
  TypeOK /\ CallTypeOK /\ PositionInv /\ ProtocolInv /\ RulesInv /\ BudgetInv /\ LateInv

LEMMA PaidType ==
  ASSUME NEW e \in Envelopes
  PROVE  Paid(e) \in Nat
  BY DEF Paid, Envelopes

LEMMA SumsGrow ==
  ASSUME NEW s \in Seq(Replies), NEW f, Sums(f, s)
  PROVE  \A n \in 0..Len(s) : f[n] \in Nat
<1>1. \A n \in 0..Len(s) : f[n] = IF n = 0 THEN 0 ELSE f[n - 1] + Paid(s[n].envelope)
  BY DEF Sums
<1>2. \A n \in 1..Len(s) : Paid(s[n].envelope) \in Nat
  <2> SUFFICES ASSUME NEW n \in 1..Len(s) PROVE Paid(s[n].envelope) \in Nat
    OBVIOUS
  <2>1. s[n] \in Replies
    OBVIOUS
  <2>2. s[n].envelope \in Envelopes
    BY <2>1 DEF Replies
  <2> QED BY <2>2, PaidType
<1> DEFINE T == {n \in Nat : n \in 0..Len(s) => f[n] \in Nat}
<1>3. 0 \in T
  BY <1>1
<1>4. ASSUME NEW n \in T PROVE n + 1 \in T
  <2> SUFFICES ASSUME n + 1 \in 0..Len(s) PROVE f[n + 1] \in Nat
    OBVIOUS
  <2>1. n \in Nat /\ Len(s) \in Nat
    OBVIOUS
  <2>2. n \in 0..Len(s) /\ n + 1 \in 1..Len(s) /\ n + 1 # 0 /\ (n + 1) - 1 = n
    BY <2>1
  <2>3. f[n] \in Nat
    BY <2>2
  <2> HIDE DEF T
  <2>4. f[n + 1] = f[n] + Paid(s[n + 1].envelope)
    BY <1>1, <2>2
  <2> QED BY <1>2, <2>2, <2>3, <2>4
<1>5. T = Nat
  <2>1. T \in SUBSET Nat
    OBVIOUS
  <2> HIDE DEF T
  <2> QED BY <1>3, <1>4, <2>1, SetInduction
<1> QED BY <1>5

(* One item more adds what is paid for it.                                 *)
LEMMA PayloadOfAppend ==
  ASSUME NEW s \in Seq(Replies), NEW e \in Replies
  PROVE  /\ PayloadBytes(s) \in Nat
         /\ PayloadBytes(Append(s, e)) = PayloadBytes(s) + Paid(e.envelope)
<1> DEFINE t == Append(s, e)
<1>1. t \in Seq(Replies) /\ Len(t) = Len(s) + 1 /\ Len(s) \in Nat /\ t[Len(s) + 1] = e
      /\ \A n \in 1..Len(s) : t[n] = s[n]
  OBVIOUS
<1> HIDE DEF t
<1>2. PICK f : Sums(f, s) /\ PayloadBytes(s) = f[Len(s)]
  BY <1>1, SumExists
<1>3. PICK g : Sums(g, t) /\ PayloadBytes(t) = g[Len(t)]
  BY <1>1, SumExists
<1>4. \A n \in 0..Len(s) : f[n] = IF n = 0 THEN 0 ELSE f[n - 1] + Paid(s[n].envelope)
  BY <1>2 DEF Sums
<1>5. \A n \in 0..Len(s) + 1 : g[n] = IF n = 0 THEN 0 ELSE g[n - 1] + Paid(t[n].envelope)
  BY <1>1, <1>3 DEF Sums
<1> DEFINE T == {n \in Nat : n \in 0..Len(s) => f[n] = g[n]}
<1>6. 0 \in T
  BY <1>1, <1>4, <1>5
<1>7. ASSUME NEW n \in T PROVE n + 1 \in T
  <2> SUFFICES ASSUME n + 1 \in 0..Len(s) PROVE f[n + 1] = g[n + 1]
    OBVIOUS
  <2>1. /\ n \in 0..Len(s) /\ n + 1 \in 1..Len(s) /\ n + 1 \in 0..Len(s) + 1
        /\ n + 1 # 0 /\ (n + 1) - 1 = n
    BY <1>1
  <2>2. f[n] = g[n]
    BY <2>1
  <2> HIDE DEF T
  <2>3. f[n + 1] = f[n] + Paid(s[n + 1].envelope)
    BY <1>4, <2>1
  <2>4. g[n + 1] = g[n] + Paid(t[n + 1].envelope)
    BY <1>5, <2>1
  <2> QED BY <1>1, <2>1, <2>2, <2>3, <2>4
<1>8. T = Nat
  <2>1. T \in SUBSET Nat
    OBVIOUS
  <2> HIDE DEF T
  <2> QED BY <1>6, <1>7, <2>1, SetInduction
<1>9. f[Len(s)] = g[Len(s)]
  BY <1>1, <1>8
<1>10. g[Len(s) + 1] = g[Len(s)] + Paid(e.envelope)
  <2>1. Len(s) + 1 \in 0..Len(s) + 1 /\ Len(s) + 1 # 0 /\ (Len(s) + 1) - 1 = Len(s)
    BY <1>1
  <2> QED BY <1>1, <1>5, <2>1
<1>11. f[Len(s)] \in Nat
  BY <1>1, <1>2, SumsGrow
<1> QED BY <1>1, <1>2, <1>3, <1>9, <1>10, <1>11 DEF t

LEMMA PayloadOfNone == PayloadBytes(<<>>) = 0
<1>1. Len(<<>>) = 0
  OBVIOUS
<1>2. PICK f : Sums(f, <<>>) /\ PayloadBytes(<<>>) = f[Len(<<>>)]
  BY <1>1, SumExists
<1> QED BY <1>1, <1>2 DEF Sums

-----------------------------------------------------------------------------
LEMMA StartsRight == Init => IngestInv
<1> SUFFICES ASSUME Init PROVE IngestInv
  OBVIOUS
<1>1. batch \in Seq(Nat)
  BY IngestionAssumption DEF Init
<1>2. phase \notin Inside /\ items = <<>> /\ ending = <<>> /\ Len(items) = 0 /\ Emitted = {}
  BY DEF Init, CollectorInit, Inside, Emitted
<1>3. TypeOK
  <2>1. [event |-> "terminal", status |-> "failed", emitted_items |-> 0, partial |-> FALSE] \in Endings
    BY DEF Endings
  <2>2. batch \in Seq(Nat) /\ items = <<>> /\ ending = <<>> /\ pending = <<>>
        /\ sequence = 0 /\ finished = FALSE /\ cancelled = FALSE /\ late = FALSE
        /\ phase = "submitted" /\ request = 0
    BY <1>1 DEF Init, CollectorInit
  <2>3. items \in Seq(Replies)
    BY <2>2
  <2>4. \E t \in Endings : ending \in {<<>>, <<t>>} /\ pending \in {<<>>, <<t>>}
    BY <2>1, <2>2
  <2> QED BY <2>2, <2>3, <2>4 DEF TypeOK
<1>4. CallTypeOK
  BY DEF Init, CallTypeOK, NoEnvelope, Envelope, Envelopes, Statuses, NoInput
<1>5. PositionInv
  <2>1. Begun = 0
    BY <1>2 DEF Begun, Init
  <2>2. SubSeq(batch, 1, Len(batch)) = batch
    BY <1>1
  <2> QED BY <1>1, <1>2, <2>1, <2>2 DEF Init, PositionInv
<1>6. ProtocolInv
  <2>1. received = items \o ending
    BY <1>2 DEF Init, CollectorInit
  <2> QED BY <1>2, <2>1 DEF Init, CollectorInit, ProtocolInv, AnyLimited
<1>7. RulesInv
  BY <1>2 DEF Init, RulesInv
<1>8. BudgetInv
  <2>1. Due = 0
    BY <1>2, PayloadOfNone DEF Init, Due, Paid, NoEnvelope, Envelope
  <2> QED BY <2>1, IngestionAssumption DEF Init, BudgetInv, Axes, SumAxes
<1>9. LateInv
  BY DEF Init, LateInv
<1> QED BY <1>3, <1>4, <1>5, <1>6, <1>7, <1>8, <1>9 DEF IngestInv

-----------------------------------------------------------------------------
(* Steps of the request under way.                                         *)

LEMMA PayloadType ==
  ASSUME NEW s \in Seq(Replies)
  PROVE  PayloadBytes(s) \in Nat
<1>1. Len(s) \in Nat /\ Len(s) \in 0..Len(s)
  OBVIOUS
<1>2. PICK f : Sums(f, s) /\ PayloadBytes(s) = f[Len(s)]
  BY <1>1, SumExists
<1> QED BY <1>1, <1>2, SumsGrow

Quiet == UNCHANGED <<collector, stream, control, request, batch, startedLate>>

LEMMA QuietKeeps ==
  ASSUME IngestInv, Quiet, phase \in Inside, phase' \in Inside
  PROVE  TypeOK' /\ PositionInv' /\ ProtocolInv'
<1>1. /\ items' = items /\ ending' = ending /\ outcome' = outcome /\ received' = received
      /\ requests' = requests /\ sequence' = sequence /\ pending' = pending
      /\ finished' = finished /\ cancelled' = cancelled /\ late' = late
      /\ request' = request /\ batch' = batch
  BY DEF Quiet, collector, stream, control
<1>2. TypeOK'
  BY <1>1 DEF IngestInv, TypeOK
<1>3. Begun' = Begun
  BY <1>1 DEF Begun
<1>4. phase \notin {"submitted", "refused", "idle"} /\ phase' \notin {"submitted", "refused", "idle"}
  BY DEF Inside
<1>5. PositionInv'
  BY <1>1, <1>3, <1>4 DEF IngestInv, PositionInv, Distinct
<1>6. AnyLimited' = AnyLimited /\ Emitted' = Emitted
      /\ \A t : Tells(t)' = Tells(t)
  BY <1>1 DEF AnyLimited, Emitted, Tells
<1>7. ~ finished /\ pending = <<>> /\ ending = <<>>
  BY <1>4 DEF IngestInv, ProtocolInv
<1>8. ProtocolInv'
  BY <1>1, <1>6, <1>7 DEF IngestInv, ProtocolInv
<1> QED BY <1>2, <1>5, <1>8

LEMMA Charged ==
  ASSUME CallTypeOK, NEW a \in Axes, NEW n \in Nat, Charge(a, n)
  PROVE  /\ usage' \in [Axes -> Nat]
         /\ usage'["output_bytes"] >= usage["output_bytes"]
         /\ a = "output_bytes" => usage'["output_bytes"] = usage["output_bytes"] + n
         /\ a = "output_bytes" /\ Accepts(a, n) /\ a \in DOMAIN Limit =>
              usage'["output_bytes"] <= Limit["output_bytes"]
<1>1. usage \in [Axes -> Nat] /\ "output_bytes" \in SumAxes /\ "output_bytes" \in Axes
  BY DEF CallTypeOK, Axes, SumAxes
<1>2. Used(a, n) \in Nat /\ Used(a, n) >= usage[a]
  BY <1>1 DEF Used
<1>3. usage' = [usage EXCEPT ![a] = Used(a, n)]
  BY DEF Charge
<1>4. a = "output_bytes" => Used(a, n) = usage[a] + n
  BY <1>1 DEF Used
<1> QED BY <1>1, <1>2, <1>3, <1>4 DEF Accepts

(* A step after which no more is due than before keeps the budget.         *)
LEMMA NothingMoreDue ==
  ASSUME IngestInv, items' = items, usage'["output_bytes"] >= usage["output_bytes"],
         CallTypeOK', Paid(envelope)' <= Paid(envelope)
  PROVE  BudgetInv'
<1>1. PayloadBytes(items) \in Nat
  BY PayloadType DEF IngestInv, TypeOK
<1>2. Paid(envelope) \in Nat /\ Paid(envelope)' \in Nat
  BY PaidType DEF IngestInv, CallTypeOK
<1>3. Due = PayloadBytes(items) + Paid(envelope) /\ Due' = PayloadBytes(items) + Paid(envelope)'
  BY DEF Due
<1>4. usage["output_bytes"] \in Nat /\ usage'["output_bytes"] \in Nat
  BY DEF IngestInv, CallTypeOK, Axes, SumAxes
<1>5. "output_bytes" \in DOMAIN Limit => Limit["output_bytes"] \in Nat
  BY IngestionAssumption
<1> QED BY <1>1, <1>2, <1>3, <1>4, <1>5 DEF IngestInv, BudgetInv

LEMMA TerminalEnvelopeIs ==
  ASSUME NEW status \in Statuses, NEW d \in Diagnostics
  PROVE  /\ TerminalEnvelope(status, d) \in Envelopes
         /\ Paid(TerminalEnvelope(status, d)) = 0
         /\ status # "complete" => PayloadRules(TerminalEnvelope(status, d))
         /\ status = "cancelled" \/ d = "budget" => Refuses(TerminalEnvelope(status, d))
  BY DEF TerminalEnvelope, Envelope, Envelopes, Paid, PayloadRules, Refuses

(* What an inner step owes besides leaving the stream alone.               *)
Effect ==
  /\ phase \in Inside \ {"emit", "error"} /\ phase' \in Inside
  /\ Quiet
  /\ CallTypeOK' /\ BudgetInv'
  /\ phase' \in {"charge", "finish", "emit"} => PayloadRules(envelope')
  /\ phase = "enter" /\ Stopped => phase' = "emit" /\ Refuses(envelope')

LEMMA EffectKeeps ==
  ASSUME IngestInv, Effect
  PROVE  IngestInv'
<1>1. TypeOK' /\ PositionInv' /\ ProtocolInv'
  BY QuietKeeps DEF Effect
<1>2. items' = items /\ request' = request /\ startedLate' = startedLate /\ batch' = batch
      /\ pending' = pending /\ finished' = finished /\ Stopped' = Stopped
  BY DEF Effect, Quiet, collector, stream, control, Stopped
<1>3. RulesInv'
  BY <1>2 DEF IngestInv, RulesInv, Effect, Emitted
<1>4. ~ finished /\ pending = <<>>
  BY DEF IngestInv, ProtocolInv, Effect, Inside
<1>5. LateInv'
  BY <1>2, <1>4 DEF IngestInv, LateInv, Effect
<1> QED BY <1>1, <1>3, <1>5 DEF IngestInv, Effect

Inputs == [kind : {"none", "bytes", "text", "reader"}, depth : Nat, held : Nat]

LEMMA StatusOfIs ==
  ASSUME NEW d \in Diagnostics
  PROVE  /\ StatusOf(d) \in {"cancelled", "failed"}
         /\ StatusOf(d) \in Statuses /\ StatusOf(d) # "complete"
         /\ d \in {"cancelled", "budget"} => StatusOf(d) = "cancelled" \/ d = "budget"
  BY DEF StatusOf, Statuses, Diagnostics

LEMMA InterruptionIs ==
  Interruption \in Diagnostics /\ Interruption \in {"cancelled", "budget"}
  BY DEF Interruption, Diagnostics

LEMMA InputFailsIs ==
  ASSUME NEW d \in Diagnostics, InputFails(d)
  PROVE  /\ envelope' \in Envelopes /\ Paid(envelope)' = 0
         /\ PayloadRules(envelope') /\ phase' = "emit"
         /\ d \in {"cancelled", "budget"} => Refuses(envelope')
<1>1. envelope' = TerminalEnvelope(StatusOf(d), d) /\ phase' = "emit"
  BY DEF InputFails
<1>2. /\ TerminalEnvelope(StatusOf(d), d) \in Envelopes
      /\ Paid(TerminalEnvelope(StatusOf(d), d)) = 0
      /\ PayloadRules(TerminalEnvelope(StatusOf(d), d))
      /\ d \in {"cancelled", "budget"} => Refuses(TerminalEnvelope(StatusOf(d), d))
  BY StatusOfIs, TerminalEnvelopeIs
<1>3. Paid(envelope)' = Paid(envelope')
  OBVIOUS
<1> QED BY <1>1, <1>2, <1>3

LEMMA PaidNow ==
  ASSUME IngestInv
  PROVE  Paid(envelope) \in Nat
  BY PaidType DEF IngestInv, CallTypeOK

(* Where resolving an input may be.                                        *)
Resolutions == {"enter", "open", "characters", "read", "memory"}

(* A step of the resolution that charges nothing.                          *)
LEMMA InputUncharged ==
  ASSUME IngestInv, Quiet, usage' = usage, input' \in Inputs, detected' = detected,
         phase \in Resolutions, ~ (phase = "enter" /\ Stopped),
         NEW next \in Resolutions \cup {"detect"}, NEW d \in Diagnostics,
         Resolving(next) \/ InputFails(d)
  PROVE  Effect
<1>1. items' = items
  BY DEF Quiet, collector
<1>2. /\ envelope' \in Envelopes /\ Paid(envelope)' <= Paid(envelope) /\ phase' \in Inside
      /\ phase' \in {"charge", "finish", "emit"} => PayloadRules(envelope')
  <2>1. CASE Resolving(next)
    <3>1. envelope' = envelope /\ phase' = next
      BY <2>1 DEF Resolving
    <3>2. Paid(envelope)' = Paid(envelope)
      BY <3>1
    <3> QED BY <3>1, <3>2, PaidNow DEF IngestInv, CallTypeOK, Resolutions, Inside
  <2>2. CASE InputFails(d)
    BY <2>2, InputFailsIs, PaidNow DEF Inside
  <2> QED BY <2>1, <2>2
<1>3. CallTypeOK'
  BY <1>2 DEF IngestInv, CallTypeOK, Inputs
<1>4. usage["output_bytes"] \in Nat
  BY DEF IngestInv, CallTypeOK, Axes, SumAxes
<1>5. BudgetInv'
  BY <1>1, <1>2, <1>3, <1>4, NothingMoreDue
<1> QED BY <1>2, <1>3, <1>5 DEF Effect, Resolutions, Inside

(* A step of the resolution that charges.                                  *)
LEMMA InputCharged ==
  ASSUME IngestInv, Quiet, input' \in Inputs, detected' = detected,
         phase \in Resolutions, ~ (phase = "enter" /\ Stopped),
         NEW next \in Resolutions \cup {"detect"}, NEW a \in Axes, NEW n \in Nat,
         ChargeInput(a, n, next)
  PROVE  Effect
<1>1. items' = items
  BY DEF Quiet, collector
<1>2. Charge(a, n) /\ (Resolving(next) \/ InputFails("budget")) /\ "budget" \in Diagnostics
  BY DEF ChargeInput, Diagnostics
<1>3. /\ envelope' \in Envelopes /\ Paid(envelope)' <= Paid(envelope) /\ phase' \in Inside
      /\ phase' \in {"charge", "finish", "emit"} => PayloadRules(envelope')
  <2>1. CASE Resolving(next)
    <3>1. envelope' = envelope /\ phase' = next
      BY <2>1 DEF Resolving
    <3>2. Paid(envelope)' = Paid(envelope)
      BY <3>1
    <3> QED BY <3>1, <3>2, PaidNow DEF IngestInv, CallTypeOK, Resolutions, Inside
  <2>2. CASE InputFails("budget")
    BY <1>2, <2>2, InputFailsIs, PaidNow DEF Inside
  <2> QED BY <1>2, <2>1, <2>2
<1>4. usage' \in [Axes -> Nat] /\ usage'["output_bytes"] >= usage["output_bytes"]
  BY <1>2, Charged DEF IngestInv
<1>5. CallTypeOK'
  BY <1>3, <1>4 DEF IngestInv, CallTypeOK, Inputs
<1>6. BudgetInv'
  BY <1>1, <1>3, <1>4, <1>5, NothingMoreDue
<1> QED BY <1>3, <1>5, <1>6 DEF Effect, Resolutions, Inside

LEMMA ResolveHasEffect ==
  ASSUME IngestInv, Resolve
  PROVE  Effect
<1>1. /\ input \in Inputs /\ input.depth \in Nat /\ input.held \in Nat
      /\ \A k \in {"bytes", "text", "reader"}, n \in Nat, d \in Nat :
           /\ [input EXCEPT !.kind = k, !.held = n] \in Inputs
           /\ [input EXCEPT !.kind = k] \in Inputs
           /\ [input EXCEPT !.held = n] \in Inputs
           /\ [input EXCEPT !.depth = d] \in Inputs
  BY DEF IngestInv, CallTypeOK, Inputs
<1>2. {"nesting_depth", "input_bytes", "decoded_characters", "memory_bytes"} \subseteq Axes
      /\ ChunkSizes \subseteq Nat /\ "other" \in Diagnostics
  BY IngestionAssumption DEF Axes, SumAxes, PeakAxes, Diagnostics
<1>10. input.depth \in Nat /\ input.held \in Nat
  BY DEF IngestInv, CallTypeOK
<1>11. input.depth + 1 \in Nat /\ \A n \in Nat : input.held + n \in Nat
  BY ONLY <1>10
<1>3. CASE Enter
  <2>1. Quiet /\ input' = input /\ detected' = detected /\ phase = "enter"
    BY <1>3 DEF Enter, Quiet
  <2>2. CASE Stopped
    <3>1. InputFails(Interruption) /\ usage' = usage
      BY <1>3, <2>2 DEF Enter
    <3>2. /\ envelope' \in Envelopes /\ Paid(envelope)' = 0 /\ PayloadRules(envelope')
          /\ phase' = "emit" /\ Refuses(envelope')
      BY <3>1, InterruptionIs, InputFailsIs
    <3>3. CallTypeOK' /\ items' = items /\ usage["output_bytes"] \in Nat
      BY <2>1, <3>1, <3>2 DEF IngestInv, CallTypeOK, Quiet, collector, Axes, SumAxes
    <3>4. BudgetInv'
      BY <3>1, <3>2, <3>3, NothingMoreDue, PaidNow
    <3> QED BY <2>1, <3>2, <3>3, <3>4 DEF Effect, Inside
  <2>3. CASE ~ Stopped
    <3>1. ChargeInput("nesting_depth", input.depth, "open")
      BY <1>3, <2>3 DEF Enter
    <3> QED BY <1>1, <1>2, <2>1, <2>3, <3>1, InputCharged DEF Resolutions
  <2> QED BY <2>2, <2>3
<1>4. CASE OpenMember
  <2>1. /\ Quiet /\ usage' = usage /\ detected' = detected /\ phase = "open"
        /\ Resolving("enter") /\ input' = [input EXCEPT !.depth = input.depth + 1]
    BY <1>4 DEF OpenMember, Quiet
  <2>2. input.depth + 1 \in Nat
    BY <1>11
  <2>3. input' \in Inputs
    BY <1>1, <2>1, <2>2
  <2> QED BY <1>2, <2>1, <2>3, InputUncharged DEF Resolutions
<1>5. CASE OpenWhole
  <2>1. PICK kind \in {"bytes", "text"}, n \in ChunkSizes :
          /\ input' = [input EXCEPT !.kind = kind, !.held = n]
          /\ ChargeInput("input_bytes", n, IF kind = "text" THEN "characters" ELSE "memory")
    BY <1>5 DEF OpenWhole
  <2>2. Quiet /\ detected' = detected /\ phase = "open"
    BY <1>5 DEF OpenWhole, Quiet
  <2>3. n \in Nat /\ input' \in Inputs
    BY <1>1, <1>2, <2>1
  <2> QED BY <1>2, <2>1, <2>2, <2>3, InputCharged DEF Resolutions
<1>6. CASE CountCharacters
  BY <1>1, <1>2, <1>6, InputCharged DEF CountCharacters, Quiet, Resolutions
<1>7. CASE OpenReader
  <2>1. /\ Quiet /\ usage' = usage /\ detected' = detected /\ phase = "open"
        /\ Resolving("read") \/ InputFails("other")
    BY <1>7 DEF OpenReader, Quiet
  <2>2. input' = [input EXCEPT !.kind = "reader"]
    BY <1>7 DEF OpenReader
  <2>3. input' \in Inputs
    BY <1>1, <2>2
  <2> QED BY <1>2, <2>1, <2>3, InputUncharged DEF Resolutions
<1>8. CASE ReadChunk
  <2>1. Quiet /\ detected' = detected /\ phase = "read"
    BY <1>8 DEF ReadChunk, Quiet
  <2>2. CASE Stopped
    <3>1. InputFails(Interruption) /\ usage' = usage /\ input' = input
      BY <1>8, <2>2 DEF ReadChunk
    <3> QED BY <1>1, <1>2, <2>1, <3>1, InputUncharged, InterruptionIs DEF Resolutions
  <2>3. ASSUME usage' = usage, input' = input, Resolving("detect") \/ InputFails("other")
        PROVE  Effect
    BY <1>1, <1>2, <2>1, <2>3, InputUncharged DEF Resolutions
  <2>4. ASSUME NEW n \in ChunkSizes, input' = [input EXCEPT !.held = input.held + n],
               ChargeInput("input_bytes", n, "memory")
        PROVE  Effect
    <3>1. n \in Nat /\ input.held + n \in Nat
      BY <1>2, <1>11
    <3>2. input' \in Inputs
      BY <1>1, <2>4, <3>1
    <3> QED BY <1>2, <2>1, <2>4, <3>1, <3>2, InputCharged DEF Resolutions
  <2> QED BY <1>8, <2>2, <2>3, <2>4 DEF ReadChunk
<1>9. CASE ObserveMemory
  <2>1. /\ Quiet /\ input' = input /\ detected' = detected /\ phase = "memory"
        /\ ChargeInput("memory_bytes", input.held,
                       IF input.kind = "reader" THEN "read" ELSE "detect")
    BY <1>9 DEF ObserveMemory, Quiet
  <2> QED BY <1>1, <1>2, <2>1, InputCharged DEF Resolutions
<1> QED BY <1>3, <1>4, <1>5, <1>6, <1>7, <1>8, <1>9 DEF Resolve

LEMMA ParseStep ==
  ASSUME IngestInv, Keep, phase \in Inside \ {"emit", "error", "enter"}, phase' \in Inside,
         detected' \in SUBSET Diagnostics, usage' \in [Axes -> Nat],
         usage'["output_bytes"] >= usage["output_bytes"],
         envelope' \in Envelopes, Paid(envelope)' <= Paid(envelope),
         phase' \in {"charge", "finish", "emit"} => PayloadRules(envelope')
  PROVE  Effect
<1>1. Quiet /\ items' = items /\ input' = input
  BY DEF Keep, Quiet, collector
<1>2. CallTypeOK'
  BY <1>1 DEF IngestInv, CallTypeOK
<1>3. BudgetInv'
  BY <1>1, <1>2, NothingMoreDue
<1> QED BY <1>1, <1>2, <1>3 DEF Effect

(* A step of the parse that charges nothing.                               *)
LEMMA ParseUncharged ==
  ASSUME IngestInv, Keep, phase \in Inside \ {"emit", "error", "enter"}, phase' \in Inside,
         detected' \in SUBSET Diagnostics, usage' = usage,
         envelope' \in Envelopes, Paid(envelope)' <= Paid(envelope),
         phase' \in {"charge", "finish", "emit"} => PayloadRules(envelope')
  PROVE  Effect
<1>1. usage \in [Axes -> Nat] /\ usage["output_bytes"] \in Nat
  BY DEF IngestInv, CallTypeOK, Axes, SumAxes
<1> QED BY <1>1, ParseStep

LEMMA DispatchedIs ==
  ASSUME NEW status \in Statuses \ {"complete"}, NEW d \in Diagnostics, Dispatched(status, d)
  PROVE  envelope' \in Envelopes /\ Paid(envelope)' = 0 /\ PayloadRules(envelope')
         /\ phase' = "finish"
<1>1. envelope' = TerminalEnvelope(status, d) /\ phase' = "finish"
  BY DEF Dispatched
<1>2. Paid(envelope)' = Paid(envelope')
  OBVIOUS
<1> QED BY <1>1, <1>2, TerminalEnvelopeIs

LEMMA ReturnsIs ==
  ASSUME NEW output \in Envelopes, output.bytes = 0, Returns(output)
  PROVE  envelope' \in Envelopes /\ Paid(envelope)' = 0 /\ phase' = "output"
<1>1. envelope' = output /\ phase' = "output"
  BY DEF Returns
<1>2. Paid(envelope)' = Paid(envelope')
  OBVIOUS
<1> QED BY <1>1, <1>2 DEF Paid

LEMMA ParserStopsIs ==
  ASSUME NEW d \in Diagnostics, ParserStops(d)
  PROVE  /\ envelope' \in Envelopes /\ Paid(envelope)' = 0 /\ detected' = detected
         /\ phase' \in {"finish", "output"}
         /\ phase' = "finish" => PayloadRules(envelope')
<1>1. detected' = detected
  BY DEF ParserStops
<1>2. CASE Dispatched("failed", d)
  <2>1. "failed" \in Statuses \ {"complete"}
    BY DEF Statuses
  <2> QED BY <1>1, <1>2, <2>1, DispatchedIs
<1>3. ASSUME NEW payload \in BOOLEAN, Returns(Envelope("partial", {d}, payload, 0))
      PROVE  envelope' \in Envelopes /\ Paid(envelope)' = 0 /\ phase' = "output"
  <2>1. Envelope("partial", {d}, payload, 0) \in Envelopes
        /\ Envelope("partial", {d}, payload, 0).bytes = 0
    BY DEF Envelope, Envelopes, Statuses
  <2> QED BY <1>3, <2>1, ReturnsIs
<1>4. ASSUME Returns(TerminalEnvelope(StatusOf(d), d))
      PROVE  envelope' \in Envelopes /\ Paid(envelope)' = 0 /\ phase' = "output"
  <2>1. TerminalEnvelope(StatusOf(d), d) \in Envelopes
    BY StatusOfIs, TerminalEnvelopeIs
  <2>2. TerminalEnvelope(StatusOf(d), d).bytes = 0
    BY DEF TerminalEnvelope, Envelope
  <2> QED BY <1>4, <2>1, <2>2, ReturnsIs
<1> QED BY <1>1, <1>2, <1>3, <1>4 DEF ParserStops

LEMMA ParseHasEffect ==
  ASSUME IngestInv, Parse, ~ EnforceOutputBudget, ~ FinishDetected
  PROVE  Effect
<1>1. /\ envelope \in Envelopes /\ detected \in SUBSET Diagnostics
      /\ Paid(envelope) \in Nat /\ 0 <= Paid(envelope) /\ Paid(envelope) <= Paid(envelope)
  BY PaidNow DEF IngestInv, CallTypeOK
<1>2. /\ {"unsupported", "ambiguous", "failed", "cancelled"} \subseteq Statuses \ {"complete"}
      /\ {"other", "lossy", "budget", "cancelled"} \subseteq Diagnostics
      /\ OutputSizes \subseteq Nat /\ "nodes" \in Axes /\ "output_bytes" \in Axes
  BY IngestionAssumption DEF Statuses, Diagnostics, Axes, SumAxes
<1>3. Interruption \in Diagnostics /\ StatusOf(Interruption) \in Statuses \ {"complete"}
  BY InterruptionIs, StatusOfIs
<1>4. CASE Select
  <2>1. /\ Keep /\ usage' = usage /\ envelope' = envelope /\ phase' = "dispatch"
        /\ phase = "detect" /\ detected' \in {{}, {"other"}, {"lossy"}}
    BY <1>4 DEF Select
  <2>2. Paid(envelope)' = Paid(envelope)
    BY <2>1
  <2> QED BY <1>1, <1>2, <2>1, <2>2, ParseUncharged DEF Inside
<1>5. CASE DetectionTerminal
  <2>1. PICK status \in {"ambiguous", "unsupported"}, n \in OutputSizes :
          /\ Charge("output_bytes", n)
          /\ envelope' \in {Envelope(status, {"other"}, FALSE, n),
                            TerminalEnvelope("failed", "budget")}
    BY <1>5 DEF DetectionTerminal
  <2>2. Keep /\ phase = "detect" /\ phase' = "emit" /\ detected' = detected
    BY <1>5 DEF DetectionTerminal
  <2>3. usage' \in [Axes -> Nat] /\ usage'["output_bytes"] >= usage["output_bytes"]
    BY <1>2, <2>1, Charged DEF IngestInv
  <2>4. /\ Envelope(status, {"other"}, FALSE, n) \in Envelopes
        /\ Paid(Envelope(status, {"other"}, FALSE, n)) = 0
        /\ PayloadRules(Envelope(status, {"other"}, FALSE, n))
    BY <1>2 DEF Envelope, Envelopes, Paid, PayloadRules
  <2>5. Paid(envelope)' = Paid(envelope')
    OBVIOUS
  <2>6. /\ TerminalEnvelope("failed", "budget") \in Envelopes
        /\ Paid(TerminalEnvelope("failed", "budget")) = 0
        /\ PayloadRules(TerminalEnvelope("failed", "budget"))
    BY <1>2, TerminalEnvelopeIs
  <2>7. envelope' \in Envelopes /\ Paid(envelope)' = 0 /\ PayloadRules(envelope')
    BY <2>1, <2>4, <2>5, <2>6
  <2> QED BY <1>1, <2>2, <2>3, <2>7, ParseStep DEF Inside
<1>6. CASE ProviderMissing
  <2>1. /\ Dispatched("unsupported", "other") /\ usage' = usage /\ detected' = detected
        /\ Keep /\ phase = "dispatch"
    BY <1>6 DEF ProviderMissing
  <2>2. envelope' \in Envelopes /\ Paid(envelope)' = 0 /\ PayloadRules(envelope')
        /\ phase' = "finish"
    BY <1>2, <2>1, DispatchedIs
  <2> QED BY <1>1, <2>1, <2>2, ParseUncharged DEF Inside
<1>7. CASE RunParser
  <2>1. usage' = usage /\ detected' = detected /\ Keep /\ phase = "dispatch"
    BY <1>7 DEF RunParser
  <2>2. CASE Stopped
    <3>1. Dispatched(StatusOf(Interruption), Interruption)
      BY <1>7, <2>2 DEF RunParser
    <3>2. envelope' \in Envelopes /\ Paid(envelope)' = 0 /\ PayloadRules(envelope')
          /\ phase' = "finish"
      BY <1>3, <3>1, DispatchedIs
    <3> QED BY <1>1, <2>1, <3>2, ParseUncharged DEF Inside
  <2>3. CASE ~ Stopped
    <3>1. phase' = "parse" /\ envelope' = envelope
      BY <1>7, <2>3 DEF RunParser
    <3>2. Paid(envelope)' = Paid(envelope)
      BY <3>1
    <3> QED BY <1>1, <2>1, <3>1, <3>2, ParseUncharged DEF Inside
  <2> QED BY <2>2, <2>3
<1>8. CASE ParserCheckpoints
  <2>1. usage' = usage /\ Keep /\ phase = "parse"
    BY <1>8 DEF ParserCheckpoints
  <2>2. CASE Stopped
    <3>1. ParserStops(Interruption)
      BY <1>8, <2>2 DEF ParserCheckpoints
    <3>2. /\ envelope' \in Envelopes /\ Paid(envelope)' = 0 /\ detected' = detected
          /\ phase' \in {"finish", "output"} /\ (phase' = "finish" => PayloadRules(envelope'))
      BY <1>3, <3>1, ParserStopsIs
    <3> QED BY <1>1, <2>1, <3>2, ParseUncharged DEF Inside
  <2>3. CASE ~ Stopped
    <3>1. phase' = "unit" /\ envelope' = envelope /\ detected' = detected
      BY <1>8, <2>3 DEF ParserCheckpoints
    <3>2. Paid(envelope)' = Paid(envelope)
      BY <3>1
    <3> QED BY <1>1, <2>1, <3>1, <3>2, ParseUncharged DEF Inside
  <2> QED BY <2>2, <2>3
<1>9. CASE ParserCharges
  <2>1. Charge("nodes", 1) /\ Keep /\ phase = "unit"
    BY <1>9 DEF ParserCharges
  <2>2. usage' \in [Axes -> Nat] /\ usage'["output_bytes"] >= usage["output_bytes"]
    BY <1>2, <2>1, Charged DEF IngestInv
  <2>3. CASE Accepts("nodes", 1)
    <3>1. phase' = "parse" /\ envelope' = envelope /\ detected' = detected
      BY <1>9, <2>3 DEF ParserCharges
    <3>2. Paid(envelope)' = Paid(envelope)
      BY <3>1
    <3> QED BY <1>1, <2>1, <2>2, <3>1, <3>2, ParseStep DEF Inside
  <2>4. CASE ~ Accepts("nodes", 1)
    <3>1. ParserStops("budget")
      BY <1>9, <2>4 DEF ParserCharges
    <3>2. /\ envelope' \in Envelopes /\ Paid(envelope)' = 0 /\ detected' = detected
          /\ phase' \in {"finish", "output"} /\ (phase' = "finish" => PayloadRules(envelope'))
      BY <1>2, <3>1, ParserStopsIs
    <3> QED BY <1>1, <2>1, <2>2, <3>2, ParseStep DEF Inside
  <2> QED BY <2>3, <2>4
<1>10. CASE ParserReturns
  <2>1. usage' = usage /\ detected' = detected /\ Keep /\ phase = "parse"
    BY <1>10 DEF ParserReturns
  <2>2. PICK output \in Outputs : Returns(output)
    BY <1>10 DEF ParserReturns
  <2>3. output \in Envelopes /\ output.bytes = 0
    <3>1. \A status \in Statuses, ds \in SUBSET Diagnostics, p \in BOOLEAN :
            Envelope(status, ds, p, 0) \in Envelopes /\ Envelope(status, ds, p, 0).bytes = 0
      BY DEF Envelope, Envelopes
    <3>2. \E status \in {"complete", "partial", "failed"}, ds \in {{}, {"other"}}, p \in BOOLEAN :
            output = Envelope(status, ds, p, 0)
      BY <2>2 DEF Outputs
    <3>3. {"complete", "partial", "failed"} \subseteq Statuses
          /\ {{}, {"other"}} \subseteq SUBSET Diagnostics
      BY DEF Statuses, Diagnostics
    <3> QED BY <3>1, <3>2, <3>3
  <2>4. envelope' \in Envelopes /\ Paid(envelope)' = 0 /\ phase' = "output"
    BY <2>2, <2>3, ReturnsIs
  <2> QED BY <1>1, <2>1, <2>4, ParseUncharged DEF Inside
<1>11. CASE ParserFails
  <2>1. /\ Dispatched("failed", "other") /\ usage' = usage /\ detected' = detected
        /\ Keep /\ phase = "parse"
    BY <1>11 DEF ParserFails
  <2>2. envelope' \in Envelopes /\ Paid(envelope)' = 0 /\ PayloadRules(envelope')
        /\ phase' = "finish"
    BY <1>2, <2>1, DispatchedIs
  <2> QED BY <1>1, <2>1, <2>2, ParseUncharged DEF Inside
<1>12. CASE FinishOutput
  <2>1. usage' = usage /\ detected' = detected /\ Keep /\ phase = "output"
    BY <1>12 DEF FinishOutput
  <2>2. ASSUME NEW status \in Statuses \ {"complete"}, NEW d \in Diagnostics,
               Dispatched(status, d)
        PROVE  Effect
    <3>1. envelope' \in Envelopes /\ Paid(envelope)' = 0 /\ PayloadRules(envelope')
          /\ phase' = "finish"
      BY <2>2, DispatchedIs
    <3> QED BY <1>1, <2>1, <3>1, ParseUncharged DEF Inside
  <2>3. ASSUME PayloadAllowed, phase' = "charge", envelope' = envelope
        PROVE  Effect
    <3>1. PayloadRules(envelope')
      BY <2>3 DEF PayloadAllowed, PayloadRules
    <3>2. Paid(envelope)' = Paid(envelope)
      BY <2>3
    <3> QED BY <1>1, <2>1, <2>3, <3>1, <3>2, ParseUncharged DEF Inside
  <2> QED BY <1>2, <1>3, <1>12, <2>2, <2>3 DEF FinishOutput
<1>13. CASE InvalidMetadata
  <2>1. /\ usage' = usage /\ envelope' = envelope /\ detected' = detected /\ Keep
        /\ phase = "charge" /\ phase' = "error"
    BY <1>13 DEF InvalidMetadata
  <2>2. Paid(envelope)' = Paid(envelope)
    BY <2>1
  <2> QED BY <1>1, <2>1, <2>2, ParseUncharged DEF Inside
<1> QED BY <1>4, <1>5, <1>6, <1>7, <1>8, <1>9, <1>10, <1>11, <1>12, <1>13 DEF Parse

(* What is added to an envelope under the rules is charged with it.        *)
LEMMA ChargedEnvelope ==
  ASSUME IngestInv, Keep, detected' = detected, phase \in {"charge", "finish"},
         phase' \in {"finish", "emit"}, NEW n \in Nat, Charge("output_bytes", n),
         n = 0 \/ Accepts("output_bytes", n),
         envelope' \in Envelopes, PayloadRules(envelope'),
         Paid(envelope)' <= Paid(envelope) + n
  PROVE  Effect
<1>1. Quiet /\ items' = items /\ input' = input
  BY DEF Keep, Quiet, collector
<1>2. "output_bytes" \in Axes
  BY DEF Axes, SumAxes
<1>3. /\ usage' \in [Axes -> Nat] /\ usage'["output_bytes"] = usage["output_bytes"] + n
      /\ Accepts("output_bytes", n) /\ "output_bytes" \in DOMAIN Limit =>
           usage'["output_bytes"] <= Limit["output_bytes"]
  BY <1>2, Charged DEF IngestInv
<1>4. CallTypeOK'
  BY <1>1, <1>3 DEF IngestInv, CallTypeOK
<1>5. /\ PayloadBytes(items) \in Nat /\ Paid(envelope) \in Nat
      /\ usage["output_bytes"] \in Nat /\ Paid(envelope)' \in Nat
  BY <1>2, <1>4, PayloadType, PaidType, PaidNow DEF IngestInv, TypeOK, CallTypeOK
<1>6. Due = PayloadBytes(items) + Paid(envelope) /\ Due' = PayloadBytes(items) + Paid(envelope)'
  BY <1>1 DEF Due
<1>7. "output_bytes" \in DOMAIN Limit => Limit["output_bytes"] \in Nat
  BY IngestionAssumption
<1>8. /\ Due <= usage["output_bytes"]
      /\ "output_bytes" \in DOMAIN Limit => Due <= Limit["output_bytes"]
  BY DEF IngestInv, BudgetInv
<1>9. Due' <= usage'["output_bytes"]
  BY <1>3, <1>5, <1>6, <1>8
<1>10. ASSUME "output_bytes" \in DOMAIN Limit PROVE Due' <= Limit["output_bytes"]
  <2>1. CASE n = 0
    BY <1>5, <1>6, <1>7, <1>8, <1>10, <2>1
  <2>2. CASE Accepts("output_bytes", n)
    BY <1>3, <1>5, <1>6, <1>7, <1>9, <1>10, <2>2
  <2> QED BY <2>1, <2>2
<1> QED BY <1>1, <1>4, <1>9, <1>10 DEF Effect, BudgetInv, Inside

LEMMA ChargesHaveEffect ==
  ASSUME IngestInv, EnforceOutputBudget \/ FinishDetected
  PROVE  Effect
<1>1. /\ envelope \in Envelopes /\ detected \in SUBSET Diagnostics
      /\ Paid(envelope) \in Nat /\ 0 <= Paid(envelope)
      /\ OutputSizes \subseteq Nat /\ Growth \subseteq Nat /\ "output_bytes" \in Axes
  BY PaidNow, IngestionAssumption DEF IngestInv, CallTypeOK, Axes, SumAxes
<1>2. ASSUME Keep, detected' = detected, phase \in {"charge", "finish"},
             phase' \in {"finish", "emit"}, NEW n \in Nat, Charge("output_bytes", n),
             envelope' = TerminalEnvelope("failed", "budget")
      PROVE  Effect
  <2>1. usage' \in [Axes -> Nat] /\ usage'["output_bytes"] >= usage["output_bytes"]
    BY <1>1, <1>2, Charged DEF IngestInv
  <2>2. /\ TerminalEnvelope("failed", "budget") \in Envelopes
        /\ Paid(TerminalEnvelope("failed", "budget")) = 0
        /\ PayloadRules(TerminalEnvelope("failed", "budget"))
    BY TerminalEnvelopeIs DEF Statuses, Diagnostics
  <2>3. Paid(envelope)' = Paid(envelope')
    OBVIOUS
  <2> QED BY <1>1, <1>2, <2>1, <2>2, <2>3, ParseStep DEF Inside
<1>3. CASE EnforceOutputBudget
  <2>1. PICK n \in OutputSizes :
          /\ Charge("output_bytes", n)
          /\ envelope' = IF Accepts("output_bytes", n)
                         THEN [envelope EXCEPT !.bytes = n]
                         ELSE TerminalEnvelope("failed", "budget")
    BY <1>3 DEF EnforceOutputBudget
  <2>2. Keep /\ detected' = detected /\ phase = "charge" /\ phase' = "finish" /\ n \in Nat
    BY <1>1, <1>3 DEF EnforceOutputBudget
  <2>3. CASE Accepts("output_bytes", n)
    <3>1. envelope' = [envelope EXCEPT !.bytes = n]
      BY <2>1, <2>3
    <3>2. envelope' \in Envelopes
      BY <1>1, <2>2, <3>1 DEF Envelopes
    <3>3. PayloadRules(envelope')
      BY <1>1, <2>2, <3>1 DEF IngestInv, RulesInv, PayloadRules, Envelopes
    <3>4. Paid(envelope') <= n
      BY <1>1, <2>2, <3>1 DEF Paid, Envelopes
    <3>5. Paid(envelope)' = Paid(envelope') /\ Paid(envelope') \in Nat
      BY <3>2, PaidType
    <3>6. Paid(envelope)' <= Paid(envelope) + n
      BY <1>1, <2>2, <3>4, <3>5
    <3> QED BY <2>1, <2>2, <2>3, <3>2, <3>3, <3>6, ChargedEnvelope
  <2> QED BY <1>2, <2>1, <2>2, <2>3
<1>4. CASE FinishDetected
  <2>1. PICK n \in Growth :
          /\ Charge("output_bytes", n)
          /\ envelope' = IF n = 0 \/ Accepts("output_bytes", n)
                         THEN [Normalized EXCEPT !.bytes = @ + n]
                         ELSE TerminalEnvelope("failed", "budget")
    BY <1>4 DEF FinishDetected
  <2>2. Keep /\ detected' = detected /\ phase = "finish" /\ phase' = "emit" /\ n \in Nat
    BY <1>1, <1>4 DEF FinishDetected
  <2>3. Normalized \in Envelopes /\ PayloadRules(Normalized) /\ Paid(Normalized) <= Paid(envelope)
    <3>1. PayloadRules(envelope)
      BY <2>2 DEF IngestInv, RulesInv
    <3> DEFINE all == detected \cup envelope.diagnostics
    <3>2. all \in SUBSET Diagnostics
      BY <1>1 DEF Envelopes
    <3>3. CASE "cancelled" \in all
      <4>1. Normalized = Envelope("cancelled", all, FALSE, envelope.bytes)
        BY <3>3 DEF Normalized
      <4> HIDE DEF all
      <4> QED BY <1>1, <3>2, <4>1
            DEF Envelope, Envelopes, Statuses, PayloadRules, Paid
    <3>4. CASE "cancelled" \notin all
      <4> DEFINE status == IF envelope.status = "complete" /\ all \cap PartialDiagnostics # {}
                           THEN "partial" ELSE envelope.status
      <4>1. Normalized = [envelope EXCEPT !.diagnostics = all, !.status = status]
        BY <3>4 DEF Normalized
      <4>2. envelope \in Envelopes
        BY <1>1
      <4>3. status \in Statuses /\ (envelope.payload => PermitsPayload(status))
            /\ (status = "complete" => envelope.status = "complete")
        BY <3>1, <4>2 DEF Envelopes, Statuses, PayloadRules, PermitsPayload
      <4> HIDE DEF all, status
      <4>4. /\ Normalized \in Envelopes /\ Normalized.status = status
            /\ Normalized.payload = envelope.payload /\ Normalized.bytes = envelope.bytes
        BY <3>2, <4>1, <4>2, <4>3 DEF Envelopes
      <4>5. PayloadRules(Normalized)
        BY <3>1, <4>3, <4>4 DEF PayloadRules
      <4>6. Paid(Normalized) <= Paid(envelope)
        BY <4>2, <4>4 DEF Paid, Envelopes
      <4> QED BY <4>4, <4>5, <4>6
    <3> QED BY <3>3, <3>4
  <2>4. CASE n = 0 \/ Accepts("output_bytes", n)
    <3>1. envelope' = [Normalized EXCEPT !.bytes = Normalized.bytes + n]
      BY <2>1, <2>4
    <3> DEFINE b == Normalized.bytes + n
    <3>2. Normalized.bytes \in Nat /\ b \in Nat
      <4>1. Normalized.bytes \in Nat
        BY <2>3 DEF Envelopes
      <4> QED BY ONLY <4>1, <2>2
    <3>3. envelope' \in Envelopes /\ PayloadRules(envelope')
      <4> HIDE DEF b
      <4> QED BY <2>3, <3>1, <3>2 DEF Envelopes, PayloadRules, b
    <3>4. Paid(envelope') <= Paid(Normalized) + n
      BY <2>2, <2>3, <3>1, <3>2 DEF Envelopes, Paid
    <3>5. Paid(envelope)' = Paid(envelope') /\ Paid(envelope') \in Nat /\ Paid(Normalized) \in Nat
      BY <2>3, <3>3, PaidType
    <3>6. Paid(envelope)' <= Paid(envelope) + n
      BY <1>1, <2>2, <2>3, <3>4, <3>5
    <3> QED BY <2>1, <2>2, <2>4, <3>3, <3>6, ChargedEnvelope
  <2> QED BY <1>2, <2>1, <2>2, <2>4
<1> QED BY <1>3, <1>4

-----------------------------------------------------------------------------
(* Steps of the stream and its surroundings.                               *)

(* Nothing is under way: what is due was handed over.                      *)
LEMMA StandingKeeps ==
  ASSUME IngestInv, UNCHANGED <<collector, stream, usage, call, history>>,
         cancelled' \in BOOLEAN, late' \in BOOLEAN, Stopped => Stopped',
         phase' = phase
  PROVE  IngestInv'
<1>1. /\ items' = items /\ ending' = ending /\ outcome' = outcome /\ received' = received
      /\ requests' = requests /\ sequence' = sequence /\ pending' = pending
      /\ finished' = finished /\ usage' = usage /\ phase' = phase
      /\ request' = request /\ input' = input /\ envelope' = envelope /\ detected' = detected
      /\ batch' = batch /\ startedLate' = startedLate
  BY DEF collector, stream, call, history
<1>2. TypeOK' /\ CallTypeOK'
  BY <1>1 DEF IngestInv, TypeOK, CallTypeOK
<1>3. Begun' = Begun /\ AnyLimited' = AnyLimited /\ Emitted' = Emitted /\ Due' = Due
      /\ \A t : Tells(t)' = Tells(t)
  BY <1>1 DEF Begun, AnyLimited, Emitted, Due, Tells
<1>4. PositionInv' /\ RulesInv' /\ BudgetInv'
  BY <1>1, <1>3 DEF IngestInv, PositionInv, RulesInv, BudgetInv, Distinct
<1>5. ProtocolInv'
  BY <1>1, <1>3 DEF IngestInv, ProtocolInv
<1>6. LateInv'
  BY <1>1 DEF IngestInv, LateInv
<1> QED BY <1>2, <1>4, <1>5, <1>6 DEF IngestInv

LEMMA OpenKeeps ==
  ASSUME IngestInv, Open
  PROVE  IngestInv'
<1>1. /\ items' = items /\ ending' = ending /\ outcome' = outcome /\ received' = received
      /\ requests' = requests /\ sequence' = sequence /\ pending' = pending
      /\ finished' = finished /\ usage' = usage
      /\ cancelled' = cancelled /\ late' = late
      /\ request' = request /\ input' = input /\ envelope' = envelope /\ detected' = detected
      /\ batch' = batch /\ startedLate' = startedLate
      /\ phase = "submitted" /\ phase' = IF Distinct(requests) THEN "idle" ELSE "refused"
  BY DEF Open, collector, stream, control, call, history
<1>2. phase \notin Inside /\ phase' \notin Inside /\ phase' \in {"idle", "refused"}
  BY <1>1 DEF Inside
<1>3. TypeOK' /\ CallTypeOK'
  BY <1>1, <1>2 DEF IngestInv, TypeOK, CallTypeOK
<1>4. Begun' = Begun /\ AnyLimited' = AnyLimited /\ Emitted' = Emitted /\ Due' = Due
      /\ \A t : Tells(t)' = Tells(t)
  BY <1>1, <1>2 DEF Begun, AnyLimited, Emitted, Due, Tells
<1>5. ~ finished /\ pending = <<>>
  BY <1>1 DEF IngestInv, ProtocolInv
<1>6. requests = batch
  <2>1. Begun = 0
    BY <1>1, <1>2 DEF IngestInv, PositionInv, Begun
  <2>2. requests = SubSeq(batch, 1, Len(batch)) /\ batch \in Seq(Nat)
    BY <1>5, <2>1 DEF IngestInv, PositionInv, TypeOK
  <2> QED BY <2>2
<1>7. PositionInv'
  <2>1. sequence = 0
    BY <1>1 DEF IngestInv, PositionInv
  <2>2. phase' = "idle" => Distinct(batch)
    BY <1>1, <1>6
  <2> QED BY <1>1, <1>2, <1>4, <2>1, <2>2 DEF IngestInv, PositionInv, Distinct
<1>8. ProtocolInv'
  BY <1>1, <1>4, <1>5 DEF IngestInv, ProtocolInv
<1>9. RulesInv' /\ BudgetInv'
  BY <1>1, <1>2, <1>4 DEF IngestInv, RulesInv, BudgetInv, Inside
<1>10. LateInv'
  BY <1>1, <1>2, <1>5 DEF IngestInv, LateInv, Stopped
<1> QED BY <1>3, <1>7, <1>8, <1>9, <1>10 DEF IngestInv

LEMMA SuffixIs ==
  ASSUME NEW b \in Seq(Nat), NEW k \in 1..Len(b) + 1
  PROVE  /\ SubSeq(b, k, Len(b)) \in Seq(Nat)
         /\ Len(SubSeq(b, k, Len(b))) = Len(b) - k + 1
         /\ \A i \in 1..Len(b) - k + 1 : SubSeq(b, k, Len(b))[i] = b[k + i - 1]
<1>1. Len(b) \in Nat /\ \A i \in 1..Len(b) : b[i] \in Nat
  OBVIOUS
<1>2. k \in Int /\ Len(b) \in Int /\ \A i \in k..Len(b) : b[i] \in Nat
  BY <1>1
<1>3. /\ SubSeq(b, k, Len(b)) \in Seq(Nat)
      /\ Len(SubSeq(b, k, Len(b))) = IF k <= Len(b) THEN Len(b) - k + 1 ELSE 0
      /\ \A i \in 1..Len(b) - k + 1 : SubSeq(b, k, Len(b))[i] = b[k + i - 1]
  BY ONLY <1>2, SubSeqProperties
<1>4. (IF k <= Len(b) THEN Len(b) - k + 1 ELSE 0) = Len(b) - k + 1
  BY ONLY <1>1, k \in 1..Len(b) + 1
<1> QED BY ONLY <1>3, <1>4

LEMMA RestOf ==
  ASSUME NEW b \in Seq(Nat), NEW k \in Nat, k < Len(b)
  PROVE  /\ Head(SubSeq(b, k + 1, Len(b))) = b[k + 1]
         /\ Tail(SubSeq(b, k + 1, Len(b))) = SubSeq(b, k + 2, Len(b))
         /\ b[k + 1] \in Nat
<1>1. Len(b) \in Nat /\ k + 1 \in 1..Len(b) + 1 /\ k + 2 \in 1..Len(b) + 1
      /\ b[k + 1] \in Nat
  OBVIOUS
<1>2. PICK s : s = SubSeq(b, k + 1, Len(b))
  OBVIOUS
<1>3. PICK r : r = SubSeq(b, k + 2, Len(b))
  OBVIOUS
<1>4. /\ s \in Seq(Nat) /\ Len(s) = Len(b) - (k + 1) + 1
      /\ \A i \in 1..Len(b) - (k + 1) + 1 : s[i] = b[(k + 1) + i - 1]
  BY ONLY <1>1, <1>2, b \in Seq(Nat), SuffixIs
<1>5. /\ r \in Seq(Nat) /\ Len(r) = Len(b) - (k + 2) + 1
      /\ \A i \in 1..Len(b) - (k + 2) + 1 : r[i] = b[(k + 2) + i - 1]
  BY ONLY <1>1, <1>3, b \in Seq(Nat), SuffixIs
<1>6. Len(s) = Len(b) - k /\ Len(s) # 0 /\ Len(r) = Len(s) - 1
  BY ONLY <1>1, <1>4, <1>5, k \in Nat, k < Len(b)
<1>7. s # <<>> /\ Head(s) = s[1] /\ s[1] = b[k + 1]
  <2>1. s[1] = b[(k + 1) + 1 - 1] /\ (k + 1) + 1 - 1 = k + 1
    BY ONLY <1>1, <1>4, <1>6, k \in Nat
  <2>2. s # <<>> /\ Head(s) = s[1]
    BY ONLY <1>4, <1>6
  <2> QED BY ONLY <2>1, <2>2
<1>8. PICK t : t = Tail(s)
  OBVIOUS
<1>9. /\ t \in Seq(Nat) /\ Len(t) = Len(s) - 1
      /\ \A i \in 1..Len(t) : t[i] = s[i + 1]
  BY ONLY <1>4, <1>7, <1>8, HeadTailProperties
<1>10. \A i \in 1..Len(r) : t[i] = r[i]
  <2> TAKE i \in 1..Len(r)
  <2>1. /\ i \in 1..Len(t) /\ i + 1 \in 1..Len(b) - (k + 1) + 1
        /\ i \in 1..Len(b) - (k + 2) + 1
        /\ (k + 1) + (i + 1) - 1 = (k + 2) + i - 1
    BY ONLY <1>1, <1>4, <1>5, <1>6, <1>9, i \in 1..Len(r), k \in Nat
  <2>2. t[i] = s[i + 1] /\ s[i + 1] = b[(k + 1) + (i + 1) - 1] /\ r[i] = b[(k + 2) + i - 1]
    BY ONLY <1>4, <1>5, <1>9, <2>1
  <2> QED BY ONLY <2>1, <2>2
<1>11. t = r
  BY ONLY <1>5, <1>6, <1>9, <1>10, SeqEqual
<1> QED BY ONLY <1>1, <1>2, <1>3, <1>7, <1>8, <1>11

LEMMA BeginKeeps ==
  ASSUME IngestInv, Begin
  PROVE  IngestInv'
<1>1. /\ items' = items /\ ending' = ending /\ outcome' = outcome /\ received' = received
      /\ sequence' = sequence /\ pending' = pending
      /\ finished' = finished /\ usage' = usage
      /\ cancelled' = cancelled /\ late' = late
      /\ input' = input /\ envelope' = envelope /\ detected' = detected
      /\ batch' = batch /\ phase = "idle" /\ phase' = "enter"
      /\ ~ finished /\ pending = <<>> /\ requests # <<>>
      /\ request' = Head(requests) /\ requests' = Tail(requests)
      /\ startedLate' = IF Stopped THEN startedLate \cup {request'} ELSE startedLate
  BY DEF Begin, MayPull, collector, control
<1>2. /\ batch \in Seq(Nat) /\ sequence \in Nat /\ Len(batch) \in Nat
      /\ requests = SubSeq(batch, sequence + 1, Len(batch)) /\ sequence <= Len(batch)
  BY <1>1 DEF IngestInv, TypeOK, PositionInv, Begun, Inside
<1>3. sequence < Len(batch)
  <2>1. sequence = Len(batch) => requests = <<>>
    BY <1>2
  <2> QED BY <1>1, <1>2, <2>1
<1>4. request' = batch[sequence + 1] /\ requests' = SubSeq(batch, sequence + 2, Len(batch))
      /\ request' \in Nat
  BY <1>1, <1>2, <1>3, RestOf
<1>5. Begun' = sequence + 1 /\ phase' \in Inside /\ phase \notin Inside
  BY <1>1, <1>2 DEF Begun, Inside
<1>6. AnyLimited' = AnyLimited /\ Emitted' = Emitted /\ Due' = Due
      /\ \A t : Tells(t)' = Tells(t)
  BY <1>1 DEF AnyLimited, Emitted, Due, Tells
<1>7. TypeOK' /\ CallTypeOK'
  BY <1>1, <1>4, <1>5 DEF IngestInv, TypeOK, CallTypeOK
<1>8. PositionInv'
  <2>1. (sequence + 1) + 1 = sequence + 2 /\ sequence + 1 <= Len(batch)
    BY <1>2, <1>3
  <2>2. requests' = SubSeq(batch, Begun' + 1, Len(batch)) /\ Begun' <= Len(batch)
    BY <1>4, <1>5, <2>1
  <2> QED BY <1>1, <1>4, <1>5, <2>2 DEF IngestInv, PositionInv, Distinct
<1>9. ending = <<>>
  BY <1>1 DEF IngestInv, ProtocolInv
<1>10. ProtocolInv'
  BY <1>1, <1>6, <1>9 DEF IngestInv, ProtocolInv
<1>11. RulesInv' /\ BudgetInv'
  BY <1>1, <1>6 DEF IngestInv, RulesInv, BudgetInv
<1>12. LateInv'
  <2>1. startedLate = {}
    BY <1>1, <1>5 DEF IngestInv, LateInv
  <2>2. Stopped' = Stopped
    BY <1>1 DEF Stopped
  <2> QED BY <1>1, <1>5, <2>1, <2>2 DEF LateInv
<1> QED BY <1>7, <1>8, <1>10, <1>11, <1>12 DEF IngestInv

(* e is handed over, and nothing but items were before.                    *)
HandedOver(e) ==
  /\ received = items /\ received' = Append(received, e)
  /\ outcome = "collecting" /\ outcome' = "collecting"

(* The collector takes a terminal which tells what is so.                  *)
LEMMA EndingKeeps ==
  ASSUME IngestInv, NEW t \in Endings, Receive(t), Tells(t), finished' = TRUE, ~ finished,
         pending' = <<>>, phase' = "idle", phase \in Inside \cup {"idle"},
         phase \in Inside => startedLate = {},
         UNCHANGED <<sequence, control, usage, batch, startedLate>>,
         CallTypeOK', Paid(envelope)' <= Paid(envelope), request' \in Nat
  PROVE  IngestInv' /\ HandedOver(t)
<1>1. /\ items \in Seq(Replies) /\ ending = <<>> /\ received = items \o ending
      /\ outcome = "collecting"
  BY DEF IngestInv, TypeOK, ProtocolInv, Receive
<1>2. ~ IsItem(t)
  BY DEF IsItem, Endings
<1>3. /\ items' = items /\ ending' = <<t>> /\ outcome' = outcome /\ received' = Append(received, t)
  BY <1>1, <1>2 DEF Receive, CollectItem, CollectTerminal, RejectAfterTerminal
<1>4. received = items
  BY <1>1
<1>5. received' = items' \o ending'
  BY <1>1, <1>3, <1>4
<1>6. phase' \notin Inside /\ Begun' = sequence /\ sequence \in Nat /\ Len(batch) \in Nat
  BY DEF Begun, Inside, IngestInv, TypeOK
<1>7. TypeOK'
  BY <1>3 DEF IngestInv, TypeOK, control
<1>8. sequence <= Len(batch)
  BY <1>6 DEF IngestInv, PositionInv, Begun
<1>9. PositionInv'
  BY <1>3, <1>6, <1>8 DEF IngestInv, PositionInv, Distinct, Inside
<1>10. AnyLimited' = AnyLimited /\ Emitted' = Emitted /\ Tells(t)'
  BY <1>3 DEF AnyLimited, Emitted, Tells
<1>11. ending' # <<>> /\ ending'[1] = t
  BY <1>3
<1>12. ProtocolInv'
  BY <1>1, <1>3, <1>5, <1>10, <1>11 DEF IngestInv, ProtocolInv
<1>13. RulesInv'
  BY <1>3, <1>10 DEF IngestInv, RulesInv
<1>14. BudgetInv'
  <2>1. usage["output_bytes"] \in Nat
    BY DEF IngestInv, CallTypeOK, Axes, SumAxes
  <2> QED BY <1>3, <2>1, NothingMoreDue
<1>15. LateInv'
  BY <1>3 DEF IngestInv, LateInv, Inside
<1> QED BY <1>1, <1>3, <1>4, <1>7, <1>9, <1>12, <1>13, <1>14, <1>15 DEF IngestInv, HandedOver

LEMMA ReturnedCall ==
  ASSUME CallReturns, usage' = usage, IngestInv
  PROVE  CallTypeOK' /\ Paid(envelope)' = 0 /\ phase' = "idle" /\ request' \in Nat
<1>1. /\ phase' = "idle" /\ request' = 0 /\ input' = NoInput /\ envelope' = NoEnvelope
      /\ detected' = {}
  BY DEF CallReturns
<1>2. NoEnvelope \in Envelopes /\ NoInput \in [kind : {"none", "bytes", "text", "reader"}, depth : Nat, held : Nat]
  BY DEF NoEnvelope, Envelope, Envelopes, Statuses, NoInput
<1>3. CallTypeOK'
  BY <1>1, <1>2 DEF CallTypeOK, IngestInv
<1>4. Paid(envelope)' = 0
  BY <1>1 DEF Paid, NoEnvelope, Envelope
<1> QED BY <1>1, <1>3, <1>4

LEMMA RestIsNotEmpty ==
  ASSUME NEW s \in Seq(Nat), NEW n \in Nat, n < Len(s)
  PROVE  SubSeq(s, n + 1, Len(s)) # <<>>
<1>1. n + 1 \in 1..Len(s) /\ Len(s) \in 1..Len(s) /\ n + 1 <= Len(s)
  OBVIOUS
<1>2. SubSeq(s, n + 1, Len(s)) \in Seq(Nat)
      /\ Len(SubSeq(s, n + 1, Len(s))) = Len(s) - (n + 1) + 1
  BY <1>1, SubSeqProperties
<1>3. PICK l \in Nat : l = Len(s)
  OBVIOUS
<1>4. l - (n + 1) + 1 # 0
  BY ONLY <1>3, n < Len(s), n \in Nat
<1>5. PICK t \in Seq(Nat) : t = SubSeq(s, n + 1, Len(s)) /\ Len(t) = l - (n + 1) + 1
  BY <1>2, <1>3
<1>6. t # <<>>
  BY <1>4, <1>5
<1> QED BY <1>5, <1>6

LEMMA AppendIs ==
  ASSUME NEW s \in Seq(Replies), NEW x \in Replies
  PROVE  /\ Append(s, x) \in Seq(Replies) /\ Len(Append(s, x)) = Len(s) + 1
         /\ Append(s, x) # <<>> /\ Append(s, x)[Len(s) + 1] = x
         /\ \A i \in 1..Len(s) : Append(s, x)[i] = s[i]
  OBVIOUS

LEMMA IdleCall ==
  ASSUME IngestInv, phase = "idle"
  PROVE  phase \notin Inside /\ Begun = sequence
  BY DEF Inside, Begun, IngestInv, TypeOK

(* The terminals that next() hands over.                                   *)
LEMMA TerminalsKeep ==
  ASSUME IngestInv, PullPending \/ PullComplete \/ EmitError
  PROVE  IngestInv' /\ \E t \in Endings : Tells(t) /\ HandedOver(t)
<1>1. sequence \in Nat /\ Len(items) = sequence /\ Len(batch) \in Nat /\ batch \in Seq(Nat)
  BY DEF IngestInv, TypeOK, PositionInv
<1>2. CASE PullPending
  <2>1. /\ phase = "idle" /\ ~ finished /\ pending # <<>> /\ Receive(pending[1])
        /\ pending' = <<>> /\ finished' = TRUE /\ phase' = "idle"
        /\ UNCHANGED <<requests, sequence, control, usage, call, history>>
    BY <1>2 DEF PullPending, MayPull
  <2>2. pending[1] \in Endings /\ Tells(pending[1])
    BY <2>1 DEF IngestInv, TypeOK, ProtocolInv
  <2>3. /\ CallTypeOK' /\ Paid(envelope)' = Paid(envelope) /\ request' \in Nat
        /\ batch' = batch /\ startedLate' = startedLate
    BY <2>1 DEF IngestInv, TypeOK, CallTypeOK, call, history
  <2>4. Paid(envelope)' <= Paid(envelope)
    BY <2>3, PaidNow
  <2>5. IngestInv' /\ HandedOver(pending[1])
    BY <2>1, <2>2, <2>3, <2>4, IdleCall, EndingKeeps
  <2> QED BY <2>1, <2>2, <2>5
<1>3. CASE PullComplete
  <2> DEFINE t == StreamTerminal("complete", sequence, FALSE)
  <2>1. /\ phase = "idle" /\ ~ finished /\ pending = <<>> /\ requests = <<>> /\ Receive(t)
        /\ pending' = pending /\ finished' = TRUE /\ phase' = "idle"
        /\ UNCHANGED <<requests, sequence, control, usage, call, history>>
    BY <1>3 DEF PullComplete, MayPull
  <2>2. t \in Endings /\ t.emitted_items = sequence /\ t.status = "complete" /\ ~ t.partial
    BY <1>1 DEF StreamTerminal, Endings
  <2>3. ~ AnyLimited
    BY <2>1 DEF IngestInv, ProtocolInv
  <2>4. Len(items) = Len(batch)
    <3>1. requests = SubSeq(batch, sequence + 1, Len(batch)) /\ sequence <= Len(batch)
      BY <2>1, IdleCall DEF IngestInv, PositionInv
    <3>2. sequence < Len(batch) => SubSeq(batch, sequence + 1, Len(batch)) # <<>>
      BY <1>1, RestIsNotEmpty
    <3>3. ~ (sequence < Len(batch))
      BY <2>1, <3>1, <3>2
    <3> HIDE DEF t
    <3> QED BY <1>1, <3>1, <3>3
  <2>5. Tells(t)
    <3> HIDE DEF t
    <3> QED BY <2>2, <2>3, <2>4 DEF Tells, AnyLimited, Limited
  <2>6. /\ CallTypeOK' /\ Paid(envelope)' = Paid(envelope) /\ request' \in Nat
        /\ batch' = batch /\ startedLate' = startedLate
    BY <2>1 DEF IngestInv, TypeOK, CallTypeOK, call, history
  <2>7. Paid(envelope)' <= Paid(envelope)
    BY <2>6, PaidNow
  <2> HIDE DEF t
  <2>8. IngestInv' /\ HandedOver(t)
    BY <2>1, <2>2, <2>5, <2>6, <2>7, IdleCall, EndingKeeps
  <2> QED BY <2>1, <2>2, <2>5, <2>8
<1>4. CASE EmitError
  <2> DEFINE t == StreamTerminal("failed", sequence, FALSE)
  <2>1. /\ phase = "error" /\ Receive(t) /\ pending' = pending /\ finished' = TRUE
        /\ CallReturns /\ UNCHANGED <<requests, sequence, control, usage, history>>
    BY <1>4 DEF EmitError
  <2>2. phase \in Inside /\ ~ finished /\ pending = <<>> /\ ~ AnyLimited
    BY <2>1 DEF IngestInv, ProtocolInv, Inside
  <2>3. startedLate = {}
    BY <2>1, <2>2 DEF IngestInv, LateInv
  <2>4. t \in Endings /\ t.emitted_items = sequence /\ t.status = "failed"
    BY <1>1 DEF StreamTerminal, Endings
  <2>5. Tells(t)
    <3> HIDE DEF t
    <3> QED BY <2>2, <2>4 DEF Tells, AnyLimited, Limited
  <2>6. CallTypeOK' /\ Paid(envelope)' = 0 /\ phase' = "idle" /\ request' \in Nat
    BY <2>1, ReturnedCall
  <2>7. batch' = batch /\ startedLate' = startedLate /\ 0 <= Paid(envelope)
    BY <2>1, PaidNow DEF history
  <2> HIDE DEF t
  <2>8. IngestInv' /\ HandedOver(t)
    BY <2>1, <2>2, <2>3, <2>4, <2>5, <2>6, <2>7, EndingKeeps
  <2> QED BY <2>1, <2>4, <2>5, <2>8
<1> QED BY <1>2, <1>3, <1>4

LEMMA AfterEndKeeps ==
  ASSUME IngestInv, PullAfterEnd
  PROVE  IngestInv' /\ outcome = "collecting" /\ outcome' = "collected"
         /\ received' = received /\ ending # <<>>
<1>1. /\ finished /\ outcome = "collecting" /\ outcome' = Verdict
      /\ UNCHANGED <<items, ending, received, stream, control, usage, phase, call, history>>
  BY DEF PullAfterEnd, MayPull, EndOfStream
<1>2. ending # <<>> /\ Tells(ending[1]) /\ Len(items) = sequence
  BY <1>1 DEF IngestInv, ProtocolInv, PositionInv
<1>3. outcome' = "collected"
  BY <1>1, <1>2 DEF Verdict, Tells
<1>4. /\ items' = items /\ ending' = ending /\ received' = received
      /\ requests' = requests /\ sequence' = sequence /\ pending' = pending
      /\ finished' = finished /\ usage' = usage /\ phase' = phase
      /\ cancelled' = cancelled /\ late' = late
      /\ request' = request /\ input' = input /\ envelope' = envelope /\ detected' = detected
      /\ batch' = batch /\ startedLate' = startedLate
  BY <1>1 DEF stream, control, call, history
<1>5. TypeOK' /\ CallTypeOK'
  BY <1>4 DEF IngestInv, TypeOK, CallTypeOK
<1>6. Begun' = Begun /\ AnyLimited' = AnyLimited /\ Emitted' = Emitted /\ Due' = Due
      /\ \A t : Tells(t)' = Tells(t)
  BY <1>4 DEF Begun, AnyLimited, Emitted, Due, Tells
<1>7. PositionInv' /\ RulesInv' /\ BudgetInv' /\ LateInv'
  BY <1>4, <1>6 DEF IngestInv, PositionInv, RulesInv, BudgetInv, LateInv, Distinct, Stopped
<1>8. ProtocolInv'
  BY <1>1, <1>3, <1>4, <1>6 DEF IngestInv, ProtocolInv
<1> QED BY <1>1, <1>2, <1>3, <1>5, <1>7, <1>8 DEF IngestInv

(* The item of a request closes the stream if it was limited.              *)
LEMMA ItemKeeps ==
  ASSUME IngestInv, EmitItem
  PROVE  IngestInv' /\ HandedOver(Item(request, sequence, envelope))
<1> DEFINE r == Item(request, sequence, envelope)
<1>1. /\ phase = "emit" /\ Receive(r) /\ sequence' = sequence + 1 /\ pending' = TerminalAfter
      /\ CallReturns /\ UNCHANGED <<requests, finished, control, usage, history>>
  BY DEF EmitItem
<1>2. /\ requests' = requests /\ finished' = finished /\ cancelled' = cancelled /\ late' = late
      /\ usage' = usage /\ batch' = batch /\ startedLate' = startedLate
  BY <1>1 DEF control, history
<1>3. phase \in Inside /\ ~ finished /\ pending = <<>> /\ ending = <<>> /\ ~ AnyLimited
  BY <1>1 DEF IngestInv, ProtocolInv, Inside
<1>4. /\ items \in Seq(Replies) /\ sequence \in Nat /\ Len(items) = sequence
      /\ request \in Nat /\ envelope \in Envelopes /\ batch \in Seq(Nat)
  BY DEF IngestInv, TypeOK, CallTypeOK, PositionInv
<1>5. /\ r \in Replies /\ r.event = "item" /\ r.sequence = sequence /\ r.request = request
      /\ r.envelope = envelope
  BY <1>4 DEF Item, Replies
<1>6. PICK x \in Replies : x = r
  BY <1>5
<1> HIDE DEF r
<1>7. outcome = "collecting" /\ received = items
  <2>1. received = items \o <<>>
    BY <1>3 DEF IngestInv, ProtocolInv
  <2> QED BY <1>1, <1>4, <2>1 DEF Receive
<1>8. IsItem(r) /\ Contiguous(r)
  BY <1>4, <1>5 DEF IsItem, Contiguous
<1>9. /\ items' = Append(items, x) /\ ending' = <<>> /\ outcome' = "collecting"
      /\ received' = Append(received, x)
  BY <1>1, <1>3, <1>6, <1>7, <1>8 DEF Receive, CollectItem, CollectTerminal, RejectAfterTerminal
<1>10. /\ items' \in Seq(Replies) /\ Len(items') = sequence + 1 /\ items' # <<>>
       /\ items'[sequence + 1] = x
       /\ \A i \in 1..sequence : items'[i] = items[i]
  BY <1>4, <1>9, AppendIs
<1>11. CallTypeOK' /\ Paid(envelope)' = 0 /\ phase' = "idle" /\ request' \in Nat
  BY <1>1, <1>2, ReturnedCall
<1>12. x.envelope = envelope /\ x.request = request /\ x.sequence = sequence
  BY <1>5, <1>6
<1>13. Limited(x) <=> ClosesStream
  BY <1>12 DEF Limited, ClosesStream
<1>14. ClosesStream => \E t \in Endings :
         /\ pending' = <<t>> /\ t.emitted_items = sequence + 1 /\ t.status # "complete"
         /\ t.status = "cancelled" <=> envelope.status = "cancelled"
  <2> SUFFICES ASSUME ClosesStream
               PROVE  \E t \in Endings :
                        /\ pending' = <<t>> /\ t.emitted_items = sequence + 1
                        /\ t.status # "complete"
                        /\ t.status = "cancelled" <=> envelope.status = "cancelled"
    OBVIOUS
  <2> DEFINE s == IF envelope.status = "cancelled" THEN "cancelled" ELSE "partial"
             p == "budget" \in envelope.diagnostics
             t == StreamTerminal(s, sequence + 1, p)
  <2>1. pending' = <<t>>
    BY <1>1 DEF TerminalAfter
  <2>2. s \in {"cancelled", "partial"} /\ p \in BOOLEAN /\ (s = "cancelled" <=> envelope.status = "cancelled")
    OBVIOUS
  <2>3. sequence + 1 \in Nat
    BY <1>4
  <2>4. t \in Endings /\ t.emitted_items = sequence + 1 /\ t.status = s
    <3> HIDE DEF s, p
    <3> QED BY <2>2, <2>3 DEF StreamTerminal, Endings
  <2> HIDE DEF s, p, t
  <2> QED BY <2>1, <2>2, <2>4
<1>15. ~ ClosesStream => pending' = <<>>
  BY <1>1 DEF TerminalAfter
<1>16. TypeOK'
  <2>1. \E t \in Endings : ending' \in {<<>>, <<t>>}
    BY <1>3, <1>9 DEF IngestInv, TypeOK
  <2>2. \E t \in Endings : pending' \in {<<>>, <<t>>}
    BY <1>14, <1>15, <2>1
  <2>3. sequence' \in Nat
    BY <1>1, <1>4
  <2> QED BY <1>2, <1>10, <1>11, <2>1, <2>2, <2>3 DEF IngestInv, TypeOK
<1>17. phase' \notin Inside /\ Begun = sequence + 1 /\ Begun' = sequence + 1
  BY <1>1, <1>3, <1>4, <1>11 DEF Inside, Begun
<1>18. request = batch[sequence + 1] /\ sequence + 1 <= Len(batch) /\ Distinct(batch)
       /\ requests = SubSeq(batch, sequence + 2, Len(batch))
  <2>1. (sequence + 1) + 1 = sequence + 2
    BY <1>4
  <2> QED BY <1>1, <1>3, <1>17, <2>1 DEF IngestInv, PositionInv
<1>19. PositionInv'
  <2>1. \A i \in 1..Len(items') : items'[i].sequence = i - 1 /\ items'[i].request = batch[i]
    <3> SUFFICES ASSUME NEW i \in 1..Len(items')
                 PROVE  items'[i].sequence = i - 1 /\ items'[i].request = batch[i]
      OBVIOUS
    <3>1. CASE i = sequence + 1
      <4>1. i - 1 = sequence
        BY <1>4, <3>1
      <4> QED BY <1>10, <1>12, <1>18, <3>1, <4>1
    <3>2. CASE i # sequence + 1
      <4>1. i \in 1..sequence
        BY <1>4, <1>10, <3>2
      <4> QED BY <1>4, <1>10, <4>1 DEF IngestInv, PositionInv
    <3> QED BY <3>1, <3>2
  <2>2. Len(items') = sequence' /\ Begun' <= Len(batch')
    BY <1>1, <1>2, <1>10, <1>17, <1>18
  <2>3. requests' = SubSeq(batch', Begun' + 1, Len(batch'))
    <3>1. (sequence + 1) + 1 = sequence + 2
      BY <1>4
    <3> QED BY <1>2, <1>17, <1>18, <3>1
  <2>4. Distinct(batch)'
    BY <1>2, <1>18 DEF Distinct
  <2> QED BY <1>2, <1>11, <1>17, <2>1, <2>2, <2>3, <2>4 DEF PositionInv, Inside
<1>20. Emitted = 1..sequence /\ Emitted' = 1..sequence + 1
  BY <1>4, <1>10 DEF Emitted
<1>21. \A i \in Emitted' : i # sequence + 1 => i \in Emitted /\ items'[i] = items[i]
  BY <1>4, <1>10, <1>20
<1>22. sequence + 1 \in Emitted'
  BY <1>4, <1>20
<1>23. \A i \in Emitted' : Limited(items'[i]) => i = sequence + 1
  BY <1>3, <1>21 DEF AnyLimited
<1>24. (\E i \in Emitted' : items'[i].envelope.status = "cancelled") <=> envelope.status = "cancelled"
  <2>1. \A i \in Emitted' : items'[i].envelope.status = "cancelled" => Limited(items'[i])
    BY DEF Limited
  <2> QED BY <1>10, <1>12, <1>22, <1>23, <2>1
<1>25. ProtocolInv'
  <2>1. pending' # <<>> => Tells(pending[1])'
    <3> SUFFICES ASSUME pending' # <<>> PROVE Tells(pending[1])'
      OBVIOUS
    <3>1. PICK t \in Endings :
             /\ pending' = <<t>> /\ t.emitted_items = sequence + 1 /\ t.status # "complete"
             /\ t.status = "cancelled" <=> envelope.status = "cancelled"
      BY <1>14, <1>15
    <3>2. pending'[1] = t
      BY <3>1
    <3> QED BY <1>1, <1>24, <3>1, <3>2 DEF Tells
  <2>2. AnyLimited' => pending' # <<>>
    <3> SUFFICES ASSUME AnyLimited' PROVE pending' # <<>>
      OBVIOUS
    <3>1. Limited(x)
      BY <1>10, <1>23 DEF AnyLimited
    <3> QED BY <1>13, <1>14, <3>1
  <2>3. received' = items' \o ending'
    <3>1. received' = items'
      BY <1>7, <1>9
    <3>2. items' \o <<>> = items'
      BY <1>10
    <3> QED BY <1>9, <3>1, <3>2
  <2>4. \A i \in Emitted' : Limited(items'[i]) => i = Len(items')
    BY <1>10, <1>23
  <2> QED BY <1>2, <1>3, <1>9, <1>11, <2>1, <2>2, <2>3, <2>4 DEF ProtocolInv
<1>26. RulesInv'
  <2>1. PayloadRules(envelope) /\ \A i \in Emitted : PayloadRules(items[i].envelope)
    BY <1>1 DEF IngestInv, RulesInv
  <2>2. \A i \in Emitted' : PayloadRules(items'[i].envelope)
    <3> SUFFICES ASSUME NEW i \in Emitted' PROVE PayloadRules(items'[i].envelope)
      OBVIOUS
    <3>1. CASE i = sequence + 1
      BY <1>10, <1>12, <2>1, <3>1
    <3>2. CASE i # sequence + 1
      BY <1>21, <2>1, <3>2
    <3> QED BY <3>1, <3>2
  <2> QED BY <1>11, <2>2 DEF RulesInv
<1>27. BudgetInv'
  <2>1. PayloadBytes(items') = PayloadBytes(items) + Paid(envelope) /\ PayloadBytes(items) \in Nat
    BY <1>4, <1>9, <1>12, PayloadOfAppend
  <2>2. Due' = PayloadBytes(items') + Paid(envelope)'
    BY DEF Due
  <2>3. Due' = Due
    BY <1>11, <2>1, <2>2, PaidNow DEF Due
  <2> QED BY <1>2, <2>3 DEF IngestInv, BudgetInv
<1>28. LateInv'
  <2>1. CASE startedLate = {}
    BY <1>2, <2>1 DEF LateInv
  <2>2. CASE startedLate # {}
    <3>1. startedLate = {request} /\ Refuses(envelope)
      BY <1>1, <1>3, <2>2 DEF IngestInv, LateInv
    <3>2. ClosesStream
      BY <3>1 DEF Refuses, ClosesStream
    <3>3. pending' # <<>>
      BY <1>14, <3>2
    <3>4. startedLate' = {batch'[Len(items')]} /\ Refuses(items'[Len(items')].envelope)
      BY <1>2, <1>10, <1>12, <1>18, <3>1
    <3> QED BY <1>10, <3>3, <3>4 DEF LateInv
  <2> QED BY <2>1, <2>2
<1> QED BY <1>6, <1>7, <1>9, <1>11, <1>16, <1>19, <1>25, <1>26, <1>27, <1>28
      DEF IngestInv, HandedOver, r

-----------------------------------------------------------------------------
(* A step of ingestion: something is handed over, the stream is found at   *)
(* its end, or the consumer sees nothing.                                  *)
LEMMA IngestSteps ==
  ASSUME IngestInv, [Next]_vars
  PROVE  /\ IngestInv'
         /\ \/ \E e : HandedOver(e) /\ e = Item(request, sequence, envelope)
            \/ \E t \in Endings : HandedOver(t) /\ Tells(t)
            \/ outcome = "collecting" /\ outcome' = "collected"
               /\ received' = received /\ ending # <<>>
            \/ UNCHANGED collector
<1>1. CASE Open
  BY <1>1, OpenKeeps DEF Open
<1>2. CASE Resolve \/ Parse
  <2>1. Effect
    BY <1>2, ResolveHasEffect, ParseHasEffect, ChargesHaveEffect
  <2> QED BY <2>1, EffectKeeps DEF Effect, Quiet
<1>3. CASE Pull
  <2>1. CASE Begin
    BY <2>1, BeginKeeps DEF Begin
  <2>2. CASE PullAfterEnd
    BY <2>2, AfterEndKeeps
  <2>3. CASE PullPending \/ PullComplete
    BY <2>3, TerminalsKeep
  <2> QED BY <1>3, <2>1, <2>2, <2>3 DEF Pull
<1>4. CASE EmitItem
  BY <1>4, ItemKeeps
<1>5. CASE EmitError
  BY <1>5, TerminalsKeep
<1>6. CASE Cancel
  <2>1. /\ UNCHANGED <<collector, stream, usage, call, history>> /\ phase' = phase
        /\ cancelled' = TRUE /\ late' = late
    BY <1>6 DEF Cancel
  <2>2. cancelled' \in BOOLEAN /\ late' \in BOOLEAN /\ (Stopped => Stopped')
    BY <2>1 DEF Stopped, IngestInv, TypeOK
  <2> QED BY <2>1, <2>2, StandingKeeps
<1>7. CASE Deadline
  <2>1. /\ UNCHANGED <<collector, stream, usage, call, history>> /\ phase' = phase
        /\ late' = TRUE /\ cancelled' = cancelled
    BY <1>7 DEF Deadline
  <2>2. cancelled' \in BOOLEAN /\ late' \in BOOLEAN /\ (Stopped => Stopped')
    BY <2>1 DEF Stopped, IngestInv, TypeOK
  <2> QED BY <2>1, <2>2, StandingKeeps
<1>8. CASE UNCHANGED vars
  <2>1. /\ UNCHANGED <<collector, stream, usage, call, history>> /\ phase' = phase
        /\ late' = late /\ cancelled' = cancelled
    BY <1>8 DEF vars, control
  <2>2. cancelled' \in BOOLEAN /\ late' \in BOOLEAN /\ (Stopped => Stopped')
    BY <2>1 DEF Stopped, IngestInv, TypeOK
  <2> QED BY <2>1, <2>2, StandingKeeps
<1> QED BY <1>1, <1>2, <1>3, <1>4, <1>5, <1>6, <1>7, <1>8 DEF Next, Work

THEOREM IngestInductive == Spec => []IngestInv
<1>1. IngestInv /\ [Next]_vars => IngestInv'
  BY IngestSteps
<1> QED BY <1>1, StartsRight, PTL DEF Spec

(* Whatever parsers return and wherever a request stops, the collector     *)
(* accepts the stream and its items answer the requests one by one, for    *)
(* batches of any length.                                                  *)
THEOREM BatchAnswersHolds == Spec => []BatchAnswersInOrder
<1>1. IngestInv => BatchAnswersInOrder
  <2> SUFFICES ASSUME IngestInv PROVE BatchAnswersInOrder
    OBVIOUS
  <2>1. outcome \notin Errors
    BY DEF IngestInv, ProtocolInv, Errors, EarlyErrors, LateErrors
  <2>2. \A i \in Emitted : items[i].request = batch[i] /\ PayloadRules(items[i].envelope)
    BY DEF IngestInv, PositionInv, RulesInv, Emitted
  <2>3. outcome = "collected" /\ ending[1].status = "complete" => Len(items) = Len(batch)
    BY DEF IngestInv, ProtocolInv, Tells
  <2> QED BY <2>1, <2>2, <2>3 DEF BatchAnswersInOrder, PayloadRules, PermitsPayload
<1> QED BY <1>1, IngestInductive, PTL

(* A limit, the deadline or a cancellation ends the work and the stream at *)
(* once, and the consumer is told why.                                     *)
THEOREM StopsAreFinalHolds == Spec => []StopsAreFinal
<1>1. IngestInv => StopsAreFinal
  <2> SUFFICES ASSUME IngestInv PROVE StopsAreFinal
    OBVIOUS
  <2>1. LimitClosesStream
    BY DEF IngestInv, ProtocolInv, Tells, AnyLimited, LimitClosesStream
  <2>2. Cardinality(startedLate) <= 1
    <3>1. startedLate = {} \/ \E r : startedLate = {r}
      BY DEF IngestInv, LateInv
    <3>2. CASE startedLate = {}
      <4>1. Cardinality(startedLate) = 0
        BY <3>2, FS_EmptySet
      <4> QED BY <4>1
    <3>3. ASSUME NEW r, startedLate = {r} PROVE Cardinality(startedLate) <= 1
      <4>1. Cardinality(startedLate) = 1
        BY <3>3, FS_Singleton
      <4> QED BY <4>1
    <3> QED BY <3>1, <3>2, <3>3
  <2>3. phase \in {"parse", "unit", "output", "charge"} => request \notin startedLate
    BY DEF IngestInv, LateInv, ProtocolInv
  <2>4. ASSUME NEW i \in Emitted, items[i].request \in startedLate
        PROVE  ~ items[i].envelope.payload /\ Limited(items[i])
    <3>1. /\ i \in 1..Len(items) /\ items[i].request = batch[i] /\ Len(items) = sequence
          /\ sequence \in Nat /\ Begun <= Len(batch) /\ Len(batch) \in Nat
      BY DEF IngestInv, TypeOK, PositionInv, Emitted
    <3>2. Distinct(batch)
      <4>1. phase \in {"submitted", "refused"} => Begun = 0 /\ sequence = 0
        BY DEF IngestInv, PositionInv, Begun, Inside
      <4> QED BY <3>1, <4>1 DEF IngestInv, PositionInv
    <3>3. CASE phase \in Inside /\ startedLate = {request}
      <4>1. request = batch[sequence + 1] /\ sequence + 1 <= Len(batch)
        BY <3>1, <3>3 DEF IngestInv, PositionInv, Begun
      <4>2. i \in 1..Len(batch) /\ sequence + 1 \in 1..Len(batch) /\ i # sequence + 1
        BY <3>1, <4>1
      <4> QED BY <2>4, <3>1, <3>2, <3>3, <4>1, <4>2 DEF Distinct
    <3>4. CASE /\ startedLate = {batch[Len(items)]} /\ Refuses(items[Len(items)].envelope)
      <4>1. sequence <= Len(batch)
        BY <3>1 DEF Begun
      <4>2. i \in 1..Len(batch) /\ Len(items) \in 1..Len(batch)
        BY <3>1, <4>1
      <4>3. i = Len(items)
        BY <2>4, <3>1, <3>2, <3>4, <4>2 DEF Distinct
      <4> QED BY <3>4, <4>3 DEF Refuses, Limited
    <3> QED BY <2>4, <3>3, <3>4 DEF IngestInv, LateInv
  <2> QED BY <2>1, <2>2, <2>3, <2>4 DEF StopsAreFinal, StoppedControlStartsNothing
<1> QED BY <1>1, IngestInductive, PTL

(* The payloads handed over fit the output budget together, also when the  *)
(* ingestor adds to an envelope that was charged before.                   *)
THEOREM OutputWithinBudgetHolds == Spec => []OutputWithinBudget
<1>1. IngestInv => OutputWithinBudget
  <2> SUFFICES ASSUME IngestInv, "output_bytes" \in DOMAIN Limit
               PROVE  PayloadBytes(items) <= Limit["output_bytes"]
    BY DEF OutputWithinBudget
  <2>1. PayloadBytes(items) \in Nat /\ Paid(envelope) \in Nat /\ Limit["output_bytes"] \in Nat
    BY PayloadType, PaidNow, IngestionAssumption DEF IngestInv, TypeOK
  <2>2. PayloadBytes(items) + Paid(envelope) <= Limit["output_bytes"]
    BY DEF IngestInv, BudgetInv, Due
  <2> QED BY <2>1, <2>2
<1> QED BY <1>1, IngestInductive, PTL

-----------------------------------------------------------------------------
(* The refinement.                                                         *)

LEMMA HandingGrows ==
  ASSUME IngestInv, IngestInv', NEW e, HandedOver(e)
  PROVE  producer!Grows /\ producer!Newest' = e
<1>1. /\ items \in Seq(Replies) /\ received = items /\ received' = Append(received, e)
      /\ outcome = "collecting" /\ outcome' = "collecting"
  BY DEF IngestInv, TypeOK, HandedOver
<1>2. PICK n \in Nat : n = Len(received)
  BY <1>1
<1>3. received # <<>> => received[n] \in Replies
  BY <1>1, <1>2
<1>4. ~ producer!Terminated
  BY <1>2, <1>3 DEF producer!Terminated, producer!IsTerminal, producer!Newest, Replies
<1>5. /\ Len(received') = n + 1 /\ SubSeq(received', 1, n) = received
      /\ received'[n + 1] = e
  <2>1. PICK s \in Seq(Replies \cup {e}), x \in Replies \cup {e} : s = received /\ x = e
    BY <1>1
  <2>2. Len(Append(s, x)) = Len(s) + 1 /\ SubSeq(Append(s, x), 1, Len(s)) = s
        /\ Append(s, x)[Len(s) + 1] = x
    OBVIOUS
  <2> QED BY <1>1, <1>2, <2>1, <2>2
<1>6. producer!Newest' = e
  BY <1>5 DEF producer!Newest
<1>7. producer!Grows
  BY <1>1, <1>2, <1>4, <1>5 DEF producer!Grows
<1> QED BY <1>6, <1>7

(* Ingestion keeps the producer's promise: numbered items, one terminal    *)
(* that counts them, then nothing.                                         *)
THEOREM IngestImplementsEventStream == Spec => ImplementsEventStream
<1>1. Init => producer!Init
  BY DEF Init, CollectorInit, producer!Init
<1>2. ASSUME IngestInv, IngestInv', [Next]_vars PROVE [producer!Next]_(producer!vars)
  <2>1. CASE \E e : HandedOver(e) /\ e = Item(request, sequence, envelope)
    <3>1. PICK e : HandedOver(e) /\ e = Item(request, sequence, envelope)
      BY <2>1
    <3>2. e.event = "item" /\ e.sequence = sequence /\ Len(received) = sequence
      BY <1>2, <3>1 DEF Item, HandedOver, IngestInv, PositionInv
    <3>3. producer!Emit
      BY <1>2, <3>1, <3>2, HandingGrows DEF producer!Emit, producer!IsTerminal
    <3> QED BY <3>3 DEF producer!Next
  <2>2. CASE \E t \in Endings : HandedOver(t) /\ Tells(t)
    <3>1. PICK t \in Endings : HandedOver(t) /\ Tells(t)
      BY <2>2
    <3>2. /\ t.event = "terminal" /\ t.emitted_items = Len(received)
          /\ t.status = "complete" => ~ t.partial
      BY <1>2, <3>1 DEF Endings, Tells, HandedOver, IngestInv, PositionInv
    <3>3. producer!Terminate
      BY <1>2, <3>1, <3>2, HandingGrows DEF producer!Terminate, producer!IsTerminal
    <3> QED BY <3>3 DEF producer!Next
  <2>3. CASE outcome = "collecting" /\ outcome' = "collected"
             /\ received' = received /\ ending # <<>>
    <3>1. PICK t \in Endings : ending = <<t>>
      BY <1>2, <2>3 DEF IngestInv, TypeOK
    <3>2. received = Append(items, t) /\ items \in Seq(Replies)
      BY <1>2, <3>1 DEF IngestInv, TypeOK, ProtocolInv
    <3>3. received # <<>> /\ received[Len(received)] = t
      <4>1. PICK s \in Seq(Replies \cup {t}), x \in Replies \cup {t} : s = items /\ x = t
        BY <3>2
      <4>2. Append(s, x) # <<>> /\ Append(s, x)[Len(Append(s, x))] = x
        OBVIOUS
      <4> QED BY <3>2, <4>1, <4>2
    <3>4. producer!Terminated
      BY <3>3 DEF producer!Terminated, producer!IsTerminal, producer!Newest, Endings
    <3>5. producer!Close
      BY <2>3, <3>4 DEF producer!Close
    <3> QED BY <3>5 DEF producer!Next
  <2>4. CASE UNCHANGED collector
    BY <2>4 DEF collector, producer!vars
  <2> QED BY <1>2, <2>1, <2>2, <2>3, <2>4, IngestSteps
<1> QED BY <1>1, <1>2, IngestInductive, PTL DEF Spec, ImplementsEventStream, producer!Spec

-----------------------------------------------------------------------------
(* The collector alone, on streams of every length from any producer.  The *)
(* invariant relates what was collected to what was received: while        *)
(* collecting, the items are the events received so far without the        *)
(* terminal.                                                               *)

(* What collecting keeps true, and what each verdict was based on.         *)
CollectingInv ==
  /\ outcome \notin EarlyErrors =>
       /\ ending = <<>> => items = received
       /\ ending # <<>> => received = Append(items, ending[1])
       /\ AllItems(items)
  /\ outcome = "collecting" \/ outcome \in EarlyErrors \/ outcome = Verdict

CollectorInv == CollectorTypeOK /\ CollectingInv /\ CollectsExactlyWellFormed

LEMMA EventKinds ==
  /\ \A e \in Items : IsItem(e) /\ e.sequence \in Nat
  /\ \A e \in Terminals : ~ IsItem(e) /\ e.emitted_items \in Nat
  BY StreamCollectorAssumption DEF IsItem

(* Items and terminals are told apart.                                     *)
LEMMA SplitEvents ==
  ASSUME NEW e \in Events
  PROVE  (IsItem(e) => e \in Items) /\ (~ IsItem(e) => e \in Terminals)
  BY EventKinds DEF Events

LEMMA AllButLastOfAppend ==
  ASSUME NEW s \in Seq(Events), NEW e \in Events
  PROVE  AllButLast(Append(s, e)) = s /\ Append(s, e)[Len(Append(s, e))] = e
         /\ Len(Append(s, e)) = Len(s) + 1 /\ Append(s, e) # <<>>
  BY DEF AllButLast

LEMMA AllItemsOfAppend ==
  ASSUME NEW s \in Seq(Events), NEW e \in Events
  PROVE  AllItems(Append(s, e)) <=> AllItems(s) /\ IsItem(e) /\ e.sequence = Len(s)
  <1>1. ASSUME AllItems(Append(s, e))
        PROVE  AllItems(s) /\ IsItem(e) /\ e.sequence = Len(s)
    BY <1>1 DEF AllItems
  <1>2. ASSUME AllItems(s), IsItem(e), e.sequence = Len(s)
        PROVE  AllItems(Append(s, e))
    BY <1>2 DEF AllItems
  <1> QED BY <1>1, <1>2

LEMMA WellFormedOfAppend ==
  ASSUME NEW s \in Seq(Events), NEW e \in Events
  PROVE  /\ WellFormedSoFar(Append(s, e)) <=>
              AllItems(s) /\ (IsItem(e) => e.sequence = Len(s))
         /\ WellFormed(Append(s, e)) <=>
              /\ AllItems(s) /\ ~ IsItem(e) /\ e.emitted_items = Len(s)
              /\ e.status = "complete" => ~ e.partial
  BY AllButLastOfAppend, AllItemsOfAppend DEF WellFormedSoFar, WellFormed

-----------------------------------------------------------------------------
LEMMA CollectorStarts ==
  ASSUME CollectorInit
  PROVE  CollectorInv
  BY DEF CollectorInit, CollectorInv, CollectorTypeOK, CollectingInv, CollectsExactlyWellFormed,
         AllItems, WellFormedSoFar, EarlyErrors, LateErrors, Errors

LEMMA ReceivePreserves ==
  ASSUME CollectorInv, NEW e \in Events, Receive(e)
  PROVE  CollectorInv'
  <1> USE DEF EarlyErrors, LateErrors, Errors
  <1>1. /\ items \in Seq(Items) /\ items \in Seq(Events) /\ received \in Seq(Events)
        /\ ending \in Seq(Terminals) /\ Len(ending) <= 1
        /\ outcome = "collecting"
        /\ ending = <<>> => items = received
        /\ ending # <<>> => received = Append(items, ending[1])
        /\ AllItems(items)
    BY DEF CollectorInv, CollectorTypeOK, CollectingInv, Receive, Events
  <1>2. received' = Append(received, e) /\ received' \in Seq(Events)
    BY <1>1 DEF Receive
  <1>3. ending # <<>> => ending[1] \in Terminals /\ ending[1] \in Events
    BY <1>1 DEF Events
  <1>4. CASE CollectItem(e)
    <2>1. items = received /\ e \in Items /\ IsItem(e) /\ ending' = <<>> /\ ending = <<>>
      BY <1>1, <1>4, SplitEvents DEF CollectItem
    <2>2. CASE Contiguous(e)
      <3>1. items' = received' /\ items' \in Seq(Items) /\ outcome' = "collecting"
        BY <1>1, <1>2, <1>4, <2>1, <2>2 DEF CollectItem
      <3>2. e.sequence = Len(received)
        BY <2>1, <2>2 DEF Contiguous
      <3>3. AllItems(items') /\ WellFormedSoFar(received')
        BY <1>1, <1>2, <2>1, <3>1, <3>2, AllItemsOfAppend, WellFormedOfAppend
      <3> QED BY <1>1, <1>2, <2>1, <3>1, <3>3
            DEF CollectorInv, CollectorTypeOK, CollectingInv, CollectsExactlyWellFormed
    <2>3. CASE ~ Contiguous(e)
      <3>1. items' = items /\ outcome' = "non_contiguous_sequence"
        BY <1>4, <2>3 DEF CollectItem
      <3>2. ~ WellFormedSoFar(received')
        BY <1>1, <1>2, <2>1, <2>3, WellFormedOfAppend DEF Contiguous
      <3> QED BY <1>1, <1>2, <2>1, <3>1, <3>2
            DEF CollectorInv, CollectorTypeOK, CollectingInv, CollectsExactlyWellFormed
    <2> QED BY <2>2, <2>3
  <1>5. CASE CollectTerminal(e)
    <2>1. /\ items = received /\ e \in Terminals /\ ~ IsItem(e) /\ ending = <<>>
          /\ ending' = <<e>> /\ items' = items /\ outcome' = "collecting"
      BY <1>1, <1>5, SplitEvents DEF CollectTerminal
    <2>2. ending' \in Seq(Terminals) /\ Len(ending') <= 1 /\ ending' # <<>> /\ ending'[1] = e
      BY <2>1
    <2>3. WellFormedSoFar(received')
      BY <1>1, <1>2, <2>1, WellFormedOfAppend
    <2> QED BY <1>1, <1>2, <2>1, <2>2, <2>3
          DEF CollectorInv, CollectorTypeOK, CollectingInv, CollectsExactlyWellFormed, AllItems
  <1>6. CASE RejectAfterTerminal(e)
    <2>1. items' = items /\ ending' = ending /\ outcome' = "event_after_terminal"
      BY <1>6 DEF RejectAfterTerminal
    <2>2. ~ AllItems(received)
      <3>1. ending # <<>>
        BY <1>6 DEF RejectAfterTerminal
      <3>2. ending[1] \in Events /\ ~ IsItem(ending[1])
        BY <1>3, <3>1, EventKinds
      <3> QED BY <1>1, <3>1, <3>2, AllItemsOfAppend
    <2>3. ~ WellFormedSoFar(received')
      BY <1>1, <1>2, <2>2, WellFormedOfAppend
    <2> QED BY <1>1, <1>2, <2>1, <2>3
          DEF CollectorInv, CollectorTypeOK, CollectingInv, CollectsExactlyWellFormed
  <1> QED BY <1>4, <1>5, <1>6 DEF Receive

LEMMA EndPreserves ==
  ASSUME CollectorInv, EndOfStream
  PROVE  CollectorInv'
  <1> USE DEF EarlyErrors, LateErrors, Errors
  <1>1. /\ items \in Seq(Events) /\ received \in Seq(Events)
        /\ ending = <<>> => items = received
        /\ ending # <<>> => received = Append(items, ending[1]) /\ ending[1] \in Terminals
        /\ AllItems(items)
        /\ outcome' = Verdict
        /\ items' = items /\ ending' = ending /\ received' = received
    BY DEF CollectorInv, CollectorTypeOK, CollectingInv, EndOfStream, Events
  <1>2. CASE ending = <<>>
    <2>1. ~ WellFormed(received)
      BY <1>1, <1>2 DEF WellFormed, AllItems
    <2> QED BY <1>1, <1>2, <2>1
          DEF CollectorInv, CollectorTypeOK, CollectingInv, CollectsExactlyWellFormed, Verdict
  <1>3. CASE ending # <<>>
    <2>1. /\ ending[1] \in Events /\ ~ IsItem(ending[1]) /\ ending[1].partial \in BOOLEAN
      BY <1>1, <1>3, EventKinds, StreamCollectorAssumption DEF Events
    <2>2. WellFormed(received) <=>
            /\ ending[1].emitted_items = Len(items)
            /\ ending[1].status = "complete" => ~ ending[1].partial
      BY <1>1, <1>3, <2>1, WellFormedOfAppend
    <2>3. outcome' = "collected" <=> WellFormed(received)
      BY <1>1, <1>3, <2>2 DEF Verdict
    <2>4. outcome' \in {"collected", "emitted_count_mismatch",
                        "complete_with_partial_diagnostic"}
      BY <1>1, <1>3 DEF Verdict
    <2>5. outcome' = Verdict'
      BY <1>1 DEF Verdict
    <2> QED BY <1>1, <2>3, <2>4, <2>5
          DEF CollectorInv, CollectorTypeOK, CollectingInv, CollectsExactlyWellFormed
  <1> QED BY <1>2, <1>3

LEMMA StutterPreserves ==
  ASSUME CollectorInv, UNCHANGED collector
  PROVE  CollectorInv'
  BY DEF collector, CollectorInv, CollectorTypeOK, CollectingInv, CollectsExactlyWellFormed,
         WellFormedSoFar, WellFormed, AllItems, AllButLast, Verdict

THEOREM CollectorInductive == CollectorSpec => []CollectorInv
  <1>1. CollectorInv /\ [CollectorNext]_collector => CollectorInv'
    BY ReceivePreserves, EndPreserves, StutterPreserves DEF CollectorNext
  <1> QED BY <1>1, CollectorStarts, PTL DEF CollectorSpec

(* The collector's state stays in range whatever it is handed.             *)
THEOREM CollectorTypeCorrect == CollectorSpec => []CollectorTypeOK
  <1>1. CollectorInv => CollectorTypeOK
    BY DEF CollectorInv
  <1> QED BY <1>1, CollectorInductive, PTL

(* collect_batch accepts exactly the well-formed streams and gives up on   *)
(* one only when no continuation could be well formed.                     *)
THEOREM CollectorIsExact == CollectorSpec => []CollectsExactlyWellFormed
  <1>1. CollectorInv => CollectsExactlyWellFormed
    BY DEF CollectorInv
  <1> QED BY <1>1, CollectorInductive, PTL

-----------------------------------------------------------------------------
(* The registries that a call's dispatch asks: selection of parsers and    *)
(* providers, for any descriptors, any spellings and any order of calls.   *)
(* The claims that are installed are exactly those of the registered       *)
(* parsers, available or not, because a refused registration installs      *)
(* none; no two of them clash; and a format's parsers have different       *)
(* priorities. So the claims of a name lead to one format, and the highest *)
(* priority of that format is one parser's.                                *)

ClaimsOf(S) == UNION {Claims(d) : d \in S}

ParsersInv ==
  /\ parsers \cup unavailable \subseteq Descriptors
  /\ selectors = ClaimsOf(Registered)
  /\ \A c, e \in selectors : ~Clash(c, e)
  /\ \A d, e \in parsers : FormatOf(d) = FormatOf(e) /\ d.priority = e.priority => d = e

ProvidersInv ==
  /\ \A p \in providers : LawfulProvider(p)
  /\ BindingsAreLawful

RegistryInv == ParsersInv /\ ProvidersInv

-----------------------------------------------------------------------------
(* A parser claims names for its own format only.                          *)
LEMMA ClaimsAreOwn ==
  ASSUME NEW d, NEW c \in Claims(d)
  PROVE  c.format = FormatOf(d)
  BY DEF Claims, Claim

(* Claims that could all be installed clash with none that are held, and   *)
(* with none of their own.                                                 *)
LEMMA InstalledTogether ==
  ASSUME NEW d, NEW held,
         \A c, e \in held : ~Clash(c, e),
         \A c \in Claims(d) : Installable(c, held)
  PROVE  \A c, e \in held \cup Claims(d) : ~Clash(c, e)
  <1>1. \A c \in Claims(d), e \in held : ~Clash(c, e) /\ ~Clash(e, c)
    BY DEF Installable, Clash
  <1>2. \A c, e \in Claims(d) : ~Clash(c, e)
    BY ClaimsAreOwn DEF Clash
  <1> QED BY <1>1, <1>2

LEMMA ClaimsOfMore ==
  ASSUME NEW S, NEW d
  PROVE  ClaimsOf(S \cup {d}) = ClaimsOf(S) \cup Claims(d)
  BY DEF ClaimsOf

(* What both kinds of registration do to the claims.                       *)
LEMMA RegistrationKeepsClaims ==
  ASSUME ParsersInv, NEW d \in Descriptors,
         selectors' = selectors \cup InstallSelectors(d),
         Registered' = IF \A c \in Claims(d) : Installable(c, selectors)
                       THEN Registered \cup {d} ELSE Registered
  PROVE  /\ selectors' = ClaimsOf(Registered')
         /\ \A c, e \in selectors' : ~Clash(c, e)
  <1>1. CASE \A c \in Claims(d) : Installable(c, selectors)
    <2>1. selectors' = selectors \cup Claims(d) /\ Registered' = Registered \cup {d}
      BY <1>1 DEF InstallSelectors
    <2>2. selectors' = ClaimsOf(Registered')
      BY <2>1, ClaimsOfMore DEF ParsersInv
    <2>3. \A c, e \in selectors \cup Claims(d) : ~Clash(c, e)
      BY <1>1, InstalledTogether DEF ParsersInv
    <2> QED BY <2>1, <2>2, <2>3
  <1>2. CASE ~ \A c \in Claims(d) : Installable(c, selectors)
    BY <1>2 DEF InstallSelectors, ParsersInv
  <1> QED BY <1>1, <1>2

-----------------------------------------------------------------------------
LEMMA RegistryStarts == RegistryInit => RegistryInv
  BY DEF RegistryInit, RegistryInv, ParsersInv, ProvidersInv, BindingsAreLawful, Registered, ClaimsOf

LEMMA RegisterPreserves ==
  ASSUME RegistryInv, NEW d \in Descriptors, Register(d)
  PROVE  RegistryInv'
  <1>1. ProvidersInv'
    BY DEF RegistryInv, ProvidersInv, BindingsAreLawful, Register
  <1>2. Registered' = IF \A c \in Claims(d) : Installable(c, selectors)
                      THEN Registered \cup {d} ELSE Registered
    BY DEF Register, Registered
  <1>3. selectors' = ClaimsOf(Registered') /\ \A c, e \in selectors' : ~Clash(c, e)
    BY <1>2, RegistrationKeepsClaims DEF RegistryInv, Register
  <1>4. (parsers \cup unavailable)' \subseteq Descriptors
    BY DEF RegistryInv, ParsersInv, Register
  <1>5. \A b, e \in parsers' : FormatOf(b) = FormatOf(e) /\ b.priority = e.priority => b = e
    BY DEF RegistryInv, ParsersInv, Register, PriorityTaken
  <1> QED BY <1>1, <1>3, <1>4, <1>5 DEF RegistryInv, ParsersInv

LEMMA RegisterUnavailablePreserves ==
  ASSUME RegistryInv, NEW d \in Descriptors, RegisterUnavailable(d)
  PROVE  RegistryInv'
  <1>1. ProvidersInv'
    BY DEF RegistryInv, ProvidersInv, BindingsAreLawful, RegisterUnavailable
  <1>2. Registered' = IF \A c \in Claims(d) : Installable(c, selectors)
                      THEN Registered \cup {d} ELSE Registered
    BY DEF RegisterUnavailable, Registered
  <1>3. selectors' = ClaimsOf(Registered') /\ \A c, e \in selectors' : ~Clash(c, e)
    BY <1>2, RegistrationKeepsClaims DEF RegistryInv, RegisterUnavailable
  <1> QED BY <1>1, <1>3 DEF RegistryInv, ParsersInv, RegisterUnavailable

LEMMA RegisterProviderPreserves ==
  ASSUME RegistryInv, NEW p \in Providers, RegisterProvider(p)
  PROVE  RegistryInv'
  <1>1. ParsersInv'
    BY DEF RegistryInv, ParsersInv, RegisterProvider, Registered
  <1>2. ProvidersInv'
    BY DEF RegistryInv, ProvidersInv, BindingsAreLawful, RegisterProvider
  <1> QED BY <1>1, <1>2 DEF RegistryInv

LEMMA SelectIntoPreserves ==
  ASSUME RegistryInv, NEW kind, NEW id, NEW access, SelectInto(kind, id, access)
  PROVE  RegistryInv'
  <1>1. ParsersInv'
    BY DEF RegistryInv, ParsersInv, SelectInto, Registered
  <1>2. PICK p \in providers :
          /\ p.kind = kind /\ Permits(p.network, access)
          /\ bindings' = {b \in bindings : b.kind # kind}
                           \cup {[provider |-> p, kind |-> kind, network |-> access]}
          /\ providers' = providers
    BY DEF SelectInto
  <1>3. kind = "backend" => p.isolation
    BY <1>2 DEF RegistryInv, ProvidersInv, LawfulProvider
  <1>4. \A b \in bindings' :
          /\ b.provider \in providers' /\ b.provider.kind = b.kind
          /\ Permits(b.provider.network, b.network)
          /\ b.kind = "backend" => b.provider.isolation
    BY <1>2, <1>3 DEF RegistryInv, ProvidersInv, BindingsAreLawful
  <1>5. \A a, b \in bindings' : a.kind = b.kind => a = b
    BY <1>2 DEF RegistryInv, ProvidersInv, BindingsAreLawful
  <1>6. \A q \in providers' : LawfulProvider(q)
    BY <1>2 DEF RegistryInv, ProvidersInv
  <1> QED BY <1>1, <1>4, <1>5, <1>6 DEF RegistryInv, ProvidersInv, BindingsAreLawful

LEMMA RegistryStutterPreserves == RegistryInv /\ UNCHANGED registryVars => RegistryInv'
  BY DEF registryVars, RegistryInv, ParsersInv, ProvidersInv, BindingsAreLawful, Registered

THEOREM RegistryInductive == RegistrySpec => []RegistryInv
  <1>1. RegistryInv /\ [RegistryNext]_registryVars => RegistryInv'
    BY RegisterPreserves, RegisterUnavailablePreserves, RegisterProviderPreserves,
       SelectIntoPreserves, RegistryStutterPreserves DEF RegistryNext
  <1> QED BY <1>1, RegistryStarts, PTL DEF RegistrySpec

-----------------------------------------------------------------------------
(* The formats a name leads to are those of the parsers that claim it.     *)
LEMMA ClaimedFormats ==
  ASSUME ParsersInv, NEW space, NEW spelling
  PROVE  {d \in parsers : FormatOf(d) \in CanonicalFormats(space, spelling)}
           = Meant(space, spelling)
  <1> DEFINE n == Normal[space][spelling]
             claimed == {c \in selectors : c.namespace = space /\ c.name = n}
             claimants == {d \in Registered : \E c \in Claims(d) : c.namespace = space /\ c.name = n}
  <1>1. \A c \in claimed : \E d \in claimants : c.format = FormatOf(d)
    BY ClaimsAreOwn DEF ParsersInv, ClaimsOf
  <1>2. \A d \in claimants : \E c \in claimed : c.format = FormatOf(d)
    BY ClaimsAreOwn DEF ParsersInv, ClaimsOf
  <1>3. CASE claimants = {}
    BY <1>1, <1>3 DEF CanonicalFormats, Meant
  <1>4. CASE claimants # {}
    <2>1. CanonicalFormats(space, spelling) = {c.format : c \in claimed}
      BY <1>2, <1>4 DEF CanonicalFormats
    <2>2. Meant(space, spelling) = {d \in parsers : \E e \in claimants : FormatOf(d) = FormatOf(e)}
      BY <1>4 DEF Meant
    <2> QED BY <1>1, <1>2, <2>1, <2>2
  <1> QED BY <1>3, <1>4

(* All parsers meant by a name are of one format.                          *)
LEMMA OneFormat ==
  ASSUME ParsersInv, NEW space, NEW spelling,
         NEW d \in Meant(space, spelling), NEW e \in Meant(space, spelling)
  PROVE  FormatOf(d) = FormatOf(e)
  <1> DEFINE n == Normal[space][spelling]
             claimants == {b \in Registered : \E c \in Claims(b) : c.namespace = space /\ c.name = n}
  <1>1. \A a, b \in claimants : FormatOf(a) = FormatOf(b)
    BY ClaimsAreOwn DEF ParsersInv, ClaimsOf, Clash
  <1> QED BY <1>1 DEF Meant

(* Every name selects one parser, the highest of the format it is claimed  *)
(* for, after any calls, refused ones among them.                          *)
THEOREM SelectionUnambiguous == RegistrySpec => []SelectionIsUnambiguous
  <1>1. ASSUME RegistryInv, NEW space \in Namespaces, NEW spelling \in Spellings
        PROVE  LET meant == Meant(space, spelling) IN
               /\ \A d, e \in meant : FormatOf(d) = FormatOf(e)
               /\ Selected(space, spelling)
                    = {d \in meant : \A e \in meant : e.priority <= d.priority}
               /\ \A d, e \in Selected(space, spelling) : d = e
    <2>1. \A d, e \in Meant(space, spelling) : FormatOf(d) = FormatOf(e)
      BY <1>1, OneFormat DEF RegistryInv
    <2>2. Selected(space, spelling)
            = {d \in Meant(space, spelling) : \A e \in Meant(space, spelling) :
                 e.priority <= d.priority}
      BY <1>1, ClaimedFormats DEF RegistryInv, Selected
    <2>3. ASSUME NEW d \in Selected(space, spelling), NEW e \in Selected(space, spelling)
          PROVE  d = e
      <3>1. /\ d \in parsers /\ e \in parsers
            /\ d \in Meant(space, spelling) /\ e \in Meant(space, spelling)
        BY <2>2, <2>3 DEF Meant
      <3>2. d.priority \in Int /\ e.priority \in Int
        BY <1>1, <3>1, RegistriesAssumption DEF RegistryInv, ParsersInv
      <3>3. d.priority = e.priority
        BY <2>2, <2>3, <3>1, <3>2
      <3> QED BY <1>1, <2>1, <3>1, <3>3 DEF RegistryInv, ParsersInv
    <2> QED BY <2>1, <2>2, <2>3
  <1>2. RegistryInv => SelectionIsUnambiguous
    BY <1>1 DEF SelectionIsUnambiguous
  <1> QED BY <1>2, RegistryInductive, PTL

(* Providers are bound once for each kind, as they are registered and on   *)
(* the network terms of their registration.                                *)
THEOREM BindingsLawful == RegistrySpec => []BindingsAreLawful
  <1>1. RegistryInv => BindingsAreLawful
    BY DEF RegistryInv, ProvidersInv
  <1> QED BY <1>1, RegistryInductive, PTL
=============================================================================
