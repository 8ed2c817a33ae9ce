-------------------------- MODULE StreamCollector --------------------------
(***************************************************************************)
(* collect_batch (src/core/streaming.rs): the collector that turns an      *)
(* event stream into a batch result, one event per step.  It trusts no     *)
(* producer: whatever arrives, it either builds a batch from a well-formed *)
(* stream or names the first violation.                                    *)
(***************************************************************************)
EXTENDS Naturals, Sequences

CONSTANTS
  Items,     \* item events a producer may hand over
  Terminals  \* terminal events a producer may hand over

ASSUME StreamCollectorAssumption ==
  /\ \A e \in Items : e.event = "item" /\ e.sequence \in Nat
  /\ \A e \in Terminals : /\ e.event = "terminal" /\ e.emitted_items \in Nat
                          /\ e.partial \in BOOLEAN

Events == Items \cup Terminals

IsItem(e) == e.event = "item"

VARIABLES
  items,    \* the items collected
  ending,   \* the terminal seen, in a sequence of at most one
  outcome,  \* "collecting", or what collect_batch returned
  received  \* history: every event handed over

collector == <<items, ending, outcome, received>>

(* Errors found at an event, and errors found at the end of the stream.    *)
EarlyErrors == {"event_after_terminal", "non_contiguous_sequence"}
LateErrors == {"missing_terminal", "emitted_count_mismatch",
               "complete_with_partial_diagnostic"}
Errors == EarlyErrors \cup LateErrors

CollectorInit ==
  /\ items = <<>> /\ ending = <<>>
  /\ outcome = "collecting"
  /\ received = <<>>

(* Fault: the sequence numbers are not compared.                           *)
ContiguousUnchecked(e) == TRUE

Contiguous(e) == e.sequence = Len(items)

CollectItem(e) ==
  /\ ending = <<>> /\ IsItem(e)
  /\ IF Contiguous(e)
     THEN items' = Append(items, e) /\ UNCHANGED outcome
     ELSE outcome' = "non_contiguous_sequence" /\ UNCHANGED items
  /\ UNCHANGED ending

CollectTerminal(e) ==
  /\ ending = <<>> /\ ~ IsItem(e)
  /\ ending' = <<e>>
  /\ UNCHANGED <<items, outcome>>

RejectAfterTerminal(e) ==
  /\ ending # <<>>
  /\ outcome' = "event_after_terminal"
  /\ UNCHANGED <<items, ending>>

(* The stream hands over e.                                                *)
Receive(e) ==
  /\ outcome = "collecting"
  /\ received' = Append(received, e)
  /\ CollectItem(e) \/ CollectTerminal(e) \/ RejectAfterTerminal(e)

(* What the terminal says is compared with what was collected.             *)
Verdict ==
  IF ending = <<>> THEN "missing_terminal"
  ELSE IF ending[1].emitted_items # Len(items) THEN "emitted_count_mismatch"
  ELSE IF ending[1].status = "complete" /\ ending[1].partial
       THEN "complete_with_partial_diagnostic"
  ELSE "collected"

(* The stream answers that there is nothing more.                          *)
EndOfStream ==
  /\ outcome = "collecting"
  /\ outcome' = Verdict
  /\ UNCHANGED <<items, ending, received>>

(* A producer that hands over whatever it likes.                           *)
CollectorNext == EndOfStream \/ \E e \in Events : Receive(e)

CollectorSpec == CollectorInit /\ [][CollectorNext]_collector

-----------------------------------------------------------------------------
(* The protocol, stated over whole streams.                                *)

AllItems(s) == \A i \in 1..Len(s) : IsItem(s[i]) /\ s[i].sequence = i - 1

AllButLast(s) == SubSeq(s, 1, Len(s) - 1)

WellFormedSoFar(s) ==
  \/ AllItems(s)
  \/ s # <<>> /\ AllItems(AllButLast(s)) /\ ~ IsItem(s[Len(s)])

WellFormed(s) ==
  /\ s # <<>> /\ AllItems(AllButLast(s)) /\ ~ IsItem(s[Len(s)])
  /\ s[Len(s)].emitted_items = Len(s) - 1
  /\ s[Len(s)].status = "complete" => ~ s[Len(s)].partial

(* Variables stay in their ranges.                                         *)
CollectorTypeOK ==
  /\ items \in Seq(Items)
  /\ ending \in Seq(Terminals) /\ Len(ending) <= 1
  /\ outcome \in {"collecting", "collected"} \cup Errors
  /\ received \in Seq(Events)

(* collect_batch returns a batch exactly for the streams that follow the   *)
(* protocol, and gives up on one only when no continuation could.          *)
CollectsExactlyWellFormed ==
  /\ outcome = "collecting" => WellFormedSoFar(received)
  /\ outcome = "collected" => WellFormed(received)
  /\ outcome \in EarlyErrors => ~ WellFormedSoFar(received)
  /\ outcome \in LateErrors => ~ WellFormed(received)
=============================================================================
