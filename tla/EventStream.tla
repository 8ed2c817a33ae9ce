---------------------------- MODULE EventStream ----------------------------
(***************************************************************************)
(* What every producer of StreamEvent promises its consumers: items in     *)
(* contiguous order, then exactly one terminal that says how many there    *)
(* were, then nothing.  A complete terminal carries no partial diagnostic. *)
(*                                                                         *)
(* Ingestion.tla and ModelOutputStream.tla are shown to implement this.    *)
(***************************************************************************)
EXTENDS Naturals, Sequences

VARIABLES
  events, \* what the consumer has been handed
  closed  \* the stream has answered that there is nothing more

vars == <<events, closed>>

Newest == events[Len(events)]

IsTerminal(event) == event.event = "terminal"

Terminated == events # <<>> /\ IsTerminal(Newest)

Init == events = <<>> /\ closed = FALSE

(* One event more is handed over, the earlier ones never change.           *)
Grows ==
  /\ ~ closed /\ ~ Terminated
  /\ Len(events') = Len(events) + 1
  /\ SubSeq(events', 1, Len(events)) = events
  /\ UNCHANGED closed

Emit ==
  /\ Grows
  /\ ~ IsTerminal(Newest')
  /\ Newest'.sequence = Len(events)

Terminate ==
  /\ Grows
  /\ IsTerminal(Newest')
  /\ Newest'.emitted_items = Len(events)
  /\ Newest'.status = "complete" => ~ Newest'.partial

Close ==
  /\ ~ closed /\ Terminated
  /\ closed' = TRUE
  /\ UNCHANGED events

Next == Emit \/ Terminate \/ Close

Spec == Init /\ [][Next]_vars
=============================================================================
