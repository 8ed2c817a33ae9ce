----------------------------- MODULE BudgetTree -----------------------------
(***************************************************************************)
(* What the shared budget tree promises its callers, independently of how  *)
(* it counts.  Each axis remembers the work it has admitted and whether it *)
(* has ever refused.  Work is admitted only while the total stays within   *)
(* the limit, and an axis that has refused once admits nothing more.       *)
(*                                                                         *)
(* OperationControl.tla, the detailed model, is shown to implement this.   *)
(***************************************************************************)
EXTENDS Naturals

CONSTANTS
  SumAxes,   \* axes whose charges add up
  PeakAxes,  \* axes that keep their largest observation
  Limit,     \* inclusive limit of each limited axis (a function)
  MaxU64     \* largest value a counter can hold

Axes == SumAxes \cup PeakAxes

VARIABLES
  admitted,  \* admitted[a]: total (or peak) of the charges accepted on a
  exhausted  \* axes that have refused a charge

vars == <<admitted, exhausted>>

(* The total after accepting n more units on axis a.                       *)
Total(a, n) ==
  IF a \in SumAxes THEN admitted[a] + n
  ELSE IF n > admitted[a] THEN n ELSE admitted[a]

(* A limit of MaxU64 cannot be told from no limit: a saturated counter     *)
(* never exceeds it.                                                       *)
Bounded(a) == a \in DOMAIN Limit /\ Limit[a] < MaxU64

Init ==
  /\ admitted = [a \in Axes |-> 0]
  /\ exhausted = {}

Admit(a, n) ==
  /\ a \notin exhausted
  /\ Bounded(a) => Total(a, n) <= Limit[a]
  /\ admitted' = [admitted EXCEPT ![a] = Total(a, n)]
  /\ UNCHANGED exhausted

Refuse(a) ==
  /\ Bounded(a)
  /\ exhausted' = exhausted \cup {a}
  /\ UNCHANGED admitted

Next == \E a \in Axes : Refuse(a) \/ \E n \in 0..MaxU64 : Admit(a, n)

Spec == Init /\ [][Next]_vars
=============================================================================
