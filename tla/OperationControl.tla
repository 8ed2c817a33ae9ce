-------------------------- MODULE OperationControl --------------------------
(***************************************************************************)
(* OperationControl (src/core/cancellation.rs) and the BudgetTracker it    *)
(* owns (src/core/budget.rs).  Clones of one control are used by several   *)
(* threads: they share one usage table behind a mutex, one atomic          *)
(* cancellation flag and one start instant.                                *)
(*                                                                         *)
(* A charge is one critical section, hence one step.  A checkpoint is      *)
(* three: load the flag, read the clock, charge the elapsed time; a stale  *)
(* clock reading can therefore reach the table after a fresher one.        *)
(* A provider call (run_provider) is a checkpoint, the foreign operation,  *)
(* a charge for its wall time and a second checkpoint.                     *)
(*                                                                         *)
(* Time is counted in ticks, TicksPerMilli of them to a millisecond, since *)
(* the rounding of a duration to milliseconds is part of the contract.     *)
(***************************************************************************)
EXTENDS Naturals

CONSTANTS
  Threads,         \* threads holding a clone of the control
  SumAxes,         \* axes charged with consume
  PeakAxes,        \* axes charged with observe
  ParseMillis,     \* the peak axis of elapsed parse time
  ExpansionRatio,  \* the peak axis of the archive expansion ratio
  ProviderMillis,  \* the sum axis of provider wall time
  Limit,           \* inclusive limit of each limited axis; others are None
  MaxU64,          \* largest counter value
  Amounts,         \* amounts callers charge
  TicksPerMilli,   \* clock ticks in a millisecond
  MaxClock,        \* bound: the clock stops there
  MaxAttempted     \* bound: direct charges to an axis stop at this total

Axes == SumAxes \cup PeakAxes

ASSUME OperationControlAssumption ==
  /\ MaxU64 \in Nat
  /\ Amounts \subseteq 0..MaxU64
  /\ SumAxes \cap PeakAxes = {}
  /\ ProviderMillis \in SumAxes
  /\ {ParseMillis, ExpansionRatio} \subseteq PeakAxes
  /\ ParseMillis # ExpansionRatio
  /\ DOMAIN Limit \subseteq Axes
  /\ \A a \in DOMAIN Limit : Limit[a] \in 0..MaxU64
  /\ TicksPerMilli \in Nat \ {0}
  /\ MaxClock \in 0..MaxU64
  /\ MaxAttempted \in Nat

VARIABLES
  usage,      \* the usage table
  cancelled,  \* the cancellation flag
  clock,      \* ticks since the tracker was built
  phase,      \* where each thread is
  stamp,      \* the last clock reading each thread took
  outcome,    \* what each thread's last operation returned
  (* History only: nothing below is read by an action.                     *)
  attempted,  \* exact total (or peak) of every charge made on an axis
  admitted,   \* exact total (or peak) of the charges that returned Ok
  exhausted,  \* axes on which a charge has returned BudgetExceeded
  ticks,      \* ticks spent in the provider calls whose time was admitted
  ended       \* the flag and the clock when each provider call ended

shared  == <<usage, cancelled, clock>>
charges == <<attempted, admitted, exhausted, ticks>>
vars    == <<usage, cancelled, clock, phase, stamp, outcome,
             attempted, admitted, exhausted, ticks, ended>>

Phases == {"idle",                       \* outside the control
           "stamp", "observe",           \* plain checkpoint
           "enterStamp", "enterObserve", \* checkpoint before a provider
           "running", "charge",          \* the provider and its wall time
           "leave",                      \* flag of the second checkpoint
           "leaveStamp", "leaveObserve"}

Outcomes == {"none", "ok", "delivered", "cancelled", "exceeded"}

Larger(x, y) == IF x > y THEN x ELSE y

-----------------------------------------------------------------------------
(* Rounding and recording.                                                 *)

DurationMillisFloor(n) == n \div TicksPerMilli

DurationMillisCeil(n) == (n + TicksPerMilli - 1) \div TicksPerMilli

(* 0/0 counts as no expansion, anything from nothing as the largest ratio. *)
(* Limits are whole numbers here, so comparing the ratio rounded up is     *)
(* comparing the ratio itself.                                             *)
ExpansionOf(compressed, expanded) ==
  IF compressed = 0
  THEN IF expanded = 0 THEN 0 ELSE MaxU64
  ELSE (expanded + compressed - 1) \div compressed

SaturatingAdd(x, y) == IF x + y > MaxU64 THEN MaxU64 ELSE x + y

(* Fault: one unit too many is let through.                                *)
WithinLimitOffByOne(a, observed) == a \in DOMAIN Limit => observed <= Limit[a] + 1

WithinLimit(a, observed) == a \in DOMAIN Limit => observed <= Limit[a]

(* Fault: a refused charge is rolled back.                                 *)
ConsumedUnlessRefused(a, n) ==
  LET observed == SaturatingAdd(usage[a], n)
  IN  IF WithinLimit(a, observed) THEN observed ELSE usage[a]

Consumed(a, n) == SaturatingAdd(usage[a], n)

Observed(a, n) == Larger(usage[a], n)

Recorded(a, n) == IF a \in SumAxes THEN Consumed(a, n) ELSE Observed(a, n)

Exact(table, a, n) ==
  IF a \in SumAxes THEN table[a] + n ELSE Larger(table[a], n)

(* The charge of n units to axis a: the usage is recorded first and the    *)
(* limit enforced on what was recorded, so a refused attempt stays in the  *)
(* table.                                                                  *)
Charge(a, n) ==
  /\ usage' = [usage EXCEPT ![a] = Recorded(a, n)]
  /\ attempted' = [attempted EXCEPT ![a] = Exact(attempted, a, n)]
  /\ IF WithinLimit(a, Recorded(a, n))
     THEN /\ admitted' = [admitted EXCEPT ![a] = Exact(admitted, a, n)]
          /\ UNCHANGED exhausted
     ELSE /\ exhausted' = exhausted \cup {a}
          /\ UNCHANGED admitted

Accepts(a, n) == WithinLimit(a, Recorded(a, n))

-----------------------------------------------------------------------------
NotEnded == [cancelled |-> FALSE, clock |-> 0]

Init ==
  /\ usage = [a \in Axes |-> 0]
  /\ cancelled = FALSE
  /\ clock = 0
  /\ phase = [t \in Threads |-> "idle"]
  /\ stamp = [t \in Threads |-> 0]
  /\ outcome = [t \in Threads |-> "none"]
  /\ attempted = [a \in Axes |-> 0]
  /\ admitted = [a \in Axes |-> 0]
  /\ exhausted = {}
  /\ ticks = 0
  /\ ended = [t \in Threads |-> NotEnded]

(* The thread leaves its operation with the given outcome; its locals die. *)
Return(t, result) ==
  /\ phase' = [phase EXCEPT ![t] = "idle"]
  /\ outcome' = [outcome EXCEPT ![t] = result]
  /\ stamp' = [stamp EXCEPT ![t] = 0]
  /\ ended' = [ended EXCEPT ![t] = NotEnded]

(* The thread goes on; each caller says what becomes of stamp and ended.   *)
Goto(t, next) ==
  /\ phase' = [phase EXCEPT ![t] = next]
  /\ outcome' = [outcome EXCEPT ![t] = "none"]

-----------------------------------------------------------------------------
(* Direct charges: the consume_* and observe_* methods.                    *)

ChargeDirectly(t, a, n) ==
  /\ phase[t] = "idle"
  /\ Exact(attempted, a, n) <= MaxAttempted
  /\ Charge(a, n)
  /\ Return(t, IF Accepts(a, n) THEN "ok" ELSE "exceeded")
  /\ UNCHANGED <<cancelled, clock, ticks>>

Consume(t) ==
  \E a \in SumAxes \ {ProviderMillis}, n \in Amounts : ChargeDirectly(t, a, n)

Observe(t) ==
  \E a \in PeakAxes \ {ParseMillis, ExpansionRatio}, n \in Amounts :
    ChargeDirectly(t, a, n)

(* Only exact ratios are enumerated, so that an integer can stand for one. *)
ObserveArchiveExpansion(t) ==
  \E compressed, expanded \in Amounts :
    /\ compressed > 0 => expanded % compressed = 0
    /\ ChargeDirectly(t, ExpansionRatio, ExpansionOf(compressed, expanded))

-----------------------------------------------------------------------------
(* checkpoint: the flag, then the clock, then the charge.                  *)

CheckCancellation(t, from, to) ==
  /\ phase[t] = from
  /\ IF cancelled
     THEN Return(t, "cancelled")
     ELSE Goto(t, to) /\ UNCHANGED <<stamp, ended>>
  /\ UNCHANGED <<shared, charges>>

(* Fault: the flag is not consulted.                                       *)
SkipCancellation(t, from, to) ==
  /\ phase[t] = from
  /\ Goto(t, to)
  /\ UNCHANGED <<shared, charges, stamp, ended>>

ReadClock(t, from, to) ==
  /\ phase[t] = from
  /\ stamp' = [stamp EXCEPT ![t] = clock]
  /\ Goto(t, to)
  /\ UNCHANGED <<shared, charges, ended>>

(* The elapsed time read earlier is charged to the parse axis.             *)
ObserveParseTime(t, from) ==
  /\ phase[t] = from
  /\ Charge(ParseMillis, DurationMillisCeil(stamp[t]))
  /\ UNCHANGED <<cancelled, clock, ticks>>

ParseTimeAccepted(t) == Accepts(ParseMillis, DurationMillisCeil(stamp[t]))

BeginCheckpoint(t) == CheckCancellation(t, "idle", "stamp")

StampCheckpoint(t) == ReadClock(t, "stamp", "observe")

EndCheckpoint(t) ==
  /\ ObserveParseTime(t, "observe")
  /\ Return(t, IF ParseTimeAccepted(t) THEN "ok" ELSE "exceeded")

-----------------------------------------------------------------------------
(* run_provider.                                                           *)

(* Fault: the provider is entered without consulting the flag.             *)
EnterProviderUnchecked(t) == SkipCancellation(t, "idle", "enterStamp")

EnterProvider(t) == CheckCancellation(t, "idle", "enterStamp")

StampEntry(t) == ReadClock(t, "enterStamp", "enterObserve")

(* The provider starts only after a full checkpoint; its start is stamped. *)
StartProvider(t) ==
  /\ ObserveParseTime(t, "enterObserve")
  /\ IF ParseTimeAccepted(t)
     THEN /\ Goto(t, "running")
          /\ stamp' = [stamp EXCEPT ![t] = clock]
          /\ UNCHANGED ended
     ELSE Return(t, "exceeded")

(* The foreign operation returns; the elapsed ticks replace the stamp.     *)
FinishProvider(t) ==
  /\ phase[t] = "running"
  /\ stamp' = [stamp EXCEPT ![t] = clock - stamp[t]]
  /\ ended' = [ended EXCEPT ![t] = [cancelled |-> cancelled, clock |-> clock]]
  /\ Goto(t, "charge")
  /\ UNCHANGED <<shared, charges>>

ConsumeProviderTime(t) ==
  LET elapsed == DurationMillisCeil(stamp[t])
  IN  /\ phase[t] = "charge"
      /\ Charge(ProviderMillis, elapsed)
      /\ IF Accepts(ProviderMillis, elapsed)
         THEN /\ Goto(t, "leave")
              /\ ticks' = ticks + stamp[t]
              /\ UNCHANGED <<stamp, ended>>
         ELSE Return(t, "exceeded") /\ UNCHANGED ticks
      /\ UNCHANGED <<cancelled, clock>>

(* Fault: the second checkpoint does not consult the flag.                 *)
LeaveProviderUnchecked(t) == SkipCancellation(t, "leave", "leaveStamp")

LeaveProvider(t) == CheckCancellation(t, "leave", "leaveStamp")

StampExit(t) == ReadClock(t, "leaveStamp", "leaveObserve")

DeliverResult(t) ==
  /\ ObserveParseTime(t, "leaveObserve")
  /\ Return(t, IF ParseTimeAccepted(t) THEN "delivered" ELSE "exceeded")

-----------------------------------------------------------------------------
(* The caller cancels, time passes.                                        *)

Cancel ==
  /\ cancelled' = TRUE
  /\ UNCHANGED <<usage, clock, phase, stamp, outcome, ended, charges>>

Tick ==
  /\ clock < MaxClock
  /\ clock' = clock + 1
  /\ UNCHANGED <<usage, cancelled, phase, stamp, outcome, ended, charges>>

(* The steps that carry an operation already begun to its end.             *)
Proceed(t) ==
  \/ StampCheckpoint(t) \/ EndCheckpoint(t)
  \/ StampEntry(t) \/ StartProvider(t)
  \/ FinishProvider(t) \/ ConsumeProviderTime(t)
  \/ LeaveProvider(t) \/ StampExit(t) \/ DeliverResult(t)

Begin(t) ==
  \/ Consume(t) \/ Observe(t) \/ ObserveArchiveExpansion(t)
  \/ BeginCheckpoint(t) \/ EnterProvider(t)

Next ==
  \/ Cancel
  \/ Tick
  \/ \E t \in Threads : Begin(t) \/ Proceed(t)

Spec == Init /\ [][Next]_vars

(* A thread inside an operation keeps running and a provider returns; no   *)
(* caller is obliged to begin one.                                         *)
FairSpec == Spec /\ \A t \in Threads : WF_vars(Proceed(t))

-----------------------------------------------------------------------------
(* Every variable stays in its range; the counters fit their width.        *)
TypeOK ==
  /\ usage \in [Axes -> 0..MaxU64]
  /\ cancelled \in BOOLEAN
  /\ clock \in 0..MaxClock
  /\ phase \in [Threads -> Phases]
  /\ stamp \in [Threads -> 0..MaxClock]
  /\ outcome \in [Threads -> Outcomes]
  /\ attempted \in [Axes -> Nat]
  /\ admitted \in [Axes -> Nat]
  /\ exhausted \subseteq Axes
  /\ ticks \in Nat
  /\ ended \in [Threads -> [cancelled : BOOLEAN, clock : 0..MaxClock]]

(* The charges that returned Ok, of all threads together, never exceed the *)
(* limit of their axis, whatever was refused in between.  A limit equal to *)
(* the counter's maximum is out of reach of a saturated counter.           *)
AdmittedWithinLimit ==
  \A a \in DOMAIN Limit : Limit[a] < MaxU64 => admitted[a] <= Limit[a]

(* The table holds the exact total of everything that was charged, refused *)
(* attempts included, cut off at the counter's maximum: no charge is lost  *)
(* to another thread's and none wraps around.                              *)
UsageIsAttempted ==
  \A a \in Axes :
    usage[a] = IF attempted[a] > MaxU64 THEN MaxU64 ELSE attempted[a]

(* The account is right: bounded, and exact.                               *)
BudgetIsExact == AdmittedWithinLimit /\ UsageIsAttempted

(* An axis that has refused a charge never accepts another, from any       *)
(* clone, even one that would have fitted before the refused one.          *)
ExhaustionIsFinal ==
  [][\A a \in exhausted : admitted'[a] = admitted[a]]_vars

(* A provider result is handed over only if, when the provider returned,   *)
(* the caller had not cancelled and the parse deadline had not passed,     *)
(* however late the flag was raised and however stale other readings are.  *)
DeliveredInTime ==
  [][\A t \in Threads :
       /\ phase[t] = "leaveObserve"
       /\ phase'[t] = "idle"
       /\ outcome'[t] = "delivered"
       => /\ ~ ended[t].cancelled
          /\ ParseMillis \in DOMAIN Limit
               => ended[t].clock <= Limit[ParseMillis] * TicksPerMilli]_vars

(* However the wall time is split among calls and threads, the provider    *)
(* time admitted covers the ticks really spent: calls shorter than a       *)
(* millisecond cannot slip under the limit.                                *)
ProviderTimeIsCovered == ticks <= admitted[ProviderMillis] * TicksPerMilli

(* Once the caller has cancelled, provider work dies out for good.         *)
CancellationStopsProviders ==
  cancelled ~> [](\A t \in Threads : phase[t] # "running")

(***************************************************************************)
(* The inductive invariant behind the safety properties.  TableInv ties    *)
(* the saturated table to the exact history; StartedInv and LocalInv tie   *)
(* what a thread carries through run_provider to the flag and the clock.   *)
(***************************************************************************)
TableInv ==
  /\ UsageIsAttempted
  /\ \A a \in exhausted : a \in DOMAIN Limit /\ usage[a] > Limit[a]
  /\ \A a \in DOMAIN Limit :
       Limit[a] < MaxU64 =>
         /\ admitted[a] <= Limit[a]
         /\ a \notin exhausted => admitted[a] = attempted[a]
  /\ ProviderTimeIsCovered

StartedInv == \A t \in Threads : phase[t] = "running" => stamp[t] <= clock

LocalInv ==
  \A t \in Threads :
    /\ ended[t].cancelled => cancelled
    /\ ended[t].clock <= clock
    /\ phase[t] \in {"leaveStamp", "leaveObserve"} => ~ ended[t].cancelled
    /\ phase[t] = "leaveObserve" => ended[t].clock <= stamp[t]

(* The axes a caller sees are those of the abstract budget tree.           *)
Tree == INSTANCE BudgetTree
ImplementsBudgetTree == Tree!Spec
=============================================================================
