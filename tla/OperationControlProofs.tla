----------------------- MODULE OperationControlProofs -----------------------
(***************************************************************************)
(* Proofs about OperationControl, for any number of threads, any axes and  *)
(* limits and any counter width.                                           *)
(***************************************************************************)
EXTENDS OperationControl, Integers, TLAPS

(* Rounding up never loses time: a duration rounded up to at most m        *)
(* milliseconds lasted at most m milliseconds.                             *)
LEMMA CeilCovers ==
  ASSUME NEW n \in Nat
  PROVE  /\ DurationMillisCeil(n) \in Nat
         /\ n <= DurationMillisCeil(n) * TicksPerMilli
         /\ DurationMillisCeil(n) <= n
  <1> DEFINE T == TicksPerMilli
             q == (n + T - 1) \div T
  <1>1. T \in Nat /\ T > 0
    BY OperationControlAssumption
  <1>2. q \in Int /\ n + T - 1 < (q + 1) * T /\ q * T <= n + T - 1
    BY <1>1, SMT
  <1> QED BY <1>1, <1>2 DEF DurationMillisCeil

(* A charge keeps the four tables typed, whatever it decides.              *)
LEMMA ChargeTyped ==
  ASSUME TypeOK, NEW a \in Axes, NEW n \in 0..MaxU64, Charge(a, n)
  PROVE  /\ usage' \in [Axes -> 0..MaxU64]
         /\ attempted' \in [Axes -> Nat]
         /\ admitted' \in [Axes -> Nat]
         /\ exhausted' \subseteq Axes
  <1>1. Recorded(a, n) \in 0..MaxU64
    BY OperationControlAssumption
    DEF TypeOK, Recorded, Consumed, Observed, SaturatingAdd, Larger
  <1>2. Exact(attempted, a, n) \in Nat /\ Exact(admitted, a, n) \in Nat
    BY OperationControlAssumption DEF TypeOK, Exact, Larger
  <1> QED BY <1>1, <1>2 DEF Charge, TypeOK

(* The stamp a thread charges fits the parse axis after rounding.          *)
LEMMA StampFits ==
  ASSUME TypeOK, NEW t \in Threads
  PROVE  DurationMillisCeil(stamp[t]) \in 0..MaxU64
  <1>1. stamp[t] \in Nat /\ stamp[t] <= MaxU64
    BY OperationControlAssumption DEF TypeOK
  <1> QED BY <1>1, CeilCovers, OperationControlAssumption

LEMMA ReturnTyped ==
  ASSUME TypeOK, NEW t \in Threads, NEW result \in Outcomes, Return(t, result)
  PROVE  /\ phase' \in [Threads -> Phases]
         /\ outcome' \in [Threads -> Outcomes]
         /\ stamp' \in [Threads -> 0..MaxClock]
         /\ ended' \in [Threads -> [cancelled : BOOLEAN, clock : 0..MaxClock]]
  <1>1. 0 \in 0..MaxClock
    BY OperationControlAssumption
  <1> QED BY <1>1 DEF Return, TypeOK, Phases, NotEnded

LEMMA GotoTyped ==
  ASSUME TypeOK, NEW t \in Threads, NEW next \in Phases, Goto(t, next)
  PROVE  /\ phase' \in [Threads -> Phases]
         /\ outcome' \in [Threads -> Outcomes]
  BY DEF Goto, TypeOK, Outcomes

(* The three ways a thread starts, one per kind of direct charge, and the  *)
(* flag and clock steps, keep the type invariant.                          *)
LEMMA ChargeDirectlyTyped ==
  ASSUME TypeOK, NEW t \in Threads, NEW a \in Axes, NEW n \in 0..MaxU64,
         ChargeDirectly(t, a, n)
  PROVE  TypeOK'
  <1>1. Charge(a, n)
    BY DEF ChargeDirectly
  <1>2. PICK result \in Outcomes : Return(t, result)
    BY DEF ChargeDirectly, Outcomes
  <1>3. UNCHANGED <<cancelled, clock, ticks>>
    BY DEF ChargeDirectly
  <1> QED BY <1>1, <1>2, <1>3, ChargeTyped, ReturnTyped DEF TypeOK

LEMMA CheckCancellationTyped ==
  ASSUME TypeOK, NEW t \in Threads, NEW from, NEW to \in Phases,
         CheckCancellation(t, from, to)
  PROVE  TypeOK'
  <1>1. CASE cancelled
    BY <1>1, ReturnTyped DEF CheckCancellation, shared, charges, TypeOK, Outcomes
  <1>2. CASE ~ cancelled
    BY <1>2, GotoTyped DEF CheckCancellation, shared, charges, TypeOK
  <1> QED BY <1>1, <1>2

LEMMA ReadClockTyped ==
  ASSUME TypeOK, NEW t \in Threads, NEW from, NEW to \in Phases,
         ReadClock(t, from, to)
  PROVE  TypeOK'
  BY GotoTyped DEF ReadClock, shared, charges, TypeOK

LEMMA ExpansionFits ==
  ASSUME NEW compressed \in Amounts, NEW expanded \in Amounts
  PROVE  ExpansionOf(compressed, expanded) \in 0..MaxU64
  <1>1. /\ compressed \in Nat /\ compressed <= MaxU64
        /\ expanded \in Nat /\ expanded <= MaxU64 /\ MaxU64 \in Nat
    BY OperationControlAssumption
  <1>2. CASE compressed = 0
    BY <1>1, <1>2 DEF ExpansionOf
  <1>3. CASE compressed > 0
    <2> DEFINE n == expanded + compressed - 1
               q == n \div compressed
    <2>1. n \in Nat /\ q \in Int /\ q * compressed <= n /\ n < (q + 1) * compressed
      BY <1>1, <1>3
    <2>2. 0 <= q
      BY <1>1, <1>3, <2>1
    <2>3. q <= expanded
      <3>1. q * compressed < (expanded + 1) * compressed
        <4>1. expanded + compressed <= (expanded + 1) * compressed
          BY <1>1, <1>3
        <4> QED BY <1>1, <1>3, <2>1, <4>1
      <3> QED BY <1>1, <1>3, <2>1, <3>1
    <2> QED BY <1>1, <1>3, <2>1, <2>2, <2>3 DEF ExpansionOf
  <1> QED BY <1>1, <1>2, <1>3

-----------------------------------------------------------------------------
LEMMA StepTyped ==
  ASSUME TypeOK, StartedInv, [Next]_vars
  PROVE  TypeOK'
  <1>1. CASE UNCHANGED vars
    BY <1>1 DEF vars, TypeOK
  <1>2. CASE Cancel
    BY <1>2 DEF Cancel, charges, TypeOK
  <1>3. CASE Tick
    <2>1. clock' \in 0..MaxClock
      BY <1>3, OperationControlAssumption DEF Tick, TypeOK
    <2> QED BY <1>3, <2>1 DEF Tick, charges, TypeOK
  <1>4. ASSUME NEW t \in Threads, Begin(t)
        PROVE  TypeOK'
    <2>1. CASE Consume(t)
      BY <2>1, ChargeDirectlyTyped, OperationControlAssumption
      DEF Consume, Axes
    <2>2. CASE Observe(t)
      BY <2>2, ChargeDirectlyTyped, OperationControlAssumption
      DEF Observe, Axes
    <2>3. CASE ObserveArchiveExpansion(t)
      BY <2>3, ChargeDirectlyTyped, ExpansionFits,
         OperationControlAssumption
      DEF ObserveArchiveExpansion, Axes
    <2>4. CASE BeginCheckpoint(t)
      BY <2>4, CheckCancellationTyped DEF BeginCheckpoint, Phases
    <2>5. CASE EnterProvider(t)
      BY <2>5, CheckCancellationTyped DEF EnterProvider, Phases
    <2> QED BY <1>4, <2>1, <2>2, <2>3, <2>4, <2>5 DEF Begin
  <1>5. ASSUME NEW t \in Threads, Proceed(t)
        PROVE  TypeOK'
    <2>0. ASSUME NEW from, ObserveParseTime(t, from)
          PROVE  /\ usage' \in [Axes -> 0..MaxU64]
                 /\ attempted' \in [Axes -> Nat]
                 /\ admitted' \in [Axes -> Nat]
                 /\ exhausted' \subseteq Axes
                 /\ UNCHANGED <<cancelled, clock, ticks>>
      BY <2>0, ChargeTyped, StampFits, OperationControlAssumption
      DEF ObserveParseTime, Axes
    <2>1. CASE StampCheckpoint(t)
      BY <2>1, ReadClockTyped DEF StampCheckpoint, Phases
    <2>2. CASE EndCheckpoint(t)
      BY <2>2, <2>0, ReturnTyped DEF EndCheckpoint, TypeOK, Outcomes
    <2>3. CASE StampEntry(t)
      BY <2>3, ReadClockTyped DEF StampEntry, Phases
    <2>4. CASE StartProvider(t)
      <3>1. CASE ParseTimeAccepted(t)
        BY <2>4, <2>0, <3>1, GotoTyped DEF StartProvider, TypeOK, Phases
      <3>2. CASE ~ ParseTimeAccepted(t)
        BY <2>4, <2>0, <3>2, ReturnTyped
        DEF StartProvider, TypeOK, Outcomes
      <3> QED BY <3>1, <3>2
    <2>5. CASE FinishProvider(t)
      <3>1. clock - stamp[t] \in 0..MaxClock
        BY <2>5, OperationControlAssumption DEF FinishProvider, StartedInv, TypeOK
      <3> QED
        BY <2>5, <3>1, GotoTyped
        DEF FinishProvider, shared, charges, TypeOK, Phases
    <2>6. CASE ConsumeProviderTime(t)
      <3> DEFINE elapsed == DurationMillisCeil(stamp[t])
      <3>1. /\ usage' \in [Axes -> 0..MaxU64]
            /\ attempted' \in [Axes -> Nat]
            /\ admitted' \in [Axes -> Nat]
            /\ exhausted' \subseteq Axes
        BY <2>6, ChargeTyped, StampFits, OperationControlAssumption
        DEF ConsumeProviderTime, Axes
      <3>2. CASE Accepts(ProviderMillis, elapsed)
        <4>1. ticks' \in Nat
          BY <2>6, <3>2, OperationControlAssumption
          DEF ConsumeProviderTime, TypeOK
        <4> QED
          BY <2>6, <3>1, <3>2, <4>1, GotoTyped
          DEF ConsumeProviderTime, TypeOK, Phases
      <3>3. CASE ~ Accepts(ProviderMillis, elapsed)
        BY <2>6, <3>1, <3>3, ReturnTyped
        DEF ConsumeProviderTime, TypeOK, Outcomes
      <3> QED BY <3>2, <3>3
    <2>7. CASE LeaveProvider(t)
      BY <2>7, CheckCancellationTyped DEF LeaveProvider, Phases
    <2>8. CASE StampExit(t)
      BY <2>8, ReadClockTyped DEF StampExit, Phases
    <2>9. CASE DeliverResult(t)
      BY <2>9, <2>0, ReturnTyped DEF DeliverResult, TypeOK, Outcomes
    <2> QED
      BY <1>5, <2>1, <2>2, <2>3, <2>4, <2>5, <2>6, <2>7, <2>8, <2>9 DEF Proceed
  <1> QED BY <1>1, <1>2, <1>3, <1>4, <1>5 DEF Next

LEMMA InitTyped == Init => TypeOK
  <1> SUFFICES ASSUME Init PROVE TypeOK
    OBVIOUS
  <1>1. 0 \in 0..MaxU64 /\ 0 \in 0..MaxClock
    BY OperationControlAssumption
  <1>2. NotEnded \in [cancelled : BOOLEAN, clock : 0..MaxClock]
    BY <1>1 DEF NotEnded
  <1> QED BY <1>1, <1>2 DEF Init, TypeOK, Phases, Outcomes

(* A provider's recorded start never lies ahead of the clock.              *)
LEMMA StepStarted ==
  ASSUME TypeOK, StartedInv, [Next]_vars
  PROVE  StartedInv'
  <1> SUFFICES ASSUME NEW u \in Threads, phase'[u] = "running"
               PROVE  stamp'[u] <= clock'
    BY DEF StartedInv
  <1> USE DEF StartedInv, TypeOK
  <1>1. CASE UNCHANGED vars
    BY <1>1 DEF vars
  <1>2. CASE Cancel
    BY <1>2 DEF Cancel
  <1>3. CASE Tick
    BY <1>3 DEF Tick
  <1>4. ASSUME NEW t \in Threads, Begin(t)
        PROVE  stamp'[u] <= clock'
    BY <1>4 DEF Begin, Consume, Observe, ObserveArchiveExpansion,
       ChargeDirectly, BeginCheckpoint, EnterProvider, CheckCancellation,
       Return, Goto, shared
  <1>5. ASSUME NEW t \in Threads, Proceed(t)
        PROVE  stamp'[u] <= clock'
    <2>1. CASE StartProvider(t)
      BY <2>1 DEF StartProvider, ObserveParseTime, Return, Goto
    <2>2. CASE FinishProvider(t)
      BY <2>2 DEF FinishProvider, Goto, shared
    <2>3. CASE ConsumeProviderTime(t)
      BY <2>3 DEF ConsumeProviderTime, Return, Goto
    <2>4. CASE StampCheckpoint(t) \/ StampEntry(t) \/ StampExit(t)
      BY <2>4 DEF StampCheckpoint, StampEntry, StampExit, ReadClock, Goto, shared
    <2>5. CASE EndCheckpoint(t) \/ DeliverResult(t)
      BY <2>5 DEF EndCheckpoint, DeliverResult, ObserveParseTime, Return
    <2>6. CASE LeaveProvider(t)
      BY <2>6 DEF LeaveProvider, CheckCancellation, Return, Goto, shared
    <2> QED BY <1>5, <2>1, <2>2, <2>3, <2>4, <2>5, <2>6 DEF Proceed
  <1> QED BY <1>1, <1>2, <1>3, <1>4, <1>5 DEF Next

(* Every behaviour stays in the declared ranges: no counter leaves the     *)
(* width of its type and every thread is in a known phase.                 *)
THEOREM TypeCorrect == Spec => [](TypeOK /\ StartedInv)
  <1>1. Init => TypeOK /\ StartedInv
    BY InitTyped DEF Init, StartedInv
  <1>2. TypeOK /\ StartedInv /\ [Next]_vars => (TypeOK /\ StartedInv)'
    BY StepTyped, StepStarted
  <1> QED BY <1>1, <1>2, PTL DEF Spec

-----------------------------------------------------------------------------
(* What one step does to the usage table: nothing, or one charge; only the *)
(* accepted charge of a provider's wall time also adds ticks, no more than *)
(* it was charged for.                                                     *)
TableStep ==
  \/ UNCHANGED <<usage, attempted, admitted, exhausted, ticks>>
  \/ \E a \in Axes, n \in 0..MaxU64 :
       /\ Charge(a, n)
       /\ \/ UNCHANGED ticks
          \/ /\ a = ProviderMillis
             /\ Accepts(a, n)
             /\ ticks' \in Nat
             /\ ticks' - ticks <= n * TicksPerMilli

LEMMA StepCharges ==
  ASSUME TypeOK, [Next]_vars
  PROVE  TableStep
  <1>1. CASE UNCHANGED vars \/ Cancel \/ Tick
    BY <1>1 DEF vars, Cancel, Tick, charges, TableStep
  <1>2. ASSUME NEW t \in Threads, Begin(t)
        PROVE  TableStep
    <2>1. CASE Consume(t) \/ Observe(t)
      BY <2>1, OperationControlAssumption
      DEF Consume, Observe, ChargeDirectly, Axes, TableStep
    <2>2. CASE ObserveArchiveExpansion(t)
      BY <2>2, ExpansionFits, OperationControlAssumption
      DEF ObserveArchiveExpansion, ChargeDirectly, Axes, TableStep
    <2>3. CASE BeginCheckpoint(t) \/ EnterProvider(t)
      BY <2>3 DEF BeginCheckpoint, EnterProvider, CheckCancellation, shared,
         charges, TableStep
    <2> QED BY <1>2, <2>1, <2>2, <2>3 DEF Begin
  <1>3. ASSUME NEW t \in Threads, Proceed(t)
        PROVE  TableStep
    <2>1. ASSUME NEW from, ObserveParseTime(t, from)
          PROVE  TableStep
      BY <2>1, StampFits, OperationControlAssumption
      DEF ObserveParseTime, Axes, TableStep
    <2>2. CASE EndCheckpoint(t) \/ StartProvider(t) \/ DeliverResult(t)
      BY <2>1, <2>2 DEF EndCheckpoint, StartProvider, DeliverResult
    <2>3. CASE StampCheckpoint(t) \/ StampEntry(t) \/ StampExit(t)
      BY <2>3 DEF StampCheckpoint, StampEntry, StampExit, ReadClock, shared,
         charges, TableStep
    <2>4. CASE FinishProvider(t)
      BY <2>4 DEF FinishProvider, shared, charges, TableStep
    <2>5. CASE LeaveProvider(t)
      BY <2>5 DEF LeaveProvider, CheckCancellation, shared, charges, TableStep
    <2>6. CASE ConsumeProviderTime(t)
      <3> DEFINE n == DurationMillisCeil(stamp[t])
      <3>1. n \in 0..MaxU64 /\ ProviderMillis \in Axes /\ Charge(ProviderMillis, n)
        BY <2>6, StampFits, OperationControlAssumption
        DEF ConsumeProviderTime, Axes
      <3>2. stamp[t] \in Nat /\ stamp[t] <= n * TicksPerMilli
        <4>1. stamp[t] \in Nat
          BY OperationControlAssumption DEF TypeOK
        <4> QED BY <4>1, CeilCovers
      <3>3. CASE Accepts(ProviderMillis, n)
        <4>1. ticks' = ticks + stamp[t]
          BY <2>6, <3>3 DEF ConsumeProviderTime
        <4>2. ticks' \in Nat /\ ticks' - ticks = stamp[t]
          BY <3>2, <4>1 DEF TypeOK
        <4> QED BY <3>1, <3>2, <3>3, <4>2 DEF TableStep
      <3>4. CASE ~ Accepts(ProviderMillis, n)
        <4>1. UNCHANGED ticks
          BY <2>6, <3>4 DEF ConsumeProviderTime
        <4> QED BY <3>1, <4>1 DEF TableStep
      <3> QED BY <3>3, <3>4
    <2> QED BY <1>3, <2>2, <2>3, <2>4, <2>5, <2>6 DEF Proceed
  <1> QED BY <1>1, <1>2, <1>3 DEF Next

LEMMA ChargeKeepsTable ==
  ASSUME TypeOK, TableInv, NEW a \in Axes, NEW n \in 0..MaxU64, Charge(a, n)
  PROVE  /\ UsageIsAttempted'
         /\ \A b \in exhausted' : b \in DOMAIN Limit /\ usage'[b] > Limit[b]
         /\ \A b \in DOMAIN Limit :
              Limit[b] < MaxU64 =>
                /\ admitted'[b] <= Limit[b]
                /\ b \notin exhausted' => admitted'[b] = attempted'[b]
  <1>0. /\ MaxU64 \in Nat /\ n \in Nat /\ n <= MaxU64
        /\ \A b \in DOMAIN Limit : b \in Axes /\ Limit[b] \in Nat /\ Limit[b] <= MaxU64
        /\ \A b \in Axes : usage[b] \in Nat /\ usage[b] <= MaxU64
                            /\ attempted[b] \in Nat /\ admitted[b] \in Nat
    BY OperationControlAssumption DEF TypeOK
  <1>1. \A b \in Axes : b # a => /\ usage'[b] = usage[b]
                                 /\ attempted'[b] = attempted[b]
                                 /\ admitted'[b] = admitted[b]
    BY DEF Charge, TypeOK
  <1>2. usage'[a] = Recorded(a, n) /\ attempted'[a] = Exact(attempted, a, n)
    BY DEF Charge, TypeOK
  <1>3. Recorded(a, n) \in Nat /\ Exact(attempted, a, n) \in Nat
    BY <1>0 DEF Recorded, Consumed, Observed, SaturatingAdd, Larger, Exact
  <1>4. Recorded(a, n) = IF Exact(attempted, a, n) > MaxU64
                         THEN MaxU64 ELSE Exact(attempted, a, n)
    BY <1>0 DEF Recorded, Consumed, Observed, SaturatingAdd, Larger, Exact,
       TableInv, UsageIsAttempted
  <1>5. UsageIsAttempted'
    BY <1>1, <1>2, <1>4 DEF UsageIsAttempted, TableInv
  <1>6. Recorded(a, n) >= usage[a]
    BY <1>0 DEF Recorded, Consumed, Observed, SaturatingAdd, Larger
  <1>7. CASE Accepts(a, n)
    <2>1. exhausted' = exhausted /\ admitted'[a] = Exact(admitted, a, n)
      BY <1>7 DEF Charge, TypeOK, Accepts
    <2>2. a \notin exhausted
      BY <1>0, <1>3, <1>6, <1>7 DEF TableInv, Accepts, WithinLimit
    <2>3. ASSUME a \in DOMAIN Limit, Limit[a] < MaxU64
          PROVE  admitted'[a] = attempted'[a] /\ admitted'[a] <= Limit[a]
      <3>1. admitted'[a] = attempted'[a]
        BY <1>2, <2>1, <2>2, <2>3 DEF TableInv, Exact
      <3>2. Recorded(a, n) <= Limit[a]
        BY <1>7, <2>3 DEF Accepts, WithinLimit
      <3> QED BY <1>0, <1>2, <1>3, <1>4, <2>3, <3>1, <3>2
    <2> QED BY <1>0, <1>1, <1>5, <2>1, <2>2, <2>3 DEF TableInv
  <1>8. CASE ~ Accepts(a, n)
    <2>1. exhausted' = exhausted \cup {a} /\ admitted' = admitted
      BY <1>8 DEF Charge, Accepts
    <2>2. a \in DOMAIN Limit /\ Recorded(a, n) > Limit[a]
      BY <1>0, <1>3, <1>8 DEF Accepts, WithinLimit
    <2> QED BY <1>0, <1>1, <1>2, <1>5, <2>1, <2>2 DEF TableInv
  <1> QED BY <1>7, <1>8

LEMMA ChargeCoversTicks ==
  ASSUME TypeOK, ProviderTimeIsCovered,
         NEW a \in Axes, NEW n \in 0..MaxU64, Charge(a, n),
         \/ UNCHANGED ticks
         \/ /\ a = ProviderMillis
            /\ Accepts(a, n)
            /\ ticks' \in Nat
            /\ ticks' - ticks <= n * TicksPerMilli
  PROVE  ProviderTimeIsCovered'
  <1> DEFINE P == ProviderMillis
             T == TicksPerMilli
  <1>0. /\ P \in SumAxes /\ P \in Axes /\ T \in Nat /\ n \in Nat
        /\ admitted[P] \in Nat /\ ticks \in Nat
        /\ ticks <= admitted[P] * T
    BY OperationControlAssumption DEF TypeOK, Axes, ProviderTimeIsCovered
  <1>1. CASE UNCHANGED ticks
    <2>1. admitted'[P] \in Nat /\ admitted'[P] >= admitted[P]
      BY <1>0 DEF Charge, Exact, TypeOK
    <2>2. admitted'[P] * T >= admitted[P] * T
      BY <1>0, <2>1
    <2> QED BY <1>0, <1>1, <2>1, <2>2 DEF ProviderTimeIsCovered
  <1>2. CASE a = P /\ Accepts(a, n) /\ ticks' \in Nat /\ ticks' - ticks <= n * T
    <2>1. admitted'[P] = admitted[P] + n
      BY <1>0, <1>2 DEF Charge, Accepts, Exact, TypeOK
    <2>2. (admitted[P] + n) * T = admitted[P] * T + n * T
      BY <1>0
    <2>3. admitted[P] * T \in Nat /\ n * T \in Nat
      BY <1>0
    <2>4. \A u, v, x, y \in Nat : u <= x /\ v - u <= y => v <= x + y
      OBVIOUS
    <2>5. ticks' <= admitted[P] * T + n * T
      BY <1>0, <1>2, <2>3, <2>4
    <2> QED BY <2>1, <2>2, <2>5 DEF ProviderTimeIsCovered
  <1> QED BY <1>1, <1>2

LEMMA StepKeepsTable ==
  ASSUME TypeOK, TableInv, [Next]_vars
  PROVE  TableInv'
  <1>1. CASE UNCHANGED <<usage, attempted, admitted, exhausted, ticks>>
    BY <1>1 DEF TableInv, UsageIsAttempted, ProviderTimeIsCovered
  <1>2. ASSUME NEW a \in Axes, NEW n \in 0..MaxU64,
               /\ Charge(a, n)
               /\ \/ UNCHANGED ticks
                  \/ /\ a = ProviderMillis
                     /\ Accepts(a, n)
                     /\ ticks' \in Nat
                     /\ ticks' - ticks <= n * TicksPerMilli
        PROVE  TableInv'
    <2>1. ProviderTimeIsCovered'
      BY <1>2, ChargeCoversTicks DEF TableInv
    <2> QED BY <1>2, <2>1, ChargeKeepsTable DEF TableInv
  <1> QED BY <1>1, <1>2, StepCharges DEF TableStep

LEMMA InitTable == Init => TableInv
  BY OperationControlAssumption
  DEF Init, TableInv, UsageIsAttempted, ProviderTimeIsCovered, Axes

LEMMA TableCorrect == Spec => []TableInv
  <1>1. TypeOK /\ TableInv /\ [Next]_vars => TableInv'
    BY StepKeepsTable
  <1> QED BY InitTable, TypeCorrect, <1>1, PTL DEF Spec

(* Charges accepted from all clones together stay within every limit, and  *)
(* the table is the exact account of all attempts, cut off at its width.   *)
THEOREM BudgetExact == Spec => []BudgetIsExact
  <1>1. TableInv => BudgetIsExact
    BY DEF TableInv, AdmittedWithinLimit, BudgetIsExact
  <1> QED BY TableCorrect, <1>1, PTL

(* Rounding up makes the provider axis cover the time really spent.        *)
THEOREM ProviderTimeCovered == Spec => []ProviderTimeIsCovered
  <1>1. TableInv => ProviderTimeIsCovered
    BY DEF TableInv
  <1> QED BY TableCorrect, <1>1, PTL

LEMMA ExhaustedRefuses ==
  ASSUME TypeOK, TableInv, NEW a \in exhausted, NEW n \in 0..MaxU64
  PROVE  ~ Accepts(a, n)
  <1>1. /\ a \in DOMAIN Limit /\ Limit[a] \in Nat /\ MaxU64 \in Nat
        /\ usage[a] \in Nat /\ usage[a] > Limit[a] /\ usage[a] <= MaxU64
        /\ n \in Nat
    BY OperationControlAssumption DEF TypeOK, TableInv
  <1>2. Recorded(a, n) \in Nat /\ Recorded(a, n) >= usage[a]
    BY <1>1 DEF Recorded, Consumed, Observed, SaturatingAdd, Larger
  <1> QED BY <1>1, <1>2 DEF Accepts, WithinLimit

(* An axis that has refused admits nothing more, for any clone.            *)
THEOREM ExhaustedForGood == Spec => ExhaustionIsFinal
  <1>1. ASSUME TypeOK, TableInv, [Next]_vars, NEW a \in exhausted
        PROVE  admitted'[a] = admitted[a]
    <2>1. ASSUME NEW b \in Axes, NEW n \in 0..MaxU64, Charge(b, n)
          PROVE  admitted'[a] = admitted[a]
      BY <1>1, <2>1, ExhaustedRefuses DEF Charge, Accepts, TypeOK
    <2> QED BY <1>1, <2>1, StepCharges DEF TableStep
  <1>2. TypeOK /\ TableInv /\ [Next]_vars
          => [\A a \in exhausted : admitted'[a] = admitted[a]]_vars
    BY <1>1
  <1> QED BY <1>2, TypeCorrect, TableCorrect, PTL DEF Spec, ExhaustionIsFinal

(* The charging code implements the abstract budget tree: an accepted      *)
(* charge is an admission, a refused one a refusal, all else a stutter.    *)
THEOREM ImplementsTree == Spec => ImplementsBudgetTree
  <1>1. Init => Tree!Init
    BY DEF Init, Tree!Init, Axes, Tree!Axes
  <1>2. ASSUME TypeOK, TableInv, [Next]_vars
        PROVE  [Tree!Next]_Tree!vars
    <2>1. CASE UNCHANGED <<usage, attempted, admitted, exhausted, ticks>>
      BY <2>1 DEF Tree!vars
    <2>2. ASSUME NEW a \in Axes, NEW n \in 0..MaxU64, Charge(a, n)
          PROVE  Tree!Next
      <3>0. /\ a \in Tree!Axes /\ MaxU64 \in Nat /\ n \in Nat /\ n <= MaxU64
            /\ a \in DOMAIN Limit => Limit[a] \in Nat /\ Limit[a] <= MaxU64
            /\ usage[a] \in Nat /\ usage[a] <= MaxU64
            /\ admitted[a] \in Nat /\ attempted[a] \in Nat
        <4>1. MaxU64 \in Nat /\ (a \in DOMAIN Limit => Limit[a] \in 0..MaxU64)
          BY OperationControlAssumption
        <4>2. /\ usage[a] \in 0..MaxU64
              /\ admitted[a] \in Nat /\ attempted[a] \in Nat
          BY <1>2 DEF TypeOK
        <4> QED BY <4>1, <4>2 DEF Axes, Tree!Axes
      <3>1. CASE Accepts(a, n)
        <4>1. a \notin exhausted
          BY <1>2, <3>1, ExhaustedRefuses
        <4>2. Tree!Total(a, n) = Exact(admitted, a, n)
          BY <3>0 DEF Tree!Total, Exact, Larger
        <4>3. exhausted' = exhausted
              /\ admitted' = [admitted EXCEPT ![a] = Tree!Total(a, n)]
          BY <2>2, <3>1, <4>2 DEF Charge, Accepts
        <4>4. admitted'[a] = Tree!Total(a, n)
          BY <3>0, <4>3, <1>2 DEF TypeOK
        <4>5. Tree!Bounded(a) => Tree!Total(a, n) <= Limit[a]
          BY <1>2, <2>2, <4>4, ChargeKeepsTable DEF Tree!Bounded
        <4> QED BY <3>0, <4>1, <4>3, <4>5 DEF Tree!Next, Tree!Admit
      <3>2. CASE ~ Accepts(a, n)
        <4>1. Recorded(a, n) \in Nat /\ Recorded(a, n) <= MaxU64
          BY <3>0 DEF Recorded, Consumed, Observed, SaturatingAdd, Larger
        <4>2. Tree!Bounded(a)
          BY <3>0, <3>2, <4>1 DEF Accepts, WithinLimit, Tree!Bounded
        <4>3. exhausted' = exhausted \cup {a} /\ admitted' = admitted
          BY <2>2, <3>2 DEF Charge, Accepts
        <4> QED BY <3>0, <4>2, <4>3 DEF Tree!Next, Tree!Refuse
      <3> QED BY <3>1, <3>2
    <2> QED BY <1>2, <2>1, <2>2, StepCharges DEF TableStep
  <1>3. TypeOK /\ TableInv /\ [Next]_vars => [Tree!Next]_Tree!vars
    BY <1>2
  <1> QED BY <1>1, <1>3, TypeCorrect, TableCorrect, PTL
     DEF Spec, Tree!Spec, ImplementsBudgetTree

-----------------------------------------------------------------------------
(* A thread on its way out of run_provider carries proof that the flag was *)
(* down and remembers a clock reading no older than the provider's end.    *)
LEMMA StepLocal ==
  ASSUME TypeOK, LocalInv, [Next]_vars
  PROVE  LocalInv'
  <1> DEFINE Inv(u) ==
        /\ ended[u].cancelled => cancelled
        /\ ended[u].clock <= clock
        /\ phase[u] \in {"leaveStamp", "leaveObserve"} => ~ ended[u].cancelled
        /\ phase[u] = "leaveObserve" => ended[u].clock <= stamp[u]
  <1> SUFFICES ASSUME NEW u \in Threads
               PROVE  Inv(u)'
    BY DEF LocalInv
  <1>0. /\ Inv(u)
        /\ clock \in Nat /\ stamp[u] \in Nat /\ ended[u].clock \in Nat
        /\ cancelled \in BOOLEAN /\ ended[u].cancelled \in BOOLEAN
    BY OperationControlAssumption DEF LocalInv, TypeOK
  <1>1. CASE UNCHANGED vars
    BY <1>0, <1>1 DEF vars
  <1>2. CASE Cancel
    BY <1>0, <1>2 DEF Cancel
  <1>3. CASE Tick
    BY <1>0, <1>3 DEF Tick
  <1>4. ASSUME NEW t \in Threads, NEW result, Return(t, result),
               UNCHANGED <<cancelled, clock>>
        PROVE  Inv(u)'
    BY <1>0, <1>4 DEF Return, NotEnded, TypeOK
  <1>5. ASSUME NEW t \in Threads, NEW from, NEW to,
               to # "leaveObserve", CheckCancellation(t, from, to)
        PROVE  Inv(u)'
    <2>1. CASE cancelled
      BY <1>4, <1>5, <2>1 DEF CheckCancellation, shared
    <2>2. CASE ~ cancelled
      <3>1. UNCHANGED <<cancelled, clock, stamp, ended>> /\ Goto(t, to)
        BY <1>5, <2>2 DEF CheckCancellation, shared
      <3> QED BY <1>0, <1>5, <2>2, <3>1 DEF Goto, TypeOK
    <2> QED BY <2>1, <2>2
  <1>6. ASSUME NEW t \in Threads, Begin(t)
        PROVE  Inv(u)'
    <2>1. CASE Consume(t) \/ Observe(t) \/ ObserveArchiveExpansion(t)
      BY <1>4, <2>1
      DEF Consume, Observe, ObserveArchiveExpansion, ChargeDirectly
    <2>2. CASE BeginCheckpoint(t) \/ EnterProvider(t)
      BY <1>5, <2>2 DEF BeginCheckpoint, EnterProvider
    <2> QED BY <1>6, <2>1, <2>2 DEF Begin
  <1>7. ASSUME NEW t \in Threads, Proceed(t)
        PROVE  Inv(u)'
    <2>1. CASE StampCheckpoint(t) \/ StampEntry(t)
      BY <1>0, <2>1
      DEF StampCheckpoint, StampEntry, ReadClock, Goto, shared, TypeOK
    <2>2. CASE StampExit(t)
      BY <1>0, <2>2 DEF StampExit, ReadClock, Goto, shared, TypeOK
    <2>3. CASE EndCheckpoint(t) \/ DeliverResult(t)
      BY <1>4, <2>3 DEF EndCheckpoint, DeliverResult, ObserveParseTime
    <2>4. CASE StartProvider(t)
      <3>1. CASE ParseTimeAccepted(t)
        BY <1>0, <2>4, <3>1 DEF StartProvider, ObserveParseTime, Goto, TypeOK
      <3>2. CASE ~ ParseTimeAccepted(t)
        BY <1>4, <2>4, <3>2 DEF StartProvider, ObserveParseTime
      <3> QED BY <3>1, <3>2
    <2>5. CASE FinishProvider(t)
      BY <1>0, <2>5 DEF FinishProvider, Goto, shared, TypeOK
    <2>6. CASE ConsumeProviderTime(t)
      <3> DEFINE n == DurationMillisCeil(stamp[t])
      <3>1. CASE Accepts(ProviderMillis, n)
        <4>1. Goto(t, "leave") /\ UNCHANGED <<cancelled, clock, stamp, ended>>
          BY <2>6, <3>1 DEF ConsumeProviderTime
        <4> QED BY <1>0, <4>1 DEF Goto, TypeOK
      <3>2. CASE ~ Accepts(ProviderMillis, n)
        BY <1>4, <2>6, <3>2 DEF ConsumeProviderTime
      <3> QED BY <3>1, <3>2
    <2>7. CASE LeaveProvider(t)
      BY <1>5, <2>7 DEF LeaveProvider
    <2> QED BY <1>7, <2>1, <2>2, <2>3, <2>4, <2>5, <2>6, <2>7 DEF Proceed
  <1> QED BY <1>1, <1>2, <1>3, <1>6, <1>7 DEF Next

LEMMA LocalCorrect == Spec => []LocalInv
  <1>1. Init => LocalInv
    <2>1. ASSUME Init, NEW t \in Threads
          PROVE  /\ ended[t].cancelled = FALSE /\ ended[t].clock = 0
                 /\ clock = 0 /\ phase[t] = "idle"
      BY <2>1 DEF Init, NotEnded
    <2>2. 0 <= 0
      OBVIOUS
    <2> QED BY <2>1, <2>2 DEF LocalInv
  <1>2. TypeOK /\ LocalInv /\ [Next]_vars => LocalInv'
    BY StepLocal
  <1> QED BY <1>1, <1>2, TypeCorrect, PTL DEF Spec

(* The only step that hands over a result is an accepted DeliverResult.    *)
LEMMA OnlyDeliverResult ==
  ASSUME TypeOK, [Next]_vars, NEW t \in Threads,
         phase[t] = "leaveObserve", phase'[t] = "idle",
         outcome'[t] = "delivered"
  PROVE  DeliverResult(t) /\ ParseTimeAccepted(t)
  <1>1. ~ UNCHANGED vars /\ ~ Cancel /\ ~ Tick
    BY DEF vars, Cancel, Tick
  <1>2. ASSUME NEW u \in Threads, u # t
        PROVE  ~ Begin(u) /\ ~ Proceed(u)
    BY <1>2 DEF Begin, Proceed, Consume, Observe, ObserveArchiveExpansion,
       ChargeDirectly, BeginCheckpoint, EnterProvider, CheckCancellation,
       StampCheckpoint, StampEntry, StampExit, ReadClock, EndCheckpoint,
       StartProvider, ObserveParseTime, FinishProvider, ConsumeProviderTime,
       LeaveProvider, DeliverResult, Return, Goto, TypeOK
  <1>3. ~ Begin(t)
    BY DEF Begin, Consume, Observe, ObserveArchiveExpansion, ChargeDirectly,
       BeginCheckpoint, EnterProvider, CheckCancellation
  <1>4. Proceed(t) => DeliverResult(t)
    BY DEF Proceed, StampCheckpoint, StampEntry, StampExit, ReadClock,
       EndCheckpoint, StartProvider, ObserveParseTime, FinishProvider,
       ConsumeProviderTime, LeaveProvider, CheckCancellation
  <1>5. DeliverResult(t)
    BY <1>1, <1>2, <1>3, <1>4 DEF Next
  <1>6. ParseTimeAccepted(t)
    BY <1>5 DEF DeliverResult, Return, TypeOK
  <1> QED BY <1>5, <1>6

(* A delivered result belongs to a provider call that ended before the     *)
(* cancellation and within the parse deadline.                             *)
THEOREM DeliveryIsTimely == Spec => DeliveredInTime
  <1>1. ASSUME TypeOK, LocalInv, [Next]_vars, NEW t \in Threads,
               phase[t] = "leaveObserve", phase'[t] = "idle",
               outcome'[t] = "delivered"
        PROVE  /\ ~ ended[t].cancelled
               /\ ParseMillis \in DOMAIN Limit
                    => ended[t].clock <= Limit[ParseMillis] * TicksPerMilli
    <2>1. ~ ended[t].cancelled /\ ended[t].clock <= stamp[t]
      BY <1>1 DEF LocalInv
    <2>2. ASSUME ParseMillis \in DOMAIN Limit
          PROVE  ended[t].clock <= Limit[ParseMillis] * TicksPerMilli
      <3> DEFINE n == DurationMillisCeil(stamp[t])
                 L == Limit[ParseMillis]
                 T == TicksPerMilli
      <3>1. /\ ParseMillis \in PeakAxes /\ ParseMillis \notin SumAxes
            /\ ParseMillis \in Axes
            /\ L \in Nat /\ T \in Nat
        BY <2>2, OperationControlAssumption DEF Axes
      <3>2. stamp[t] \in Nat /\ ended[t].clock \in Nat
            /\ usage[ParseMillis] \in Nat
        BY <1>1, <3>1, OperationControlAssumption DEF TypeOK
      <3>3. n \in Nat /\ stamp[t] <= n * T
        BY <3>2, CeilCovers
      <3>4. Accepts(ParseMillis, n)
        BY <1>1, OnlyDeliverResult DEF ParseTimeAccepted
      <3>5. n <= L
        BY <2>2, <3>1, <3>2, <3>3, <3>4
        DEF Accepts, WithinLimit, Recorded, Observed, Larger
      <3>6. n * T <= L * T
        BY <3>1, <3>3, <3>5
      <3>7. n * T \in Nat /\ L * T \in Nat
        BY <3>1, <3>3
      <3>8. \A w, x, y, z \in Nat : w <= x /\ x <= y /\ y <= z => w <= z
        OBVIOUS
      <3> QED BY <2>1, <3>2, <3>3, <3>6, <3>7, <3>8
    <2> QED BY <2>1, <2>2
  <1>2. TypeOK /\ LocalInv /\ [Next]_vars
          => [\A t \in Threads :
                /\ phase[t] = "leaveObserve"
                /\ phase'[t] = "idle"
                /\ outcome'[t] = "delivered"
                => /\ ~ ended[t].cancelled
                   /\ ParseMillis \in DOMAIN Limit
                        => ended[t].clock <= Limit[ParseMillis] * TicksPerMilli]_vars
    BY <1>1
  <1> QED BY <1>2, TypeCorrect, LocalCorrect, PTL DEF Spec, DeliveredInTime
=============================================================================
