CONSTANTS
  Threads = {t1, t2}
  SumAxes <- MCSumAxes
  PeakAxes <- MCPeakAxes
  ParseMillis = "parse_millis"
  ExpansionRatio = "expansion_ratio"
  ProviderMillis = "provider_millis"
  Limit <- MCLimit
  MaxU64 = 3
  Amounts = {0, 2}
  TicksPerMilli = 2
  MaxClock = 2
  MaxAttempted = 4
SPECIFICATION FairSpec
INVARIANTS BudgetIsExact ProviderTimeIsCovered
PROPERTIES ImplementsBudgetTree DeliveredInTime CancellationStopsProviders
