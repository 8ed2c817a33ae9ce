CONSTANTS
  Items <- IngestItems
  Terminals <- IngestTerminals
  Batches <- MCBatches
  Limit <- MCLimit
  ChunkSizes = {1, 2}
  MaxNesting = 1
  OutputSizes = {1, 2}
  Growth = {0, 1}
  ParsersKeepRules = FALSE
SPECIFICATION Spec
INVARIANTS BatchAnswersInOrder StopsAreFinal OutputWithinBudget
PROPERTIES ImplementsEventStream Termination
CHECK_DEADLOCK FALSE
