CONSTANTS
  Items <- IngestItems
  Terminals <- IngestTerminals
  Batches <- MCBatches
  Limit <- MCLimit
  ChunkSizes = {1, 2}
  MaxNesting = 1
  OutputSizes = {1, 2}
  Growth = {0, 1}
  ParsersKeepRules = TRUE
SPECIFICATION Spec
INVARIANTS CancellationIsReported
CHECK_DEADLOCK FALSE
