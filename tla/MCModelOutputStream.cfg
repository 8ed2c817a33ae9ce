CONSTANTS
  Chunks <- MCChunks
  Stable <- MCStable
  Final <- MCFinal
  EventSizes = {1, 12}
  MaxBuffer = 6
  Limit <- MCLimit
SPECIFICATION Spec
INVARIANTS RetainedWasAdmitted CandidateLife ToldStateIsTrue
PROPERTIES ImplementsEventStream
CHECK_DEADLOCK FALSE
