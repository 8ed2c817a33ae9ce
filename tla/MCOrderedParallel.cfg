CONSTANTS
  Workers = 2
  MaxInFlight = 3
  Keys = {1, 2, 3, 4}
  MaxJobs = 4
  MaxPanics = 1
SPECIFICATION FairSpec
INVARIANTS WindowIsBounded DeliveryIsCanonical WorkersDoNotMatter
PROPERTIES Termination
