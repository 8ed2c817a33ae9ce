CONSTANTS
  Ids = {1, 2, 3, 4, 5}
  Documents <- MCDocuments
  Requests <- MCRequests
  json = json
  JSON = JSON2
  text_x = text_x
  graph_name = graph_name
  pdf = pdf
  Spellings = {json, JSON2, text_x, graph_name, pdf}
  Normal <- MCNormal
  NoName = noname
  Descriptors <- MCDescriptors
  Providers <- MCProviders
  Texts <- MCTexts
  SegmentOptions <- MCSegmentOptions
  Items <- MCItems
  Terminals <- MCTerminals
  MaxEvents = 4
  Fragments <- MCFragments
  MaxMerged = 3
SPECIFICATION MCSpec
INVARIANTS ComponentsAreClasses VerdictIsProved ProjectionIsCanonical
INVARIANTS SelectionIsUnambiguous SegmentsCoverOnce SegmentsAreTight CollectsExactlyWellFormed
CHECK_DEADLOCK FALSE
