SPECIFICATION Spec
CONSTANTS
  Decodings <- MCNestings
  Classes = {"compound"}
  RootSizes = {1}
  Declared = {3}
  Limit <- MCLimit
  LargestRatio = 99
INVARIANT PartialReachesRoot
