SPECIFICATION Spec
CONSTANTS
  Decodings <- MCDecodings
  Classes = {"archive", "compound"}
  RootSizes = {0, 2}
  Declared = {2, 3}
  Limit <- MCLimit
  LargestRatio = 99
INVARIANTS AdmittedWithinLimits AuditIsTrue CompleteIsWhole
