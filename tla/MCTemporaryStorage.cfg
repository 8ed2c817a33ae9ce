CONSTANTS
  Writers = {w1, w2}
  Names = {marker, escape, a, b}
  Marker = marker
  InvalidNames = {escape}
  MaxLength = 2
  Limits <- MCLimits
  Unlimited <- NoLimit
  BudgetLimit = 2
  MaxU64 = 3
SPECIFICATION Spec
INVARIANTS LedgerIsExact DiskWithinLimit
PROPERTIES CompletedFilesSurvive
SYMMETRY Symmetry
CHECK_DEADLOCK FALSE
