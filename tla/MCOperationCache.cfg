CONSTANTS
  a = a
  b = b
  Callers = {a, b}
  Requests <- MCRequests
  MaxCalls = 2
  MaxDamage = 2
SPECIFICATION Spec
SYMMETRY Symmetry
INVARIANTS ServedIsResult RecordIsProof DamageIsReported
CHECK_DEADLOCK FALSE
