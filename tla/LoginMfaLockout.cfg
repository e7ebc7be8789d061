CONSTANTS
  Secrets = {s1}
  CodeCount = 1
  Requests = {r1}
  MaxFailures = 2
  LockoutTime = 1
  MfaTTL = 1
  MaxTime = 0
  MaxMisses = 3
  MaxFaults = 0
  NULL = NULL
SPECIFICATION Spec
SYMMETRY Symmetry
INVARIANT MfaTriesBounded
CHECK_DEADLOCK FALSE
