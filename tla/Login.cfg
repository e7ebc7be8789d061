CONSTANTS
  Secrets = {s1, s2}
  CodeCount = 1
  Requests = {r1, r2}
  MaxFailures = 2
  LockoutTime = 1
  MfaTTL = 1
  MaxTime = 1
  MaxMisses = 5
  MaxFaults = 1
  NULL = NULL
SPECIFICATION Spec
SYMMETRY Symmetry
VIEW View
INVARIANTS TypeOK TriesBounded EnabledIsProven RecoveryCodesMatch
PROPERTIES OnlyDisableDisables RecoveryCodesAreOneTime
CHECK_DEADLOCK FALSE
