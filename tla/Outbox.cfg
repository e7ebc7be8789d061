CONSTANTS
  Users = {u1}
  Events = {e1, e2}
  Relays = {s1, s2}
  Limit = 1
  MaxFaults = 2
  NULL = NULL
SPECIFICATION Spec
INVARIANTS TypeOK MarkedWasStored DuplicateNeedsLapse
PROPERTIES ImplementsEventLog BacklogDrains
CHECK_DEADLOCK FALSE
