SPECIFICATION Spec
CONSTANTS
  None = None
  INTERVAL = 4
  OFFSET = 1
  TTL <- const_TTL
INVARIANTS
  WorkedInTime
PROPERTIES
  LocksKept
  FetchesForEver
