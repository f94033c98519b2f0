\* One container over a database that never fails, crashing once.
CONSTANTS
  c1 = c1  c2 = c2
  Container = {c1}
  MaxSessions = 2
  DbFaults = FALSE
  MaxCrashes = 1
SPECIFICATION Spec
CHECK_DEADLOCK FALSE
INVARIANT NoLateFills
