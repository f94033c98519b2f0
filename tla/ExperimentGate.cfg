\* Two containers, one of which may crash and boot again, over a failing database.
CONSTANTS
  c1 = c1  c2 = c2
  Container = {c1, c2}
  MaxSessions = 2
  DbFaults = TRUE
  MaxCrashes = 1
SPECIFICATION FairSpec
CHECK_DEADLOCK FALSE
INVARIANT TypeOK
INVARIANT OpenRunKeepsItsSession
INVARIANT ActiveRunShutsTheDoor
PROPERTY ExpiredRunCompletes
