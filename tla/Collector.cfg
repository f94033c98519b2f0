\* One collector and one manual refresh run cycles, one admin interferes.
CONSTANTS
  w1 = w1  w2 = w2  v1 = v1  a1 = a1  r1 = r1
  Worker = {w1}
  Viewer = {v1}
  Admin = {a1}
  Route = {r1}
  LeaseLen = 1
  MaxRuns = 3
  MaxSessions = 1
  MaxCrashes = 1
  TxFaults = TRUE
  ReadFaults = FALSE
SPECIFICATION Spec
INVARIANT TypeOK
INVARIANT OneLifecyclePerRoute
INVARIANT ClosedStaysClosed
INVARIANT CountersMatchRuns
PROPERTY PauseHolds
