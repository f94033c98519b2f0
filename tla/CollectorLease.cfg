\* Two collectors, nobody else: who runs the loop when a holder dies.
CONSTANTS
  w1 = w1  w2 = w2  v1 = v1  a1 = a1  r1 = r1
  Worker = {w1, w2}
  Viewer = {}
  Admin = {}
  Route = {r1}
  LeaseLen = 2
  MaxRuns = 1
  MaxSessions = 1
  MaxCrashes = 2
  TxFaults = TRUE
  ReadFaults = FALSE
SPECIFICATION FairSpec
PROPERTY SomeoneCollects
