\* One process over PGlite: the collector and an admin request in flight.
CONSTANTS
  l1 = l1  l2 = l2  v1 = v1  v2 = v2  w1 = w1  w2 = w2  a1 = a1  a2 = a2
  Lifecycle = {l1}
  Venue = {v1, v2}
  Worker = {w1}
  Admin = {a1}
  MaxSessions = 2
  Engine = "pglite"
  DbFaults = TRUE
  MaxCrashes = 1
  Opening <- MCOpening
  Legs <- MCLegs
  Delta <- MCDelta
SPECIFICATION FairSpec
INVARIANT TypeOK
INVARIANT LegRiskHalts
INVARIANT CountersNeverOvercount
PROPERTY SettlesOnlyWhileRunning
PROPERTY ElapsedSessionStops
