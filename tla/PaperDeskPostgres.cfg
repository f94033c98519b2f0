\* Two collector processes and two admin requests over PostgreSQL.
CONSTANTS
  l1 = l1  l2 = l2  v1 = v1  v2 = v2  w1 = w1  w2 = w2  a1 = a1  a2 = a2
  Lifecycle = {l1, l2}
  Venue = {v1, v2}
  Worker = {w1, w2}
  Admin = {a1, a2}
  MaxSessions = 1
  Engine = "postgres"
  DbFaults = FALSE
  MaxCrashes = 2
  Opening <- MCOpening
  Legs <- MCLegs
  Delta <- MCDelta
SPECIFICATION Spec
SYMMETRY Symmetry
INVARIANT BookMatchesLedger
INVARIANT NonNegativeBook
INVARIANT OneCycleAtATime
