\* Two requests over two venues: every pair of commands interleaves.
CONSTANTS
  r1 = r1
  r2 = r2
  v1 = v1
  v2 = v2
  k1 = k1
  k2 = k2
  Request = {r1, r2}
  Venue = {v1, v2}
  Key = {k1, k2}
  Plan <- SmallPlans
  MaxSessions = 2
  MaxProposals = 2
  MaxMoves = 1
  MaxFaults = 1
  MaxRequests = 5
SYMMETRY Symmetry
SPECIFICATION Spec
CHECK_DEADLOCK FALSE
INVARIANT TypeOK
INVARIANT AppliedOnce
INVARIANT LogExplainsBook
PROPERTY ReplacementStandsAlone
