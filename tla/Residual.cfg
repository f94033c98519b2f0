\* Three cycles of one process over a two-level book; they end at the bound.
CONSTANTS
  w1 = w1
  c1 = c1
  c2 = c2
  Worker = {w1}
  Depth = 2
  Lifecycle = {c1, c2}
  MaxRaw = 3
  AbsentLimit = 2
  MaxCycles = 3
  MaxFaults = 1
  SwallowedFaults = FALSE
SYMMETRY Opportunities
SPECIFICATION Spec
CHECK_DEADLOCK FALSE
INVARIANT TypeOK
INVARIANT TakenOnce
PROPERTY NeverOverfilled
PROPERTY ReleasesEarned
