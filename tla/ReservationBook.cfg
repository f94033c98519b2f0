\* Two fills of at most two units each compete for the balances of two venues.
CONSTANTS
  v1 = v1  v2 = v2  h1 = h1  h2 = h2
  Venue = {v1, v2}
  HoldId = {h1, h2}
  Amount = {0, 1, 2}
  MaxBalance = 2
  NoHold = NoHold
  Opening <- MCOpening
SPECIFICATION Spec
SYMMETRY Symmetry
INVARIANT TypeOK
INVARIANT NeverOvercommitted
INVARIANT HoldsAddUp
PROPERTY ImplementsEscrow
