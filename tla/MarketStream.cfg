\* A venue of each sequence policy under the collector's loop.
CONSTANTS
  v1 = v1
  Venue = {v1}
  PairSkew = 1
  MaxTime = 3
  MaxVersion = 2
  MaxCloses = 2
SPECIFICATION Spec
INVARIANT TypeOK
INVARIANT NewestWins
INVARIANT NeverMixed
INVARIANT NothingForgotten
