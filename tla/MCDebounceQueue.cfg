CONSTANTS
  m1 = m1
  s1 = s1
  s2 = s2
  z1 = z1
  z2 = z2
  h1 = h1
  h2 = h2
  Whole = Whole
  Keys <- MCKeys
  Movies <- MCMovies
  Seasons <- MCSeasons
  Handlers <- MCHandlers
  Limit = 2
  Debounce = 1
  MaxTime = 1
SPECIFICATION Spec
SYMMETRY MCSymmetry
INVARIANTS
  TypeOK
  PendingHasOneScope
  Bounded
PROPERTIES
  NeverForgotten
  KeepsPromise
