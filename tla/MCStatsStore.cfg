CONSTANTS
  r = r
  s = s
  Instances <- MCInstances
  MaxActions = 2
  MaxTime = 5
  MaxStops = 2
SPECIFICATION Spec
INVARIANT TypeOK DatesAreTrue FreshIsOfThisProcess
PROPERTY CacheOnlyAdvances NoRecordLost
SYMMETRY Symmetry
CHECK_DEADLOCK FALSE
