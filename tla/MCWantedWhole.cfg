CONSTANTS
  PageSize = 1
  MaxPages = 4
  SampleSize = 2
  Movies <- MCMovies
  Libraries <- MCLibraries
  Batches <- MCBatches
  MaxLost = 1
  Origins <- MCOrigins
  MaxEdits = 1
  MaxLate = 1
  MaxStops = 1
SPECIFICATION Spec
INVARIANT WantedIsWhole
CHECK_DEADLOCK FALSE
