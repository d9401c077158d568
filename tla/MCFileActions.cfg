CONSTANTS
  root = root
  Show = Show
  show = show
  Film = Film
  e1 = e1
  e2 = e2
  w = w
  x = x
  y = y
  z = z
  None = None
  Roots = {root}
  Folders <- MCFolders
  Names <- MCNames
  RootOf <- MCRootOf
  Fold <- MCFold
  FoldOfName <- MCFoldOf
  Rule <- MCRule
  SeasonOf <- MCSeasonOf
  Located <- MCLocated
  Sonarr = TRUE
  Position <- MCPosition
  SampleSize = 4
  Files <- MCFiles
  SizeOf <- MCSizeOf
  Starts <- MCStarts
  Gaps <- MCGaps
  Rows = {0, 1}
  Stamps = {1}
  MaxCopies = 2
  MaxEdits = 2
  MaxSweeps = 1
SPECIFICATION Spec
INVARIANT TypeOK
PROPERTY NothingIsLost MovesNoTracked PerformedIsTrue NamesNoTracked
CHECK_DEADLOCK FALSE
