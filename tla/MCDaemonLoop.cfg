CONSTANTS
  radarr = radarr
  sonarr = sonarr
  movie = movie
  series = series
  None = None
  Whole = Whole
  Instances <- MCInstances
  Keys <- MCKeys
  InstanceOf <- MCInstanceOf
  Seasons = {}
  Limit = 2
  MaxSignals = 2
SPECIFICATION Spec
INVARIANTS
  TypeOK
  NoLostWakeup
  SavedOnlyComplete
PROPERTIES
  NoneDropped
  ShutdownIsShort
  ShutdownEnds
