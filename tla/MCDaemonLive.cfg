CONSTANTS
  radarr = radarr
  sonarr = sonarr
  movie = movie
  series = series
  None = None
  Whole = Whole
  Instances <- MCInstances
  Keys <- MCKeys
  InstanceOf <- MCInstanceOf
  Seasons = {}
  Limit = 1
  MaxSignals = 0
SPECIFICATION Spec
PROPERTIES
  RequestIsServed
  PendingIsTaken
  EventIsCovered
