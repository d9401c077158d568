CONSTANTS
  a = a
  b = b
  a1 = a1
  a2 = a2
  b1 = b1
  Sweep = Sweep
  Action = Action
  Seasons <- OneSeason
  Episodes <- OneEpisodes
  SeasonOf <- OneSeasonOf
  Writers <- SweepOnly
  Gates <- Sound
  MaxEdits = 0
  MaxCrashes = 0
  MaxLate = 0
SPECIFICATION Safety
PROPERTY OwnOutputIsNoFinding
