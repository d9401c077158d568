CONSTANTS
  a = a
  b = b
  a1 = a1
  a2 = a2
  b1 = b1
  Sweep = Sweep
  Action = Action
  Seasons <- TwoSeasons
  Episodes <- TwoEpisodes
  SeasonOf <- TwoSeasonOf
  Writers <- Both
  Gates <- Sound
  MaxEdits = 0
  MaxCrashes = 0
  MaxLate = 0
SPECIFICATION Safety
PROPERTY OneValuePerPut
