CONSTANTS
  a = a
  b = b
  a1 = a1
  a2 = a2
  b1 = b1
  Sweep = Sweep
  Action = Action
  Seasons <- OneSeason
  Episodes <- OneEpisodes
  SeasonOf <- OneSeasonOf
  Writers <- SweepOnly
  Gates <- OpenOrNot
  MaxEdits = 2
  MaxCrashes = 1
  MaxLate = 2
SPECIFICATION Safety
INVARIANT TypeOK
PROPERTIES
  NeverStrands
  RespectsTheSeries
  WritesOnlyReady
  RepairsOnlyCleanFailing
  OutcomeIsTrue
SYMMETRY EpisodesAlike
