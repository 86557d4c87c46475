SPECIFICATION FairSpec
CONSTANTS
  Goroutines = {g1, g2}
  NoOne = NoOne
  Positions = 2
  Widths = {256, 257, 512, 513}
INVARIANTS ReadsComplete NoRace
PROPERTIES CallsReturn
