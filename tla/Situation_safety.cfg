SPECIFICATION Spec
CONSTANTS
  p1 = p1
  p2 = p2
  p3 = p3
  Nothing = Nothing
  Post = {p1, p2}
  Noise = {}
  MaxLate = 1
  RulesEvery = 2
  AlertEvery = 1
  QuietEvery = 3
  RecentWindow = 3
  QuietMax = 4
  Overlap = 1
  Expiry = 3
  MaxTime = 4
  MaxFlips = 1
  MaxAborts = 1
  MaxCrashes = 1
  MaxFails = 1
SYMMETRY PostSymmetry
INVARIANTS TypeOK ScreenComplete SignalKept
PROPERTIES AiSpacing
