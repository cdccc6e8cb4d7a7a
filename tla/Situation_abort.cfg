SPECIFICATION FairSpec
CONSTANTS
  p1 = p1
  p2 = p2
  p3 = p3
  Nothing = Nothing
  Post = {p1}
  Noise = {}
  MaxLate = 1
  RulesEvery = 0
  AlertEvery = 0
  QuietEvery = 0
  RecentWindow = 6
  QuietMax = 6
  Overlap = 1
  Expiry = 3
  MaxTime = 2
  MaxFlips = 0
  MaxAborts = 1
  MaxCrashes = 0
  MaxFails = 0
PROPERTIES PostsReachAi
