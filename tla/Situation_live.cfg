SPECIFICATION FairSpec
CONSTANTS
  p1 = p1
  p2 = p2
  p3 = p3
  Nothing = Nothing
  Post = {p1, p3}
  Noise = {p3}
  MaxLate = 0
  RulesEvery = 0
  AlertEvery = 0
  QuietEvery = 0
  RecentWindow = 6
  QuietMax = 6
  Overlap = 1
  Expiry = 3
  MaxTime = 2
  MaxFlips = 1
  MaxAborts = 0
  MaxCrashes = 0
  MaxFails = 2
PROPERTIES PostsReachAi
