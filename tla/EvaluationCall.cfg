SPECIFICATION FairSpec
CONSTANTS
  c1 = c1
  c2 = c2
  c3 = c3
  Nothing = Nothing
  Call = {c1, c2, c3}
  Concurrency = 2
  DailyLimit = 3
  MaxRequests = 4
  Threshold = 2
  Cooldown = 1
  MaxRetries = 1
  DayLength = 2
  MaxTime = 3
INVARIANTS WithinLimits OneTrial
PROPERTIES CallsEnd
