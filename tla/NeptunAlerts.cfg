SPECIFICATION FairSpec
CONSTANTS
  oblast = oblast
  raion = raion
  other = other
  foreign = foreign
  Nothing = Nothing
  Area <- MCArea
  Tracked <- MCTracked
  ParentOf <- MCParentOf
  AlertSets <- MCAlertSets
  FirstSets <- MCFirstSets
  NullAllowed = FALSE
  StaleAfter = 0
  UnknownAfter = 1
  DegradedAfter = 0
  UnavailableAfter = 1
  RestMinInterval = 0
  RestTimeout = 1
  PollAfter = 0
  StreamDelay = 0
  MaxTime = 2
  MaxVersion = 2
  MaxChain = 1
  MaxCrashes = 1
INVARIANTS ProjectionFaithful PublishedIsRecent HealthHonest
PROPERTIES NoRollback StampOnChange Convergence
