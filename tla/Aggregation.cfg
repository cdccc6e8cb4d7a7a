SPECIFICATION AggregationSpec
CONSTANTS
  oblast = oblast
  city = city
  town = town
  c1 = c1
  c2 = c2
  c3 = c3
  None = None
  Claim = {c1, c2, c3}
  Scenarios <- MCScenarios
  Ancestors <- MCAncestors
  OblastLevel = {oblast}
  CurrentWindow = 1
  HistoricalWindow = 4
  StaleAfter = 1
  ArchiveAfter = 2
  CopyWindow = 1
  MaxIncidents = 3
  MaxTime = 3
  MaxChanges = 2
INVARIANTS OneHome
PROPERTIES KeptForAudit OnlyReportsRevive
